------------------------- MODULE StageProtocolProofs -------------------------
(***************************************************************************)
(* Proofs about StageProtocol: its types, that stage B stays in step, that *)
(* the secrets are handed out in their order, and that what the server     *)
(* accepts and the client prints is whole.                                 *)
(***************************************************************************)
EXTENDS StageProtocol, Integers, SequenceTheorems, TLAPS

-----------------------------------------------------------------------------
(* Sequences of datagrams and words                                         *)

LEMMA SeqGrows ==
  ASSUME NEW S, NEW T, S \subseteq T, NEW q \in Seq(S)
  PROVE  q \in Seq(T)
<1>1. Len(q) \in Nat /\ q \in [1 .. Len(q) -> T]
  OBVIOUS
<1>2. QED
  BY <1>1

LEMMA SeqAppend ==
  ASSUME NEW S, NEW q \in Seq(S), NEW d \in S
  PROVE  Append(q, d) \in Seq(S) /\ Len(Append(q, d)) = Len(q) + 1
OBVIOUS

LEMMA SeqTail ==
  ASSUME NEW S, NEW q \in Seq(S), q # <<>>
  PROVE  /\ Tail(q) \in Seq(S) /\ Len(Tail(q)) = Len(q) - 1 /\ Len(q) >= 1
         /\ Head(q) \in S
OBVIOUS

LEMMA SeqRemove ==
  ASSUME NEW S, NEW q \in Seq(S), NEW i \in 1 .. Len(q)
  PROVE  RemoveAt(q, i) \in Seq(S) /\ Len(RemoveAt(q, i)) <= Len(q)
<1> DEFINE a == SubSeq(q, 1, i - 1)
           b == SubSeq(q, i + 1, Len(q))
<1>1. a \in Seq(S) /\ Len(a) = i - 1
  OBVIOUS
<1>2. b \in Seq(S) /\ Len(b) = Len(q) - i
  OBVIOUS
<1>3. RemoveAt(q, i) = a \o b
  BY DEF RemoveAt
<1> HIDE DEF a, b
<1>4. QED
  BY <1>1, <1>2, <1>3

LEMMA SeqSwap ==
  ASSUME NEW S, NEW q \in Seq(S), NEW i \in 1 .. Len(q) - 1
  PROVE  LET r == [q EXCEPT ![i] = q[i + 1], ![i + 1] = q[i]] IN
         r \in Seq(S) /\ Len(r) = Len(q)
<1> DEFINE r == [q EXCEPT ![i] = q[i + 1], ![i + 1] = q[i]]
<1>1. q \in [1 .. Len(q) -> S] /\ q[i] \in S /\ q[i + 1] \in S /\ Len(q) \in Nat
  OBVIOUS
<1>2. r \in [1 .. Len(q) -> S]
  BY <1>1
<1>3. DOMAIN r = 1 .. Len(q)
  BY <1>1
<1> HIDE DEF r
<1>4. r \in Seq(S)
  BY <1>1, <1>2
<1>5. QED
  BY <1>1, <1>3, <1>4 DEF r

-----------------------------------------------------------------------------
(* Packets and buffers *)

LEMMA Packets ==
  /\ SIZE_HEADER = 3
  /\ Len(C2) = 7 /\ C2[6] = "secretC" /\ C2[1] = "length"
  /\ Len(D2) = 4 /\ D2[4] = "secretD"
BY DEF SIZE_HEADER, C2, D2, packetize, HeaderWords

Words == {"length", "secret", "step_id", "num2", "len2", "secretC", "c", "secretD", "bad", "0"}

DatagramSet == [kind : {"a1", "a2", "b1", "ack", "b2"}, thread : Threads \cup {NoThread}, n : Nat]

BufferSet == [buf : Seq(Words), total : Nat]

LEMMA NewBuffer ==
  ASSUME NEW n \in Nat
  PROVE  /\ Reading(n) \in BufferSet /\ Reading(n).total = 0 /\ Len(Reading(n).buf) = n
         /\ \A j \in 1 .. n : Reading(n).buf[j] = "0"
<1> DEFINE b == NewBytes(n)
<1>1. b \in Seq(Words) /\ Len(b) = n /\ \A j \in 1 .. n : b[j] = "0"
  BY DEF NewBytes, Words
<1> HIDE DEF b
<1>2. QED
  BY <1>1 DEF Reading, BufferSet, b

LEMMA FilledBuffer ==
  ASSUME NEW rd \in BufferSet, NEW S, NEW words \in Seq(S), rd.buf \in Seq(S), S \subseteq Words
  PROVE  /\ Filled(rd, words) \in BufferSet
         /\ Filled(rd, words).buf \in Seq(S)
         /\ Len(Filled(rd, words).buf) = Len(rd.buf)
         /\ Filled(rd, words).total = rd.total + Len(words)
         /\ \A j \in 1 .. Len(rd.buf) :
              Filled(rd, words).buf[j] = IF j <= Len(words) THEN words[j] ELSE rd.buf[j]
<1> DEFINE n == Len(rd.buf)
           b == [j \in 1 .. n |-> IF j <= Len(words) THEN words[j] ELSE rd.buf[j]]
<1>1. n \in Nat /\ Len(words) \in Nat /\ rd.total \in Nat
  BY DEF BufferSet
<1>2. \A j \in 1 .. n : (IF j <= Len(words) THEN words[j] ELSE rd.buf[j]) \in S
  BY <1>1
<1>3. b \in Seq(S) /\ Len(b) = n
  BY <1>1, <1>2
<1>4. b \in Seq(Words)
  BY <1>3, SeqGrows
<1>5. Filled(rd, words) = [buf |-> b, total |-> rd.total + Len(words)]
  BY DEF Filled
<1>6. \A j \in 1 .. n : b[j] = IF j <= Len(words) THEN words[j] ELSE rd.buf[j]
  OBVIOUS
<1> HIDE DEF b
<1>7. QED
  BY <1>1, <1>3, <1>4, <1>5, <1>6 DEF BufferSet

LEMMA FirstWords ==
  ASSUME NEW S, NEW q \in Seq(S), NEW k \in 1 .. Len(q)
  PROVE  /\ SubSeq(q, 1, k) \in Seq(S) /\ Len(SubSeq(q, 1, k)) = k
         /\ SubSeq(q, k + 1, Len(q)) \in Seq(S) /\ Len(SubSeq(q, k + 1, Len(q))) = Len(q) - k
         /\ \A j \in 1 .. k : SubSeq(q, 1, k)[j] = q[j]
OBVIOUS

LEMMA D1Words ==
  ASSUME NEW len \in Nat
  PROVE  /\ D1(len) \in Seq(Words) /\ Len(D1(len)) = 3 + len /\ D1(len)[1] = "length"
         /\ BadD1(len) \in Seq({"bad"}) /\ Len(BadD1(len)) = 3 + len
<1> DEFINE p == [j \in 1 .. len |-> "c"]
           q == [j \in 1 .. SIZE_HEADER + len |-> "bad"]
<1>1. p \in Seq(Words) /\ Len(p) = len
  BY DEF Words
<1>2. q \in Seq({"bad"}) /\ Len(q) = 3 + len
  BY Packets
<1>3. HeaderWords \in Seq(Words) /\ Len(HeaderWords) = 3 /\ HeaderWords[1] = "length"
  BY DEF HeaderWords, Words
<1>4. D1(len) = HeaderWords \o p /\ BadD1(len) = q
  BY DEF D1, packetize, BadD1
<1>5. PICK h, r : h = HeaderWords /\ r = p
  OBVIOUS
<1> HIDE DEF p, q
<1>6. h \o r \in Seq(Words) /\ Len(h \o r) = 3 + len /\ (h \o r)[1] = "length"
  <2>1. h \in Seq(Words) /\ r \in Seq(Words) /\ Len(h) = 3 /\ Len(r) = len /\ h[1] = "length"
    BY <1>1, <1>3, <1>5
  <2>2. h \o r \in Seq(Words) /\ Len(h \o r) = Len(h) + Len(r)
        /\ \A i \in 1 .. Len(h) + Len(r) :
             (h \o r)[i] = IF i <= Len(h) THEN h[i] ELSE r[i - Len(h)]
    BY <2>1, ConcatProperties
  <2>3. QED
    BY <2>1, <2>2
<1>7. QED
  BY <1>2, <1>4, <1>5, <1>6

LEMMA PacketWords == C2 \in Seq(Words) /\ D2 \in Seq(Words)
BY DEF C2, D2, packetize, HeaderWords, Words

-----------------------------------------------------------------------------
(* The types of the state *)

ClientSet ==
  [thread : Threads \cup {NoThread}, i : Nat, num : Nat, len : Nat, whole : BOOLEAN,
   rd : BufferSet, known : SUBSET (1 .. 4)]

RecordSet ==
  [num1 : Nat, num2 : Nat, len2 : Nat, i : Nat, haveFailed : BOOLEAN,
   reply : {"clientA", "clientB"}, rd : BufferSet, granted : 0 .. 4]

Types ==
  /\ udp \in [Sockets -> Seq(DatagramSet)]
  /\ cpc \in ClientSteps
  /\ cl \in ClientSet
  /\ spc \in [Threads -> ServerSteps]
  /\ srv \in [Threads -> RecordSet]
  /\ link \in [Threads -> {"none", "listening", "connected", "closed"}]
  /\ up \in [Threads -> Seq(Words)]
  /\ down \in [Threads -> Seq(Words)]

(* What a step does to the socket r: nothing new comes, or the datagram d. *)
Shrunk(r) == \A S : udp[r] \in Seq(S) => udp'[r] \in Seq(S)
Grown(r, d) == \A S : d \in S /\ udp[r] \in Seq(S) => udp'[r] \in Seq(S)
OnlyAt(r) == udp' \in [Sockets -> Seq(DatagramSet)] /\ \A s \in Sockets \ {r} : udp'[s] = udp[s]

LEMMA SocketNames ==
  /\ "main" \in Sockets /\ "clientA" \in Sockets /\ "clientB" \in Sockets
  /\ \A t \in Threads : t \in Sockets /\ t # "main" /\ t # "clientA" /\ t # "clientB" /\ t # NoThread
<1>1. \A t \in Threads : t \notin {"main", "clientA", "clientB"} /\ t # NoThread
  BY StageAssumption
<1>2. QED
  BY <1>1 DEF Sockets

LEMMA Sends ==
  ASSUME udp \in [Sockets -> Seq(DatagramSet)], NEW s \in Sockets, NEW d \in DatagramSet, Send(s, d)
  PROVE  OnlyAt(s) /\ Grown(s, d) /\ Len(udp'[s]) <= Len(udp[s]) + 1
<1>1. udp'[s] = udp[s] \/ udp'[s] = Append(udp[s], d)
  BY DEF Send
<1>2. \A r \in Sockets \ {s} : udp'[r] = udp[r]
  BY DEF Send
<1>3. udp[s] \in Seq(DatagramSet) /\ Len(udp[s]) \in Nat
  OBVIOUS
<1>4. Grown(s, d)
  BY <1>1, SeqAppend DEF Grown
<1>5. udp'[s] \in Seq(DatagramSet) /\ Len(udp'[s]) <= Len(udp[s]) + 1
  <2>1. CASE udp'[s] = udp[s]
    BY <1>3, <2>1
  <2>2. CASE udp'[s] = Append(udp[s], d)
    BY <1>3, <2>2
  <2>3. QED
    BY <1>1, <2>1, <2>2
<1>6. udp' \in [Sockets -> Seq(DatagramSet)]
  <2>1. udp' = [r \in Sockets |-> udp'[r]]
    BY DEF Send
  <2>2. QED
    BY <1>2, <1>5, <2>1
<1>7. QED
  BY <1>2, <1>4, <1>5, <1>6 DEF OnlyAt

(* A socket's next datagram is received, or all of them are dropped. *)
LEMMA Receives ==
  ASSUME udp \in [Sockets -> Seq(DatagramSet)], NEW s \in Sockets, udp[s] # <<>>,
         Received(s)
  PROVE  /\ OnlyAt(s) /\ Shrunk(s) /\ Len(udp'[s]) = Len(udp[s]) - 1 /\ Len(udp'[s]) \in Nat
         /\ Head(udp[s]) \in DatagramSet
<1>1. udp'[s] = Tail(udp[s]) /\ \A r \in Sockets \ {s} : udp'[r] = udp[r]
  BY DEF Received
<1>2. udp[s] \in Seq(DatagramSet)
  OBVIOUS
<1>3. \A S : udp[s] \in Seq(S) => Tail(udp[s]) \in Seq(S)
  BY SeqTail
<1>4. Tail(udp[s]) \in Seq(DatagramSet) /\ Len(Tail(udp[s])) = Len(udp[s]) - 1
      /\ Len(Tail(udp[s])) \in Nat /\ Head(udp[s]) \in DatagramSet
  BY <1>2, SeqTail
<1>5. udp' = [r \in Sockets |-> udp'[r]]
  BY DEF Received
<1>6. QED
  BY <1>1, <1>3, <1>4, <1>5 DEF OnlyAt, Shrunk

LEMMA Closes ==
  ASSUME udp \in [Sockets -> Seq(DatagramSet)], NEW s \in Sockets, Closed(s)
  PROVE  OnlyAt(s) /\ Shrunk(s) /\ udp'[s] = <<>>
<1>1. udp'[s] = <<>> /\ \A r \in Sockets \ {s} : udp'[r] = udp[r]
  BY DEF Closed
<1>2. \A S : <<>> \in Seq(S)
  OBVIOUS
<1>3. udp' = [r \in Sockets |-> udp'[r]]
  BY DEF Closed
<1>4. QED
  BY <1>1, <1>2, <1>3 DEF OnlyAt, Shrunk

(* The network loses, repeats or reorders. *)
LEMMA Faults ==
  ASSUME udp \in [Sockets -> Seq(DatagramSet)], Lose \/ Duplicate \/ Overtake
  PROVE  /\ udp' \in [Sockets -> Seq(DatagramSet)]
         /\ \A s \in Sockets : /\ Shrunk(s)
                               /\ \/ Len(udp'[s]) <= Len(udp[s])
                                  \/ \E i \in 1 .. Len(udp[s]) :
                                       <<"duplicated", udp[s][i].kind>> \in seen'
<1> DEFINE Fine(s, q) == /\ \A S : udp[s] \in Seq(S) => q \in Seq(S)
                         /\ q \in Seq(DatagramSet)
                         /\ \/ Len(q) <= Len(udp[s])
                            \/ \E i \in 1 .. Len(udp[s]) :
                                 <<"duplicated", udp[s][i].kind>> \in seen'
<1>1. \A s \in Sockets : udp[s] \in Seq(DatagramSet) /\ Len(udp[s]) \in Nat
  OBVIOUS
<1> DEFINE Goal == /\ udp' \in [Sockets -> Seq(DatagramSet)]
                   /\ \A s \in Sockets : /\ Shrunk(s)
                                         /\ \/ Len(udp'[s]) <= Len(udp[s])
                                            \/ \E i \in 1 .. Len(udp[s]) :
                                                 <<"duplicated", udp[s][i].kind>> \in seen'
<1>2. ASSUME NEW s \in Sockets, NEW q, Fine(s, q), udp' = [udp EXCEPT ![s] = q] PROVE Goal
  <2>1. udp'[s] = q /\ \A r \in Sockets \ {s} : udp'[r] = udp[r]
    BY <1>2
  <2>2. udp' \in [Sockets -> Seq(DatagramSet)]
    BY <1>2
  <2>3. \A r \in Sockets \ {s} : Shrunk(r) /\ Len(udp'[r]) <= Len(udp[r])
    BY <1>1, <2>1 DEF Shrunk
  <2>4. Shrunk(s)
    BY <1>2, <2>1 DEF Shrunk
  <2>5. QED
    BY <1>2, <2>1, <2>2, <2>3, <2>4
<1>3. CASE Lose
  <2>1. PICK s \in Sockets : \E i \in 1 .. Len(udp[s]) : udp' = [udp EXCEPT ![s] = RemoveAt(@, i)]
    BY <1>3 DEF Lose
  <2>2. PICK i \in 1 .. Len(udp[s]) : udp' = [udp EXCEPT ![s] = RemoveAt(@, i)]
    BY <2>1
  <2>3. Fine(s, RemoveAt(udp[s], i))
    BY <1>1, SeqRemove
  <2>4. QED
    BY <1>2, <2>2, <2>3
<1>4. CASE Duplicate
  <2>1. PICK s \in Sockets : \E i \in 1 .. Len(udp[s]) :
          Fault("duplicated", udp[s][i].kind) /\ udp' = [udp EXCEPT ![s] = Append(@, @[i])]
    BY <1>4 DEF Duplicate
  <2>2. PICK i \in 1 .. Len(udp[s]) :
          Fault("duplicated", udp[s][i].kind) /\ udp' = [udp EXCEPT ![s] = Append(@, @[i])]
    BY <2>1
  <2>3. Fine(s, Append(udp[s], udp[s][i]))
    <3>1. <<"duplicated", udp[s][i].kind>> \in seen'
      BY <2>2 DEF Fault
    <3>2. ASSUME NEW S, udp[s] \in Seq(S) PROVE Append(udp[s], udp[s][i]) \in Seq(S)
      <4>1. udp[s][i] \in S
        BY <3>2
      <4>2. QED
        BY <3>2, <4>1, SeqAppend
    <3>3. QED
      BY <1>1, <3>1, <3>2
  <2>4. QED
    BY <1>2, <2>2, <2>3
<1>5. CASE Overtake
  <2>1. PICK s \in Sockets : \E i \in 1 .. Len(udp[s]) - 1 :
          udp' = [udp EXCEPT ![s] = [@ EXCEPT ![i] = udp[s][i + 1], ![i + 1] = udp[s][i]]]
    BY <1>5 DEF Overtake
  <2>2. PICK i \in 1 .. Len(udp[s]) - 1 :
          udp' = [udp EXCEPT ![s] = [@ EXCEPT ![i] = udp[s][i + 1], ![i + 1] = udp[s][i]]]
    BY <2>1
  <2> DEFINE q == [udp[s] EXCEPT ![i] = udp[s][i + 1], ![i + 1] = udp[s][i]]
  <2>3. Fine(s, q)
    BY <1>1, SeqSwap
  <2>4. udp' = [udp EXCEPT ![s] = q]
    BY <2>2
  <2> HIDE DEF q
  <2>5. QED
    BY <1>2, <2>3, <2>4
<1>6. QED
  BY <1>3, <1>4, <1>5

UdpTyped == udp \in [Sockets -> Seq(DatagramSet)]

LEMMA InitTypes == Init => Types
<1> SUFFICES ASSUME Init PROVE Types
  OBVIOUS
<1>1. Reading(0) \in BufferSet
  BY NewBuffer
<1>2. cl \in ClientSet
  BY <1>1 DEF Init, ClientSet
<1>3. srv \in [Threads -> RecordSet]
  BY <1>1 DEF Init, RecordSet
<1>4. udp \in [Sockets -> Seq(DatagramSet)]
  BY DEF Init
<1>5. up \in [Threads -> Seq(Words)] /\ down \in [Threads -> Seq(Words)]
  BY DEF Init
<1>6. QED
  BY <1>2, <1>3, <1>4, <1>5 DEF Init, Types, ClientSteps, ServerSteps

LEMMA ClientCounts ==
  ASSUME cl \in ClientSet
  PROVE  [cl EXCEPT !.i = @ + 1] \in ClientSet
<1>1. PICK j : j = cl.i + 1
  OBVIOUS
<1>2. [cl EXCEPT !.i = j] \in ClientSet
  BY <1>1 DEF ClientSet
<1>3. QED
  BY <1>1, <1>2

LEMMA ClientLearns ==
  ASSUME cl \in ClientSet, NEW s \in 1 .. 4
  PROVE  [cl EXCEPT !.known = @ \cup {s}] \in ClientSet
<1>1. PICK k : k = cl.known \cup {s}
  OBVIOUS
<1>2. [cl EXCEPT !.known = k] \in ClientSet
  BY <1>1 DEF ClientSet
<1>3. QED
  BY <1>1, <1>2

(* The client's steps keep the types. *)
LEMMA ClientTypes ==
  ASSUME Types, ClientStep, cl.thread \in Threads \/ cpc \in {"a_send", "a_wait"}
  PROVE  Types'
<1>1. UdpTyped /\ cl \in ClientSet
  BY DEF Types, UdpTyped
<1>2. CASE StepASend
  <2>1. Datagram("a1", NoThread, 0) \in DatagramSet
    BY DEF Datagram, DatagramSet
  <2>2. UdpTyped'
    BY <1>1, <1>2, <2>1, Sends, SocketNames DEF StepASend, UdpTyped, OnlyAt
  <2>3. QED
    BY <1>2, <2>2 DEF StepASend, Types, UdpTyped, ClientGoto, ClientSteps, server, streams
<1>3. CASE StepAReceive
  <2> DEFINE d == Head(udp["clientA"])
  <2>1. UdpTyped'
    BY <1>1, <1>3, Closes, SocketNames DEF StepAReceive, UdpTyped, OnlyAt
  <2>2. d \in DatagramSet
    <3>1. udp["clientA"] \in Seq(DatagramSet) /\ udp["clientA"] # <<>>
      BY <1>1, <1>3, SocketNames DEF UdpTyped, StepAReceive
    <3>2. QED
      BY <3>1, SeqTail
  <2>3. cl' \in ClientSet /\ cpc' \in ClientSteps
    <3>0. cl' = cl \/ cl' = [cl EXCEPT !.thread = d.thread, !.num = d.n, !.known = {1}]
      BY <1>3 DEF StepAReceive
    <3>1. PICK t, n, k : /\ t = d.thread /\ n = d.n /\ k = {1}
                         /\ cl' = cl \/ cl' = [cl EXCEPT !.thread = t, !.num = n, !.known = k]
      BY <3>0, Zenon
    <3> HIDE DEF d
    <3>2. t \in Threads \cup {NoThread} /\ n \in Nat /\ k \in SUBSET (1 .. 4)
      <4>1. t \in Threads \cup {NoThread}
        BY <2>2, <3>1 DEF DatagramSet
      <4>2. n \in Nat
        BY <2>2, <3>1 DEF DatagramSet
      <4>3. k \in SUBSET (1 .. 4)
        BY <3>1
      <4>4. QED
        BY <4>1, <4>2, <4>3
    <3>3. cl' \in ClientSet
      <4>1. [cl EXCEPT !.thread = t, !.num = n, !.known = k] \in ClientSet
        BY <1>1, <3>2 DEF ClientSet
      <4>2. QED
        BY <1>1, <3>1, <4>1
    <3>4. QED
      BY <1>3, <3>3 DEF StepAReceive, ClientGoto, ClientSteps
  <2>4. QED
    BY <1>3, <2>1, <2>3 DEF StepAReceive, Types, UdpTyped, server, streams
<1>4. CASE StepBSend
  <2>1. Datagram("b1", cl.thread, cl.i) \in DatagramSet /\ cl.thread \in Sockets
    BY <1>1, <1>4, SocketNames DEF Datagram, DatagramSet, ClientSet, StepBSend
  <2>2. UdpTyped'
    BY <1>1, <1>4, <2>1, Sends DEF StepBSend, UdpTyped, OnlyAt
  <2>3. QED
    BY <1>4, <2>2 DEF StepBSend, Types, UdpTyped, ClientGoto, ClientSteps, server, streams
<1>5. CASE StepBReceive
  <2>1. UdpTyped'
    BY <1>1, <1>5, Receives, SocketNames DEF StepBReceive, UdpTyped, OnlyAt
  <2>2. cl' \in ClientSet
    BY <1>1, <1>5, ClientCounts DEF StepBReceive
  <2>3. QED
    BY <1>5, <2>1, <2>2 DEF StepBReceive, Types, UdpTyped, ClientGoto, ClientSteps, server, streams
<1>6. CASE StepBTimeout
  BY <1>6 DEF StepBTimeout, Types, ClientGoto, ClientSteps, server, streams
<1>7. CASE StepBFinal \/ StepBFinalTimeout
  <2>1. UdpTyped'
    BY <1>1, <1>7, Closes, SocketNames DEF StepBFinal, StepBFinalTimeout, UdpTyped, OnlyAt
  <2>2. cl' \in ClientSet
    <3>1. [cl EXCEPT !.known = @ \cup {2}] \in ClientSet
      BY <1>1, ClientLearns
    <3>2. QED
      BY <1>1, <1>7, <3>1 DEF StepBFinal, StepBFinalTimeout
  <2>3. QED
    BY <1>7, <2>1, <2>2
    DEF StepBFinal, StepBFinalTimeout, Types, UdpTyped, ClientGoto, ClientSteps, server, streams
<1>8. CASE Connect
  <2>1. C2Buffer \in BufferSet
    BY NewBuffer, Packets DEF C2Buffer
  <2>2. cl' \in ClientSet
    BY <1>1, <1>8, <2>1 DEF Connect, ClientSet
  <2>3. link' \in [Threads -> {"none", "listening", "connected", "closed"}]
    BY <1>8 DEF Connect, Types
  <2>4. QED
    BY <1>8, <2>2, <2>3 DEF Connect, Types, ClientGoto, ClientSteps, streams
<1>9. CASE ClientRead
  <2>1. cl.thread \in Threads
    BY <1>9 DEF ClientRead
  <2>2. PICK k \in 1 .. Len(down[cl.thread]) :
          /\ cl' = [cl EXCEPT !.rd = Filled(@, SubSeq(down[cl.thread], 1, k))]
          /\ down' = [down EXCEPT ![cl.thread] = SubSeq(@, k + 1, Len(@))]
    BY <1>9 DEF ClientRead
  <2>3. /\ SubSeq(down[cl.thread], 1, k) \in Seq(Words)
        /\ SubSeq(down[cl.thread], k + 1, Len(down[cl.thread])) \in Seq(Words)
    BY <2>1, <2>2, FirstWords DEF Types
  <2>4. cl.rd \in BufferSet /\ cl.rd.buf \in Seq(Words)
    BY <1>1 DEF ClientSet, BufferSet
  <2>5. Filled(cl.rd, SubSeq(down[cl.thread], 1, k)) \in BufferSet
    BY <2>3, <2>4, FilledBuffer
  <2>6. cl' \in ClientSet
    BY <1>1, <2>2, <2>5 DEF ClientSet
  <2>7. down' \in [Threads -> Seq(Words)]
    BY <2>1, <2>2, <2>3 DEF Types
  <2>8. QED
    BY <1>9, <2>6, <2>7 DEF ClientRead, Types, server
<1>10. CASE StepC
  <2>1. cl' \in ClientSet
    <3>1. CASE cl' = cl
      BY <1>1, <3>1
    <3>2. CASE cl' # cl
      <4>1. PICK num \in Nums2, len \in Lens2, w \in BOOLEAN, g \in {{3}, {}} :
              cl' = [cl EXCEPT !.num = num, !.len = len, !.whole = w, !.i = 0,
                               !.known = @ \cup g]
        BY <1>10, <3>2 DEF StepC
      <4>2. num \in Nat /\ len \in Nat /\ g \subseteq 1 .. 4
        BY <4>1, StageAssumption
      <4>3. QED
        BY <1>1, <4>1, <4>2 DEF ClientSet
    <3>3. QED
      BY <3>1, <3>2
  <2>2. QED
    BY <1>10, <2>1 DEF StepC, Types, ClientGoto, ClientSteps, server, streams
<1>11. CASE StepDSend
  <2>1. cl' \in ClientSet
    BY <1>1, <1>11, ClientCounts DEF StepDSend
  <2>2. up' \in [Threads -> Seq(Words)]
    <3>1. CASE up' = up
      BY <3>1 DEF Types
    <3>2. CASE up' # up
      <4>1. PICK p : /\ p = IF cl.whole THEN D1(cl.len) ELSE BadD1(cl.len)
                     /\ up' = [up EXCEPT ![cl.thread] = @ \o p]
        BY <1>11, <3>2 DEF StepDSend
      <4>2. p \in Seq(Words)
        <5>1. cl.len \in Nat
          BY <1>1 DEF ClientSet
        <5>2. D1(cl.len) \in Seq(Words) /\ BadD1(cl.len) \in Seq({"bad"})
          BY <5>1, D1Words
        <5>3. BadD1(cl.len) \in Seq(Words)
          BY <5>2, SeqGrows DEF Words
        <5>4. QED
          BY <4>1, <5>2, <5>3
      <4>3. \A t \in Threads : up[t] \o p \in Seq(Words)
        BY <4>2, ConcatProperties DEF Types
      <4>4. QED
        BY <4>1, <4>3 DEF Types
    <3>3. QED
      BY <3>1, <3>2
  <2>3. QED
    BY <1>11, <2>1, <2>2 DEF StepDSend, Types, ClientGoto, ClientSteps, server
<1>12. CASE StepDAwait
  <2>1. Reading(Len(D2)) \in BufferSet
    BY NewBuffer, Packets
  <2>2. cl' \in ClientSet
    BY <1>1, <1>12, <2>1 DEF StepDAwait, ClientSet
  <2>3. QED
    BY <1>12, <2>2 DEF StepDAwait, Types, ClientGoto, ClientSteps, server, streams
<1>13. CASE StepDPrint
  <2>1. cl' \in ClientSet
    BY <1>1, <1>13 DEF StepDPrint, ClientSet
  <2>2. QED
    BY <1>13, <2>1 DEF StepDPrint, Types, ClientGoto, ClientSteps, server, streams
<1>14. QED
  BY <1>2, <1>3, <1>4, <1>5, <1>6, <1>7, <1>8, <1>9, <1>10, <1>11, <1>12, <1>13
  DEF ClientStep, ClientWorks

(* What a server thread changes of its record. *)
LEMMA RecordTypes ==
  ASSUME srv \in [Threads -> RecordSet], NEW t \in Threads, NEW r \in RecordSet,
         srv' = [srv EXCEPT ![t] = r]
  PROVE  srv' \in [Threads -> RecordSet]
OBVIOUS

LEMMA RecordStarts ==
  ASSUME NEW r \in RecordSet, NEW num \in Nat, NEW g \in 0 .. 4
  PROVE  [r EXCEPT !.num1 = num, !.granted = g] \in RecordSet
BY DEF RecordSet

LEMMA RecordCounts ==
  ASSUME NEW r \in RecordSet, NEW j \in Nat, NEW p \in {"clientA", "clientB"}
  PROVE  [r EXCEPT !.i = j, !.reply = p] \in RecordSet
BY DEF RecordSet

LEMMA RecordAccepts ==
  ASSUME NEW r \in RecordSet, NEW num \in Nat, NEW j \in Nat, NEW len \in Nat,
         NEW rd \in BufferSet, NEW g \in 0 .. 4
  PROVE  [r EXCEPT !.num2 = num, !.len2 = len, !.granted = g, !.i = j, !.rd = rd] \in RecordSet
BY DEF RecordSet

LEMMA ThreadTypes ==
  ASSUME Types, NEW t \in Threads, ThreadStep(t)
  PROVE  Types'
<1>1. UdpTyped /\ srv \in [Threads -> RecordSet] /\ srv[t] \in RecordSet /\ t \in Sockets
  BY SocketNames DEF Types, UdpTyped
<1>2. \A s \in ServerSteps : ServerGoto(t, s) => spc' \in [Threads -> ServerSteps]
  BY DEF Types, ServerGoto
<1>3. CASE StepA(t)
  <2>1. PICK num \in Nums1 :
          /\ srv' = [srv EXCEPT ![t].num1 = num, ![t].granted = 1]
          /\ Send("clientA", Datagram("a2", t, num))
    BY <1>3 DEF StepA
  <2>2. num \in Nat
    BY StageAssumption
  <2>3. Datagram("a2", t, num) \in DatagramSet
    BY <2>2 DEF Datagram, DatagramSet
  <2>4. UdpTyped'
    BY <1>1, <2>1, <2>3, Sends, SocketNames DEF UdpTyped, OnlyAt
  <2>5. srv' \in [Threads -> RecordSet]
    <3>1. [srv[t] EXCEPT !.num1 = num, !.granted = 1] \in RecordSet
      <4>1. 1 \in 0 .. 4
        OBVIOUS
      <4>2. QED
        BY <1>1, <2>2, <4>1, RecordStarts, Zenon
    <3>2. srv' = [srv EXCEPT ![t] = [srv[t] EXCEPT !.num1 = num, !.granted = 1]]
      BY <2>1
    <3>3. QED
      BY <1>1, <3>1, <3>2
  <2>6. QED
    BY <1>2, <1>3, <2>4, <2>5 DEF StepA, Types, UdpTyped, ServerSteps, client, streams
<1>4. CASE OutOfStep(t) \/ StepBTimesOut(t)
  <2>1. UdpTyped'
    BY <1>1, <1>4, Closes DEF OutOfStep, StepBTimesOut, UdpTyped, OnlyAt
  <2>2. QED
    BY <1>2, <1>4, <2>1 DEF OutOfStep, StepBTimesOut, Types, UdpTyped, ServerSteps, client, streams
<1>5. CASE Refuse(t)
  <2>1. UdpTyped'
    BY <1>1, <1>5, Receives DEF Refuse, InSequence, UdpTyped, OnlyAt
  <2>2. [srv[t] EXCEPT !.haveFailed = TRUE, !.reply = "clientB"] \in RecordSet
    BY <1>1 DEF RecordSet
  <2>3. srv' = [srv EXCEPT ![t] = [srv[t] EXCEPT !.haveFailed = TRUE, !.reply = "clientB"]]
    BY <1>5 DEF Refuse
  <2>4. srv' \in [Threads -> RecordSet]
    BY <1>1, <2>2, <2>3
  <2>5. QED
    BY <1>5, <2>1, <2>4 DEF Refuse, Types, UdpTyped, client, streams
<1>6. CASE Acknowledge(t)
  <2>1. UdpTyped'
    <3> DEFINE d == Datagram("ack", t, srv[t].i)
               rest == [udp EXCEPT ![t] = Tail(@)]
    <3>1. d \in DatagramSet
      BY <1>1 DEF Datagram, DatagramSet, RecordSet
    <3>2. udp[t] # <<>> /\ udp[t] \in Seq(DatagramSet)
      BY <1>1, <1>6 DEF Acknowledge, InSequence, UdpTyped
    <3>3. rest \in [Sockets -> Seq(DatagramSet)]
      BY <1>1, <3>2, SeqTail DEF UdpTyped
    <3> HIDE DEF d
    <3>4. udp' = rest \/ udp' = [rest EXCEPT !["clientB"] = Append(@, d)]
      BY <1>6 DEF Acknowledge, d
    <3> HIDE DEF rest
    <3>5. \A s \in Sockets : Append(rest[s], d) \in Seq(DatagramSet)
      BY <3>1, <3>3, SeqAppend
    <3>6. QED
      BY <3>3, <3>4, <3>5, SocketNames DEF UdpTyped
  <2>2. srv' \in [Threads -> RecordSet]
    <3>1. PICK j : j = srv[t].i + 1
      OBVIOUS
    <3>2. [srv[t] EXCEPT !.i = j, !.reply = "clientB"] \in RecordSet
      <4>1. j \in Nat
        BY <1>1, <3>1 DEF RecordSet
      <4>2. "clientB" \in {"clientA", "clientB"}
        OBVIOUS
      <4>3. QED
        BY <1>1, <4>1, <4>2, RecordCounts, Zenon
    <3>3. srv' = [srv EXCEPT ![t] = [srv[t] EXCEPT !.i = j, !.reply = "clientB"]]
      BY <1>6, <3>1 DEF Acknowledge
    <3>4. QED
      BY <1>1, <3>2, <3>3
  <2>3. QED
    BY <1>6, <2>1, <2>2 DEF Acknowledge, Types, UdpTyped, client, streams
<1>7. CASE StepBEnds(t)
  <2>1. UdpTyped'
    <3> DEFINE d == Datagram("b2", t, 0)
               rest == [udp EXCEPT ![t] = <<>>]
    <3>1. d \in DatagramSet
      BY <1>1 DEF Datagram, DatagramSet
    <3>2. rest \in [Sockets -> Seq(DatagramSet)]
      BY <1>1 DEF UdpTyped
    <3> HIDE DEF d
    <3>3. udp' = rest \/ udp' = [rest EXCEPT ![srv[t].reply] = Append(@, d)]
      BY <1>7 DEF StepBEnds, d
    <3> HIDE DEF rest
    <3>4. \A s \in Sockets : Append(rest[s], d) \in Seq(DatagramSet)
      BY <3>1, <3>2, SeqAppend
    <3>5. QED
      BY <3>2, <3>3, <3>4 DEF UdpTyped
  <2>2. srv' \in [Threads -> RecordSet]
    <3>1. [srv[t] EXCEPT !.granted = 2] \in RecordSet
      BY <1>1 DEF RecordSet
    <3>2. srv' = [srv EXCEPT ![t] = [srv[t] EXCEPT !.granted = 2]]
      BY <1>7 DEF StepBEnds
    <3>3. QED
      BY <1>1, <3>1, <3>2
  <2>3. link' \in [Threads -> {"none", "listening", "connected", "closed"}]
    BY <1>7 DEF StepBEnds, Types
  <2>4. QED
    BY <1>2, <1>7, <2>1, <2>2, <2>3 DEF StepBEnds, Types, UdpTyped, ServerSteps, client, streams
<1>8. CASE StepCAccept(t)
  <2>1. PICK num \in Nums2, len \in Lens2 :
          srv' = [srv EXCEPT ![t].num2 = num, ![t].len2 = len, ![t].granted = 3,
                             ![t].i = 0, ![t].rd = Reading(SIZE_HEADER + len)]
    BY <1>8 DEF StepCAccept
  <2>2. PICK rd : rd = Reading(SIZE_HEADER + len)
    OBVIOUS
  <2>3. num \in Nat /\ len \in Nat /\ rd \in BufferSet
    <3>1. num \in Nat /\ len \in Nat /\ SIZE_HEADER + len \in Nat
      BY StageAssumption, Packets
    <3>2. QED
      BY <2>2, <3>1, NewBuffer
  <2>4. srv' \in [Threads -> RecordSet]
    <3>1. [srv[t] EXCEPT !.num2 = num, !.len2 = len, !.granted = 3, !.i = 0, !.rd = rd] \in RecordSet
      <4>1. 3 \in 0 .. 4 /\ 0 \in Nat
        OBVIOUS
      <4>2. QED
        BY <1>1, <2>3, <4>1, RecordAccepts, Zenon
    <3>2. srv' = [srv EXCEPT ![t] = [srv[t] EXCEPT !.num2 = num, !.len2 = len, !.granted = 3,
                                                   !.i = 0, !.rd = rd]]
      BY <2>1, <2>2
    <3>3. QED
      BY <1>1, <3>1, <3>2
  <2>5. down' \in [Threads -> Seq(Words)]
    <3>1. PICK c : c = C2
      OBVIOUS
    <3>2. \A u \in Threads : down[u] \o c \in Seq(Words)
      BY <3>1, PacketWords, ConcatProperties DEF Types
    <3>3. down' = [down EXCEPT ![t] = @ \o c]
      BY <1>8, <3>1 DEF StepCAccept
    <3>4. QED
      BY <3>2, <3>3 DEF Types
  <2>6. QED
    BY <1>2, <1>8, <2>4, <2>5 DEF StepCAccept, Types, ServerSteps, client
<1>9. CASE StepCTimesOut(t) \/ StepDTimesOut(t)
  BY <1>2, <1>9 DEF StepCTimesOut, StepDTimesOut, Types, ServerSteps, client, streams
<1>10. CASE ServerRead(t)
  <2>1. PICK k \in 1 .. Len(up[t]) :
          /\ srv' = [srv EXCEPT ![t].rd = Filled(@, SubSeq(up[t], 1, k))]
          /\ up' = [up EXCEPT ![t] = SubSeq(@, k + 1, Len(@))]
    BY <1>10 DEF ServerRead
  <2>2. /\ SubSeq(up[t], 1, k) \in Seq(Words)
        /\ SubSeq(up[t], k + 1, Len(up[t])) \in Seq(Words)
    BY <2>1, FirstWords DEF Types
  <2>3. PICK rd : rd = Filled(srv[t].rd, SubSeq(up[t], 1, k))
    OBVIOUS
  <2>4. rd \in BufferSet
    <3>1. srv[t].rd \in BufferSet /\ srv[t].rd.buf \in Seq(Words)
      BY <1>1 DEF RecordSet, BufferSet
    <3>2. QED
      BY <2>2, <2>3, <3>1, FilledBuffer
  <2>5. srv' \in [Threads -> RecordSet]
    <3>1. [srv[t] EXCEPT !.rd = rd] \in RecordSet
      BY <1>1, <2>4 DEF RecordSet
    <3>2. srv' = [srv EXCEPT ![t] = [srv[t] EXCEPT !.rd = rd]]
      BY <2>1, <2>3
    <3>3. QED
      BY <1>1, <3>1, <3>2
  <2>6. up' \in [Threads -> Seq(Words)]
    BY <2>1, <2>2 DEF Types
  <2>7. QED
    BY <1>10, <2>5, <2>6 DEF ServerRead, Types, client
<1>11. CASE StepDCheck(t)
  <2>1. srv' \in [Threads -> RecordSet]
    <3>1. CASE srv' = srv
      BY <1>1, <3>1
    <3>2. CASE srv' = [srv EXCEPT ![t].i = @ + 1, ![t].rd.total = 0]
      <4>1. PICK j, rd : j = srv[t].i + 1 /\ rd = [srv[t].rd EXCEPT !.total = 0]
        OBVIOUS
      <4>2. j \in Nat /\ rd \in BufferSet
        BY <1>1, <4>1 DEF RecordSet, BufferSet
      <4>3. [srv[t] EXCEPT !.i = j, !.rd = rd] \in RecordSet
        BY <1>1, <4>2 DEF RecordSet
      <4>4. srv' = [srv EXCEPT ![t] = [srv[t] EXCEPT !.i = j, !.rd = rd]]
        BY <3>2, <4>1
      <4>5. QED
        BY <1>1, <4>3, <4>4
    <3>3. QED
      BY <1>11, <3>1, <3>2 DEF StepDCheck
  <2>2. QED
    BY <1>2, <1>11, <2>1 DEF StepDCheck, Types, ServerSteps, client, streams
<1>12. CASE StepDEnds(t)
  <2>1. srv' \in [Threads -> RecordSet]
    <3>1. [srv[t] EXCEPT !.granted = 4] \in RecordSet
      BY <1>1 DEF RecordSet
    <3>2. srv' = [srv EXCEPT ![t] = [srv[t] EXCEPT !.granted = 4]]
      BY <1>12 DEF StepDEnds
    <3>3. QED
      BY <1>1, <3>1, <3>2
  <2>2. down' \in [Threads -> Seq(Words)]
    <3>1. PICK c : c = D2
      OBVIOUS
    <3>2. \A u \in Threads : down[u] \o c \in Seq(Words)
      BY <3>1, PacketWords, ConcatProperties DEF Types
    <3>3. down' = [down EXCEPT ![t] = @ \o c]
      BY <1>12, <3>1 DEF StepDEnds
    <3>4. QED
      BY <3>2, <3>3 DEF Types
  <2>3. link' \in [Threads -> {"none", "listening", "connected", "closed"}]
    BY <1>12 DEF StepDEnds, Types
  <2>4. QED
    BY <1>2, <1>12, <2>1, <2>2, <2>3 DEF StepDEnds, Types, ServerSteps, client
<1>13. QED
  BY <1>3, <1>4, <1>5, <1>6, <1>7, <1>8, <1>9, <1>10, <1>11, <1>12 DEF ThreadStep

LEMMA OtherTypes ==
  ASSUME Types,
         \/ \E t \in Threads : ReceiveA1(t) \/ Collect(t) \/ Reset(t)
         \/ Lose \/ Duplicate \/ Overtake \/ ServerDies \/ UNCHANGED vars
  PROVE  Types'
<1>1. UdpTyped
  BY DEF Types, UdpTyped
<1>2. ASSUME NEW t \in Threads, ReceiveA1(t) PROVE Types'
  <2>1. UdpTyped'
    BY <1>1, <1>2, Receives, SocketNames DEF ReceiveA1, UdpTyped, OnlyAt
  <2>2. QED
    BY <1>2, <2>1 DEF ReceiveA1, Types, UdpTyped, ServerGoto, ServerSteps, client, streams
<1>3. ASSUME NEW t \in Threads, Collect(t) PROVE Types'
  BY <1>3 DEF Collect, Types, client, streams
<1>4. ASSUME NEW t \in Threads, Reset(t) PROVE Types'
  <2>1. down' \in [Threads -> Seq(Words)]
    BY <1>4 DEF Reset, Types
  <2>2. QED
    BY <1>4, <2>1 DEF Reset, Types, client, server
<1>5. CASE Lose \/ Duplicate \/ Overtake
  <2>1. UdpTyped'
    BY <1>1, <1>5, Faults DEF UdpTyped
  <2>2. QED
    BY <1>5, <2>1 DEF Lose, Duplicate, Overtake, Types, UdpTyped, client, server, streams
<1>6. CASE ServerDies
  <2>1. UdpTyped'
    BY <1>1, <1>6 DEF ServerDies, UdpTyped
  <2>2. spc' \in [Threads -> ServerSteps]
    BY <1>6 DEF ServerDies, ServerSteps
  <2>3. QED
    BY <1>6, <2>1, <2>2 DEF ServerDies, Types, UdpTyped, client, streams
<1>7. CASE UNCHANGED vars
  BY <1>7 DEF vars, Types, client, server, streams
<1>8. QED
  BY <1>2, <1>3, <1>4, <1>5, <1>6, <1>7

-----------------------------------------------------------------------------
(* How far the client and the threads have come                             *)

Talking == {"b_send", "b_ack", "b_final", "connect", "c_read", "d_send", "d_read", "printed"}

(* The client belongs to a thread once it has secret A, and has no more     *)
(* packets to send or acknowledged than there are. *)
Meeting ==
  /\ cpc \in {"a_send", "a_wait"} => cl.thread = NoThread /\ cl.i = 0
  /\ cpc \in Talking => cl.thread \in Threads
  /\ cl.thread \in Threads => srv[cl.thread].granted >= 1
  /\ cl.i <= cl.num
  /\ cpc \in {"b_send", "b_ack"} => cl.i < cl.num

(* A thread's secrets and counters, as far as it has come. *)
Granting(t) ==
  /\ spc[t] \in {"none", "a"} => /\ srv[t].granted = 0 /\ srv[t].i = 0
                                 /\ srv[t].reply = "clientA"
  /\ spc[t] = "b" => srv[t].granted = 1 /\ srv[t].i <= srv[t].num1
  /\ spc[t] = "c" => srv[t].granted = 2
  /\ spc[t] = "d" => srv[t].granted = 3 /\ srv[t].i <= srv[t].num2
  /\ spc[t] = "done" => srv[t].granted = 4

(* Only its own client connects to a thread. *)
Linked(t) ==
  /\ link[t] = "none" => spc[t] \in {"none", "a", "b", "failed"}
  /\ link[t] = "listening" => spc[t] \in {"c", "failed"}
  /\ link[t] = "connected" => spc[t] \in {"c", "d", "failed"} /\ cl.thread = t
  /\ link[t] = "closed" => spc[t] \in {"done", "failed"}
  /\ spc[t] \in {"none", "a", "b"} => link[t] = "none"
  /\ spc[t] = "d" => link[t] = "connected"
  /\ srv[t].granted >= 3 => cl.thread = t
  /\ srv[t].reply = "clientB" => cl.thread = t

(* What may be on its way to each socket *)
Requests == {d \in DatagramSet : d.kind = "a1"}

Answers == {d \in DatagramSet : /\ d.kind \in {"a2", "b2"} /\ d.thread \in Threads
                                /\ srv[d.thread].granted >= 1}

Replies == {d \in DatagramSet : /\ d.kind \in {"ack", "b2"} /\ cl.thread \in Threads
                                /\ d.kind = "b2" => srv[cl.thread].granted >= 2}

StageB == {"b_send", "b_ack", "b_final"}

Numbered(t) == {d \in DatagramSet : /\ d.kind = "b1" /\ cl.thread = t
                                    /\ cpc \in StageB => d.n <= cl.i}

Mail ==
  /\ udp["main"] \in Seq(Requests)
  /\ udp["clientA"] \in Seq(Answers)
  /\ udp["clientB"] \in Seq(Replies)
  /\ \A t \in Threads : udp[t] \in Seq(Numbered(t))

Stages == Types /\ Meeting /\ Mail /\ \A t \in Threads : Granting(t) /\ Linked(t)

LEMMA InitStages == Init => Stages
<1> SUFFICES ASSUME Init PROVE Stages
  OBVIOUS
<1>1. \A s \in Sockets : udp[s] = <<>>
  BY DEF Init
<1>2. Mail
  <2>1. \A S : <<>> \in Seq(S)
    OBVIOUS
  <2>2. QED
    BY <1>1, <2>1, SocketNames DEF Mail
<1>3. Meeting
  BY StageAssumption DEF Init, Meeting, Talking
<1>4. ASSUME NEW t \in Threads PROVE Granting(t) /\ Linked(t)
  BY DEF Init, Granting, Linked
<1>5. QED
  BY <1>2, <1>3, <1>4, InitTypes DEF Stages

LEMMA ThreadGrants ==
  ASSUME Types, NEW t \in Threads, ThreadStep(t), Granting(t), Linked(t),
         udp[t] # <<>> => cl.thread = t
  PROVE  /\ Granting(t)' /\ Linked(t)' /\ srv'[t].granted >= srv[t].granted
         /\ \A u \in Threads \ {t} : spc'[u] = spc[u] /\ srv'[u] = srv[u] /\ link'[u] = link[u]
         /\ cpc' = cpc /\ cl' = cl
<1> USE DEF Granting, Linked, ServerGoto, client
<1>1. srv[t] \in RecordSet /\ spc[t] \in ServerSteps
  BY DEF Types
<1>2. srv[t].granted \in 0 .. 4 /\ srv[t].i \in Nat /\ srv[t].num1 \in Nat /\ srv[t].num2 \in Nat
  BY <1>1 DEF RecordSet
<1>3. CASE StepA(t)
  <2>1. PICK num \in Nums1 : srv' = [srv EXCEPT ![t].num1 = num, ![t].granted = 1]
    BY <1>3 DEF StepA
  <2>2. num \in Nat
    BY StageAssumption
  <2>3. /\ srv'[t].granted = 1 /\ srv'[t].i = srv[t].i /\ srv'[t].num1 = num
        /\ srv'[t].reply = srv[t].reply
    BY <1>1, <2>1 DEF Types, RecordSet
  <2>4. spc[t] = "a" /\ spc'[t] = "b" /\ link' = link /\ cl' = cl /\ cpc' = cpc
    BY <1>3 DEF StepA, Types
  <2>5. \A u \in Threads \ {t} : spc'[u] = spc[u] /\ srv'[u] = srv[u]
    BY <1>3, <2>1 DEF StepA, Types
  <2>6. QED
    BY <1>2, <2>2, <2>3, <2>4, <2>5
<1>4. CASE OutOfStep(t) \/ StepBTimesOut(t) \/ StepCTimesOut(t) \/ StepDTimesOut(t)
  <2>1. spc'[t] = "failed" /\ srv' = srv /\ link' = link /\ cl' = cl /\ cpc' = cpc
        /\ \A u \in Threads \ {t} : spc'[u] = spc[u]
    BY <1>4 DEF OutOfStep, StepBTimesOut, StepCTimesOut, StepDTimesOut, Types
  <2>2. link[t] = "connected" => cl.thread = t
    OBVIOUS
  <2>3. link[t] # "closed"
    BY <1>4 DEF OutOfStep, StepBTimesOut, StepCTimesOut, StepDTimesOut, Expects
  <2>4. QED
    BY <1>2, <2>1, <2>2, <2>3
<1>5. CASE Refuse(t)
  <2>0. srv' = [srv EXCEPT ![t].haveFailed = TRUE, ![t].reply = "clientB"]
    BY <1>5 DEF Refuse
  <2>1. /\ srv'[t].granted = srv[t].granted /\ srv'[t].i = srv[t].i /\ srv'[t].num1 = srv[t].num1
        /\ srv'[t].num2 = srv[t].num2
    BY <1>1, <2>0 DEF Types, RecordSet
  <2>2. /\ spc' = spc /\ link' = link /\ cl' = cl /\ cpc' = cpc /\ spc[t] = "b"
        /\ cl.thread = t
    BY <1>5 DEF Refuse, Expects, InSequence
  <2>3. \A u \in Threads \ {t} : srv'[u] = srv[u]
    BY <2>0 DEF Types
  <2>4. QED
    BY <1>2, <2>1, <2>2, <2>3
<1>6. CASE Acknowledge(t)
  <2>0. srv' = [srv EXCEPT ![t].i = @ + 1, ![t].reply = "clientB"]
    BY <1>6 DEF Acknowledge
  <2>1. /\ srv'[t].granted = srv[t].granted /\ srv'[t].i = srv[t].i + 1 /\ srv'[t].num1 = srv[t].num1
        /\ srv'[t].num2 = srv[t].num2
    BY <1>1, <2>0 DEF Types, RecordSet
  <2>2. /\ spc' = spc /\ link' = link /\ cl' = cl /\ cpc' = cpc /\ spc[t] = "b"
        /\ srv[t].i < srv[t].num1 /\ cl.thread = t
    BY <1>6 DEF Acknowledge, Expects, InSequence
  <2>3. \A u \in Threads \ {t} : srv'[u] = srv[u]
    BY <2>0 DEF Types
  <2>4. Granting(t)'
    BY <1>2, <2>1, <2>2
  <2>5. QED
    BY <1>2, <2>1, <2>2, <2>3, <2>4
<1>7. CASE StepBEnds(t)
  <2>0. srv' = [srv EXCEPT ![t].granted = 2] /\ link' = [link EXCEPT ![t] = "listening"]
    BY <1>7 DEF StepBEnds
  <2>1. srv'[t].granted = 2 /\ srv'[t].reply = srv[t].reply /\ link'[t] = "listening"
    BY <1>1, <2>0 DEF Types, RecordSet
  <2>2. spc[t] = "b" /\ spc'[t] = "c" /\ cl' = cl /\ cpc' = cpc
    BY <1>7 DEF StepBEnds, Types
  <2>3. \A u \in Threads \ {t} : srv'[u] = srv[u] /\ spc'[u] = spc[u] /\ link'[u] = link[u]
    BY <1>7, <2>0 DEF StepBEnds, Types
  <2>4. QED
    BY <1>2, <2>1, <2>2, <2>3
<1>8. CASE StepCAccept(t)
  <2>0. PICK num \in Nums2, len \in Lens2 :
          srv' = [srv EXCEPT ![t].num2 = num, ![t].len2 = len, ![t].granted = 3,
                             ![t].i = 0, ![t].rd = Reading(SIZE_HEADER + len)]
    BY <1>8 DEF StepCAccept
  <2>1. /\ srv'[t].granted = 3 /\ srv'[t].i = 0 /\ srv'[t].num2 = num
        /\ srv'[t].reply = srv[t].reply
    BY <1>1, <2>0 DEF Types, RecordSet
  <2>2. /\ spc[t] = "c" /\ spc'[t] = "d" /\ link' = link /\ link[t] = "connected"
        /\ cl' = cl /\ cpc' = cpc
    BY <1>8 DEF StepCAccept, Acceptable, Types
  <2>3. \A u \in Threads \ {t} : srv'[u] = srv[u] /\ spc'[u] = spc[u]
    BY <1>8, <2>0 DEF StepCAccept, Types
  <2>4. num \in Nat
    BY StageAssumption
  <2>5. QED
    BY <1>2, <2>1, <2>2, <2>3, <2>4
<1>9. CASE ServerRead(t)
  <2>0. PICK rd : srv' = [srv EXCEPT ![t].rd = rd]
    BY <1>9 DEF ServerRead
  <2>1. /\ srv'[t].granted = srv[t].granted /\ srv'[t].i = srv[t].i /\ srv'[t].num2 = srv[t].num2
        /\ srv'[t].reply = srv[t].reply
    BY <1>1, <2>0 DEF Types, RecordSet
  <2>2. spc[t] = "d" /\ spc' = spc /\ link' = link /\ cl' = cl /\ cpc' = cpc
    BY <1>9 DEF ServerRead
  <2>3. \A u \in Threads \ {t} : srv'[u] = srv[u]
    BY <2>0 DEF Types
  <2>4. QED
    BY <1>2, <2>1, <2>2, <2>3
<1>10. CASE StepDCheck(t)
  <2>1. CASE srv' = srv /\ spc' = [spc EXCEPT ![t] = "failed"]
    <3>1. /\ spc[t] = "d" /\ spc'[t] = "failed" /\ link' = link /\ cl' = cl /\ cpc' = cpc
          /\ \A u \in Threads \ {t} : spc'[u] = spc[u]
      BY <1>10, <2>1 DEF StepDCheck, Types
    <3>2. QED
      BY <1>2, <2>1, <3>1
  <2>2. CASE srv' = [srv EXCEPT ![t].i = @ + 1, ![t].rd.total = 0] /\ spc' = spc
    <3>1. /\ srv'[t].granted = srv[t].granted /\ srv'[t].i = srv[t].i + 1
          /\ srv'[t].num2 = srv[t].num2 /\ srv'[t].reply = srv[t].reply
      BY <1>1, <2>2 DEF Types, RecordSet
    <3>2. /\ spc[t] = "d" /\ spc' = spc /\ link' = link /\ cl' = cl /\ cpc' = cpc
          /\ srv[t].i < srv[t].num2
      BY <1>10, <2>2 DEF StepDCheck
    <3>3. \A u \in Threads \ {t} : srv'[u] = srv[u]
      BY <2>2 DEF Types
    <3>4. Granting(t)'
      BY <1>2, <3>1, <3>2
    <3>5. QED
      BY <1>2, <3>1, <3>2, <3>3, <3>4
  <2>3. QED
    BY <1>10, <2>1, <2>2 DEF StepDCheck
<1>11. CASE StepDEnds(t)
  <2>0. srv' = [srv EXCEPT ![t].granted = 4] /\ link' = [link EXCEPT ![t] = "closed"]
    BY <1>11 DEF StepDEnds
  <2>1. srv'[t].granted = 4 /\ srv'[t].reply = srv[t].reply /\ link'[t] = "closed"
    BY <1>1, <2>0 DEF Types, RecordSet
  <2>2. spc[t] = "d" /\ spc'[t] = "done" /\ cl' = cl /\ cpc' = cpc
    BY <1>11 DEF StepDEnds, Types
  <2>3. \A u \in Threads \ {t} : srv'[u] = srv[u] /\ spc'[u] = spc[u] /\ link'[u] = link[u]
    BY <1>11, <2>0 DEF StepDEnds, Types
  <2>4. QED
    BY <1>2, <2>1, <2>2, <2>3
<1>12. QED
  BY <1>3, <1>4, <1>5, <1>6, <1>7, <1>8, <1>9, <1>10, <1>11 DEF ThreadStep

(* The client is the session's, or nobody's yet; it counts upwards. *)
ClientMoves ==
  /\ cl'.thread = cl.thread \/ cl.thread = NoThread
  /\ cl.thread \in Threads /\ cpc' \in StageB => cpc \in StageB /\ cl'.i >= cl.i

LEMMA ClientMeets ==
  ASSUME Stages, ClientStep
  PROVE  /\ Meeting' /\ ClientMoves /\ spc' = spc /\ srv' = srv
         /\ \A t \in Threads : Granting(t)' /\ Linked(t)'
<1> USE DEF ClientGoto, Meeting, Talking
<1>1. /\ cl \in ClientSet /\ Meeting /\ spc \in [Threads -> ServerSteps]
      /\ srv \in [Threads -> RecordSet] /\ NoThread \notin Threads
      /\ \A t \in Threads : srv[t].granted \in 0 .. 4
  BY StageAssumption DEF Stages, Types, RecordSet
<1>2. cl.i \in Nat /\ cl.num \in Nat
  BY <1>1 DEF ClientSet
<1>3. spc' = spc /\ srv' = srv
  BY DEF ClientStep, ClientWorks, StepASend, StepAReceive, StepBSend, StepBReceive, StepBTimeout,
         StepBFinal, StepBFinalTimeout, Connect, ClientRead, StepC, StepDSend, StepDAwait,
         StepDPrint, server
<1>4. Meeting' /\ ClientMoves /\ (link' = link \/ Connect)
  <2>1. CASE StepASend \/ StepBSend \/ StepBTimeout \/ StepBFinalTimeout
    <3>1. /\ cl' = cl /\ link' = link
          /\ \/ cpc = "a_send" /\ cpc' = "a_wait"
             \/ cpc = "b_send" /\ cpc' = "b_ack"
             \/ cpc = "b_ack" /\ cpc' = "b_send"
             \/ cpc = "b_final" /\ cpc' = "crashed"
      BY <2>1 DEF StepASend, StepBSend, StepBTimeout, StepBFinalTimeout, server
    <3>2. QED
      BY <1>1, <1>2, <1>3, <3>1 DEF ClientMoves, StageB
  <2>2. CASE StepAReceive
    <3>1. CASE cl' = cl /\ cpc' = "crashed"
      BY <1>1, <1>2, <1>3, <2>2, <3>1 DEF StepAReceive, ClientMoves, StageB, server
    <3>2. CASE ~(cl' = cl /\ cpc' = "crashed")
      <4>1. PICK d : d = Head(udp["clientA"])
        OBVIOUS
      <4>2. /\ cl' = [cl EXCEPT !.thread = d.thread, !.num = d.n, !.known = {1}]
            /\ cpc' = IF d.n = 0 THEN "b_final" ELSE "b_send"
            /\ cpc = "a_wait" /\ udp["clientA"] # <<>> /\ link' = link
        BY <2>2, <3>2, <4>1 DEF StepAReceive, server
      <4>3. d \in Answers
        <5>1. udp["clientA"] \in Seq(Answers)
          BY DEF Stages, Mail
        <5>2. QED
          BY <4>1, <4>2, <5>1, SeqTail
      <4>4. d.n \in Nat /\ d.thread \in Threads /\ srv[d.thread].granted >= 1
        BY <4>3 DEF Answers, DatagramSet
      <4>5. cl'.thread = d.thread /\ cl'.num = d.n /\ cl'.i = cl.i
        BY <1>1, <4>2 DEF ClientSet
      <4>6. cl.thread = NoThread /\ cl.i = 0
        BY <1>1, <4>2
      <4>7. QED
        BY <1>1, <1>2, <1>3, <4>2, <4>4, <4>5, <4>6 DEF ClientMoves
    <3>3. QED
      BY <3>1, <3>2
  <2>3. CASE StepBReceive
    <3>1. cl'.thread = cl.thread /\ cl'.i = cl.i + 1 /\ cl'.num = cl.num
      BY <1>1, <2>3 DEF StepBReceive, ClientSet
    <3>2. cpc = "b_ack" /\ cpc' = (IF MorePackets THEN "b_send" ELSE "b_final") /\ link' = link
      BY <2>3 DEF StepBReceive, server
    <3>3. QED
      BY <1>1, <1>2, <1>3, <3>1, <3>2 DEF ClientMoves, StageB, MorePackets
  <2>4. CASE StepBFinal \/ Connect \/ ClientRead \/ StepDAwait \/ StepDPrint
    <3>1. cl'.thread = cl.thread /\ cl'.i = cl.i /\ cl'.num = cl.num
      BY <1>1, <2>4 DEF StepBFinal, Connect, ClientRead, StepDAwait, StepDPrint, ClientSet
    <3>2. /\ cpc \in Talking /\ cpc' \in Talking \cup {"crashed"} /\ cpc' \notin StageB
          /\ link' = link \/ Connect
      BY <2>4 DEF StepBFinal, Connect, ClientRead, StepDAwait, StepDPrint, StageB, server
    <3>3. QED
      BY <1>1, <1>2, <1>3, <3>1, <3>2 DEF ClientMoves, StageB
  <2>5. CASE StepC
    <3>1. \/ cl' = cl
          \/ cl'.thread = cl.thread /\ cl'.i = 0 /\ cl'.num \in Nat
      <4>1. CASE cl' # cl
        <5>1. PICK num \in Nums2, len \in Lens2, w \in BOOLEAN, g \in {{3}, {}} :
                cl' = [cl EXCEPT !.num = num, !.len = len, !.whole = w, !.i = 0,
                                 !.known = @ \cup g]
          BY <2>5, <4>1 DEF StepC
        <5>2. num \in Nat
          BY StageAssumption
        <5>3. QED
          BY <1>1, <5>1, <5>2 DEF ClientSet
      <4>2. QED
        BY <4>1
    <3>2. cpc = "c_read" /\ cpc' \in {"d_send", "crashed"} /\ link' = link
      BY <2>5 DEF StepC, server
    <3>3. QED
      BY <1>1, <1>2, <1>3, <3>1, <3>2 DEF ClientMoves, StageB
  <2>6. CASE StepDSend
    <3>1. \/ cl' = cl
          \/ cl'.thread = cl.thread /\ cl'.i = cl.i + 1 /\ cl'.num = cl.num
      BY <1>1, <2>6 DEF StepDSend, ClientSet
    <3>2. cpc = "d_send" /\ cpc' \in {"d_send", "crashed"} /\ link' = link /\ cl.i < cl.num
      BY <2>6 DEF StepDSend, server
    <3>3. QED
      BY <1>1, <1>2, <1>3, <3>1, <3>2 DEF ClientMoves, StageB
  <2>7. QED
    BY <2>1, <2>2, <2>3, <2>4, <2>5, <2>6 DEF ClientStep, ClientWorks
<1>5. ASSUME NEW t \in Threads PROVE Granting(t)' /\ Linked(t)'
  <2>1. Granting(t) /\ Linked(t)
    BY DEF Stages
  <2>2. Granting(t)'
    BY <1>3, <2>1 DEF Granting
  <2>3. CASE link' = link
    <3>1. cl.thread = t => cl'.thread = t
      BY <1>1, <1>4 DEF ClientMoves
    <3>2. QED
      BY <1>3, <2>1, <2>2, <2>3, <3>1 DEF Linked
  <2>4. CASE Connect
    <3>1. cl'.thread = cl.thread
      BY <1>1, <2>4 DEF Connect, ClientSet
    <3>2. CASE link' = link
      BY <1>3, <2>1, <2>2, <3>1, <3>2 DEF Linked
    <3>3. CASE link' = [link EXCEPT ![cl.thread] = "connected"] /\ link[cl.thread] = "listening"
      <4>1. CASE t = cl.thread
        <5>1. link'[t] = "connected" /\ link[t] = "listening"
          BY <3>3, <4>1 DEF Stages, Types
        <5>2. QED
          BY <1>3, <2>1, <2>2, <3>1, <4>1, <5>1 DEF Linked
      <4>2. CASE t # cl.thread
        <5>1. link'[t] = link[t]
          BY <3>3, <4>2 DEF Stages, Types
        <5>2. QED
          BY <1>3, <2>1, <2>2, <3>1, <5>1 DEF Linked
      <4>3. QED
        BY <4>1, <4>2
    <3>4. QED
      BY <2>4, <3>2, <3>3 DEF Connect
  <2>5. QED
    BY <1>4, <2>3, <2>4
<1>6. QED
  BY <1>3, <1>4, <1>5

LEMMA OtherMeets ==
  ASSUME Stages,
         \/ \E t \in Threads : ReceiveA1(t) \/ Collect(t) \/ Reset(t)
         \/ Lose \/ Duplicate \/ Overtake \/ ServerDies \/ UNCHANGED vars
  PROVE  /\ Meeting' /\ cpc' = cpc /\ cl' = cl /\ srv' = srv
         /\ \A t \in Threads : Granting(t)' /\ Linked(t)'
<1>1. Meeting /\ \A t \in Threads : Granting(t) /\ Linked(t) /\ srv[t] \in RecordSet
  BY DEF Stages, Types
<1>2. spc \in [Threads -> ServerSteps] /\ link \in [Threads -> {"none", "listening", "connected", "closed"}]
  BY DEF Stages, Types
<1>3. cpc' = cpc /\ cl' = cl /\ srv' = srv
  BY DEF ReceiveA1, Collect, Reset, Lose, Duplicate, Overtake, ServerDies, vars, client, server
<1>4. Meeting'
  BY <1>1, <1>3 DEF Meeting
<1>5. CASE spc' = spc /\ link' = link
  BY <1>1, <1>3, <1>4, <1>5 DEF Granting, Linked
<1>6. ASSUME NEW u \in Threads, ReceiveA1(u) PROVE \A t \in Threads : Granting(t)' /\ Linked(t)'
  <2>1. spc[u] = "none" /\ spc'[u] = "a" /\ link' = link
        /\ \A t \in Threads \ {u} : spc'[t] = spc[t]
    BY <1>2, <1>6 DEF ReceiveA1, ServerGoto
  <2>2. QED
    BY <1>1, <1>3, <2>1 DEF Granting, Linked
<1>7. ASSUME NEW u \in Threads, Collect(u) PROVE \A t \in Threads : Granting(t)' /\ Linked(t)'
  <2>1. spc[u] = "failed" /\ spc' = spc /\ link'[u] = "closed"
        /\ \A t \in Threads \ {u} : link'[t] = link[t]
    BY <1>2, <1>7 DEF Collect
  <2>2. QED
    BY <1>1, <1>3, <2>1 DEF Granting, Linked
<1>8. CASE ServerDies
  <2>1. \A t \in Threads : /\ link'[t] = "closed"
                           /\ spc'[t] = IF spc[t] = "done" THEN "done" ELSE "failed"
    BY <1>8 DEF ServerDies
  <2>2. ASSUME NEW t \in Threads PROVE Granting(t)' /\ Linked(t)'
    <3>1. /\ Granting(t) /\ Linked(t) /\ srv'[t] = srv[t] /\ link'[t] = "closed"
          /\ spc'[t] = (IF spc[t] = "done" THEN "done" ELSE "failed")
      BY <1>1, <1>3, <2>1
    <3>2. Granting(t)'
      BY <3>1 DEF Granting
    <3>3. Linked(t)'
      BY <1>3, <3>1 DEF Linked
    <3>4. QED
      BY <3>2, <3>3
  <2>3. QED
    BY <1>3, <1>4, <2>2
<1>9. CASE \E t \in Threads : Reset(t)
  BY <1>5, <1>9 DEF Reset, server
<1>10. CASE Lose \/ Duplicate \/ Overtake \/ UNCHANGED vars
  BY <1>5, <1>10 DEF Lose, Duplicate, Overtake, vars, server
<1>11. QED
  BY <1>3, <1>4, <1>6, <1>7, <1>8, <1>9, <1>10

(* What may be on its way to a socket may be on its way to it ever after. *)
LEMMA MailKept ==
  ASSUME Mail, Stages, ClientMoves, \A t \in Threads : srv'[t].granted >= srv[t].granted,
         \A t \in Threads : srv'[t].granted \in 0 .. 4,
         cl' \in ClientSet,
         NEW r, NEW d,
         \A s \in Sockets : Shrunk(s) \/ (s = r /\ Grown(s, d)),
         r = "main" => d \in Requests,
         r = "clientA" => d \in Answers',
         r = "clientB" => d \in Replies',
         \A t \in Threads : r = t => d \in Numbered(t)'
  PROVE  Mail'
<1>1. ASSUME NEW s \in Sockets, NEW S, NEW T, udp[s] \in Seq(S), S \subseteq T, s = r => d \in T
      PROVE  udp'[s] \in Seq(T)
  <2>1. udp[s] \in Seq(T)
    BY <1>1, SeqGrows
  <2>2. QED
    BY <1>1, <2>1 DEF Shrunk, Grown
<1>2. \A t \in Threads : srv[t].granted \in 0 .. 4
  BY DEF Stages, Types, RecordSet
<1>3. Answers \subseteq Answers'
  BY <1>2 DEF Answers
<1>4. Replies \subseteq Replies'
  <2>1. cl.thread \in Threads => cl'.thread = cl.thread
    BY StageAssumption DEF ClientMoves
  <2>2. QED
    BY <1>2, <2>1 DEF Replies
<1>5. ASSUME NEW t \in Threads PROVE Numbered(t) \subseteq Numbered(t)'
  <2>1. SUFFICES ASSUME NEW e \in DatagramSet, e.kind = "b1", cl.thread = t,
                        cpc \in StageB => e.n <= cl.i
                 PROVE  cl'.thread = t /\ (cpc' \in StageB => e.n <= cl'.i)
    BY DEF Numbered
  <2>2. e.n \in Nat /\ cl.i \in Nat /\ cl'.i \in Nat
    BY DEF DatagramSet, Stages, Types, ClientSet
  <2>3. cl'.thread = t
    BY <2>1, StageAssumption DEF ClientMoves
  <2>4. QED
    BY <2>1, <2>2, <2>3 DEF ClientMoves
<1>6. QED
  <2>1. udp'["main"] \in Seq(Requests')
    <3>1. udp["main"] \in Seq(Requests) /\ Requests' = Requests
      BY DEF Mail, Requests, DatagramSet
    <3>2. QED
      BY <1>1, <3>1, SocketNames
  <2>2. udp'["clientA"] \in Seq(Answers')
    BY <1>1, <1>3, SocketNames DEF Mail
  <2>3. udp'["clientB"] \in Seq(Replies')
    BY <1>1, <1>4, SocketNames DEF Mail
  <2>4. ASSUME NEW t \in Threads PROVE udp'[t] \in Seq(Numbered(t)')
    <3>1. udp[t] \in Seq(Numbered(t)) /\ t \in Sockets
      BY SocketNames DEF Mail
    <3>2. QED
      BY <1>1, <1>5, <3>1
  <2>5. QED
    BY <2>1, <2>2, <2>3, <2>4 DEF Mail

LEMMA NothingSent ==
  ASSUME Mail, Stages, ClientMoves, \A t \in Threads : srv'[t].granted >= srv[t].granted,
         \A t \in Threads : srv'[t].granted \in 0 .. 4,
         cl' \in ClientSet, \A s \in Sockets : Shrunk(s)
  PROVE  Mail'
<1>1. PICK d : d \in Requests
  <2>1. Datagram("a1", NoThread, 0) \in Requests
    BY DEF Datagram, DatagramSet, Requests
  <2>2. QED
    BY <2>1
<1>2. PICK r : r = "main"
  OBVIOUS
<1>3. QED
  BY <1>1, <1>2, SocketNames, MailKept

(* A thread takes what it waited for, q is left, and sends d to the client. *)
LEMMA DropsAndSends ==
  ASSUME NEW t \in Sockets, NEW r \in Sockets, r # t, NEW d, NEW q,
         \A S : udp[t] \in Seq(S) => q \in Seq(S),
         \A s \in Sockets \ {r, t} : udp'[s] = udp[s],
         udp'[t] = q,
         udp'[r] = udp[r] \/ udp'[r] = Append(udp[r], d)
  PROVE  \A s \in Sockets : Shrunk(s) \/ (s = r /\ Grown(s, d))
<1>1. \A s \in Sockets \ {r} : Shrunk(s)
  BY DEF Shrunk
<1>2. Shrunk(r) \/ Grown(r, d)
  <2>1. CASE udp'[r] = udp[r]
    BY <2>1 DEF Shrunk
  <2>2. CASE udp'[r] = Append(udp[r], d)
    BY <2>2, SeqAppend DEF Grown
  <2>3. QED
    BY <2>1, <2>2
<1>3. QED
  BY <1>1, <1>2

LEMMA AcknowledgeSends ==
  ASSUME Types, NEW t \in Threads, Acknowledge(t)
  PROVE  LET d == Datagram("ack", t, srv[t].i) IN
         /\ \A s \in Sockets : Shrunk(s) \/ (s = "clientB" /\ Grown(s, d))
         /\ udp'["clientB"] = udp["clientB"] \/ udp'["clientB"] = Append(udp["clientB"], d)
<1>1. PICK d, q, r : d = Datagram("ack", t, srv[t].i) /\ q = Tail(udp[t]) /\ r = "clientB"
  OBVIOUS
<1>2. UdpTyped /\ t \in Sockets /\ r \in Sockets /\ r # t
  BY <1>1, SocketNames DEF Types, UdpTyped
<1>3. udp[t] # <<>>
  BY DEF Acknowledge, InSequence
<1>4. \A S : udp[t] \in Seq(S) => q \in Seq(S)
  BY <1>1, <1>3, SeqTail
<1>5. PICK rest : /\ rest = [udp EXCEPT ![t] = q]
                  /\ udp' = rest \/ udp' = [rest EXCEPT ![r] = Append(@, d)]
  BY <1>1 DEF Acknowledge
<1>6. /\ \A s \in Sockets \ {r, t} : udp'[s] = udp[s]
      /\ udp'[t] = q
      /\ udp'[r] = udp[r] \/ udp'[r] = Append(udp[r], d)
  BY <1>2, <1>5 DEF UdpTyped
<1>7. \A s \in Sockets : Shrunk(s) \/ (s = r /\ Grown(s, d))
  BY <1>2, <1>4, <1>6, DropsAndSends
<1>8. QED
  BY <1>1, <1>6, <1>7

LEMMA StepBEndsSends ==
  ASSUME Types, NEW t \in Threads, StepBEnds(t)
  PROVE  LET d == Datagram("b2", t, 0) IN
         \A s \in Sockets : Shrunk(s) \/ (s = srv[t].reply /\ Grown(s, d))
<1>1. PICK d, q, r : d = Datagram("b2", t, 0) /\ q = <<>> /\ r = srv[t].reply
  OBVIOUS
<1>2. UdpTyped /\ t \in Sockets /\ r \in Sockets /\ r # t
  BY <1>1, SocketNames DEF Types, UdpTyped, RecordSet
<1>3. \A S : udp[t] \in Seq(S) => q \in Seq(S)
  BY <1>1
<1>4. PICK rest : /\ rest = [udp EXCEPT ![t] = q]
                  /\ udp' = rest \/ udp' = [rest EXCEPT ![r] = Append(@, d)]
  BY <1>1 DEF StepBEnds
<1>5. /\ \A s \in Sockets \ {r, t} : udp'[s] = udp[s]
      /\ udp'[t] = q
      /\ udp'[r] = udp[r] \/ udp'[r] = Append(udp[r], d)
  BY <1>2, <1>4 DEF UdpTyped
<1>6. \A s \in Sockets : Shrunk(s) \/ (s = r /\ Grown(s, d))
  BY <1>2, <1>3, <1>5, DropsAndSends
<1>7. QED
  BY <1>1, <1>6

LEMMA ClientMail ==
  ASSUME Stages, ClientStep, Types', ClientMoves, srv' = srv, Meeting'
  PROVE  Mail'
<1>1. /\ Mail /\ UdpTyped /\ cl' \in ClientSet /\ cl \in ClientSet
      /\ \A t \in Threads : srv'[t].granted >= srv[t].granted /\ srv'[t].granted \in 0 .. 4
  BY DEF Stages, Types, UdpTyped, RecordSet
<1>2. ASSUME NEW s \in Sockets, Closed(s) \/ (Received(s) /\ udp[s] # <<>>) PROVE Mail'
  <2>1. OnlyAt(s) /\ Shrunk(s)
    BY <1>1, <1>2, Receives, Closes DEF UdpTyped
  <2>2. \A u \in Sockets : Shrunk(u)
    BY <2>1 DEF OnlyAt, Shrunk
  <2>3. QED
    BY <1>1, <2>2, NothingSent
<1>3. CASE UNCHANGED udp
  <2>1. \A u \in Sockets : Shrunk(u)
    BY <1>3 DEF Shrunk
  <2>2. QED
    BY <1>1, <2>1, NothingSent
<1>4. CASE StepASend
  <2>1. PICK d : d = Datagram("a1", NoThread, 0)
    OBVIOUS
  <2>2. d \in Requests /\ d \in DatagramSet
    BY <2>1 DEF Datagram, DatagramSet, Requests
  <2>3. \A s \in Sockets : Shrunk(s) \/ (s = "main" /\ Grown(s, d))
    <3>1. OnlyAt("main") /\ Grown("main", d)
      BY <1>1, <1>4, <2>1, <2>2, Sends, SocketNames DEF StepASend, UdpTyped
    <3>2. QED
      BY <3>1 DEF OnlyAt, Shrunk
  <2>4. QED
    BY <1>1, <2>2, <2>3, SocketNames, MailKept
<1>5. CASE StepBSend
  <2>1. PICK d, r : d = Datagram("b1", cl.thread, cl.i) /\ r = cl.thread
    OBVIOUS
  <2>2. r \in Threads /\ cl' = cl
    BY <1>5, <2>1 DEF StepBSend, Stages, Meeting, Talking
  <2>3. d \in DatagramSet /\ d.kind = "b1" /\ d.n = cl.i /\ cl.i \in Nat
    BY <1>1, <2>1, <2>2 DEF Datagram, DatagramSet, ClientSet
  <2>4. \A s \in Sockets : Shrunk(s) \/ (s = r /\ Grown(s, d))
    <3>1. OnlyAt(r) /\ Grown(r, d)
      BY <1>1, <1>5, <2>1, <2>2, <2>3, Sends, SocketNames DEF StepBSend, UdpTyped
    <3>2. QED
      BY <3>1 DEF OnlyAt, Shrunk
  <2>5. \A t \in Threads : r = t => d \in Numbered(t)'
    BY <2>1, <2>2, <2>3 DEF Numbered, DatagramSet
  <2>6. QED
    BY <1>1, <2>2, <2>4, <2>5, SocketNames, MailKept
<1>6. QED
  BY <1>2, <1>3, <1>4, <1>5, SocketNames
  DEF ClientStep, ClientWorks, StepAReceive, StepBReceive, StepBTimeout, StepBFinal,
      StepBFinalTimeout, Connect, ClientRead, StepC, StepDSend, StepDAwait, StepDPrint

LEMMA ThreadMail ==
  ASSUME Stages, NEW t \in Threads, ThreadStep(t), Types'
  PROVE  Mail' /\ Granting(t)' /\ Linked(t)' /\ srv'[t].granted >= srv[t].granted
<1>1. /\ Mail /\ UdpTyped /\ Types /\ cl \in ClientSet /\ t \in Sockets
      /\ Granting(t) /\ Linked(t) /\ Meeting
  BY SocketNames DEF Stages, Types, UdpTyped
<1>2. udp[t] # <<>> => cl.thread = t
  <2>1. udp[t] \in Seq(Numbered(t))
    BY <1>1 DEF Mail
  <2>2. udp[t] # <<>> => Head(udp[t]) \in Numbered(t)
    BY <2>1, SeqTail
  <2>3. QED
    BY <2>2 DEF Numbered
<1>3. /\ Granting(t)' /\ Linked(t)' /\ srv'[t].granted >= srv[t].granted
      /\ \A u \in Threads \ {t} : spc'[u] = spc[u] /\ srv'[u] = srv[u] /\ link'[u] = link[u]
      /\ cpc' = cpc /\ cl' = cl
  BY <1>1, <1>2, ThreadGrants
<1>4. \A u \in Threads : srv[u] \in RecordSet /\ srv'[u] \in RecordSet
  BY DEF Stages, Types
<1>5. /\ \A u \in Threads : srv'[u].granted >= srv[u].granted
      /\ \A u \in Threads : srv'[u].granted \in 0 .. 4
  <2>1. \A u \in Threads : srv[u].granted \in 0 .. 4 /\ srv'[u].granted \in 0 .. 4
    BY <1>4 DEF RecordSet
  <2>2. QED
    BY <1>3, <2>1
<1>6. ClientMoves /\ cl' \in ClientSet
  <2>1. cl.i \in Nat
    BY <1>1 DEF ClientSet
  <2>2. QED
    BY <1>1, <1>3, <2>1 DEF ClientMoves
<1>7. ASSUME NEW s \in Sockets, Closed(s) \/ (Received(s) /\ udp[s] # <<>>) PROVE Mail'
  <2>1. OnlyAt(s) /\ Shrunk(s)
    BY <1>1, <1>7, Receives, Closes DEF UdpTyped
  <2>2. \A u \in Sockets : Shrunk(u)
    BY <2>1 DEF OnlyAt, Shrunk
  <2>3. QED
    BY <1>1, <1>3, <1>5, <1>6, <2>2, NothingSent
<1>8. CASE UNCHANGED udp
  <2>1. \A u \in Sockets : Shrunk(u)
    BY <1>8 DEF Shrunk
  <2>2. QED
    BY <1>1, <1>3, <1>5, <1>6, <2>1, NothingSent
<1>9. CASE StepA(t)
  <2>1. PICK num \in Nums1 :
          /\ srv' = [srv EXCEPT ![t].num1 = num, ![t].granted = 1]
          /\ Send("clientA", Datagram("a2", t, num))
    BY <1>9 DEF StepA
  <2>2. PICK d : d = Datagram("a2", t, num)
    OBVIOUS
  <2>3. num \in Nat
    BY StageAssumption
  <2>4. d \in DatagramSet /\ d.kind = "a2" /\ d.thread = t
    BY <2>2, <2>3 DEF Datagram, DatagramSet
  <2>5. srv'[t].granted = 1
    BY <1>4, <2>1 DEF Stages, Types, RecordSet
  <2>6. d \in Answers'
    BY <2>4, <2>5 DEF Answers, DatagramSet
  <2>7. \A s \in Sockets : Shrunk(s) \/ (s = "clientA" /\ Grown(s, d))
    <3>1. OnlyAt("clientA") /\ Grown("clientA", d)
      BY <1>1, <2>1, <2>2, <2>4, Sends, SocketNames DEF UdpTyped
    <3>2. QED
      BY <3>1 DEF OnlyAt, Shrunk
  <2>8. QED
    BY <1>1, <1>3, <1>5, <1>6, <2>6, <2>7, SocketNames, MailKept
<1>10. CASE Acknowledge(t)
  <2>1. PICK d : d = Datagram("ack", t, srv[t].i)
    OBVIOUS
  <2>2. d \in DatagramSet /\ d.kind = "ack"
    BY <1>4, <2>1 DEF Datagram, DatagramSet, RecordSet
  <2>3. cl.thread = t
    BY <1>2, <1>10 DEF Acknowledge, InSequence
  <2>4. d \in Replies'
    BY <1>3, <2>2, <2>3 DEF Replies, DatagramSet
  <2>5. \A s \in Sockets : Shrunk(s) \/ (s = "clientB" /\ Grown(s, d))
    BY <1>1, <1>10, <2>1, AcknowledgeSends
  <2>6. QED
    BY <1>1, <1>3, <1>5, <1>6, <2>4, <2>5, SocketNames, MailKept
<1>11. CASE StepBEnds(t)
  <2>1. PICK d, r : d = Datagram("b2", t, 0) /\ r = srv[t].reply
    OBVIOUS
  <2>2. d \in DatagramSet /\ d.kind = "b2" /\ d.thread = t
    BY <2>1 DEF Datagram, DatagramSet
  <2>3. r \in {"clientA", "clientB"} /\ (r = "clientB" => cl.thread = t)
    BY <1>1, <1>4, <2>1 DEF RecordSet, Linked
  <2>4. srv'[t].granted = 2
    BY <1>4, <1>11 DEF StepBEnds, Stages, Types, RecordSet
  <2>5. d \in Answers' /\ (r = "clientB" => d \in Replies')
    BY <1>3, <2>2, <2>3, <2>4 DEF Answers, Replies, DatagramSet
  <2>6. \A s \in Sockets : Shrunk(s) \/ (s = r /\ Grown(s, d))
    BY <1>1, <1>11, <2>1, StepBEndsSends
  <2>7. \A u \in Threads : r # u /\ r # "main"
    BY <2>3, SocketNames
  <2>8. QED
    BY <1>1, <1>3, <1>5, <1>6, <2>3, <2>5, <2>6, <2>7, MailKept
<1>12. QED
  BY <1>1, <1>3, <1>7, <1>8, <1>9, <1>10, <1>11
  DEF ThreadStep, OutOfStep, Refuse, InSequence, StepBTimesOut, StepCAccept, StepCTimesOut,
      ServerRead, StepDCheck, StepDTimesOut, StepDEnds

LEMMA OtherMail ==
  ASSUME Stages, Types',
         \/ \E t \in Threads : ReceiveA1(t) \/ Collect(t) \/ Reset(t)
         \/ Lose \/ Duplicate \/ Overtake \/ ServerDies \/ UNCHANGED vars
  PROVE  Mail'
<1>1. cpc' = cpc /\ cl' = cl /\ srv' = srv
  BY OtherMeets
<1>2. Mail /\ UdpTyped /\ cl \in ClientSet /\ \A t \in Threads : srv[t].granted \in 0 .. 4
  BY DEF Stages, Types, UdpTyped, RecordSet
<1>3. ClientMoves
  BY <1>1, <1>2 DEF ClientMoves, ClientSet
<1>4. \A s \in Sockets : Shrunk(s)
  <2>1. CASE Lose \/ Duplicate \/ Overtake
    BY <1>2, <2>1, Faults DEF UdpTyped
  <2>2. CASE \E t \in Threads : ReceiveA1(t)
    <3>1. OnlyAt("main") /\ Shrunk("main")
      BY <1>2, <2>2, Receives, SocketNames DEF UdpTyped, ReceiveA1
    <3>2. QED
      BY <3>1 DEF OnlyAt, Shrunk
  <2>3. CASE ServerDies
    <3>1. \A S : <<>> \in Seq(S)
      OBVIOUS
    <3>2. \A s \in Sockets : udp'[s] = udp[s] \/ udp'[s] = <<>>
      BY <2>3 DEF ServerDies
    <3>3. QED
      BY <3>1, <3>2 DEF Shrunk
  <2>4. CASE UNCHANGED udp
    BY <2>4 DEF Shrunk
  <2>5. QED
    BY <2>1, <2>2, <2>3, <2>4 DEF Collect, Reset, vars
<1>5. QED
  BY <1>1, <1>2, <1>3, <1>4, NothingSent

LEMMA NextStages == Stages /\ [Next]_vars => Stages'
<1> SUFFICES ASSUME Stages, [Next]_vars PROVE Stages'
  OBVIOUS
<1>1. Types /\ Meeting
  BY DEF Stages
<1>2. CASE ClientStep
  <2>1. cl.thread \in Threads \/ cpc \in {"a_send", "a_wait"}
    BY <1>1, <1>2 DEF Meeting, Talking, ClientStep, ClientWorks, StepASend, StepAReceive,
      StepBSend, StepBReceive, StepBTimeout, StepBFinal, StepBFinalTimeout, Connect, ClientRead,
      StepC, StepDSend, StepDAwait, StepDPrint
  <2>2. Types'
    BY <1>1, <1>2, <2>1, ClientTypes
  <2>3. /\ Meeting' /\ ClientMoves /\ srv' = srv
        /\ \A t \in Threads : Granting(t)' /\ Linked(t)'
    BY <1>2, ClientMeets
  <2>4. QED
    BY <1>2, <2>2, <2>3, ClientMail DEF Stages
<1>3. ASSUME NEW t \in Threads, ThreadStep(t) PROVE Stages'
  <2>1. Types'
    BY <1>1, <1>3, ThreadTypes
  <2>2. Mail' /\ Granting(t)' /\ Linked(t)' /\ srv'[t].granted >= srv[t].granted
    BY <1>3, <2>1, ThreadMail
  <2>3. udp[t] # <<>> => cl.thread = t
    <3>1. udp[t] \in Seq(Numbered(t))
      BY DEF Stages, Mail
    <3>2. udp[t] # <<>> => Head(udp[t]) \in Numbered(t)
      BY <3>1, SeqTail
    <3>3. QED
      BY <3>2 DEF Numbered
  <2>4. /\ \A u \in Threads \ {t} : spc'[u] = spc[u] /\ srv'[u] = srv[u] /\ link'[u] = link[u]
        /\ cpc' = cpc /\ cl' = cl
    BY <1>1, <1>3, <2>3, ThreadGrants DEF Stages
  <2>5. \A u \in Threads : Granting(u)' /\ Linked(u)'
    BY <2>2, <2>4 DEF Stages, Granting, Linked
  <2>6. Meeting'
    <3>1. \A u \in Threads : srv[u].granted >= 1 => srv'[u].granted >= 1
      <4>1. \A u \in Threads : srv[u].granted \in 0 .. 4 /\ srv'[u].granted \in 0 .. 4
        BY <1>1, <2>1 DEF Types, RecordSet
      <4>2. QED
        BY <2>2, <2>4, <4>1
    <3>2. QED
      BY <1>1, <2>4, <3>1 DEF Meeting
  <2>7. QED
    BY <2>1, <2>2, <2>5, <2>6 DEF Stages
<1>4. CASE \/ \E t \in Threads : ReceiveA1(t) \/ Collect(t) \/ Reset(t)
           \/ Lose \/ Duplicate \/ Overtake \/ ServerDies \/ UNCHANGED vars
  <2>1. Types'
    BY <1>1, <1>4, OtherTypes
  <2>2. Meeting' /\ \A t \in Threads : Granting(t)' /\ Linked(t)'
    BY <1>4, OtherMeets
  <2>3. QED
    BY <1>4, <2>1, <2>2, OtherMail DEF Stages
<1>5. QED
  BY <1>2, <1>3, <1>4 DEF Next

LEMMA AlwaysStages == Spec => []Stages
<1>1. Init => Stages
  BY InitStages
<1>2. Stages /\ [Next]_vars => Stages'
  BY NextStages
<1>3. QED
  BY <1>1, <1>2, PTL DEF Spec

(* Every socket receives only what the program that reads it can take, and   *)
(* neither side counts further than its num1 or num2: Client.java:120,       *)
(* ServerThread.java:118 and 204.                                            *)
THEOREM TypeCorrect == Spec => []TypeOK
<1>1. Stages => TypeOK
  <2> SUFFICES ASSUME Stages PROVE TypeOK
    OBVIOUS
  <2>1. ASSUME NEW s \in Sockets, NEW i \in 1 .. Len(udp[s])
        PROVE  udp[s][i].kind \in (CASE s = "main" -> {"a1"}
                                      [] s = "clientA" -> {"a2", "b2"}
                                      [] s = "clientB" -> {"ack", "b2"}
                                      [] OTHER -> {"b1"})
    <3>1. \A S : udp[s] \in Seq(S) => udp[s][i] \in S
      OBVIOUS
    <3>2. CASE s = "main"
      BY <3>1, <3>2 DEF Stages, Mail, Requests
    <3>3. CASE s = "clientA"
      BY <3>1, <3>3 DEF Stages, Mail, Answers
    <3>4. CASE s = "clientB"
      BY <3>1, <3>4 DEF Stages, Mail, Replies
    <3>5. CASE s \in Threads
      <4>1. udp[s][i] \in Numbered(s)
        BY <3>1, <3>5 DEF Stages, Mail
      <4>2. s \notin {"main", "clientA", "clientB"}
        BY <3>5, SocketNames
      <4>3. QED
        BY <4>1, <4>2 DEF Numbered
    <3>6. QED
      BY <3>2, <3>3, <3>4, <3>5 DEF Sockets
  <2>2. cl.thread \in Threads \cup {NoThread} /\ cl.known \subseteq 1 .. 4 /\ cl.i \in 0 .. cl.num
    <3>1. cl \in ClientSet /\ cl.i <= cl.num
      BY DEF Stages, Types, Meeting
    <3>2. QED
      BY <3>1 DEF ClientSet
  <2>3. ASSUME NEW t \in Threads
        PROVE  /\ srv[t].granted \in 0 .. 4
               /\ spc[t] = "b" => srv[t].i \in 0 .. srv[t].num1
               /\ spc[t] = "d" => srv[t].i \in 0 .. srv[t].num2
    <3>1. srv[t] \in RecordSet /\ Granting(t)
      BY DEF Stages, Types
    <3>2. QED
      BY <3>1 DEF RecordSet, Granting
  <2>4. QED
    BY <2>1, <2>2, <2>3 DEF TypeOK, Stages, Types
<1>2. QED
  BY <1>1, AlwaysStages, PTL

-----------------------------------------------------------------------------
(* Stage B stays in step                                                    *)

(* A thread counts only packets of its own client, which sent them before   *)
(* it counted on; each acknowledgement on its way is one the thread counted *)
(* and the client has not. *)
Paced(t) ==
  /\ spc[t] \in {"none", "a", "b"} /\ srv[t].i # 0 => cl.thread = t
  /\ cl.thread = t /\ cpc \in StageB /\ spc[t] = "b" =>
       /\ srv[t].i <= cl.i + 1
       /\ \/ Len(udp["clientB"]) + cl.i <= srv[t].i
          \/ <<"duplicated", "ack">> \in seen

Pace == \A t \in Threads : Paced(t)

LEMMA SeenGrows == ASSUME [Next]_vars PROVE seen \subseteq seen'
<1>1. (\E what, where : Fault(what, where)) \/ NoFault => seen \subseteq seen'
  BY DEF Fault, NoFault, history
<1>2. CASE ClientStep
  BY <1>1, <1>2 DEF ClientStep, ClientWorks, StepASend, StepAReceive, StepBSend, StepBReceive,
    StepBTimeout, StepBFinal, StepBFinalTimeout, Connect, ClientRead, StepC, StepDSend,
    StepDAwait, StepDPrint, TimesOut, Chunk, NoFault
<1>3. ASSUME NEW t \in Threads, ThreadStep(t) PROVE seen \subseteq seen'
  BY <1>1, <1>3 DEF ThreadStep, StepA, OutOfStep, Refuse, Acknowledge, StepBTimesOut, StepBEnds,
    StepCAccept, StepCTimesOut, ServerRead, StepDCheck, StepDTimesOut, StepDEnds, TimesOut,
    Chunk, NoFault
<1>4. ASSUME NEW t \in Threads, ReceiveA1(t) \/ Collect(t) \/ Reset(t) PROVE seen \subseteq seen'
  BY <1>4 DEF ReceiveA1, Collect, Reset, history
<1>5. CASE Lose \/ Duplicate \/ Overtake \/ ServerDies
  BY <1>1, <1>5 DEF Lose, Duplicate, Overtake, ServerDies
<1>6. QED
  BY <1>2, <1>3, <1>4, <1>5 DEF Next, vars

LEMMA ClientPace ==
  ASSUME Stages, Pace, ClientStep, seen \subseteq seen', NEW t \in Threads
  PROVE  Paced(t)'
<1>1. /\ Paced(t) /\ Meeting /\ UdpTyped /\ cl \in ClientSet /\ srv[t] \in RecordSet
  BY DEF Pace, Stages, Types, UdpTyped
<1>2. /\ spc' = spc /\ srv' = srv /\ ClientMoves /\ NoThread \notin Threads
      /\ udp["clientB"] \in Seq(DatagramSet)
  BY <1>1, ClientMeets, StageAssumption, SocketNames DEF UdpTyped
<1>3. cl.i \in Nat /\ srv[t].i \in Nat /\ Len(udp["clientB"]) \in Nat
  BY <1>1, <1>2 DEF ClientSet, RecordSet
<1>4. cl.thread = t => cl'.thread = t
  BY <1>2 DEF ClientMoves
<1>5. CASE cpc' \notin StageB
  BY <1>1, <1>2, <1>4, <1>5 DEF Paced
<1>7. CASE StepAReceive
  <2>1. cl'.i = cl.i /\ cl.i = 0 /\ cl.thread = NoThread
    BY <1>1, <1>7 DEF StepAReceive, ClientSet, Meeting
  <2>2. udp'["clientB"] = <<>>
    <3>1. udp["clientB"] \in Seq(Replies) /\ Replies = {}
      BY <1>2, <2>1 DEF Stages, Mail, Replies
    <3>2. udp["clientB"] = <<>>
      BY <3>1, SeqTail
    <3>3. OnlyAt("clientA")
      BY <1>1, <1>7, Closes, SocketNames DEF StepAReceive, UdpTyped
    <3>4. QED
      BY <3>2, <3>3, SocketNames DEF OnlyAt
  <2>3. spc[t] = "b" => srv[t].i = 0
    BY <1>1, <1>2, <2>1 DEF Paced
  <2>4. spc[t] \in {"none", "a", "b"} => srv[t].i = 0
    BY <1>1, <1>2, <2>1 DEF Paced
  <2>5. QED
    BY <1>2, <2>1, <2>2, <2>4 DEF Paced
<1>8. CASE StepBSend
  <2>1. udp'["clientB"] = udp["clientB"] /\ cl' = cl /\ cpc \in StageB
    <3>1. PICK d : d = Datagram("b1", cl.thread, cl.i)
      OBVIOUS
    <3>2. d \in DatagramSet /\ cl.thread \in Threads
      BY <1>1, <1>8, <3>1 DEF Datagram, DatagramSet, ClientSet, StepBSend, Meeting, Talking
    <3>3. OnlyAt(cl.thread)
      BY <1>1, <1>8, <3>1, <3>2, Sends, SocketNames DEF StepBSend, UdpTyped
    <3>4. QED
      BY <1>8, <3>2, <3>3, SocketNames DEF OnlyAt, StepBSend, StageB
  <2>2. QED
    BY <1>1, <1>2, <2>1 DEF Paced
<1>9. CASE StepBReceive
  <2>1. Len(udp'["clientB"]) = Len(udp["clientB"]) - 1
    BY <1>1, <1>9, Receives, SocketNames DEF StepBReceive, UdpTyped
  <2>2. cl'.i = cl.i + 1 /\ cl'.thread = cl.thread /\ cpc \in StageB
    BY <1>1, <1>9 DEF StepBReceive, ClientSet, StageB
  <2>3. QED
    BY <1>1, <1>2, <1>3, <2>1, <2>2 DEF Paced
<1>10. CASE StepBTimeout
  BY <1>1, <1>2, <1>10 DEF Paced, StepBTimeout, StageB
<1>11. QED
  BY <1>5, <1>7, <1>8, <1>9, <1>10
  DEF ClientStep, ClientWorks, ClientGoto, StageB, StepASend, StepBFinal, StepBFinalTimeout,
      Connect, ClientRead, StepC, StepDSend, StepDAwait, StepDPrint

LEMMA ThreadFrame ==
  ASSUME Stages, NEW u \in Threads, ThreadStep(u)
  PROVE  /\ \A t \in Threads \ {u} : spc'[t] = spc[t] /\ srv'[t] = srv[t] /\ link'[t] = link[t]
         /\ cpc' = cpc /\ cl' = cl
         /\ udp[u] # <<>> => cl.thread = u /\ Head(udp[u]) \in Numbered(u)
<1>1. udp[u] \in Seq(Numbered(u)) /\ Types /\ Granting(u) /\ Linked(u)
  BY DEF Stages, Mail
<1>2. udp[u] # <<>> => cl.thread = u /\ Head(udp[u]) \in Numbered(u)
  <2>1. udp[u] # <<>> => Head(udp[u]) \in Numbered(u)
    BY <1>1, SeqTail
  <2>2. QED
    BY <2>1 DEF Numbered
<1>3. QED
  BY <1>1, <1>2, ThreadGrants

LEMMA ThreadPace ==
  ASSUME Stages, Stages', Pace, NEW u \in Threads, ThreadStep(u), seen \subseteq seen',
         NEW t \in Threads
  PROVE  Paced(t)'
<1>1. /\ Paced(t) /\ Types /\ Meeting /\ UdpTyped /\ cl \in ClientSet /\ srv[t] \in RecordSet
      /\ Granting(t) /\ Linked(t) /\ u \in Sockets /\ u # "clientB" /\ "clientB" \in Sockets
  BY SocketNames DEF Pace, Stages, Types, UdpTyped
<1>2. /\ u # t => spc'[t] = spc[t] /\ srv'[t] = srv[t]
      /\ cpc' = cpc /\ cl' = cl
      /\ udp[u] # <<>> => cl.thread = u /\ Head(udp[u]) \in Numbered(u)
  BY ThreadFrame
<1>3. /\ cl.i \in Nat /\ srv[t].i \in Nat /\ Len(udp["clientB"]) \in Nat
      /\ udp["clientB"] \in Seq(DatagramSet)
  BY <1>1 DEF ClientSet, RecordSet, UdpTyped
<1>4. CASE spc'[t] \notin {"none", "a", "b"}
  BY <1>4 DEF Paced
<1>5. CASE /\ udp'["clientB"] = udp["clientB"] /\ srv'[t].i = srv[t].i
           /\ spc'[t] = spc[t]
  BY <1>1, <1>2, <1>5 DEF Paced
<1>6. CASE StepA(u)
  <2>1. PICK num \in Nums1 :
          /\ srv' = [srv EXCEPT ![u].num1 = num, ![u].granted = 1]
          /\ Send("clientA", Datagram("a2", u, num))
    BY <1>6 DEF StepA
  <2>2. PICK d : d = Datagram("a2", u, num)
    OBVIOUS
  <2>3. d \in DatagramSet
    BY <2>2, StageAssumption DEF Datagram, DatagramSet
  <2>4. udp'["clientB"] = udp["clientB"]
    BY <1>1, <2>1, <2>2, <2>3, Sends, SocketNames DEF OnlyAt, UdpTyped
  <2>5. CASE u = t
    <3>1. srv'[t].i = srv[t].i /\ srv[t].i = 0 /\ srv[t].granted = 0
      BY <1>1, <1>6, <2>1, <2>5 DEF StepA, Granting, Types, RecordSet
    <3>2. cl.thread # t
      BY <1>1, <3>1 DEF Meeting
    <3>3. QED
      BY <1>2, <3>1, <3>2 DEF Paced
  <2>6. CASE u # t
    BY <1>1, <1>2, <2>4, <2>6 DEF Paced
  <2>7. QED
    BY <2>5, <2>6
<1>7. ASSUME Closed(u) \/ (Received(u) /\ udp[u] # <<>>)
      PROVE  udp'["clientB"] = udp["clientB"]
  BY <1>1, <1>7, Receives, Closes DEF OnlyAt, UdpTyped
<1>8. CASE OutOfStep(u) \/ StepBTimesOut(u) \/ StepCTimesOut(u) \/ StepDTimesOut(u)
  <2>1. udp'["clientB"] = udp["clientB"]
    BY <1>7, <1>8 DEF OutOfStep, StepBTimesOut, StepCTimesOut, StepDTimesOut
  <2>2. CASE u = t
    <3>1. spc'[t] = "failed"
      BY <1>1, <1>8, <2>2 DEF OutOfStep, StepBTimesOut, StepCTimesOut, StepDTimesOut, ServerGoto, Types
    <3>2. QED
      BY <1>4, <3>1
  <2>3. QED
    BY <1>2, <1>5, <2>1, <2>2
<1>9. CASE Refuse(u)
  <2>1. udp'["clientB"] = udp["clientB"]
    BY <1>7, <1>9 DEF Refuse, InSequence
  <2>2. srv'[t].i = srv[t].i /\ spc'[t] = spc[t]
    BY <1>1, <1>9 DEF Refuse, Types, RecordSet
  <2>3. QED
    BY <1>5, <2>1, <2>2
<1>10. CASE Acknowledge(u)
  <2>1. cl.thread = u /\ Head(udp[u]) \in Numbered(u) /\ Head(udp[u]).n = srv[u].i
    BY <1>2, <1>10 DEF Acknowledge, InSequence
  <2>2. cpc \in StageB => srv[u].i <= cl.i
    BY <2>1 DEF Numbered
  <2>3. PICK d : /\ d = Datagram("ack", u, srv[u].i)
                 /\ \/ udp'["clientB"] = udp["clientB"]
                    \/ udp'["clientB"] = Append(udp["clientB"], d)
    BY <1>1, <1>10, AcknowledgeSends
  <2>4. srv[u] \in RecordSet
    BY DEF Stages, Types
  <2>5. d \in DatagramSet
    BY <2>3, <2>4 DEF Datagram, DatagramSet, RecordSet
  <2>6. Len(udp'["clientB"]) \in Nat /\ Len(udp'["clientB"]) <= Len(udp["clientB"]) + 1
    BY <1>3, <2>3, <2>5, SeqAppend
  <2>7. srv'[u].i = srv[u].i + 1 /\ spc' = spc
    BY <1>10, <2>4 DEF Acknowledge, Stages, Types, RecordSet
  <2>8. CASE u = t
    BY <1>1, <1>2, <1>3, <2>1, <2>2, <2>6, <2>7, <2>8 DEF Paced
  <2>9. CASE u # t
    BY <1>1, <1>2, <2>1, <2>9 DEF Paced
  <2>10. QED
    BY <2>8, <2>9
<1>11. CASE StepBEnds(u)
  <2>1. CASE u = t
    <3>1. spc'[t] = "c"
      BY <1>1, <1>11, <2>1 DEF StepBEnds, ServerGoto, Types
    <3>2. QED
      BY <1>4, <3>1
  <2>2. CASE u # t
    <3>1. cl.thread # t => Paced(t)'
      BY <1>1, <1>2, <2>2 DEF Paced
    <3>2. ASSUME cl.thread = t PROVE Paced(t)'
      <4>1. Linked(u) /\ srv[u] \in RecordSet
        BY DEF Stages, Types
      <4>2. srv[u].reply = "clientA"
        BY <2>2, <3>2, <4>1 DEF Linked, RecordSet
      <4>3. PICK d, rest : /\ rest = [udp EXCEPT ![u] = <<>>]
                           /\ udp' = rest \/ udp' = [rest EXCEPT !["clientA"] = Append(@, d)]
        BY <1>11, <4>2 DEF StepBEnds
      <4>4. udp'["clientB"] = udp["clientB"]
        BY <1>1, <4>3 DEF UdpTyped
      <4>5. QED
        BY <1>2, <1>5, <2>2, <4>4
    <3>3. QED
      BY <3>1, <3>2
  <2>3. QED
    BY <2>1, <2>2
<1>12. CASE StepCAccept(u) \/ ServerRead(u) \/ StepDCheck(u) \/ StepDEnds(u)
  <2>1. udp' = udp
    BY <1>12 DEF StepCAccept, ServerRead, StepDCheck, StepDEnds
  <2>2. CASE u = t
    <3>1. spc'[t] \in {"d", "done", "failed"}
      BY <1>1, <1>12, <2>2
      DEF StepCAccept, ServerRead, StepDCheck, StepDEnds, ServerGoto, Types
    <3>2. QED
      BY <1>4, <3>1
  <2>3. QED
    BY <1>2, <1>5, <2>1, <2>2
<1>13. QED
  BY <1>6, <1>8, <1>9, <1>10, <1>11, <1>12 DEF ThreadStep

LEMMA OtherPace ==
  ASSUME Stages, Pace, seen \subseteq seen',
         \/ \E t \in Threads : ReceiveA1(t) \/ Collect(t) \/ Reset(t)
         \/ Lose \/ Duplicate \/ Overtake \/ ServerDies \/ UNCHANGED vars,
         NEW t \in Threads
  PROVE  Paced(t)'
<1>1. /\ Paced(t) /\ UdpTyped /\ cl \in ClientSet /\ srv[t] \in RecordSet
      /\ Granting(t) /\ "clientB" \in Sockets
  BY SocketNames DEF Pace, Stages, Types, UdpTyped
<1>2. cpc' = cpc /\ cl' = cl /\ srv' = srv
  BY OtherMeets
<1>3. /\ cl.i \in Nat /\ srv[t].i \in Nat /\ Len(udp["clientB"]) \in Nat
  BY <1>1 DEF ClientSet, RecordSet, UdpTyped
<1>4. CASE udp'["clientB"] = udp["clientB"] /\ spc'[t] = spc[t]
  BY <1>1, <1>2, <1>4 DEF Paced
<1>5. ASSUME NEW u \in Threads, ReceiveA1(u) PROVE Paced(t)'
  <2>1. udp'["clientB"] = udp["clientB"]
    BY <1>1, <1>5, Receives, SocketNames DEF ReceiveA1, UdpTyped, OnlyAt
  <2>2. CASE u = t
    <3>1. spc[t] = "none" /\ srv[t].granted = 0
      BY <1>1, <1>5, <2>2 DEF ReceiveA1, Granting
    <3>2. cl.thread # t
      BY <3>1 DEF Stages, Meeting
    <3>3. QED
      BY <1>1, <1>2, <3>1, <3>2 DEF Paced
  <2>3. CASE u # t
    <3>1. spc'[t] = spc[t]
      BY <1>5, <2>3 DEF ReceiveA1, ServerGoto, Stages, Types
    <3>2. QED
      BY <1>4, <2>1, <3>1
  <2>4. QED
    BY <2>2, <2>3
<1>6. CASE Lose \/ Duplicate \/ Overtake
  <2>1. spc' = spc
    BY <1>6 DEF Lose, Duplicate, Overtake, server
  <2>2. /\ udp' \in [Sockets -> Seq(DatagramSet)]
        /\ \/ Len(udp'["clientB"]) <= Len(udp["clientB"])
           \/ \E i \in 1 .. Len(udp["clientB"]) :
                <<"duplicated", udp["clientB"][i].kind>> \in seen'
    BY <1>1, <1>6, Faults DEF UdpTyped
  <2>3. Len(udp'["clientB"]) \in Nat
    BY <1>1, <2>2
  <2>4. CASE Len(udp'["clientB"]) <= Len(udp["clientB"])
    BY <1>1, <1>2, <1>3, <2>1, <2>3, <2>4 DEF Paced
  <2>5. ASSUME NEW i \in 1 .. Len(udp["clientB"]),
               <<"duplicated", udp["clientB"][i].kind>> \in seen'
        PROVE  Paced(t)'
    <3>1. CASE cl.thread = t /\ spc[t] = "b"
      <4>1. udp["clientB"] \in Seq(Replies) /\ srv[t].granted = 1
        BY <1>1, <3>1 DEF Stages, Mail, Granting
      <4>2. udp["clientB"][i] \in Replies
        BY <2>5, <4>1
      <4>3. udp["clientB"][i].kind = "ack"
        BY <3>1, <4>1, <4>2 DEF Replies
      <4>4. QED
        BY <1>1, <1>2, <2>1, <2>5, <4>3 DEF Paced
    <3>2. CASE ~(cl.thread = t /\ spc[t] = "b")
      BY <1>1, <1>2, <2>1, <3>2 DEF Paced
    <3>3. QED
      BY <3>1, <3>2
  <2>6. QED
    BY <2>2, <2>4, <2>5
<1>7. CASE ServerDies
  BY <1>7 DEF ServerDies, Paced
<1>8. CASE UNCHANGED <<udp, spc>>
  BY <1>4, <1>8
<1>9. QED
  BY <1>5, <1>6, <1>7, <1>8 DEF Collect, Reset, vars, server

LEMMA AlwaysPace == Spec => []Pace
<1>1. Init => Pace
  BY DEF Init, Pace, Paced, StageB
<1>2. Stages /\ Stages' /\ Pace /\ [Next]_vars => Pace'
  <2> SUFFICES ASSUME Stages, Stages', Pace, [Next]_vars, NEW t \in Threads PROVE Paced(t)'
    BY DEF Pace
  <2>1. seen \subseteq seen'
    BY SeenGrows
  <2>2. QED
    BY <2>1, ClientPace, ThreadPace, OtherPace DEF Next
<1>3. QED
  BY <1>1, <1>2, AlwaysStages, PTL DEF Spec

(* However packets are lost, repeated or reordered, the server is at most    *)
(* one packet ahead of the client (it checks the sequence number,            *)
(* ServerThread.java:131), and the client, which looks at no acknowledgement *)
(* (Client.java:136), is ahead of the server only if one was duplicated.     *)
THEOREM StaysInStep == Spec => []InStep
<1>1. Stages /\ Pace => InStep
  <2> SUFFICES ASSUME Stages, Pace, cpc \in StageB, spc[cl.thread] = "b"
               PROVE  /\ srv[cl.thread].i <= cl.i + 1
                      /\ cl.i <= srv[cl.thread].i \/ <<"duplicated", "ack">> \in seen
    BY DEF InStep, StageB
  <2>1. cl.thread \in Threads
    BY DEF Stages, Meeting, Talking, StageB
  <2>2. Paced(cl.thread) /\ cl \in ClientSet /\ srv[cl.thread] \in RecordSet
    BY <2>1 DEF Pace, Stages, Types
  <2>3. cl.i \in Nat /\ srv[cl.thread].i \in Nat /\ Len(udp["clientB"]) \in Nat
    BY <2>2, SocketNames DEF ClientSet, RecordSet, Stages, Types
  <2>4. QED
    BY <2>1, <2>2, <2>3 DEF Paced
<1>2. QED
  BY <1>1, AlwaysStages, AlwaysPace, PTL

-----------------------------------------------------------------------------
(* Secrets are handed out in their order                                    *)

(* What may have been said after handing out g secrets: theirs only. *)
Sayable(g) == {w \in Words : (w = "secretC" => g >= 3) /\ (w = "secretD" => g = 4)}

(* Nothing else is on its way to the client or in its buffer. *)
Heard ==
  /\ \A t \in Threads : /\ down[t] \in Seq(Sayable(srv[t].granted))
                        /\ down[t] # <<>> => srv[t].granted >= 3
  /\ cl.thread \in Threads => cl.rd.buf \in Seq(Sayable(srv[cl.thread].granted))
  /\ cl.thread = NoThread => cl.rd.buf = <<>>
  /\ cpc = "c_read" => Len(cl.rd.buf) = 7
  /\ cpc = "d_read" => Len(cl.rd.buf) = 4

LEMMA Zeros ==
  ASSUME NEW n \in Nat, NEW S, "0" \in S
  PROVE  Reading(n).buf \in Seq(S)
BY DEF Reading, NewBytes

LEMMA SayableGrows ==
  ASSUME NEW g \in 0 .. 4, NEW h \in 0 .. 4, g <= h
  PROVE  Sayable(g) \subseteq Sayable(h)
BY DEF Sayable

LEMMA SayableSeq ==
  ASSUME NEW g \in 0 .. 4, NEW h \in 0 .. 4, g <= h, NEW q \in Seq(Sayable(g))
  PROVE  q \in Seq(Sayable(h))
<1>1. PICK S, T : S = Sayable(g) /\ T = Sayable(h)
  OBVIOUS
<1>2. S \subseteq T /\ q \in Seq(S)
  BY <1>1, SayableGrows
<1>3. QED
  BY <1>1, <1>2, SeqGrows

LEMMA SayableC ==
  ASSUME NEW g \in 0 .. 4, g >= 3
  PROVE  C2 \in Seq(Sayable(g))
<1>1. {"length", "secret", "step_id", "num2", "len2", "secretC", "c"} \subseteq Sayable(g)
  BY DEF Sayable, Words
<1>2. C2 \in Seq({"length", "secret", "step_id", "num2", "len2", "secretC", "c"})
  BY DEF C2, packetize, HeaderWords
<1>3. QED
  BY <1>1, <1>2, SeqGrows

LEMMA SayableD == D2 \in Seq(Sayable(4))
<1>1. {"length", "secret", "step_id", "secretD"} \subseteq Sayable(4)
  BY DEF Sayable, Words
<1>2. D2 \in Seq({"length", "secret", "step_id", "secretD"})
  BY DEF D2, packetize, HeaderWords
<1>3. QED
  BY <1>1, <1>2, SeqGrows

LEMMA ClientHears ==
  ASSUME Stages, Heard, ClientStep
  PROVE  Heard'
<1>1. /\ cl \in ClientSet /\ Meeting /\ down \in [Threads -> Seq(Words)] /\ NoThread \notin Threads
      /\ \A t \in Threads : "0" \in Sayable(srv[t].granted)
  BY StageAssumption DEF Stages, Types, Sayable, Words
<1>2. srv' = srv /\ ClientMoves /\ Meeting'
  BY ClientMeets
<1>3. \A t \in Threads : srv'[t].granted = srv[t].granted
  BY <1>2
<1>4. ASSUME down' = down, cl'.rd = cl.rd, cl'.thread = cl.thread,
             cpc' \notin {"c_read", "d_read"}
      PROVE  Heard'
  BY <1>2, <1>3, <1>4 DEF Heard
<1>5. CASE StepAReceive
  <2>1. cl'.rd = cl.rd /\ down' = down /\ cpc' \notin {"c_read", "d_read"}
    BY <1>1, <1>5 DEF StepAReceive, ClientSet, streams, ClientGoto
  <2>2. cl.rd.buf = <<>>
    BY <1>1, <1>5 DEF Heard, Meeting, StepAReceive
  <2>3. \A S : <<>> \in Seq(S)
    OBVIOUS
  <2>4. QED
    BY <1>2, <1>3, <2>1, <2>2, <2>3 DEF Heard
<1>6. CASE StepASend \/ StepBSend \/ StepBReceive \/ StepBTimeout \/ StepBFinal \/ StepBFinalTimeout
  <2>1. cl'.rd = cl.rd /\ cl'.thread = cl.thread
    BY <1>1, <1>6 DEF StepASend, StepBSend, StepBReceive, StepBTimeout, StepBFinal, StepBFinalTimeout,
      ClientSet
  <2>2. down' = down /\ cpc' \notin {"c_read", "d_read"}
    BY <1>6 DEF StepASend, StepBSend, StepBReceive, StepBTimeout, StepBFinal, StepBFinalTimeout,
      streams, ClientGoto
  <2>3. QED
    BY <1>4, <2>1, <2>2
<1>7. CASE Connect
  <2>1. down' = down /\ cl'.thread = cl.thread
        /\ \/ cl'.rd = cl.rd /\ cpc' = "crashed"
           \/ cl'.rd = C2Buffer /\ cpc' = "c_read"
    BY <1>1, <1>7 DEF Connect, streams, ClientSet, ClientGoto
  <2>2. CASE cl'.rd = cl.rd /\ cpc' = "crashed"
    BY <1>4, <2>1, <2>2
  <2>3. CASE cl'.rd = C2Buffer /\ cpc' = "c_read"
    <3>1. Len(C2Buffer.buf) = 7 /\ \A t \in Threads : C2Buffer.buf \in Seq(Sayable(srv[t].granted))
      BY <1>1, NewBuffer, Zeros, Packets DEF C2Buffer
    <3>2. cl.thread \in Threads
      BY <1>1, <1>7 DEF Meeting, Talking, Connect
    <3>3. QED
      BY <1>1, <1>2, <1>3, <2>1, <2>3, <3>1, <3>2 DEF Heard
  <2>4. QED
    BY <2>1, <2>2, <2>3
<1>8. CASE StepDAwait
  <2>1. down' = down /\ cl'.thread = cl.thread /\ cl'.rd = Reading(4) /\ cpc' = "d_read"
    BY <1>1, <1>8, Packets DEF StepDAwait, streams, ClientSet, ClientGoto
  <2>2. Len(Reading(4).buf) = 4 /\ \A t \in Threads : Reading(4).buf \in Seq(Sayable(srv[t].granted))
    BY <1>1, NewBuffer, Zeros
  <2>3. cl.thread \in Threads
    BY <1>1, <1>8 DEF Meeting, Talking, StepDAwait
  <2>4. QED
    BY <1>1, <1>2, <1>3, <2>1, <2>2, <2>3 DEF Heard
<1>9. CASE ClientRead
  <2>1. PICK t \in Threads : t = cl.thread
    BY <1>1, <1>9 DEF Meeting, Talking, ClientRead
  <2>2. PICK k \in 1 .. Len(down[t]) :
          /\ cl' = [cl EXCEPT !.rd = Filled(@, SubSeq(down[t], 1, k))]
          /\ down' = [down EXCEPT ![t] = SubSeq(@, k + 1, Len(@))]
    BY <1>9, <2>1 DEF ClientRead
  <2>3. down[t] \in Seq(Sayable(srv[t].granted)) /\ cl.rd.buf \in Seq(Sayable(srv[t].granted)) /\ Sayable(srv[t].granted) \subseteq Words
    BY <2>1 DEF Heard, Sayable
  <2>4. /\ SubSeq(down[t], 1, k) \in Seq(Sayable(srv[t].granted))
        /\ SubSeq(down[t], k + 1, Len(down[t])) \in Seq(Sayable(srv[t].granted))
    BY <2>2, <2>3, FirstWords
  <2>5. PICK rd : rd = Filled(cl.rd, SubSeq(down[t], 1, k))
    OBVIOUS
  <2>6. rd.buf \in Seq(Sayable(srv[t].granted)) /\ Len(rd.buf) = Len(cl.rd.buf)
    <3>1. cl.rd \in BufferSet
      BY <1>1 DEF ClientSet
    <3>2. QED
      BY <2>3, <2>4, <2>5, <3>1, FilledBuffer
  <2>7. cl'.rd = rd /\ cl'.thread = cl.thread /\ cpc' = cpc
    BY <1>1, <1>9, <2>2, <2>5 DEF ClientRead, ClientSet
  <2>8. down[t] # <<>>
    BY <2>2, <2>3
  <2>9. \A u \in Threads : /\ down'[u] \in Seq(Sayable(srv[u].granted))
                           /\ down'[u] # <<>> => srv[u].granted >= 3
    BY <1>1, <2>2, <2>4, <2>8 DEF Heard
  <2>10. QED
    BY <1>1, <1>2, <1>3, <2>1, <2>6, <2>7, <2>9 DEF Heard
<1>10. CASE StepC \/ StepDSend \/ StepDPrint
  <2>1. cl'.rd = cl.rd /\ cl'.thread = cl.thread
    BY <1>1, <1>10 DEF StepC, StepDSend, StepDPrint, ClientSet
  <2>2. down' = down /\ cpc' \notin {"c_read", "d_read"}
    BY <1>10 DEF StepC, StepDSend, StepDPrint, streams, ClientGoto
  <2>3. QED
    BY <1>4, <2>1, <2>2
<1>11. QED
  BY <1>5, <1>6, <1>7, <1>8, <1>9, <1>10 DEF ClientStep, ClientWorks

LEMMA ThreadSpeaks ==
  ASSUME Stages, Stages', Heard, NEW u \in Threads, ThreadStep(u)
  PROVE  Heard'
<1>1. /\ cl \in ClientSet /\ down \in [Threads -> Seq(Words)] /\ down' \in [Threads -> Seq(Words)]
      /\ \A t \in Threads : srv[t] \in RecordSet /\ srv'[t] \in RecordSet
  BY DEF Stages, Types
<1>2. \A t \in Threads : srv[t].granted \in 0 .. 4 /\ srv'[t].granted \in 0 .. 4
  BY <1>1 DEF RecordSet
<1>3. /\ \A t \in Threads \ {u} : srv'[t] = srv[t]
      /\ cpc' = cpc /\ cl' = cl
      /\ srv'[u].granted >= srv[u].granted
  BY ThreadFrame, ThreadMail DEF Stages
<1>4. ASSUME NEW t \in Threads, NEW q, q \in Seq(Sayable(srv[t].granted))
      PROVE  q \in Seq(Sayable(srv'[t].granted)) /\ srv'[t].granted >= srv[t].granted
  <2>1. PICK g, h : g = srv[t].granted /\ h = srv'[t].granted
    OBVIOUS
  <2>2. g \in 0 .. 4 /\ h \in 0 .. 4 /\ g <= h
    BY <1>2, <1>3, <2>1
  <2>3. q \in Seq(Sayable(h))
    BY <1>4, <2>1, <2>2, SayableSeq
  <2>4. QED
    BY <2>1, <2>2, <2>3
<1>5. ASSUME \A t \in Threads : /\ down'[t] \in Seq(Sayable(srv'[t].granted))
                                /\ down'[t] # <<>> => srv'[t].granted >= 3
      PROVE  Heard'
  <2>1. cl.thread \in Threads => cl.rd.buf \in Seq(Sayable(srv'[cl.thread].granted))
    BY <1>4 DEF Heard
  <2>2. QED
    BY <1>3, <1>5, <2>1 DEF Heard
<1>6. ASSUME NEW t \in Threads, down'[t] = down[t]
      PROVE  down'[t] \in Seq(Sayable(srv'[t].granted)) /\ (down'[t] # <<>> => srv'[t].granted >= 3)
  <2>1. down[t] \in Seq(Sayable(srv[t].granted)) /\ (down[t] # <<>> => srv[t].granted >= 3)
    BY DEF Heard
  <2>2. down[t] \in Seq(Sayable(srv'[t].granted)) /\ srv'[t].granted >= srv[t].granted
    BY <1>4, <2>1
  <2>3. QED
    BY <1>2, <1>6, <2>1, <2>2
<1>7. ASSUME NEW p, down' = [down EXCEPT ![u] = @ \o p], p \in Seq(Sayable(srv'[u].granted)),
             srv'[u].granted >= 3
      PROVE  Heard'
  <2>1. PICK q : q = down[u]
    OBVIOUS
  <2>2. q \in Seq(Sayable(srv'[u].granted))
    BY <1>4, <2>1 DEF Heard
  <2>3. q \o p \in Seq(Sayable(srv'[u].granted))
    BY <1>7, <2>2, ConcatProperties
  <2>4. down'[u] = q \o p /\ \A t \in Threads \ {u} : down'[t] = down[t]
    BY <1>1, <1>7, <2>1
  <2>5. QED
    BY <1>5, <1>6, <1>7, <2>3, <2>4
<1>8. CASE down' = down
  BY <1>5, <1>6, <1>8
<1>9. CASE StepCAccept(u)
  <2>1. PICK p : p = C2
    OBVIOUS
  <2>2. down' = [down EXCEPT ![u] = @ \o p]
    BY <1>9, <2>1 DEF StepCAccept
  <2>3. srv'[u].granted = 3
    BY <1>1, <1>9 DEF StepCAccept, Stages, Types, RecordSet
  <2>4. p \in Seq(Sayable(srv'[u].granted))
    BY <1>2, <2>1, <2>3, SayableC
  <2>5. srv'[u].granted >= 3
    BY <2>3
  <2>6. QED
    BY <1>7, <2>2, <2>4, <2>5, Zenon
<1>10. CASE StepDEnds(u)
  <2>1. PICK p : p = D2
    OBVIOUS
  <2>2. down' = [down EXCEPT ![u] = @ \o p]
    BY <1>10, <2>1 DEF StepDEnds
  <2>3. srv'[u].granted = 4
    BY <1>1, <1>10 DEF StepDEnds, Stages, Types, RecordSet
  <2>4. p \in Seq(Sayable(srv'[u].granted))
    BY <2>1, <2>3, SayableD
  <2>5. srv'[u].granted >= 3
    BY <2>3
  <2>6. QED
    BY <1>7, <2>2, <2>4, <2>5, Zenon
<1>11. QED
  BY <1>8, <1>9, <1>10 DEF ThreadStep, StepA, OutOfStep, Refuse, Acknowledge, StepBTimesOut, StepBEnds,
    StepCTimesOut, ServerRead, StepDCheck, StepDTimesOut, streams

LEMMA OtherHeard ==
  ASSUME Stages, Heard,
         \/ \E t \in Threads : ReceiveA1(t) \/ Collect(t) \/ Reset(t)
         \/ Lose \/ Duplicate \/ Overtake \/ ServerDies \/ UNCHANGED vars
  PROVE  Heard'
<1>1. cpc' = cpc /\ cl' = cl /\ srv' = srv
  BY OtherMeets
<1>2. \A t \in Threads : srv'[t].granted = srv[t].granted
  BY <1>1
<1>3. \A t \in Threads : down'[t] = down[t] \/ down'[t] = <<>>
  BY DEF Stages, Types, ReceiveA1, Collect, Reset, Lose, Duplicate, Overtake, ServerDies, vars, streams
<1>4. \A S : <<>> \in Seq(S)
  OBVIOUS
<1>5. QED
  BY <1>1, <1>2, <1>3, <1>4 DEF Heard

LEMMA AlwaysHeard == Spec => []Heard
<1>1. Init => Heard
  <2> SUFFICES ASSUME Init PROVE Heard
    OBVIOUS
  <2>1. Reading(0).buf = <<>>
    BY NewBuffer DEF BufferSet
  <2>2. \A S : <<>> \in Seq(S)
    OBVIOUS
  <2>3. QED
    BY <2>1, <2>2, StageAssumption DEF Init, Heard
<1>2. Stages /\ Stages' /\ Heard /\ [Next]_vars => Heard'
  BY ClientHears, ThreadSpeaks, OtherHeard DEF Next
<1>3. QED
  BY <1>1, <1>2, AlwaysStages, PTL DEF Spec

(* The client takes what it has in its buffer for packet c2. *)
C2Whole ==
  SubSeq(cl.rd.buf, SIZE_HEADER + 1, Len(cl.rd.buf)) = SubSeq(C2, SIZE_HEADER + 1, Len(C2))

LEMMA Learnt ==
  ASSUME StepC
  PROVE  \/ cpc' = "crashed" /\ cl' = cl /\ ~C2Whole
         \/ \E num \in Nums2, len \in Lens2, w \in BOOLEAN, g \in {{3}, {}} :
              /\ g = (IF cl.rd.buf[SIZE_HEADER + 3] = "secretC" THEN {3} ELSE {})
              /\ w = C2Whole
              /\ w => num = srv[cl.thread].num2 /\ len = srv[cl.thread].len2
              /\ cl' = [cl EXCEPT !.num = num, !.len = len, !.whole = w, !.i = 0,
                                  !.known = @ \cup g]
              /\ cpc' = "d_send"
<1>1. C2Whole \in BOOLEAN
  BY DEF C2Whole
<1>2. \/ cpc' = "crashed" /\ cl' = cl /\ ~C2Whole
      \/ \E num \in Nums2, len \in Lens2 :
           /\ C2Whole => num = srv[cl.thread].num2 /\ len = srv[cl.thread].len2
           /\ cl' = [cl EXCEPT !.num = num, !.len = len, !.whole = C2Whole, !.i = 0,
                  !.known = @ \cup (IF cl.rd.buf[SIZE_HEADER + 3] = "secretC" THEN {3} ELSE {})]
           /\ cpc' = "d_send"
  BY Zenon DEF StepC, C2Whole, ClientGoto
<1>3. PICK g \in {{3}, {}} :
        g = (IF cl.rd.buf[SIZE_HEADER + 3] = "secretC" THEN {3} ELSE {})
  OBVIOUS
<1>4. PICK w \in BOOLEAN : w = C2Whole
  BY <1>1
<1>5. QED
  BY <1>2, <1>3, <1>4, Zenon

(* What a step does to the state of StageLadder. *)
Step == [Ladder!LNext]_(Ladder!lvars)

LEMMA ClientClimbs ==
  ASSUME Stages, Heard, ClientStep
  PROVE  Step
<1>1. /\ cl \in ClientSet /\ Meeting /\ NoThread \notin Threads
      /\ \A t \in Threads : srv[t].granted \in 0 .. 4
  BY StageAssumption DEF Stages, Types, RecordSet
<1>2. srv' = srv
  BY ClientMeets
<1>3. ASSUME cl'.thread = cl.thread, cl'.known = cl.known PROVE Step
  BY <1>2, <1>3 DEF Step, Ladder!lvars
<1>4. ASSUME cl.thread \in Threads, cl'.thread = cl.thread,
             NEW s \in 2 .. srv[cl.thread].granted, cl'.known = cl.known \cup {s}
      PROVE  Step
  <2>1. [t \in Threads |-> srv[t].granted][cl.thread] = srv[cl.thread].granted
    BY <1>4
  <2>2. Ladder!Learn(s)
    BY <1>1, <1>2, <1>4, <2>1 DEF Ladder!Learn
  <2>3. s \in 2 .. 4
    BY <1>1, <1>4
  <2>4. QED
    BY <2>2, <2>3 DEF Step, Ladder!LNext
<1>5. CASE StepASend \/ StepBSend \/ StepBReceive \/ StepBTimeout \/ StepBFinalTimeout
           \/ Connect \/ ClientRead \/ StepDSend \/ StepDAwait
  <2>1. cl'.thread = cl.thread /\ cl'.known = cl.known
    BY <1>1, <1>5 DEF StepASend, StepBSend, StepBReceive, StepBTimeout, StepBFinalTimeout,
      Connect, ClientRead, StepDSend, StepDAwait, ClientSet
  <2>2. QED
    BY <1>3, <2>1
<1>6. CASE StepAReceive
  <2>1. PICK d : d = Head(udp["clientA"])
    OBVIOUS
  <2>2. d \in Answers
    <3>1. udp["clientA"] \in Seq(Answers) /\ udp["clientA"] # <<>>
      BY <1>6 DEF Stages, Mail, StepAReceive
    <3>2. QED
      BY <2>1, <3>1, SeqTail
  <2>3. CASE cl' = cl
    BY <1>3, <2>3
  <2>4. CASE cl' = [cl EXCEPT !.thread = d.thread, !.num = d.n, !.known = {1}]
    <3>1. cl'.thread = d.thread /\ cl'.known = {1} /\ cl.thread = NoThread
      BY <1>1, <1>6, <2>4 DEF ClientSet, Meeting, StepAReceive
    <3>2. d.thread \in Threads /\ srv[d.thread].granted >= 1
      BY <2>2 DEF Answers
    <3>3. [t \in Threads |-> srv[t].granted][d.thread] = srv[d.thread].granted
      BY <3>2
    <3>4. Ladder!Meet(d.thread)
      BY <1>2, <3>1, <3>2, <3>3 DEF Ladder!Meet
    <3>5. QED
      BY <3>2, <3>4 DEF Step, Ladder!LNext
  <2>5. QED
    BY <1>6, <2>1, <2>3, <2>4 DEF StepAReceive
<1>7. CASE StepBFinal
  <2>1. CASE cl' = cl
    BY <1>3, <2>1
  <2>2. CASE cl' = [cl EXCEPT !.known = @ \cup {2}] /\ Head(udp["clientB"]).kind = "b2"
    <3>1. cl'.thread = cl.thread /\ cl'.known = cl.known \cup {2}
      BY <1>1, <2>2 DEF ClientSet
    <3>2. udp["clientB"] \in Seq(Replies) /\ udp["clientB"] # <<>>
      BY <1>7 DEF Stages, Mail, StepBFinal
    <3>3. Head(udp["clientB"]) \in Replies
      BY <3>2, SeqTail
    <3>4. cl.thread \in Threads /\ srv[cl.thread].granted >= 2
      BY <2>2, <3>3 DEF Replies
    <3>5. 2 \in 2 .. srv[cl.thread].granted
      BY <1>1, <3>4
    <3>6. QED
      BY <1>4, <3>1, <3>4, <3>5
  <2>3. QED
    BY <1>7, <2>1, <2>2 DEF StepBFinal
<1>8. CASE StepC
  <2>1. cl.thread \in Threads /\ Len(cl.rd.buf) = 7 /\ cl.rd.buf \in Seq(Sayable(srv[cl.thread].granted))
    BY <1>1, <1>8 DEF Heard, Meeting, Talking, StepC
  <2>2. cl.rd.buf[6] \in Sayable(srv[cl.thread].granted)
    BY <2>1
  <2>3. CASE cl' = cl
    BY <1>3, <2>3
  <2>4. CASE cl' # cl
    <3>1. PICK num \in Nums2, len \in Lens2, w \in BOOLEAN, g \in {{3}, {}} :
            /\ g = (IF cl.rd.buf[SIZE_HEADER + 3] = "secretC" THEN {3} ELSE {})
            /\ cl' = [cl EXCEPT !.num = num, !.len = len, !.whole = w, !.i = 0,
                                !.known = @ \cup g]
      BY <1>8, <2>4, Learnt, Zenon
    <3>2. cl'.thread = cl.thread /\ cl'.known = cl.known \cup g
      BY <1>1, <3>1 DEF ClientSet
    <3>3. g = IF cl.rd.buf[6] = "secretC" THEN {3} ELSE {}
      BY <3>1, Packets
    <3>4. CASE cl.rd.buf[6] = "secretC"
      <4>1. srv[cl.thread].granted >= 3
        BY <2>2, <3>4 DEF Sayable
      <4>2. 3 \in 2 .. srv[cl.thread].granted
        BY <1>1, <2>1, <4>1
      <4>3. QED
        BY <1>4, <2>1, <3>2, <3>3, <3>4, <4>2
    <3>5. CASE cl.rd.buf[6] # "secretC"
      BY <1>3, <3>2, <3>3, <3>5
    <3>6. QED
      BY <3>4, <3>5
  <2>5. QED
    BY <2>3, <2>4
<1>9. CASE StepDPrint
  <2>1. cl.thread \in Threads /\ Len(cl.rd.buf) = 4 /\ cl.rd.buf \in Seq(Sayable(srv[cl.thread].granted))
    BY <1>1, <1>9 DEF Heard, Meeting, Talking, StepDPrint
  <2>2. cl.rd.buf[4] \in Sayable(srv[cl.thread].granted)
    BY <2>1
  <2>3. /\ cl'.thread = cl.thread
        /\ cl'.known = IF cl.rd.buf[4] = "secretD" THEN cl.known \cup {4} ELSE cl.known
    BY <1>1, <1>9, Packets DEF StepDPrint, ClientSet
  <2>4. CASE cl.rd.buf[4] = "secretD"
    <3>1. srv[cl.thread].granted = 4
      BY <2>2, <2>4 DEF Sayable
    <3>2. 4 \in 2 .. srv[cl.thread].granted
      BY <3>1
    <3>3. QED
      BY <1>4, <2>1, <2>3, <2>4, <3>2
  <2>5. CASE cl.rd.buf[4] # "secretD"
    BY <1>3, <2>3, <2>5
  <2>6. QED
    BY <2>4, <2>5
<1>10. QED
  BY <1>5, <1>6, <1>7, <1>8, <1>9 DEF ClientStep, ClientWorks

LEMMA ThreadClimbs ==
  ASSUME Stages, NEW u \in Threads, ThreadStep(u)
  PROVE  Step
<1>1. /\ \A t \in Threads \ {u} : srv'[t] = srv[t]
      /\ cl' = cl
  BY ThreadFrame
<1>2. /\ srv[u] \in RecordSet /\ Granting(u) /\ Linked(u) /\ srv \in [Threads -> RecordSet]
  BY DEF Stages, Types
<1>3. ASSUME NEW g \in 0 .. 3, srv[u].granted = g, srv'[u].granted = g + 1,
             g >= 2 => cl.thread = u
      PROVE  Step
  <2>1. PICK before, after : /\ before = [t \in Threads |-> srv[t].granted]
                             /\ after = [t \in Threads |-> srv'[t].granted]
    OBVIOUS
  <2>2. before[u] = g /\ after[u] = g + 1 /\ \A t \in Threads \ {u} : after[t] = before[t]
    BY <1>1, <1>3, <2>1
  <2>3. after = [before EXCEPT ![u] = @ + 1]
    BY <2>1, <2>2
  <2>4. Ladder!Grant(u)
    BY <1>1, <1>3, <2>1, <2>2, <2>3 DEF Ladder!Grant
  <2>5. QED
    BY <2>4 DEF Step, Ladder!LNext
<1>4. ASSUME srv'[u].granted = srv[u].granted PROVE Step
  <2>1. \A t \in Threads : srv'[t].granted = srv[t].granted
    BY <1>1, <1>4
  <2>2. [t \in Threads |-> srv'[t].granted] = [t \in Threads |-> srv[t].granted]
    BY <2>1
  <2>3. QED
    BY <1>1, <2>2 DEF Step, Ladder!lvars
<1>5. CASE StepA(u)
  <2>1. srv[u].granted = 0 /\ srv'[u].granted = 0 + 1
    BY <1>2, <1>5 DEF StepA, Granting, RecordSet
  <2>2. QED
    BY <1>3, <2>1
<1>6. CASE StepBEnds(u)
  <2>1. srv[u].granted = 1 /\ srv'[u].granted = 1 + 1
    BY <1>2, <1>6 DEF StepBEnds, Granting, RecordSet
  <2>2. QED
    BY <1>3, <2>1
<1>7. CASE StepCAccept(u)
  <2>1. srv[u].granted = 2 /\ srv'[u].granted = 2 + 1 /\ cl.thread = u
    BY <1>2, <1>7 DEF StepCAccept, Acceptable, Granting, Linked, RecordSet
  <2>2. QED
    BY <1>3, <2>1
<1>8. CASE StepDEnds(u)
  <2>1. srv[u].granted = 3 /\ srv'[u].granted = 3 + 1 /\ cl.thread = u
    BY <1>2, <1>8 DEF StepDEnds, Granting, Linked, RecordSet
  <2>2. QED
    BY <1>3, <2>1
<1>9. CASE \/ OutOfStep(u) \/ StepBTimesOut(u) \/ StepCTimesOut(u) \/ StepDTimesOut(u)
           \/ Refuse(u) \/ Acknowledge(u) \/ ServerRead(u) \/ StepDCheck(u)
  <2>1. srv'[u].granted = srv[u].granted
    BY <1>2, <1>9 DEF OutOfStep, StepBTimesOut, StepCTimesOut, StepDTimesOut, Refuse, Acknowledge,
      ServerRead, StepDCheck, RecordSet
  <2>2. QED
    BY <1>4, <2>1
<1>10. QED
  BY <1>5, <1>6, <1>7, <1>8, <1>9 DEF ThreadStep

(* Secrets are handed out one after the other, C and D only to the client    *)
(* that was given A by the same thread, and the client knows none that was   *)
(* not handed out, for any number of threads and whatever the network does   *)
(* (Server.java:34, Client.java:51).                                         *)
THEOREM HandsOutInOrder == Spec => ClimbsLadder
<1>1. Init => Ladder!LInit
  BY DEF Init, Ladder!LInit
<1>2. Stages /\ Heard /\ [Next]_vars => [Ladder!LNext]_(Ladder!lvars)
  <2> SUFFICES ASSUME Stages, Heard, [Next]_vars PROVE Step
    BY DEF Step
  <2>1. CASE \/ \E t \in Threads : ReceiveA1(t) \/ Collect(t) \/ Reset(t)
             \/ Lose \/ Duplicate \/ Overtake \/ ServerDies \/ UNCHANGED vars
    <3>1. cl' = cl /\ srv' = srv
      BY <2>1, OtherMeets
    <3>2. QED
      BY <3>1 DEF Step, Ladder!lvars
  <2>2. QED
    BY <2>1, ClientClimbs, ThreadClimbs DEF Next
<1>3. QED
  BY <1>1, <1>2, AlwaysStages, AlwaysHeard, PTL DEF Spec, ClimbsLadder, Ladder!LSpec

-----------------------------------------------------------------------------
(* What the server accepts                                                  *)

LEMMA OneMore == ASSUME NEW a \in Nat, NEW n \in Nat PROVE (a + 1) * n = a * n + n /\ a * n \in Nat
OBVIOUS

LEMMA AllTaken ==
  ASSUME NEW a \in Nat, NEW b \in Nat, NEW x \in Nat, NEW y \in Nat, NEW n \in Nat \ {0},
         a <= b, x + y + b * n = a * n
  PROVE  a = b /\ x = 0 /\ y = 0
<1>1. PICK c \in Nat : b = a + c
  <2>1. b - a \in Nat /\ b = a + (b - a)
    OBVIOUS
  <2>2. QED
    BY <2>1
<1>2. b * n = a * n + c * n
  BY <1>1
<1>3. a * n \in Nat /\ c * n \in Nat
  OBVIOUS
<1>4. x + y + c * n = 0
  BY <1>2, <1>3
<1>5. x = 0 /\ y = 0 /\ c * n = 0
  BY <1>3, <1>4
<1>6. c = 0
  BY <1>5
<1>7. QED
  BY <1>1, <1>5, <1>6

(* The client is connected, or was. *)
Connected == {"c_read", "d_send", "d_read", "printed", "crashed"}

(* It has gone on to stage D. *)
StageD == {"d_send", "d_read", "printed"}

(* The client goes on to stage D only after its thread entered it. *)
Started == srv[cl.thread].granted >= 3 \/ spc[cl.thread] = "failed"

Committed ==
  /\ cl.whole => cpc \in StageD \cup {"crashed"} /\ cl.thread \in Threads /\ Started
  /\ cpc = "c_read" /\ srv[cl.thread].granted < 3 => cl.rd.total = 0
  /\ cpc \in StageD => Started

Length(t) == SIZE_HEADER + srv[t].len2

(* Nothing of a d1 packet is lost between the two: what is on its way, what  *)
(* the thread has read of the next packet and what it has accepted are what  *)
(* the client sent.  Of a client that had no whole c2 packet nothing is      *)
(* accepted.                                                                 *)
Balanced(t) ==
  /\ Len(srv[t].rd.buf) = Length(t)
  /\ cl.whole =>
       /\ cl.num = srv[t].num2 /\ cl.len = srv[t].len2
       /\ Len(up[t]) + srv[t].rd.total + srv[t].i * Length(t) = cl.i * Length(t)
  /\ ~cl.whole =>
       /\ up[t] \in Seq({"bad"}) /\ srv[t].i = 0
       /\ srv[t].rd.total > 0 => srv[t].rd.buf[1] = "bad"
       /\ cpc = "c_read" => up[t] = <<>> /\ srv[t].rd.total = 0

Counted(t) ==
  /\ up[t] # <<>> => cl.thread = t
  /\ spc[t] \in {"none", "a", "b", "c"} => up[t] = <<>>
  /\ srv[t].granted = 4 => spc[t] = "done"
  /\ link[t] = "connected" \/ srv[t].granted >= 3 => cpc \in Connected
  /\ spc[t] = "done" => srv[t].i = srv[t].num2
  /\ spc[t] \in {"d", "done"} => Balanced(t)

Accounts == Committed /\ \A t \in Threads : Counted(t)

LEMMA ClientAccounts ==
  ASSUME Stages, Stages', Heard, Accounts, ClientStep
  PROVE  Accounts'
<1>1. /\ cl \in ClientSet /\ cl' \in ClientSet /\ Meeting /\ NoThread \notin Threads
      /\ link \in [Threads -> {"none", "listening", "connected", "closed"}]
      /\ up \in [Threads -> Seq(Words)]
      /\ \A t \in Threads : srv[t] \in RecordSet /\ Granting(t) /\ Linked(t)
      /\ spc \in [Threads -> ServerSteps]
  BY StageAssumption DEF Stages, Types
<1>2. srv' = srv /\ spc' = spc /\ ClientMoves /\ Meeting'
  BY ClientMeets
<1>3. \A t \in Threads : srv[t].granted \in 0 .. 4
  BY <1>1 DEF RecordSet
<1>4. \A t \in Threads : cl.thread = t => cl'.thread = t
  BY <1>1, <1>2 DEF ClientMoves
<1>5. ASSUME cpc \notin Connected, cpc' \notin StageD \cup {"c_read"}, cl'.whole = cl.whole,
             UNCHANGED <<link, up>>
      PROVE  Accounts'
  <2>1. ~cl.whole
    BY <1>5 DEF Accounts, Committed, Connected, StageD
  <2>2. Committed'
    BY <1>5, <2>1 DEF Committed, StageD
  <2>3. ASSUME NEW t \in Threads PROVE Counted(t)'
    <3>1. Counted(t) /\ Granting(t)
      BY <1>1 DEF Accounts
    <3>2. spc[t] \notin {"d", "done"}
      BY <1>5, <3>1 DEF Counted, Granting
    <3>3. QED
      BY <1>2, <1>4, <1>5, <3>1, <3>2 DEF Counted
  <2>4. QED
    BY <2>2, <2>3 DEF Accounts
<1>6. ASSUME cl' = cl, UNCHANGED <<link, up>>, cpc' = "crashed" PROVE Accounts'
  <2>1. Committed'
    BY <1>2, <1>6 DEF Accounts, Committed, Started, StageD
  <2>2. \A t \in Threads : Counted(t)'
    BY <1>2, <1>6 DEF Accounts, Counted, Balanced, Length, Connected
  <2>3. QED
    BY <2>1, <2>2 DEF Accounts
<1>7. ASSUME UNCHANGED <<link, up>>, cpc \in Connected, cpc' \in Connected, cpc' = "c_read" => cpc = "c_read",
             cl'.thread = cl.thread, cl'.whole = cl.whole, cl'.i = cl.i, cl'.num = cl.num,
             cl'.len = cl.len, Committed'
      PROVE  Accounts'
  <2>1. ASSUME NEW t \in Threads PROVE Counted(t)'
    <3>1. Balanced(t) => Balanced(t)'
      BY <1>2, <1>7 DEF Balanced, Length
    <3>2. QED
      BY <1>2, <1>7, <3>1 DEF Accounts, Counted
  <2>2. QED
    BY <1>7, <2>1 DEF Accounts
<1>8. CASE \/ StepASend \/ StepAReceive \/ StepBSend \/ StepBReceive \/ StepBTimeout
           \/ StepBFinal \/ StepBFinalTimeout
  <2>1. cl'.whole = cl.whole
    BY <1>1, <1>8 DEF StepASend, StepAReceive, StepBSend, StepBReceive, StepBTimeout, StepBFinal,
      StepBFinalTimeout, ClientSet
  <2>2. /\ cpc \notin Connected /\ cpc' \notin StageD \cup {"c_read"} /\ UNCHANGED <<link, up>>
    BY <1>8 DEF StepASend, StepAReceive, StepBSend, StepBReceive, StepBTimeout, StepBFinal,
      StepBFinalTimeout, ClientGoto, Connected, StageD, server, streams
  <2>3. QED
    BY <1>5, <2>1, <2>2
<1>9. CASE Connect
  <2>1. CASE cl' = cl /\ link' = link /\ cpc' = "crashed"
    BY <1>6, <1>9, <2>1 DEF Connect, streams
  <2>2. CASE /\ link[cl.thread] = "listening" /\ cpc' = "c_read"
             /\ link' = [link EXCEPT ![cl.thread] = "connected"]
             /\ cl' = [cl EXCEPT !.rd = C2Buffer]
    <3>1. cl.thread \in Threads /\ cpc = "connect" /\ up' = up
      BY <1>1, <1>9 DEF Connect, Meeting, Talking, streams
    <3>2. cl'.whole = cl.whole /\ cl'.thread = cl.thread /\ cl'.rd.total = 0
      <4>1. C2Buffer.total = 0
        BY NewBuffer, Packets DEF C2Buffer
      <4>2. cl'.whole = cl.whole /\ cl'.thread = cl.thread /\ cl'.rd = C2Buffer
        BY <1>1, <2>2 DEF ClientSet
      <4>3. QED
        BY <4>1, <4>2
    <3>3. ~cl.whole
      BY <3>1 DEF Accounts, Committed, StageD
    <3>4. Committed'
      BY <2>2, <3>2, <3>3 DEF Committed, StageD
    <3>5. ASSUME NEW t \in Threads PROVE Counted(t)'
      <4>1. Counted(t) /\ Granting(t)
        BY <1>1 DEF Accounts
      <4>2. spc[t] \notin {"d", "done"}
        BY <3>1, <4>1 DEF Counted, Granting, Connected
      <4>3. QED
        BY <1>2, <2>2, <3>1, <3>2, <4>1, <4>2 DEF Counted, Connected
    <3>6. QED
      BY <3>4, <3>5 DEF Accounts
  <2>3. QED
    BY <1>9, <2>1, <2>2 DEF Connect, ClientGoto
<1>10. CASE ClientRead
  <2>1. PICK t \in Threads : t = cl.thread
    BY <1>1, <1>10 DEF Meeting, Talking, ClientRead
  <2>2. srv[t].granted >= 3
    <3>1. PICK k \in 1 .. Len(down[t]) : TRUE
      BY <1>10, <2>1 DEF ClientRead
    <3>2. down[t] # <<>>
      BY <3>1
    <3>3. QED
      BY <3>2 DEF Heard
  <2>3. PICK rd : cl' = [cl EXCEPT !.rd = rd]
    BY <1>10 DEF ClientRead
  <2>4. /\ cl'.thread = cl.thread /\ cl'.whole = cl.whole /\ cl'.i = cl.i /\ cl'.num = cl.num
        /\ cl'.len = cl.len
    BY <1>1, <2>3 DEF ClientSet
  <2>5. UNCHANGED <<link, up, cpc>> /\ cpc \in {"c_read", "d_read"}
    BY <1>10 DEF ClientRead, server
  <2>6. Committed'
    BY <1>2, <1>3, <2>1, <2>2, <2>4, <2>5 DEF Accounts, Committed, Started
  <2>7. QED
    BY <1>7, <2>4, <2>5, <2>6 DEF Connected
<1>11. CASE StepDAwait \/ StepDPrint
  <2>1. /\ cl'.thread = cl.thread /\ cl'.whole = cl.whole /\ cl'.i = cl.i /\ cl'.num = cl.num
        /\ cl'.len = cl.len
    BY <1>1, <1>11 DEF StepDAwait, StepDPrint, ClientSet
  <2>2. UNCHANGED <<link, up>> /\ cpc \in StageD /\ cpc' \in StageD
    BY <1>11 DEF StepDAwait, StepDPrint, ClientGoto, StageD, server, streams
  <2>3. Committed'
    BY <1>2, <2>1, <2>2 DEF Accounts, Committed, Started, StageD
  <2>4. QED
    BY <1>7, <2>1, <2>2, <2>3 DEF Connected, StageD
<1>12. CASE StepC
  <2>1. PICK t \in Threads : t = cl.thread
    BY <1>1, <1>12 DEF Meeting, Talking, StepC
  <2>2. cpc = "c_read" /\ UNCHANGED <<link, up>> /\ ~cl.whole /\ Committed /\ Counted(t)
    BY <1>12, <2>1 DEF StepC, Accounts, Committed, StageD, server, streams
  <2>3. Started
    <3>1. CASE srv[t].granted < 3
      <4>1. cl.rd.total = 0 /\ Len(cl.rd.buf) = 7
        BY <2>1, <2>2, <3>1 DEF Committed, Heard
      <4>2. WantsMore(cl.rd)
        BY <4>1, Packets DEF WantsMore
      <4>3. link[t] = "closed"
        BY <1>12, <2>1, <4>2 DEF StepC, ClientReadEnds
      <4>4. spc[t] = "failed"
        BY <1>1, <3>1, <4>3 DEF Linked, Granting
      <4>5. QED
        BY <2>1, <4>4 DEF Started
    <3>2. QED
      BY <1>3, <2>1, <3>1 DEF Started
  <2>4. CASE cpc' = "crashed" /\ cl' = cl
    BY <1>6, <2>2, <2>4
  <2>5. ASSUME NEW num \in Nums2, NEW len \in Lens2, NEW w \in BOOLEAN, NEW g,
               w => num = srv[t].num2 /\ len = srv[t].len2,
               cl' = [cl EXCEPT !.num = num, !.len = len, !.whole = w, !.i = 0, !.known = @ \cup g],
               cpc' = "d_send"
        PROVE  Accounts'
    <3>1. /\ cl'.thread = t /\ cl'.whole = w /\ cl'.i = 0 /\ cl'.num = num /\ cl'.len = len
      BY <1>1, <2>1, <2>5 DEF ClientSet
    <3>2. Committed'
      BY <1>2, <2>1, <2>3, <2>5, <3>1 DEF Committed, Started, StageD
    <3>3. ASSUME spc[t] \in {"d", "done"} PROVE Balanced(t)'
      <4>1. up[t] = <<>> /\ srv[t].rd.total = 0 /\ srv[t].i = 0 /\ Len(srv[t].rd.buf) = Length(t)
        BY <2>2, <3>3 DEF Counted, Balanced
      <4>2. Length(t) \in Nat /\ Len(up[t]) = 0 /\ up[t] \in Seq({"bad"})
        <5>1. srv[t].len2 \in Nat
          BY <1>1 DEF RecordSet
        <5>2. QED
          BY <4>1, <5>1, Packets DEF Length
      <4>3. Length(t)' = Length(t)
        BY <1>2 DEF Length
      <4>4. QED
        BY <1>2, <2>2, <2>5, <3>1, <4>1, <4>2, <4>3 DEF Balanced
    <3>4. Counted(t)'
      BY <1>2, <2>1, <2>2, <2>5, <3>1, <3>3 DEF Counted, Connected
    <3>5. ASSUME NEW u \in Threads \ {t} PROVE Counted(u)'
      <4>1. Counted(u) /\ srv[u].granted < 3 /\ Granting(u)
        <5>1. Counted(u) /\ Granting(u) /\ Linked(u) /\ srv[u].granted \in 0 .. 4
          BY <1>1, <1>3 DEF Accounts
        <5>2. ~(srv[u].granted >= 3)
          BY <2>1, <5>1 DEF Linked
        <5>3. QED
          BY <5>1, <5>2
      <4>2. spc[u] \notin {"d", "done"}
        BY <4>1 DEF Granting
      <4>3. QED
        BY <1>2, <2>1, <2>2, <2>5, <3>1, <4>1, <4>2 DEF Counted, Connected
    <3>6. QED
      BY <3>2, <3>4, <3>5 DEF Accounts
  <2>6. QED
    BY <1>12, <2>1, <2>4, <2>5, Learnt, Zenon
<1>13. CASE StepDSend
  <2>1. PICK t \in Threads : t = cl.thread
    BY <1>1, <1>13 DEF Meeting, Talking, StepDSend
  <2>2. cpc = "d_send" /\ link' = link
    BY <1>13 DEF StepDSend, server
  <2>3. CASE cpc' = "crashed" /\ up' = up /\ cl' = cl
    BY <1>6, <2>2, <2>3
  <2>4. ASSUME NEW p, p = (IF cl.whole THEN D1(cl.len) ELSE BadD1(cl.len)),
               up' = [up EXCEPT ![t] = @ \o p], cl' = [cl EXCEPT !.i = @ + 1], cpc' = cpc
        PROVE  Accounts'
    <3>1. /\ cl'.thread = t /\ cl'.whole = cl.whole /\ cl'.i = cl.i + 1 /\ cl'.num = cl.num
          /\ cl'.len = cl.len /\ cl'.rd = cl.rd
      BY <1>1, <2>1, <2>4 DEF ClientSet
    <3>2. Committed /\ Counted(t) /\ Started
      BY <2>1, <2>2 DEF Accounts, Committed, StageD
    <3>3. Committed'
      BY <1>2, <2>1, <2>2, <2>4, <3>1, <3>2 DEF Committed, Started, StageD
    <3>4. spc[t] \notin {"none", "a", "b", "c"}
      BY <1>1, <2>1, <3>2 DEF Started, Granting
    <3>5. /\ cl.len \in Nat /\ cl.i \in Nat /\ cl.whole \in BOOLEAN
          /\ srv[t].len2 \in Nat /\ srv[t].i \in Nat /\ srv[t].rd.total \in Nat
      BY <1>1 DEF ClientSet, RecordSet, BufferSet
    <3>6. PICK q : q = up[t]
      OBVIOUS
    <3>7. up'[t] = q \o p /\ q \in Seq(Words) /\ \A u \in Threads \ {t} : up'[u] = up[u]
      BY <1>1, <2>4, <3>6
    <3>8. ASSUME spc[t] \in {"d", "done"} PROVE Balanced(t)'
      <4>1. Balanced(t)
        BY <3>2, <3>8 DEF Counted
      <4>2. Length(t)' = Length(t) /\ Length(t) = 3 + srv[t].len2
        BY <1>2, Packets DEF Length
      <4>3. CASE cl.whole
        <5>1. p \in Seq(Words) /\ Len(p) = 3 + srv[t].len2
          BY <2>4, <3>5, <4>1, <4>3, D1Words DEF Balanced
        <5>2. Len(q \o p) = Len(q) + Len(p)
          BY <3>7, <5>1, ConcatProperties
        <5>3. PICK n \in Nat : n = Length(t) /\ n = Len(p)
          BY <3>5, <4>2, <5>1
        <5>4. (cl.i + 1) * n = cl.i * n + n /\ cl.i * n \in Nat /\ srv[t].i * n \in Nat
          BY <3>5, OneMore
        <5>5. Len(q) + srv[t].rd.total + srv[t].i * n = cl.i * n
          BY <3>6, <4>1, <4>3, <5>3 DEF Balanced
        <5>6. Len(q) \in Nat
          BY <3>7
        <5>7. Len(q \o p) + srv[t].rd.total + srv[t].i * n = (cl.i + 1) * n
          <6>1. PICK x, y, z : x = cl.i * n /\ y = srv[t].i * n /\ z = (cl.i + 1) * n
            OBVIOUS
          <6>2. z = x + n /\ x \in Nat /\ y \in Nat
            BY <5>4, <6>1
          <6>3. PICK l, r : l = Len(q) /\ r = srv[t].rd.total
            OBVIOUS
          <6>4. l + r + y = x /\ l \in Nat /\ r \in Nat
            BY <3>5, <5>5, <5>6, <6>1, <6>3
          <6>5. Len(q \o p) = l + n
            BY <5>2, <5>3, <6>3
          <6>6. (l + n) + r + y = z
            BY <6>2, <6>4
          <6>7. QED
            BY <6>1, <6>3, <6>5, <6>6
        <5>8. QED
          BY <1>2, <3>1, <3>7, <4>1, <4>2, <4>3, <5>3, <5>7 DEF Balanced
      <4>4. CASE ~cl.whole
        <5>1. p \in Seq({"bad"}) /\ q \in Seq({"bad"})
          BY <2>4, <3>5, <3>6, <4>1, <4>4, D1Words DEF Balanced
        <5>2. q \o p \in Seq({"bad"})
          BY <5>1, ConcatProperties
        <5>3. QED
          BY <1>2, <2>2, <2>4, <3>1, <3>7, <4>1, <4>2, <4>4, <5>2 DEF Balanced
      <4>5. QED
        BY <3>5, <4>3, <4>4
    <3>9. Counted(t)'
      BY <1>2, <2>1, <2>2, <2>4, <3>1, <3>2, <3>4, <3>8 DEF Counted
    <3>10. ASSUME NEW u \in Threads \ {t} PROVE Counted(u)'
      <4>1. Counted(u) /\ srv[u].granted < 3 /\ Granting(u)
        <5>1. Counted(u) /\ Granting(u) /\ Linked(u) /\ srv[u].granted \in 0 .. 4
          BY <1>1, <1>3 DEF Accounts
        <5>2. ~(srv[u].granted >= 3)
          BY <2>1, <5>1 DEF Linked
        <5>3. QED
          BY <5>1, <5>2
      <4>2. spc[u] \notin {"d", "done"}
        BY <4>1 DEF Granting
      <4>3. QED
        BY <1>2, <2>1, <2>2, <2>4, <3>1, <3>7, <4>1, <4>2 DEF Counted
    <3>11. QED
      BY <3>3, <3>9, <3>10 DEF Accounts
  <2>5. PICK p : p = (IF cl.whole THEN D1(cl.len) ELSE BadD1(cl.len))
    OBVIOUS
  <2>6. QED
    BY <1>13, <2>1, <2>3, <2>4, <2>5 DEF StepDSend, ClientGoto
<1>14. QED
  BY <1>8, <1>9, <1>10, <1>11, <1>12, <1>13 DEF ClientStep, ClientWorks

LEMMA ThreadAccounts ==
  ASSUME Stages, Stages', Accounts, NEW u \in Threads, ThreadStep(u)
  PROVE  Accounts'
<1>1. /\ cl \in ClientSet /\ srv \in [Threads -> RecordSet] /\ srv' \in [Threads -> RecordSet]
      /\ srv[u] \in RecordSet /\ srv'[u] \in RecordSet /\ up \in [Threads -> Seq(Words)]
      /\ spc \in [Threads -> ServerSteps] /\ link \in [Threads -> {"none", "listening", "connected", "closed"}]
      /\ Granting(u) /\ Linked(u) /\ Granting(u)' /\ Counted(u) /\ Committed /\ cl.whole \in BOOLEAN
  BY DEF Stages, Types, Accounts, ClientSet
<1>2. /\ \A t \in Threads \ {u} : spc'[t] = spc[t] /\ srv'[t] = srv[t] /\ link'[t] = link[t]
      /\ cpc' = cpc /\ cl' = cl
      /\ srv'[u].granted >= srv[u].granted
  BY ThreadFrame, ThreadMail DEF Stages
<1>3. /\ srv[u].granted \in 0 .. 4 /\ srv'[u].granted \in 0 .. 4 /\ srv[u].i \in Nat
      /\ srv[u].num2 \in Nat /\ srv[u].len2 \in Nat /\ srv[u].rd \in BufferSet
      /\ srv[u].rd.total \in Nat
  BY <1>1 DEF RecordSet, BufferSet
<1>4. \A t \in Threads \ {u} : up'[t] = up[t]
  BY <1>1 DEF ThreadStep, StepA, OutOfStep, Refuse, Acknowledge, StepBTimesOut, StepBEnds,
    StepCAccept, StepCTimesOut, ServerRead, StepDCheck, StepDTimesOut, StepDEnds, streams
<1>5. spc[u] # "failed"
  BY DEF ThreadStep, StepA, OutOfStep, Refuse, Acknowledge, StepBTimesOut, StepBEnds,
    StepCAccept, StepCTimesOut, ServerRead, StepDCheck, StepDTimesOut, StepDEnds, Expects, Acceptable
<1>6. Committed'
  <2>1. cl.thread \in Threads /\ Started => Started'
    <3>1. CASE cl.thread = u
      BY <1>2, <1>3, <1>5, <3>1 DEF Started
    <3>2. CASE cl.thread \in Threads \ {u}
      BY <1>2, <3>2 DEF Started
    <3>3. QED
      BY <3>1, <3>2
  <2>2. cpc = "c_read" /\ srv'[cl.thread].granted < 3 => cl.rd.total = 0
    <3>1. CASE cl.thread = u
      BY <1>1, <1>3, <1>2, <3>1 DEF Committed
    <3>2. CASE cl.thread # u /\ cl.thread \in Threads
      BY <1>1, <1>2, <3>2 DEF Committed
    <3>3. QED
      BY <3>1, <3>2 DEF Stages, Meeting, Talking
  <2>3. QED
    <3>1. cpc \in StageD => cl.thread \in Threads
      BY DEF Stages, Meeting, Talking, StageD
    <3>2. QED
      BY <1>1, <1>2, <2>1, <2>2, <3>1 DEF Committed
<1>7. ASSUME NEW t \in Threads \ {u} PROVE Counted(t)'
  <2>1. Counted(t) /\ Length(t)' = Length(t)
    BY <1>2 DEF Accounts, Length
  <2>2. Balanced(t) => Balanced(t)'
    BY <1>2, <1>4, <2>1 DEF Balanced
  <2>3. QED
    BY <1>2, <1>4, <2>1, <2>2 DEF Counted
<1>8. SUFFICES Counted(u)'
  BY <1>6, <1>7 DEF Accounts
<1>9. CASE StepA(u) \/ Refuse(u) \/ Acknowledge(u) \/ StepBEnds(u)
  <2>1. /\ spc[u] \in {"a", "b"} /\ spc'[u] \in {"b", "c"} /\ up' = up
        /\ link'[u] \in {"none", "listening"}
    BY <1>1, <1>9 DEF StepA, Refuse, Acknowledge, StepBEnds, ServerGoto, Expects, streams, Linked
  <2>2. srv'[u].granted < 3
    BY <1>1, <1>3, <2>1 DEF Granting
  <2>3. QED
    BY <1>1, <1>2, <1>3, <2>1, <2>2 DEF Counted
<1>10. CASE OutOfStep(u) \/ StepBTimesOut(u) \/ StepCTimesOut(u) \/ StepDTimesOut(u)
  <2>1. /\ spc'[u] = "failed" /\ srv' = srv /\ link' = link /\ up' = up
        /\ spc[u] \in {"b", "c", "d"}
    BY <1>1, <1>10 DEF OutOfStep, StepBTimesOut, StepCTimesOut, StepDTimesOut, ServerGoto, Expects, streams
  <2>2. srv[u].granted # 4
    BY <1>1, <2>1 DEF Granting
  <2>3. QED
    BY <1>1, <1>2, <2>1, <2>2 DEF Counted
<1>11. CASE StepCAccept(u)
  <2>1. PICK num \in Nums2, len \in Lens2, rd \in {Reading(SIZE_HEADER + n) : n \in Lens2} :
          /\ rd = Reading(SIZE_HEADER + len)
          /\ srv' = [srv EXCEPT ![u].num2 = num, ![u].len2 = len, ![u].granted = 3,
                                ![u].i = 0, ![u].rd = rd]
    <3>1. PICK num \in Nums2, len \in Lens2 :
            srv' = [srv EXCEPT ![u].num2 = num, ![u].len2 = len, ![u].granted = 3,
                               ![u].i = 0, ![u].rd = Reading(SIZE_HEADER + len)]
      BY <1>11 DEF StepCAccept
    <3>2. PICK rd \in {Reading(SIZE_HEADER + n) : n \in Lens2} : rd = Reading(SIZE_HEADER + len)
      OBVIOUS
    <3>3. QED
      BY <3>1, <3>2, Zenon
  <2>2. /\ spc[u] = "c" /\ link[u] = "connected" /\ link' = link /\ up' = up /\ spc'[u] = "d"
    BY <1>1, <1>11 DEF StepCAccept, Acceptable, ServerGoto
  <2>3. /\ srv'[u].i = 0 /\ srv'[u].len2 = len /\ srv'[u].rd = rd /\ srv'[u].granted = 3
    BY <1>1, <2>1 DEF RecordSet
  <2>4. rd.total = 0 /\ Len(rd.buf) = SIZE_HEADER + len
    <3>1. SIZE_HEADER + len \in Nat
      BY Packets, StageAssumption
    <3>2. QED
      BY <2>1, <3>1, NewBuffer
  <2>5. ~cl.whole
    <3>1. cl.thread = u /\ srv[u].granted = 2
      BY <1>1, <2>2 DEF Linked, Granting
    <3>2. QED
      BY <1>1, <2>2, <3>1 DEF Committed, Started
  <2>6. up[u] = <<>> /\ cpc \in Connected
    BY <1>1, <2>2 DEF Counted
  <2>7. <<>> \in Seq({"bad"})
    OBVIOUS
  <2>8. Balanced(u)'
    BY <1>2, <2>2, <2>3, <2>4, <2>5, <2>6, <2>7 DEF Balanced, Length
  <2>9. QED
    BY <1>2, <2>2, <2>3, <2>6, <2>8 DEF Counted
<1>12. CASE ServerRead(u)
  <2>1. PICK k \in 1 .. Len(up[u]) :
          /\ srv' = [srv EXCEPT ![u].rd = Filled(@, SubSeq(up[u], 1, k))]
          /\ up' = [up EXCEPT ![u] = SubSeq(@, k + 1, Len(@))]
    BY <1>12 DEF ServerRead
  <2>2. spc[u] = "d" /\ spc' = spc /\ link' = link
    BY <1>12 DEF ServerRead
  <2>3. PICK q, words, rest, rd : /\ q = up[u] /\ words = SubSeq(q, 1, k) /\ rest = SubSeq(q, k + 1, Len(q))
                                  /\ rd = Filled(srv[u].rd, words)
    OBVIOUS
  <2>4. /\ srv'[u].rd = rd /\ srv'[u].i = srv[u].i /\ srv'[u].len2 = srv[u].len2
        /\ srv'[u].num2 = srv[u].num2 /\ srv'[u].granted = srv[u].granted /\ up'[u] = rest
    BY <1>1, <2>1, <2>3 DEF RecordSet
  <2>5. Balanced(u) /\ q \in Seq(Words) /\ k \in 1 .. Len(q) /\ q # <<>>
    BY <1>1, <2>1, <2>2, <2>3 DEF Counted
  <2>6. /\ words \in Seq(Words) /\ Len(words) = k /\ Len(rest) = Len(q) - k /\ words[1] = q[1]
        /\ \A S : q \in Seq(S) => rest \in Seq(S)
    BY <2>3, <2>5, FirstWords
  <2>7. /\ Len(rd.buf) = Len(srv[u].rd.buf) /\ rd.total = srv[u].rd.total + k
        /\ Len(rd.buf) >= 1 => rd.buf[1] = words[1]
    <3>1. srv[u].rd.buf \in Seq(Words)
      BY <1>3 DEF BufferSet
    <3>2. /\ Len(rd.buf) = Len(srv[u].rd.buf) /\ rd.total = srv[u].rd.total + Len(words)
          /\ \A j \in 1 .. Len(srv[u].rd.buf) :
               rd.buf[j] = IF j <= Len(words) THEN words[j] ELSE srv[u].rd.buf[j]
      BY <1>3, <2>3, <2>6, <3>1, FilledBuffer
    <3>3. Len(srv[u].rd.buf) \in Nat /\ k \in Nat /\ k >= 1
      BY <2>5, <3>1
    <3>4. QED
      BY <2>6, <3>2, <3>3
  <2>8. Balanced(u)'
    <3>1. Length(u)' = Length(u) /\ Len(srv[u].rd.buf) = Length(u) /\ Length(u) >= 1
          /\ Length(u) \in Nat
      <4>1. Length(u)' = Length(u)
        BY <2>4 DEF Length
      <4>2. Length(u) = 3 + srv[u].len2
        BY Packets DEF Length
      <4>3. Len(srv[u].rd.buf) = Length(u)
        BY <2>5 DEF Balanced
      <4>4. QED
        BY <1>3, <4>1, <4>2, <4>3
    <3>2. Len(srv'[u].rd.buf) = Length(u)'
      BY <2>4, <2>7, <3>1
    <3>3. CASE cl.whole
      <4>1. PICK x, y : x = cl.i * Length(u) /\ y = srv[u].i * Length(u)
        OBVIOUS
      <4>2. x \in Nat /\ y \in Nat
        BY <1>1, <1>3, <3>1, <4>1, OneMore DEF ClientSet
      <4>3. Len(q) + srv[u].rd.total + y = x /\ Len(q) \in Nat
        BY <2>3, <2>5, <3>3, <4>1 DEF Balanced
      <4>4. Len(rest) + rd.total + y = x
        BY <1>3, <2>5, <2>6, <2>7, <4>2, <4>3
      <4>5. QED
        BY <1>2, <2>4, <2>5, <3>1, <3>2, <3>3, <4>1, <4>4 DEF Balanced
    <3>4. CASE ~cl.whole
      <4>1. q \in Seq({"bad"}) /\ srv[u].i = 0 /\ cpc # "c_read"
        BY <2>3, <2>5, <3>4 DEF Balanced
      <4>2. q[1] = "bad"
        BY <2>5, <4>1
      <4>3. rd.buf[1] = "bad" /\ rest \in Seq({"bad"})
        BY <2>6, <2>7, <3>1, <4>1, <4>2
      <4>4. QED
        BY <1>2, <2>4, <3>2, <3>4, <4>1, <4>3 DEF Balanced
    <3>5. QED
      BY <1>1, <3>3, <3>4
  <2>9. cl.thread = u
    BY <1>1, <2>3, <2>5 DEF Counted
  <2>10. QED
    BY <1>1, <1>2, <2>2, <2>4, <2>8, <2>9 DEF Counted
<1>13. CASE StepDCheck(u)
  <2>1. spc[u] = "d" /\ link' = link /\ up' = up /\ Balanced(u) /\ srv[u].granted = 3
    BY <1>1, <1>13 DEF StepDCheck, streams, Counted, Granting
  <2>2. CASE srv' = srv /\ spc'[u] = "failed"
    BY <1>1, <1>2, <2>1, <2>2 DEF Counted
  <2>3. CASE Valid(u) /\ srv' = [srv EXCEPT ![u].i = @ + 1, ![u].rd.total = 0] /\ spc' = spc
    <3>1. /\ srv'[u].i = srv[u].i + 1 /\ srv'[u].rd.total = 0 /\ srv'[u].rd.buf = srv[u].rd.buf
          /\ srv'[u].len2 = srv[u].len2 /\ srv'[u].num2 = srv[u].num2
          /\ srv'[u].granted = srv[u].granted
      BY <1>1, <1>3, <2>3 DEF RecordSet, BufferSet
    <3>2. /\ Length(u)' = Length(u) /\ Length(u) \in Nat /\ Length(u) > 0
          /\ srv[u].rd.total = Length(u)
      BY <1>3, <2>1, <2>3, <3>1, Packets DEF Length, Balanced, Valid, ReadAll
    <3>3. cl.whole
      <4>1. srv[u].rd.buf[1] = "length"
        BY <1>3, <2>3, D1Words DEF Valid
      <4>2. QED
        BY <1>1, <2>1, <3>2, <4>1 DEF Balanced
    <3>4. Balanced(u)'
      <4>1. PICK x, y, z, n : /\ n = Length(u) /\ x = cl.i * n /\ y = srv[u].i * n
                              /\ z = (srv[u].i + 1) * n
        OBVIOUS
      <4>2. x \in Nat /\ y \in Nat /\ z = y + n /\ n \in Nat
        BY <1>1, <1>3, <3>2, <4>1, OneMore DEF ClientSet
      <4>3. Len(up[u]) + srv[u].rd.total + y = x /\ Len(up[u]) \in Nat
        BY <1>1, <2>1, <3>3, <4>1 DEF Balanced
      <4>4. Len(up[u]) + 0 + z = x
        BY <3>2, <4>1, <4>2, <4>3
      <4>5. srv'[u].i * Length(u)' = z
        BY <3>1, <3>2, <4>1
      <4>6. cl.i * Length(u)' = x
        BY <3>2, <4>1
      <4>7. QED
        BY <1>2, <2>1, <3>1, <3>2, <3>3, <4>4, <4>5, <4>6 DEF Balanced
    <3>5. QED
      BY <1>1, <1>2, <2>1, <2>3, <3>1, <3>4 DEF Counted
  <2>4. QED
    BY <1>1, <1>13, <2>2, <2>3 DEF StepDCheck, ServerGoto
<1>14. CASE StepDEnds(u)
  <2>1. /\ spc[u] = "d" /\ srv[u].i = srv[u].num2 /\ up' = up /\ spc'[u] = "done"
        /\ link'[u] = "closed" /\ srv' = [srv EXCEPT ![u].granted = 4]
    BY <1>1, <1>14 DEF StepDEnds, ServerGoto
  <2>2. /\ srv'[u].i = srv[u].i /\ srv'[u].rd = srv[u].rd
        /\ srv'[u].len2 = srv[u].len2 /\ srv'[u].num2 = srv[u].num2
    BY <1>1, <2>1 DEF RecordSet
  <2>3. Balanced(u) /\ srv[u].granted = 3
    BY <1>1, <2>1 DEF Counted, Granting
  <2>4. Balanced(u)'
    BY <1>2, <2>1, <2>2, <2>3 DEF Balanced, Length
  <2>5. QED
    BY <1>1, <1>2, <2>1, <2>2, <2>3, <2>4 DEF Counted
<1>15. QED
  BY <1>9, <1>10, <1>11, <1>12, <1>13, <1>14 DEF ThreadStep

LEMMA OtherAccounts ==
  ASSUME Stages, Accounts,
         \/ \E t \in Threads : ReceiveA1(t) \/ Collect(t) \/ Reset(t)
         \/ Lose \/ Duplicate \/ Overtake \/ ServerDies \/ UNCHANGED vars
  PROVE  Accounts'
<1>1. cpc' = cpc /\ cl' = cl /\ srv' = srv
  BY OtherMeets
<1>2. /\ up' = up /\ spc \in [Threads -> ServerSteps]
      /\ link \in [Threads -> {"none", "listening", "connected", "closed"}]
  BY DEF ReceiveA1, Collect, Reset, Lose, Duplicate, Overtake, ServerDies, vars, streams, Stages, Types
<1>3. ASSUME NEW t \in Threads
      PROVE  /\ \/ spc'[t] = spc[t]
                \/ spc'[t] = "failed" /\ spc[t] # "done"
                \/ spc[t] = "none" /\ spc'[t] = "a"
             /\ link'[t] = link[t] \/ link'[t] = "closed"
  <2>1. CASE ServerDies
    BY <2>1 DEF ServerDies
  <2>2. CASE \E u \in Threads : ReceiveA1(u)
    BY <1>2, <2>2 DEF ReceiveA1, ServerGoto
  <2>3. CASE \E u \in Threads : Collect(u) \/ Reset(u)
    BY <1>2, <2>3 DEF Collect, Reset, server
  <2>4. CASE Lose \/ Duplicate \/ Overtake \/ UNCHANGED vars
    BY <2>4 DEF Lose, Duplicate, Overtake, vars, server
  <2>5. QED
    BY <2>1, <2>2, <2>3, <2>4
<1>4. Committed'
  <2>1. \A t \in Threads : spc[t] = "failed" => spc'[t] = "failed"
    BY <1>3
  <2>2. cpc \in StageD => cl.thread \in Threads
    BY DEF Stages, Meeting, Talking, StageD
  <2>3. QED
    BY <1>1, <2>1, <2>2 DEF Accounts, Committed, Started
<1>5. ASSUME NEW t \in Threads PROVE Counted(t)'
  <2>1. Counted(t) /\ Granting(t) /\ (Balanced(t) => Balanced(t)')
    BY <1>1, <1>2 DEF Accounts, Balanced, Length, Stages
  <2>2. /\ \/ spc'[t] = spc[t]
           \/ spc'[t] = "failed" /\ spc[t] # "done"
           \/ spc[t] = "none" /\ spc'[t] = "a"
        /\ link'[t] = link[t] \/ link'[t] = "closed"
    BY <1>3
  <2>3. srv[t].granted # 4 \/ spc[t] = "done"
    BY <2>1 DEF Counted
  <2>4. QED
    BY <1>1, <1>2, <2>1, <2>2, <2>3 DEF Counted
<1>6. QED
  BY <1>4, <1>5 DEF Accounts

LEMMA AlwaysAccounts == Spec => []Accounts
<1>1. Init => Accounts
  BY DEF Init, Accounts, Committed, Counted, StageD
<1>2. Stages /\ Stages' /\ Heard /\ Accounts /\ [Next]_vars => Accounts'
  BY ClientAccounts, ThreadAccounts, OtherAccounts DEF Next
<1>3. QED
  BY <1>1, <1>2, AlwaysStages, AlwaysHeard, PTL DEF Spec

(* A thread that is done has taken everything its client sent. *)
LEMMA AllAccepted ==
  ASSUME Stages, Accounts, NEW t \in Threads, spc[t] = "done", cl.whole
  PROVE  cl.i = cl.num /\ cl.num = srv[t].num2 /\ up[t] = <<>>
<1>1. /\ Balanced(t) /\ srv[t].i = srv[t].num2 /\ cl \in ClientSet /\ srv[t] \in RecordSet
      /\ up[t] \in Seq(Words) /\ cl.i <= cl.num
  BY DEF Accounts, Counted, Stages, Types, Meeting
<1>2. PICK n, x, y : n = Length(t) /\ x = Len(up[t]) /\ y = srv[t].rd.total
  OBVIOUS
<1>3. /\ n \in Nat \ {0} /\ x \in Nat /\ y \in Nat /\ cl.i \in Nat /\ cl.num \in Nat
  <2>1. /\ srv[t].len2 \in Nat /\ srv[t].rd.total \in Nat /\ cl.i \in Nat /\ cl.num \in Nat
        /\ Len(up[t]) \in Nat
    BY <1>1 DEF RecordSet, BufferSet, ClientSet
  <2>2. n = 3 + srv[t].len2
    BY <1>2, Packets DEF Length
  <2>3. QED
    BY <1>2, <2>1, <2>2
<1>4. PICK a, b : a = cl.i /\ b = cl.num
  OBVIOUS
<1>5. b = srv[t].num2 /\ x + y + b * n = a * n
  BY <1>1, <1>2, <1>4 DEF Balanced
<1>6. a = b /\ x = 0
  <2>1. a \in Nat /\ b \in Nat /\ a <= b
    BY <1>1, <1>3, <1>4, <1>5
  <2>2. x + y + b * n = a * n
    BY <1>5
  <2>3. n \in Nat \ {0} /\ x \in Nat /\ y \in Nat
    BY <1>3
  <2>4. a = b /\ x = 0 /\ y = 0
    BY <2>1, <2>2, <2>3, AllTaken, Zenon
  <2>5. QED
    BY <2>4
<1>7. up[t] = <<>>
  <2>1. up[t] \in Seq(Words) /\ Len(up[t]) = 0
    BY <1>1, <1>2, <1>6
  <2>2. PICK q : q = up[t]
    OBVIOUS
  <2>3. q = <<>>
    BY <2>1, <2>2, EmptySeq
  <2>4. QED
    BY <2>2, <2>3
<1>8. QED
  BY <1>4, <1>5, <1>6, <1>7

(* The server hands out its last secret (ServerThread.java:213) only to its  *)
(* own client, after that client received the whole of packet c2 and all it  *)
(* sent was taken out of the stream, however reads divide the packets        *)
(* (PacketUtil.java:108).                                                    *)
THEOREM AcceptsWhole == Spec => []AcceptedWhole
<1>1. Stages /\ Accounts => AcceptedWhole
  <2> SUFFICES ASSUME Stages, Accounts, NEW t \in Threads, srv[t].granted = 4, srv[t].num2 > 0
               PROVE  cl.thread = t /\ cl.whole /\ cl.i = cl.num /\ up[t] = <<>>
    BY DEF AcceptedWhole
  <2>1. spc[t] = "done" /\ Balanced(t) /\ srv[t].i = srv[t].num2
    BY DEF Accounts, Counted
  <2>2. cl.thread = t
    BY DEF Stages, Linked
  <2>3. cl.whole
    <3>1. srv[t].num2 # 0 /\ cl.whole \in BOOLEAN
      BY DEF Stages, Types, ClientSet
    <3>2. QED
      BY <2>1, <3>1 DEF Balanced
  <2>4. QED
    BY <2>1, <2>2, <2>3, AllAccepted
<1>2. QED
  BY <1>1, AlwaysStages, AlwaysAccounts, PTL

-----------------------------------------------------------------------------
(* What the client prints                                                   *)

LEMMA FirstOfTwo ==
  ASSUME NEW S, NEW p \in Seq(S), NEW r \in Seq(S), p # <<>>
  PROVE  /\ SubSeq(p \o r, 1, Len(p)) = p
         /\ SubSeq(p \o r, Len(p) + 1, Len(p \o r)) = r
         /\ p \o r \in Seq(S) /\ Len(p \o r) = Len(p) + Len(r)
         /\ Len(p) \in Nat \ {0} /\ Len(r) \in Nat
<1>1. /\ p \o r \in Seq(S) /\ Len(p \o r) = Len(p) + Len(r)
      /\ \A j \in 1 .. Len(p) + Len(r) : (p \o r)[j] = IF j <= Len(p) THEN p[j] ELSE r[j - Len(p)]
  BY ConcatProperties
<1>2. Len(p) \in Nat \ {0} /\ Len(r) \in Nat
  BY EmptySeq
<1>3. PICK q, m, n : q = p \o r /\ m = Len(p) /\ n = Len(r)
  OBVIOUS
<1>4. /\ q \in Seq(S) /\ Len(q) = m + n /\ m \in Nat \ {0} /\ n \in Nat
      /\ \A j \in 1 .. m + n : q[j] = IF j <= m THEN p[j] ELSE r[j - m]
  BY <1>1, <1>2, <1>3
<1>5. SubSeq(q, 1, m) = p
  <2>1. SubSeq(q, 1, m) \in Seq(S) /\ Len(SubSeq(q, 1, m)) = m
    BY <1>4
  <2>2. \A j \in 1 .. m : SubSeq(q, 1, m)[j] = p[j]
    BY <1>4
  <2>3. QED
    BY <1>3, <2>1, <2>2, SeqEqual
<1>6. SubSeq(q, m + 1, m + n) = r
  <2>1. SubSeq(q, m + 1, m + n) \in Seq(S) /\ Len(SubSeq(q, m + 1, m + n)) = n
    BY <1>4
  <2>2. ASSUME NEW j \in 1 .. n PROVE SubSeq(q, m + 1, m + n)[j] = r[j]
    <3>1. j + m \in 1 .. m + n /\ ~(j + m <= m) /\ (j + m) - m = j
      BY <1>4
    <3>2. q[j + m] = r[j]
      BY <1>4, <3>1
    <3>3. QED
      BY <1>4, <3>2
  <2>3. QED
    BY <1>3, <2>1, <2>2, SeqEqual
<1>7. QED
  BY <1>1, <1>2, <1>3, <1>5, <1>6

(* A read that fills the buffer leaves there what it read.                  *)
LEMMA FilledWhole ==
  ASSUME NEW rd \in BufferSet, NEW p \in Seq(Words), Len(rd.buf) = Len(p)
  PROVE  Filled(rd, p).buf = p /\ Filled(rd, p).total = rd.total + Len(p)
<1>1. PICK b : b = Filled(rd, p)
  OBVIOUS
<1>2. /\ b.buf \in Seq(Words) /\ Len(b.buf) = Len(p) /\ b.total = rd.total + Len(p)
      /\ \A j \in 1 .. Len(p) : b.buf[j] = p[j]
  <2>1. rd.buf \in Seq(Words) /\ Words \subseteq Words
    BY DEF BufferSet
  <2>2. /\ Filled(rd, p).buf \in Seq(Words)
        /\ Len(Filled(rd, p).buf) = Len(rd.buf)
        /\ Filled(rd, p).total = rd.total + Len(p)
        /\ \A j \in 1 .. Len(rd.buf) :
             Filled(rd, p).buf[j] = IF j <= Len(p) THEN p[j] ELSE rd.buf[j]
    BY <2>1, FilledBuffer, Zenon
  <2>3. \A j \in 1 .. Len(p) : j <= Len(p)
    <3>1. \A m \in Nat : \A j \in 1 .. m : j <= m
      OBVIOUS
    <3>2. Len(p) \in Nat
      OBVIOUS
    <3>3. QED
      BY <3>1, <3>2, Zenon
  <2>4. QED
    BY <1>1, <2>2, <2>3
<1>3. b.buf = p
  BY <1>2, SeqEqual
<1>4. QED
  BY <1>1, <1>2, <1>3

(* A read that is not short takes a whole packet, if one is there.          *)
LEMMA WholeChunk ==
  ASSUME NEW rd \in BufferSet, NEW q \in Seq(Words), NEW k,
         Chunk(rd, q, k, "client"), <<"short", "client">> \notin seen'
  PROVE  /\ k \in Nat /\ k # 0
         /\ k = IF Len(q) < Len(rd.buf) THEN Len(q) ELSE Len(rd.buf)
<1>1. PICK most : most = (IF Len(q) < Len(rd.buf) THEN Len(q) ELSE Len(rd.buf))
  OBVIOUS
<1>2. most \in Nat
  BY <1>1 DEF BufferSet
<1>3. k \in 1 .. most /\ (k < most => Fault("short", "client"))
  BY <1>1 DEF Chunk
<1>4. ~Fault("short", "client")
  <2>1. Fault("short", "client") => seen' = seen \cup {<<"short", "client">>}
    BY DEF Fault
  <2>2. QED
    BY <2>1, Zenon
<1>5. ~(k < most)
  BY <1>3, <1>4
<1>6. k \in Nat /\ k # 0 /\ k = most
  BY <1>2, <1>3, <1>5
<1>7. QED
  BY <1>1, <1>6

(* The packet a thread sends last, when it has come to step s. *)
LastPacket(s) == IF s = "done" THEN D2 ELSE <<>>

(* Of packet c2 the client has read nothing, or all.                        *)
Unread(t) ==
  /\ cl.rd.total = 0
  /\ down[t] = IF spc[t] \in {"d", "done"} THEN C2 \o LastPacket(spc[t]) ELSE <<>>
HasC2(t) == cl.rd.total = 7 /\ cl.rd.buf = C2 /\ down[t] = LastPacket(spc[t]) /\ spc[t] \in {"d", "done"}

(* The same for packet d2. *)
Awaits(t) ==
  \/ cl.rd.total = 0 /\ down[t] = LastPacket(spc[t])
  \/ cl.rd.total = 4 /\ cl.rd.buf = D2

(* As long as no read was short and its thread has not failed, the client    *)
(* finds each packet undivided, and learns a secret in every stage.          *)
Learning(t) ==
  cl.thread = t /\ spc[t] # "failed" /\ <<"short", "client">> \notin seen =>
    /\ cpc \in Talking => 1 \in cl.known
    /\ cpc \in Talking \ StageB => 2 \in cl.known
    /\ cpc \in StageD => cl.whole /\ 3 \in cl.known
    /\ cpc = "printed" => 4 \in cl.known
    /\ cpc = "c_read" => Unread(t) \/ HasC2(t)
    /\ cpc = "d_send" => down[t] = LastPacket(spc[t])
    /\ cpc = "d_read" => Awaits(t)

Lessons == \A t \in Threads : Learning(t)

LEMMA LastWords ==
  /\ C2 # <<>> /\ D2 # <<>>
  /\ \A s : LastPacket(s) \in Seq(Words) /\ C2 \o LastPacket(s) # <<>>
<1>1. C2 # <<>> /\ D2 # <<>>
  BY Packets, EmptySeq
<1>2. ASSUME NEW s PROVE LastPacket(s) \in Seq(Words) /\ C2 \o LastPacket(s) # <<>>
  <2>1. LastPacket(s) \in Seq(Words)
    BY PacketWords DEF LastPacket
  <2>2. PICK p, r : p = C2 /\ r = LastPacket(s)
    OBVIOUS
  <2>3. p \in Seq(Words) /\ r \in Seq(Words) /\ p # <<>>
    BY <1>1, <2>1, <2>2, PacketWords
  <2>4. Len(p \o r) = Len(p) + Len(r) /\ Len(p) \in Nat \ {0} /\ Len(r) \in Nat
    BY <2>3, FirstOfTwo
  <2>5. p \o r # <<>>
    BY <2>4, EmptySeq
  <2>6. QED
    BY <2>1, <2>2, <2>5
<1>3. QED
  BY <1>1, <1>2

(* Neither loop of the client ends before it has read the packet it is for. *)
LEMMA NoEarlyEnd ==
  ASSUME Stages, Heard, NEW t \in Threads, t = cl.thread, spc[t] # "failed", ClientReadEnds
  PROVE  /\ cpc = "c_read" /\ Unread(t) => FALSE
         /\ cpc = "d_read" /\ Awaits(t) => cl.rd.buf = D2
<1>1. /\ Linked(t) /\ spc \in [Threads -> ServerSteps]
      /\ link \in [Threads -> {"none", "listening", "connected", "closed"}]
  BY DEF Stages, Types
<1>2. ASSUME link[t] = "closed" PROVE spc[t] = "done"
  BY <1>1, <1>2 DEF Linked
<1>3. ASSUME cl.rd.total = 0, cpc \in {"c_read", "d_read"}
      PROVE  spc[t] = "done" /\ down[t] = <<>>
  <2>1. WantsMore(cl.rd)
    <3>1. Len(cl.rd.buf) \in {4, 7}
      BY <1>3 DEF Heard
    <3>2. PICK n : n = Len(cl.rd.buf)
      OBVIOUS
    <3>3. n \in {4, 7} /\ SIZE_HEADER = 3
      BY <3>1, <3>2, Packets
    <3>4. 0 < n - SIZE_HEADER
      BY <3>3
    <3>5. QED
      BY <1>3, <3>2, <3>4 DEF WantsMore
  <2>2. QED
    BY <1>2, <2>1 DEF ClientReadEnds
<1>4. cpc = "c_read" /\ Unread(t) => FALSE
  <2> SUFFICES ASSUME cpc = "c_read", Unread(t) PROVE FALSE
    OBVIOUS
  <2>1. spc[t] = "done" /\ down[t] = <<>>
    BY <1>3 DEF Unread
  <2>2. down[t] = C2 \o LastPacket(spc[t])
    BY <2>1 DEF Unread
  <2>3. QED
    BY <2>1, <2>2, LastWords
<1>5. cpc = "d_read" /\ Awaits(t) => cl.rd.buf = D2
  BY <1>3, LastWords DEF Awaits, LastPacket
<1>6. QED
  BY <1>4, <1>5

LEMMA ClientLearnsAll ==
  ASSUME Stages, Stages', Heard, Accounts, Lessons, ClientStep, seen \subseteq seen',
         NEW t \in Threads
  PROVE  Learning(t)'
<1> SUFFICES ASSUME cl'.thread = t, spc'[t] # "failed", <<"short", "client">> \notin seen'
             PROVE  /\ cpc' \in Talking => 1 \in cl'.known
                    /\ cpc' \in Talking \ StageB => 2 \in cl'.known
                    /\ cpc' \in StageD => cl'.whole /\ 3 \in cl'.known
                    /\ cpc' = "printed" => 4 \in cl'.known
                    /\ cpc' = "c_read" => Unread(t)' \/ HasC2(t)'
                    /\ cpc' = "d_send" => down'[t] = LastPacket(spc[t])
                    /\ cpc' = "d_read" => Awaits(t)'
  <2>1. spc' = spc
    BY ClientMeets
  <2>2. QED
    BY <2>1 DEF Learning
<1>1. /\ cl \in ClientSet /\ Meeting /\ down \in [Threads -> Seq(Words)] /\ NoThread \notin Threads
      /\ Granting(t) /\ Linked(t) /\ spc \in [Threads -> ServerSteps]
  BY StageAssumption DEF Stages, Types
<1>2. srv' = srv /\ spc' = spc /\ ClientMoves /\ spc[t] # "failed"
  BY ClientMeets
<1>3. <<"short", "client">> \notin seen
  OBVIOUS
<1>4. cl.thread = t => Learning(t)
  BY DEF Lessons
<1>5. cpc' \notin Talking => cpc' \notin StageD /\ cpc' \notin {"printed", "c_read", "d_send", "d_read"}
  BY DEF Talking, StageD
<1>6. CASE cpc' = "crashed" \/ cpc' = "a_wait"
  BY <1>5, <1>6 DEF Talking
<1>7. CASE StepAReceive
  <2>1. PICK d : \/ /\ cl' = [cl EXCEPT !.thread = d.thread, !.num = d.n, !.known = {1}]
                    /\ cpc' \in StageB
                 \/ cpc' = "crashed"
    BY <1>7, Zenon DEF StepAReceive, ClientGoto, StageB
  <2>2. CASE cl' = [cl EXCEPT !.thread = d.thread, !.num = d.n, !.known = {1}] /\ cpc' \in StageB
    <3>1. cl'.known = {1}
      BY <1>1, <2>2 DEF ClientSet
    <3>2. QED
      BY <2>2, <3>1 DEF StageB, StageD, Talking
  <2>3. QED
    BY <1>6, <2>1, <2>2
<1>8. CASE StepBSend \/ StepBReceive \/ StepBTimeout
  <2>1. cl'.known = cl.known /\ cl'.thread = cl.thread
    BY <1>1, <1>8 DEF StepBSend, StepBReceive, StepBTimeout, ClientSet
  <2>2. cpc \in StageB /\ cpc' \in StageB
    BY <1>8 DEF StepBSend, StepBReceive, StepBTimeout, ClientGoto, StageB
  <2>3. QED
    BY <1>2, <1>3, <1>4, <2>1, <2>2 DEF Learning, StageB, StageD, Talking
<1>9. CASE StepBFinal
  <2>1. \/ cpc' = "crashed"
        \/ cpc' = "connect" /\ cl' = [cl EXCEPT !.known = @ \cup {2}]
    BY <1>9 DEF StepBFinal, ClientGoto
  <2>2. ASSUME cpc' = "connect", cl' = [cl EXCEPT !.known = @ \cup {2}]
        PROVE  1 \in cl'.known /\ 2 \in cl'.known
    <3>1. cl'.known = cl.known \cup {2} /\ cl'.thread = cl.thread
      BY <1>1, <2>2 DEF ClientSet
    <3>2. cpc \in Talking
      BY <1>9 DEF StepBFinal, Talking
    <3>3. QED
      BY <1>2, <1>3, <1>4, <3>1, <3>2 DEF Learning
  <2>3. QED
    BY <1>6, <2>1, <2>2 DEF StageD
<1>10. CASE Connect
  <2>1. \/ cpc' = "crashed"
        \/ /\ cpc' = "c_read" /\ cl' = [cl EXCEPT !.rd = C2Buffer]
           /\ link[cl.thread] = "listening"
    BY <1>10 DEF Connect, ClientGoto
  <2>2. cpc = "connect" /\ down' = down
    BY <1>10 DEF Connect, streams
  <2>3. ASSUME cpc' = "c_read", cl' = [cl EXCEPT !.rd = C2Buffer], link[cl.thread] = "listening"
        PROVE  1 \in cl'.known /\ 2 \in cl'.known /\ Unread(t)'
    <3>1. cl'.known = cl.known /\ cl'.thread = cl.thread /\ cl'.rd = C2Buffer
      BY <1>1, <2>3 DEF ClientSet
    <3>2. 1 \in cl.known /\ 2 \in cl.known
      BY <1>2, <1>3, <1>4, <2>2, <3>1 DEF Learning, Talking, StageB
    <3>3. spc[t] = "c" /\ srv[t].granted = 2
      BY <1>1, <1>2, <2>3, <3>1 DEF Linked, Granting
    <3>4. down[t] = <<>>
      BY <3>3 DEF Heard
    <3>5. C2Buffer.total = 0
      BY NewBuffer, Packets DEF C2Buffer
    <3>6. QED
      BY <1>2, <2>2, <3>1, <3>2, <3>3, <3>4, <3>5 DEF Unread
  <2>4. QED
    BY <1>6, <2>1, <2>3 DEF StageD
<1>11. CASE ClientRead
  <2>1. cl.thread = t
    <3>1. cl.thread \in Threads
      BY <1>1, <1>11 DEF Meeting, Talking, ClientRead
    <3>2. QED
      BY <1>1, <1>2, <3>1 DEF ClientMoves
  <2>2. PICK k : /\ Chunk(cl.rd, down[t], k, "client")
                 /\ cl' = [cl EXCEPT !.rd = Filled(@, SubSeq(down[t], 1, k))]
                 /\ down' = [down EXCEPT ![t] = SubSeq(@, k + 1, Len(@))]
    BY <1>11, <2>1 DEF ClientRead
  <2>3. WantsMore(cl.rd) /\ cpc' = cpc /\ cpc \in {"c_read", "d_read"} /\ cl.rd \in BufferSet
    BY <1>1, <1>11 DEF ClientRead, ClientSet
  <2>4. PICK rd, q : rd = Filled(cl.rd, SubSeq(q, 1, k)) /\ q = down[t]
    OBVIOUS
  <2>5. /\ cl'.rd = rd /\ cl'.known = cl.known /\ cl'.whole = cl.whole
        /\ down'[t] = SubSeq(q, k + 1, Len(q))
    BY <1>1, <2>2, <2>4 DEF ClientSet
  <2>6. Learning(t) /\ cl.thread = t /\ spc[t] # "failed"
    BY <1>2, <1>4, <2>1
  <2>7. k \in Nat /\ k # 0 /\ k = IF Len(q) < Len(cl.rd.buf) THEN Len(q) ELSE Len(cl.rd.buf)
    <3>1. q \in Seq(Words)
      BY <1>1, <2>4
    <3>2. Chunk(cl.rd, q, k, "client")
      BY <2>2, <2>4
    <3>3. QED
      BY <2>3, <3>1, <3>2, WholeChunk
  <2>8. ASSUME NEW p, NEW r, p \in Seq(Words), r \in Seq(Words), p # <<>>, q = p \o r,
               Len(cl.rd.buf) = Len(p)
        PROVE  rd.buf = p /\ rd.total = cl.rd.total + Len(p) /\ down'[t] = r
    <3>1. /\ SubSeq(q, 1, Len(p)) = p /\ SubSeq(q, Len(p) + 1, Len(q)) = r
          /\ Len(q) = Len(p) + Len(r) /\ Len(p) \in Nat /\ Len(r) \in Nat
      BY <2>8, FirstOfTwo
    <3>2. k = Len(p)
      <4>1. PICK l, m, n : l = Len(q) /\ m = Len(p) /\ n = Len(r)
        OBVIOUS
      <4>2. l = m + n /\ m \in Nat /\ n \in Nat /\ k = IF l < m THEN l ELSE m
        BY <2>8, <2>7, <3>1, <4>1
      <4>3. k = m
        BY <4>2
      <4>4. QED
        BY <4>1, <4>3
    <3>3. SubSeq(q, 1, k) = p /\ SubSeq(q, k + 1, Len(q)) = r
      BY <3>1, <3>2
    <3>4. Filled(cl.rd, p).buf = p /\ Filled(cl.rd, p).total = cl.rd.total + Len(p)
      BY <2>3, <2>8, FilledWhole
    <3>5. rd = Filled(cl.rd, p) /\ down'[t] = r
      BY <2>4, <2>5, <3>3
    <3>6. QED
      BY <3>4, <3>5
  <2>9. CASE cpc = "c_read"
    <3>1. Len(cl.rd.buf) = 7
      BY <2>9 DEF Heard
    <3>2. Unread(t)
      <4>1. ~(cl.rd.total = 7)
        <5>1. PICK n : n = Len(cl.rd.buf) /\ n = 7
          BY <3>1
        <5>2. cl.rd.total < n - 3
          BY <2>3, <5>1, Packets DEF WantsMore
        <5>3. QED
          BY <5>1, <5>2
      <4>2. QED
        BY <1>3, <2>6, <2>9, <4>1 DEF Learning, HasC2
    <3>3. spc[t] \in {"d", "done"} /\ q = C2 \o LastPacket(spc[t])
      <4>1. Len(q) # 0
        <5>1. q \in Seq(Words) /\ Len(q) \in Nat
          BY <1>1, <2>4
        <5>2. k \in 1 .. Len(q)
          BY <5>1, <2>2, <2>4, <3>1 DEF Chunk
        <5>3. QED
          BY <5>1, <5>2
      <4>2. q # <<>>
        BY <4>1
      <4>3. QED
        BY <2>4, <3>2, <4>2 DEF Unread
    <3>4. rd.buf = C2 /\ rd.total = cl.rd.total + 7 /\ down'[t] = LastPacket(spc[t])
      <4>1. PICK p, r : p = C2 /\ r = LastPacket(spc[t])
        OBVIOUS
      <4>2. p \in Seq(Words) /\ r \in Seq(Words) /\ p # <<>> /\ Len(p) = 7 /\ q = p \o r
        BY <3>3, <4>1, LastWords, PacketWords, Packets
      <4>3. rd.buf = p /\ rd.total = cl.rd.total + Len(p) /\ down'[t] = r
        BY <2>8, <3>1, <4>2
      <4>4. QED
        BY <4>1, <4>2, <4>3
    <3>5. cl.rd.total = 0
      BY <3>2 DEF Unread
    <3>6. HasC2(t)'
      <4>1. rd.total = 7
        BY <3>4, <3>5
      <4>2. QED
        BY <1>2, <2>5, <3>3, <3>4, <4>1 DEF HasC2
    <3>7. 1 \in cl.known /\ 2 \in cl.known
      BY <1>3, <2>6, <2>9 DEF Learning, Talking, StageB
    <3>8. QED
      BY <2>3, <2>5, <2>9, <3>6, <3>7 DEF StageD
  <2>10. CASE cpc = "d_read"
    <3>1. Len(cl.rd.buf) = 4
      BY <2>10 DEF Heard
    <3>2. cl.rd.total = 0 /\ q = LastPacket(spc[t])
      <4>1. ~(cl.rd.total = 4)
        <5>1. PICK n : n = Len(cl.rd.buf) /\ n = 4
          BY <3>1
        <5>2. cl.rd.total < n - 3
          BY <2>3, <5>1, Packets DEF WantsMore
        <5>3. QED
          BY <5>1, <5>2
      <4>2. QED
        BY <1>3, <2>4, <2>6, <2>10, <4>1 DEF Learning, Awaits
    <3>3. q = D2
      <4>1. q \in Seq(Words) /\ Len(q) \in Nat
        BY <1>1, <2>4
      <4>2. k \in 1 .. Len(q)
        BY <4>1, <2>2, <2>4, <3>1 DEF Chunk
      <4>3. q # <<>>
        BY <4>1, <4>2
      <4>4. QED
        BY <3>2, <4>3 DEF LastPacket
    <3>4. rd.buf = D2 /\ rd.total = cl.rd.total + 4
      <4>1. PICK p, r : p = D2 /\ r = <<>>
        OBVIOUS
      <4>2. p \in Seq(Words) /\ r \in Seq(Words) /\ p # <<>> /\ Len(p) = 4
        BY <4>1, LastWords, PacketWords, Packets
      <4>3. q = p \o r
        BY <3>3, <4>1, <4>2, ConcatEmptySeq
      <4>4. rd.buf = p /\ rd.total = cl.rd.total + Len(p)
        BY <2>8, <3>1, <4>2, <4>3
      <4>5. QED
        BY <4>1, <4>2, <4>4
    <3>5. Awaits(t)'
      BY <2>5, <3>2, <3>4 DEF Awaits
    <3>6. 1 \in cl.known /\ 2 \in cl.known /\ 3 \in cl.known /\ cl.whole
      BY <1>3, <2>6, <2>10 DEF Learning, Talking, StageB, StageD
    <3>7. QED
      BY <2>3, <2>5, <2>10, <3>5, <3>6
  <2>11. QED
    BY <2>3, <2>9, <2>10
<1>12. ASSUME cpc \in {"c_read", "d_send", "d_read"}, cl'.thread = cl.thread
       PROVE  /\ Learning(t) /\ cl.thread = t /\ spc[t] # "failed"
              /\ 1 \in cl.known /\ 2 \in cl.known
  BY <1>2, <1>3, <1>4, <1>12 DEF Learning, Talking, StageB
<1>13. CASE StepC
  <2>1. cpc = "c_read" /\ down' = down /\ ClientReadEnds /\ cl.thread \in Threads
    BY <1>1, <1>13 DEF StepC, streams, Meeting, Talking
  <2>2. ASSUME NEW num, NEW len, NEW w \in BOOLEAN, NEW g,
               g = (IF cl.rd.buf[SIZE_HEADER + 3] = "secretC" THEN {3} ELSE {}), w = C2Whole,
               cl' = [cl EXCEPT !.num = num, !.len = len, !.whole = w, !.i = 0, !.known = @ \cup g],
               cpc' = "d_send"
        PROVE  /\ 1 \in cl'.known /\ 2 \in cl'.known /\ 3 \in cl'.known /\ cl'.whole
               /\ down'[t] = LastPacket(spc[t])
    <3>1. cl'.thread = cl.thread /\ cl'.known = cl.known \cup g /\ cl'.whole = w
      BY <1>1, <2>2 DEF ClientSet
    <3>2. HasC2(t)
      BY <1>3, <1>12, <2>1, <3>1, NoEarlyEnd DEF Learning
    <3>3. C2Whole /\ cl.rd.buf[SIZE_HEADER + 3] = "secretC"
      BY <3>2, Packets DEF HasC2, C2Whole
    <3>4. g = {3} /\ w = TRUE
      BY <2>2, <3>3
    <3>5. QED
      BY <1>12, <2>1, <3>1, <3>2, <3>4 DEF HasC2
  <2>3. CASE cpc' = "d_send"
    <3>1. PICK num \in Nums2, len \in Lens2, w \in BOOLEAN, g \in {{3}, {}} :
              /\ g = (IF cl.rd.buf[SIZE_HEADER + 3] = "secretC" THEN {3} ELSE {})
              /\ w = C2Whole
              /\ cl' = [cl EXCEPT !.num = num, !.len = len, !.whole = w, !.i = 0,
                                  !.known = @ \cup g]
      BY <1>13, <2>3, Learnt
    <3>2. /\ 1 \in cl'.known /\ 2 \in cl'.known /\ 3 \in cl'.known /\ cl'.whole
          /\ down'[t] = LastPacket(spc[t])
      BY <2>2, <2>3, <3>1
    <3>3. QED
      BY <2>3, <3>2
  <2>4. QED
    BY <1>6, <1>13, <2>3, Learnt
<1>14. CASE StepDSend
  <2>1. /\ cpc = "d_send" /\ down' = down /\ cpc' \in {"d_send", "crashed"}
    BY <1>14 DEF StepDSend, ClientGoto
  <2>2. cl'.thread = cl.thread /\ cl'.known = cl.known /\ cl'.whole = cl.whole
    BY <1>1, <1>14 DEF StepDSend, ClientSet
  <2>3. QED
    BY <1>3, <1>6, <1>12, <2>1, <2>2 DEF Learning, StageD
<1>15. CASE StepDAwait
  <2>1. cpc = "d_send" /\ down' = down /\ cpc' = "d_read"
    BY <1>15 DEF StepDAwait, ClientGoto, streams
  <2>2. /\ cl'.thread = cl.thread /\ cl'.known = cl.known /\ cl'.whole = cl.whole
        /\ cl'.rd = Reading(4)
    BY <1>1, <1>15, Packets DEF StepDAwait, ClientSet
  <2>3. Reading(4).total = 0
    BY NewBuffer
  <2>4. /\ cl.whole /\ 3 \in cl.known /\ down[t] = LastPacket(spc[t])
        /\ 1 \in cl.known /\ 2 \in cl.known
    BY <1>3, <1>12, <2>1, <2>2 DEF Learning, StageD
  <2>5. Awaits(t)'
    BY <1>2, <2>1, <2>2, <2>3, <2>4 DEF Awaits
  <2>6. QED
    BY <2>1, <2>2, <2>4, <2>5
<1>16. CASE StepDPrint
  <2>1. cpc = "d_read" /\ cpc' = "printed" /\ ClientReadEnds
    BY <1>16 DEF StepDPrint, ClientGoto
  <2>2. PICK more : /\ cl' = [cl EXCEPT !.known = more]
                    /\ more = IF cl.rd.buf[SIZE_HEADER + 1] = "secretD" THEN cl.known \cup {4} ELSE cl.known
    BY <1>16 DEF StepDPrint
  <2>3. cl'.thread = cl.thread /\ cl'.known = more /\ cl'.whole = cl.whole
    BY <1>1, <2>2 DEF ClientSet
  <2>4. /\ Learning(t) /\ cl.thread = t /\ spc[t] # "failed"
        /\ 1 \in cl.known /\ 2 \in cl.known
    BY <1>12, <2>1, <2>3
  <2>5. cl.rd.buf = D2
    BY <1>3, <2>1, <2>4, NoEarlyEnd DEF Learning
  <2>6. more = cl.known \cup {4}
    BY <2>2, <2>5, Packets
  <2>7. cl.whole /\ 3 \in cl.known
    BY <1>3, <2>1, <2>4 DEF Learning, StageD
  <2>8. QED
    BY <2>1, <2>3, <2>4, <2>6, <2>7
<1>17. CASE StepASend \/ StepBFinalTimeout
  BY <1>6, <1>17 DEF StepASend, StepBFinalTimeout, ClientGoto
<1>18. QED
  BY <1>7, <1>8, <1>9, <1>10, <1>11, <1>13, <1>14, <1>15, <1>16, <1>17 DEF ClientStep, ClientWorks

LEMMA ThreadTeaches ==
  ASSUME Stages, Stages', Heard, Accounts, Lessons, NEW u \in Threads, ThreadStep(u),
         seen \subseteq seen', NEW t \in Threads
  PROVE  Learning(t)'
<1>1. /\ Granting(t) /\ Linked(t) /\ spc \in [Threads -> ServerSteps]
      /\ down \in [Threads -> Seq(Words)] /\ Counted(t) /\ Committed
  BY DEF Stages, Types, Accounts
<1>2. /\ \A v \in Threads \ {u} : spc'[v] = spc[v] /\ srv'[v] = srv[v]
      /\ cpc' = cpc /\ cl' = cl
  BY ThreadFrame
<1>3. Learning(t)
  BY DEF Lessons
<1>4. ASSUME down'[t] = down[t],
             spc'[t] = spc[t] \/ {spc[t], spc'[t]} \cap {"d", "done", "failed"} = {}
      PROVE  Learning(t)'
  <2>1. LastPacket(spc'[t]) = LastPacket(spc[t]) /\ (spc'[t] \in {"d", "done"} <=> spc[t] \in {"d", "done"})
        /\ (spc'[t] = "failed" <=> spc[t] = "failed")
    BY <1>4 DEF LastPacket
  <2>2. /\ Unread(t) => Unread(t)'
        /\ HasC2(t) => HasC2(t)'
        /\ Awaits(t) => Awaits(t)'
    BY <1>2, <1>4, <2>1 DEF Unread, HasC2, Awaits
  <2>3. QED
    BY <1>2, <1>3, <1>4, <2>1, <2>2 DEF Learning
<1>5. CASE spc'[t] = "failed"
  BY <1>5 DEF Learning
<1>6. CASE t # u
  <2>1. down'[t] = down[t]
    BY <1>1, <1>6 DEF ThreadStep, StepA, OutOfStep, Refuse, Acknowledge, StepBTimesOut, StepBEnds,
      StepCAccept, StepCTimesOut, ServerRead, StepDCheck, StepDTimesOut, StepDEnds, streams
  <2>2. QED
    BY <1>2, <1>4, <1>6, <2>1
<1>7. CASE StepA(t) \/ Refuse(t) \/ Acknowledge(t) \/ StepBEnds(t) \/ ServerRead(t)
  <2>1. /\ down' = down
        /\ \/ spc'[t] = spc[t]
           \/ spc[t] \in {"a", "b"} /\ spc'[t] \in {"b", "c"}
    BY <1>1, <1>7 DEF StepA, Refuse, Acknowledge, StepBEnds, ServerRead, ServerGoto, streams
  <2>2. QED
    BY <1>4, <2>1
<1>8. CASE OutOfStep(t) \/ StepBTimesOut(t) \/ StepCTimesOut(t) \/ StepDTimesOut(t)
  BY <1>1, <1>5, <1>8 DEF OutOfStep, StepBTimesOut, StepCTimesOut, StepDTimesOut, ServerGoto
<1>9. CASE StepDCheck(t)
  BY <1>1, <1>4, <1>5, <1>9 DEF StepDCheck, ServerGoto, streams
<1>10. CASE StepCAccept(t)
  <2>1. /\ spc[t] = "c" /\ link[t] = "connected" /\ spc'[t] = "d"
    BY <1>1, <1>10 DEF StepCAccept, Acceptable, ServerGoto
  <2>2. PICK p, q : p = C2 /\ q = down[t] /\ down'[t] = q \o p
    BY <1>1, <1>10 DEF StepCAccept
  <2>3. srv[t].granted = 2 /\ cpc \in Connected
    BY <1>1, <2>1 DEF Granting, Counted
  <2>4. q = <<>>
    BY <2>2, <2>3 DEF Heard
  <2>5. down'[t] = C2 \o LastPacket("d")
    <3>1. p \in Seq(Words)
      BY <2>2, PacketWords
    <3>2. q \o p = p /\ p \o <<>> = p
      BY <2>4, <3>1, ConcatEmptySeq
    <3>3. QED
      BY <2>2, <3>2 DEF LastPacket
  <2>6. SUFFICES ASSUME cl.thread = t, <<"short", "client">> \notin seen PROVE Learning(t)'
    BY <1>2 DEF Learning
  <2>7. cpc \notin StageD
    BY <1>1, <2>1, <2>3, <2>6 DEF Committed, Started
  <2>8. CASE cpc = "c_read"
    <3>1. cl.rd.total = 0 /\ 1 \in cl.known /\ 2 \in cl.known
      BY <1>3, <2>1, <2>6, <2>8 DEF Learning, Talking, StageB, Unread, HasC2
    <3>2. Unread(t)'
      BY <1>2, <2>1, <2>5, <3>1 DEF Unread
    <3>3. QED
      BY <1>2, <2>8, <3>1, <3>2 DEF Learning, StageD
  <2>9. CASE cpc = "crashed"
    BY <1>2, <2>9 DEF Learning, Talking, StageD
  <2>10. QED
    BY <2>3, <2>7, <2>8, <2>9 DEF Connected, StageD
<1>11. CASE StepDEnds(t)
  <2>1. spc[t] = "d" /\ spc'[t] = "done"
    BY <1>1, <1>11 DEF StepDEnds, ServerGoto
  <2>2. PICK p, q : p = D2 /\ q = down[t] /\ down'[t] = q \o p
    BY <1>1, <1>11 DEF StepDEnds
  <2>3. p \in Seq(Words) /\ LastPacket("d") = <<>> /\ LastPacket("done") = p
    BY <2>2, PacketWords DEF LastPacket
  <2>4. <<>> \o p = p
    BY <2>3, ConcatEmptySeq
  <2>5. down[t] = <<>> => down'[t] = LastPacket("done")
    BY <2>2, <2>3, <2>4
  <2>6. down[t] = C2 \o LastPacket("d") => down'[t] = C2 \o LastPacket("done")
    <3>1. PICK c : c = C2
      OBVIOUS
    <3>2. c \o <<>> = c
      BY <3>1, PacketWords, ConcatEmptySeq
    <3>3. QED
      BY <2>2, <2>3, <3>1, <3>2
  <2>7. /\ Unread(t) => Unread(t)'
        /\ HasC2(t) => HasC2(t)'
        /\ Awaits(t) => Awaits(t)'
    BY <1>2, <2>1, <2>3, <2>5, <2>6 DEF Unread, HasC2, Awaits
  <2>8. QED
    BY <1>2, <1>3, <2>1, <2>3, <2>5, <2>7 DEF Learning
<1>12. QED
  BY <1>6, <1>7, <1>8, <1>9, <1>10, <1>11 DEF ThreadStep

LEMMA OtherTeaches ==
  ASSUME Stages, Accounts, Lessons, seen \subseteq seen', NEW t \in Threads,
         \/ \E u \in Threads : ReceiveA1(u) \/ Collect(u) \/ Reset(u)
         \/ Lose \/ Duplicate \/ Overtake \/ ServerDies \/ UNCHANGED vars
  PROVE  Learning(t)'
<1>1. cpc' = cpc /\ cl' = cl
  BY OtherMeets
<1>2. /\ Learning(t) /\ Granting(t) /\ Linked(t) /\ Counted(t)
      /\ spc \in [Threads -> ServerSteps] /\ down \in [Threads -> Seq(Words)]
  BY DEF Lessons, Stages, Types, Accounts
<1>3. CASE spc'[t] = "failed"
  BY <1>3 DEF Learning
<1>4. ASSUME \/ spc'[t] = spc[t]
             \/ spc[t] = "none" /\ spc'[t] = "a",
             \/ down'[t] = down[t]
             \/ ~(cpc \in StageD \cup {"c_read"} /\ cl.thread = t)
      PROVE  Learning(t)'
  <2>1. LastPacket(spc'[t]) = LastPacket(spc[t]) /\ (spc'[t] \in {"d", "done"} <=> spc[t] \in {"d", "done"})
        /\ (spc'[t] = "failed" <=> spc[t] = "failed")
    BY <1>4 DEF LastPacket
  <2>2. down'[t] = down[t] =>
          /\ Unread(t) => Unread(t)'
          /\ HasC2(t) => HasC2(t)'
          /\ Awaits(t) => Awaits(t)'
    BY <1>1, <2>1 DEF Unread, HasC2, Awaits
  <2>3. QED
    BY <1>1, <1>2, <1>4, <2>1, <2>2 DEF Learning, StageD
<1>5. CASE \E u \in Threads : ReceiveA1(u)
  <2>1. /\ down' = down
        /\ \/ spc'[t] = spc[t]
           \/ spc[t] = "none" /\ spc'[t] = "a"
    BY <1>2, <1>5 DEF ReceiveA1, ServerGoto, streams
  <2>2. QED
    BY <1>4, <2>1
<1>6. CASE ServerDies
  <2>1. down' = down /\ spc'[t] = IF spc[t] = "done" THEN "done" ELSE "failed"
    BY <1>6 DEF ServerDies, streams
  <2>2. QED
    BY <1>3, <1>4, <2>1
<1>7. CASE Lose \/ Duplicate \/ Overtake \/ UNCHANGED vars \/ \E u \in Threads : Collect(u)
  <2>1. down' = down /\ spc' = spc
    BY <1>7 DEF Lose, Duplicate, Overtake, vars, Collect, streams, server
  <2>2. QED
    BY <1>4, <2>1
<1>8. ASSUME NEW u \in Threads, Reset(u) PROVE Learning(t)'
  <2>1. spc' = spc /\ link[u] = "closed" /\ up[u] # <<>> /\ \A v \in Threads \ {u} : down'[v] = down[v]
    BY <1>2, <1>8 DEF Reset, server
  <2>2. CASE u # t
    BY <1>4, <2>1, <2>2
  <2>3. CASE u = t /\ spc[t] # "failed" /\ <<"short", "client">> \notin seen
    <3>1. spc[t] = "done" /\ Balanced(t)
      BY <1>2, <2>1, <2>3 DEF Linked, Counted
    <3>2. cl.thread = t /\ cpc \in StageD => FALSE
      <4>1. cl.thread = t /\ cpc \in StageD => cl.whole
        BY <1>2, <2>3 DEF Learning
      <4>2. QED
        BY <2>1, <2>3, <3>1, <4>1, AllAccepted
    <3>3. cl.thread = t /\ cpc = "c_read" => FALSE
      <4>1. cpc = "c_read" => ~cl.whole
        BY DEF Accounts, Committed, StageD
      <4>2. QED
        BY <2>1, <2>3, <3>1, <4>1 DEF Balanced
    <3>4. QED
      BY <1>4, <2>1, <3>2, <3>3
  <2>4. QED
    BY <2>1, <2>2, <2>3 DEF Learning
<1>9. QED
  BY <1>5, <1>6, <1>7, <1>8

LEMMA AlwaysLessons == Spec => []Lessons
<1>1. Init => Lessons
  BY StageAssumption DEF Init, Lessons, Learning
<1>2. Stages /\ Stages' /\ Heard /\ Accounts /\ Lessons /\ [Next]_vars => Lessons'
  <2> SUFFICES ASSUME Stages, Stages', Heard, Accounts, Lessons, [Next]_vars, NEW t \in Threads
               PROVE  Learning(t)'
    BY DEF Lessons
  <2>1. seen \subseteq seen'
    BY SeenGrows
  <2>2. CASE ClientStep
    BY <2>1, <2>2, ClientLearnsAll
  <2>3. CASE \E u \in Threads : ThreadStep(u)
    BY <2>1, <2>3, ThreadTeaches
  <2>4. CASE \/ \E u \in Threads : ReceiveA1(u) \/ Collect(u) \/ Reset(u)
             \/ Lose \/ Duplicate \/ Overtake \/ ServerDies \/ UNCHANGED vars
    BY <2>1, <2>4, OtherTeaches
  <2>5. QED
    BY <2>2, <2>3, <2>4 DEF Next
<1>3. QED
  BY <1>1, <1>2, AlwaysStages, AlwaysHeard, AlwaysAccounts, PTL DEF Spec

(* The client prints the four secrets it was given (Client.java:51),         *)
(* although it ignores what PacketUtil.read returns (lines 79 and 89), unless *)
(* a read returned a part of a packet or its server thread has failed.       *)
THEOREM PrintsGenuine == Spec => []PrintedGenuine
<1>1. Stages /\ Lessons => PrintedGenuine
  <2> SUFFICES ASSUME Stages, Lessons, cpc = "printed", <<"short", "client">> \notin seen,
                      spc[cl.thread] # "failed"
               PROVE  cl.known = 1 .. 4
    BY DEF PrintedGenuine
  <2>1. PICK t \in Threads : t = cl.thread
    BY DEF Stages, Meeting, Talking
  <2>2. 1 \in cl.known /\ 2 \in cl.known /\ 3 \in cl.known /\ 4 \in cl.known
    BY <2>1 DEF Lessons, Learning, Talking, StageB, StageD
  <2>3. cl.known \subseteq 1 .. 4
    BY DEF Stages, Types, ClientSet
  <2>4. \A n \in 1 .. 4 : n = 1 \/ n = 2 \/ n = 3 \/ n = 4
    OBVIOUS
  <2>5. QED
    BY <2>2, <2>3, <2>4
<1>2. QED
  BY <1>1, AlwaysStages, AlwaysLessons, PTL

=============================================================================
