------------------------------- MODULE Session -------------------------------
(***************************************************************************)
(* The round trip of server.c and client.c: the handshake over UDP, the    *)
(* TCP connections with a reader and a sender thread each at both ends,    *)
(* and one buffer from each client to the server and back.                 *)
(*                                                                         *)
(* What the other modules show is used here.  A queue with its sender      *)
(* carries blocks in order (CarriesInOrder of MultiplexWriter): the        *)
(* client's queue and its TCP stream are one sequence, up; on the server   *)
(* they are two, because the sender thread names its connection by a       *)
(* descriptor, which may have been closed and used again.  A reader gives  *)
(* its handler a buffer when the init block and all data blocks have come  *)
(* (InOrderDelivery): of the hash table, what has come is left.            *)
(***************************************************************************)
EXTENDS Naturals, Sequences, FiniteSets

CONSTANTS
  Clients,     \* runs of the client program
  MAX_CONN,    \* the most connections the server admits (server.c:16)
  MaxFaults,   \* bound on the faults of a behaviour
  Setups       \* what varies: how many connections each client asks for (none
               \* if it is not run), how many data blocks a buffer has, their
               \* stride (unif_size: the b-th goes to queue b * stride % n),
               \* a bound on the faults

ASSUME SessionAssumption ==
  /\ MAX_CONN \in Nat \ {0} /\ MaxFaults \in Nat
  /\ IsFiniteSet(Clients) /\ "-" \notin Clients    \* "-": nobody's bytes
  /\ Setups \subseteq [conns : [Clients -> Nat], blocks : Nat \ {0}, stride : Nat,
                       faults : 0 .. MaxFaults]
  /\ \A x \in Setups, c \in Clients :    \* EnoughBlocks of BlockSplit
       x.conns[c] <= MAX_CONN => x.blocks >= x.conns[c]

VARIABLES
  setup,       \* the one of this behaviour; it does not change
  request,     \* request[c]: copies of c's datagram on their way to the server
  answer,      \* answer[c]: the sessions whose port is on its way to c
  cpc, cl,     \* each client: its next step, its session, connections, table
  main,        \* the main thread of the server: the session it is setting up
  sess,        \* the sessions, one for each datagram admitted
  fds,         \* the descriptors of the server: what each number stands for
  conn,        \* conn[c][i]: the i-th connection of c as the server finds it
  up, down,    \* up[c][i], down[c][i]: blocks on their way over it
  alive, wild, \* does the server run; has it used an unset entry of queues[]
  faults, seen, quits  \* number and kinds of faults; clients that were stopped

udp == <<request, answer>>
client == <<cpc, cl>>
streams == <<up, down>>
process == <<alive, wild>>
history == <<faults, seen, quits>>
vars == <<setup, udp, client, main, sess, fds, conn, streams, process, history>>

MaxSessions == Cardinality(Clients) + MaxFaults

num_conn(c) == setup.conns[c]
Conns(c) == 1 .. num_conn(c)
DataBlocks == 1 .. setup.blocks

-----------------------------------------------------------------------------
(* Blocks: block 0 is the init block, the others are data blocks.  All      *)
(* buffers are numbered from -1, so blocks of different clients look the    *)
(* same; "from" says whose bytes they carry.                                *)

Block(c, b) == [from |-> c, num |-> b]

QueueOfInitFirst(c, b) ==
  IF b = 0 THEN 1 ELSE (((b - 1) * setup.stride) % num_conn(c)) + 1

(* multiplex_write_queues: the init block goes to the last queue *)
QueueOf(c, b) == IF b = 0 THEN num_conn(c) ELSE (((b - 1) * setup.stride) % num_conn(c)) + 1

(* what the i-th of the queues is given *)
Written(c, i) ==
  LET given[n \in 0 .. setup.blocks + 1] ==
        IF n = 0 THEN <<>>
        ELSE IF QueueOf(c, n - 1) = i THEN Append(given[n - 1], Block(c, n - 1))
        ELSE given[n - 1]
  IN given[setup.blocks + 1]

(* A table of blocks received.  The reader counts bytes, it does not look   *)
(* which ones.                                                              *)
NoneYet == [init |-> FALSE, count |-> 0, data |-> [b \in DataBlocks |-> "-"]]

Add(got, block) ==
  IF block.num = 0
    THEN [got EXCEPT !.init = TRUE]
    ELSE [got EXCEPT !.count = @ + 1, !.data[block.num] = block.from]

Complete(got) == got.init /\ got.count = setup.blocks

-----------------------------------------------------------------------------
(* Faults, and connections that end *)

Fault(what) ==
  /\ faults < setup.faults
  /\ faults' = faults + 1
  /\ seen' = seen \cup {what}
  /\ UNCHANGED quits

NoFault == UNCHANGED history

(* The process of client c ends.  A connection on which it leaves data      *)
(* unread is reset, the others end in order; only a part of what it had     *)
(* queued has been sent.                                                    *)
ProcessEnds(c, unread) ==
  /\ cpc' = [cpc EXCEPT ![c] = "gone"]
  /\ conn' = [conn EXCEPT ![c] =
                [i \in Conns(c) |-> IF @[i] # "open" THEN @[i]
                                    ELSE IF unread[i] # <<>> THEN "rst" ELSE "fin"]]
  /\ \E sent \in [Conns(c) -> 0 .. setup.blocks + 1] :
       /\ \A i \in Conns(c) : sent[i] <= Len(up[c][i])
       /\ up' = [up EXCEPT ![c] = [i \in Conns(c) |-> SubSeq(@[i], 1, sent[i])]]
  /\ down' = [down EXCEPT ![c] = [i \in Conns(c) |-> <<>>]]
  /\ answer' = [answer EXCEPT ![c] = {}]

LoseRequest(c) ==
  /\ request[c] > 0 /\ Fault("lost")
  /\ request' = [request EXCEPT ![c] = @ - 1]
  /\ UNCHANGED <<setup, answer, client, main, sess, fds, conn, streams, process>>

DuplicateRequest(c) ==
  /\ request[c] > 0 /\ Fault("duplicated")
  /\ request' = [request EXCEPT ![c] = @ + 1]
  /\ UNCHANGED <<setup, answer, client, main, sess, fds, conn, streams, process>>

LoseAnswer(c) ==
  /\ \E s \in answer[c] : answer' = [answer EXCEPT ![c] = @ \ {s}]
  /\ Fault("lost")
  /\ UNCHANGED <<setup, request, client, main, sess, fds, conn, streams, process>>

-----------------------------------------------------------------------------
(* The client *)

SendRequest(c) ==
  /\ cpc[c] = "handshake"
  /\ request' = [request EXCEPT ![c] = @ + 1]
  /\ cpc' = [cpc EXCEPT ![c] = "waiting"]
  /\ UNCHANGED <<setup, answer, cl, main, sess, fds, conn, streams, process, history>>

ReceivePort(c) ==
  /\ cpc[c] = "waiting"
  /\ \E s \in answer[c] :
       /\ cl' = [cl EXCEPT ![c].session = s]
       /\ answer' = [answer EXCEPT ![c] = @ \ {s}]
  /\ cpc' = [cpc EXCEPT ![c] = "connecting"]
  /\ UNCHANGED <<setup, request, main, sess, fds, conn, streams, process, history>>

(* The port may still come, unless both datagrams are lost or the server    *)
(* has taken no notice.                                                     *)
Expected(c) ==
  /\ alive
  /\ \/ request[c] > 0 /\ num_conn(c) <= MAX_CONN
     \/ answer[c] # {}
     \/ main.step = "send" /\ sess[main.session].client = c

HandshakeTimesOut(c) ==
  /\ cpc[c] = "waiting"
  /\ IF Expected(c) THEN Fault("late") ELSE NoFault
  /\ cpc' = [cpc EXCEPT ![c] = "gone"]
  /\ answer' = [answer EXCEPT ![c] = {}]
  /\ UNCHANGED <<setup, request, cl, main, sess, fds, conn, streams, process>>

Listening(s) == alive /\ sess[s].step = "listening"

(* connect, and after the last one test_writing *)
Connect(c) ==
  /\ cpc[c] = "connecting" /\ Listening(cl[c].session)
  /\ LET i == cl[c].opened + 1 IN
       /\ cl' = [cl EXCEPT ![c].opened = i]
       /\ conn' = [conn EXCEPT ![c][i] = "open"]
       /\ IF i = num_conn(c)
            THEN /\ up' = [up EXCEPT ![c] = [j \in Conns(c) |-> Written(c, j)]]
                 /\ cpc' = [cpc EXCEPT ![c] = "sleeping"]
            ELSE UNCHANGED <<up, cpc>>
  /\ UNCHANGED <<setup, udp, main, sess, fds, down, process, history>>

(* without the loop: main exits when connect fails *)
RefusedGivesUp(c) ==
  /\ cpc[c] = "connecting" /\ ~Listening(cl[c].session)
  /\ ProcessEnds(c, down[c])
  /\ UNCHANGED <<setup, request, cl, main, sess, fds, process, history>>

(* The loop of open_tcp: the connection is refused, and tried again. *)
Refused(c) ==
  /\ cpc[c] = "connecting" /\ ~Listening(cl[c].session)
  /\ UNCHANGED vars

(* A reader thread of the client handles a block as if it were alone.       *)
(* handle_block exits on a second init block, and save_buffer once it has   *)
(* written the file.                                                        *)
ClientRead(c, i) ==
  /\ i \in Conns(c) /\ cpc[c] # "gone" /\ down[c][i] # <<>>
  /\ LET block == Head(down[c][i])
         unread == [down[c] EXCEPT ![i] = Tail(@)]
         second == block.num = 0 /\ cl[c].got.init
         got == Add(cl[c].got, block)
     IN /\ cl' = [cl EXCEPT ![c].got = got, ![c].saved = Complete(got) /\ ~second]
        /\ IF second \/ Complete(got)
             THEN ProcessEnds(c, unread)
             ELSE down' = [down EXCEPT ![c] = unread] /\ UNCHANGED <<cpc, conn, up, answer>>
  /\ UNCHANGED <<setup, request, main, sess, fds, process, history>>

(* The readers of a client share one table, and handle_block takes no lock: *)
(* where two overlap a block may be lost (multiplex_reader.c:117-120,       *)
(* 182-197, 238-243).                                                       *)
ClientRaces(c, i) ==
  /\ i \in Conns(c) /\ num_conn(c) > 1 /\ cpc[c] # "gone" /\ down[c][i] # <<>>
  /\ Fault("raced")
  /\ down' = [down EXCEPT ![c][i] = Tail(@)]
  /\ UNCHANGED <<setup, udp, client, main, sess, fds, conn, up, process>>

(* Someone stops the client, or its 600 seconds are over. *)
Quit(c) ==
  /\ cpc[c] # "gone"
  /\ ProcessEnds(c, down[c])
  /\ quits' = quits \cup {c}
  /\ UNCHANGED <<setup, request, cl, main, sess, fds, process, faults, seen>>

-----------------------------------------------------------------------------
(* The server: main *)

Free == <<"free">>
LowestFree == CHOOSE f \in DOMAIN fds : fds[f] = Free /\ \A g \in 1 .. f - 1 : fds[g] # Free

(* recvfrom and the check of num_conn, then bind_random_port.  The port is  *)
(* not yet listened on.                                                     *)
Receive(c) ==
  /\ alive /\ main.step = "receive" /\ request[c] > 0
  /\ request' = [request EXCEPT ![c] = @ - 1]
  /\ IF num_conn(c) > MAX_CONN
       THEN UNCHANGED <<main, sess, fds>>
       ELSE /\ sess' = Append(sess, [client |-> c, step |-> "bound", conns |-> <<>>,
                                     got |-> NoneYet])
            /\ fds' = [fds EXCEPT ![LowestFree] = <<"listener">>]
            /\ main' = [step |-> "send", session |-> Len(sess) + 1]
  /\ UNCHANGED <<setup, answer, client, conn, streams, process, history>>

(* A datagram for a client that is gone goes nowhere. *)
SendPort ==
  /\ alive /\ main.step = "send"
  /\ answer' = LET c == sess[main.session].client IN
               IF cpc[c] = "gone" THEN answer ELSE [answer EXCEPT ![c] = @ \cup {main.session}]
  /\ main' = [main EXCEPT !.step = "create"]
  /\ UNCHANGED <<setup, request, client, sess, fds, conn, streams, process, history>>

CreateThread ==
  /\ alive /\ main.step = "create"
  /\ sess' = [sess EXCEPT ![main.session].step = "started"]
  /\ main' = [main EXCEPT !.step = "receive"]
  /\ UNCHANGED <<setup, udp, client, fds, conn, streams, process, history>>

-----------------------------------------------------------------------------
(* The server: serve_client, and the threads it starts *)

Listen(s) ==
  /\ s \in DOMAIN sess /\ alive /\ sess[s].step = "started"
  /\ sess' = [sess EXCEPT ![s].step = "listening"]
  /\ UNCHANGED <<setup, udp, client, main, fds, conn, streams, process, history>>

(* The connections of the session's client that wait to be accepted.  The   *)
(* one made first comes first, unless the last packet of its handshake,     *)
(* which comes by a network of its own, is late.                            *)
Backlog(s) ==
  LET c == sess[s].client IN
  {i \in Conns(c) : /\ cl[c].session = s /\ conn[c][i] # "none"
                    /\ \A k \in 1 .. Len(sess[s].conns) : sess[s].conns[k].conn # i}

(* accept, allocate_queue, and the two threads, of which the reader may run *)
(* while the next call of accept waits                                      *)
Accept(s) ==
  /\ s \in DOMAIN sess /\ Listening(s) /\ Len(sess[s].conns) < num_conn(sess[s].client)
  /\ \E i \in Backlog(s) :
       /\ IF \E j \in Backlog(s) : j < i THEN Fault("overtaken") ELSE NoFault
       /\ sess' = [sess EXCEPT ![s].conns =
                     Append(@, [conn |-> i, fd |-> LowestFree, queue |-> <<>>, reads |-> TRUE])]
       /\ fds' = [fds EXCEPT ![LowestFree] = <<sess[s].client, i>>]
  /\ UNCHANGED <<setup, udp, client, main, conn, streams, process>>

(* bounce_buffer: multiplex_write_queues on all of queues[].  An entry not  *)
(* yet set is NULL or wild, and the process does not survive its use.       *)
Bounce(s, got, conns) ==
  LET c == sess[s].client IN
  /\ sess' = [sess EXCEPT ![s].got = got,
                          ![s].conns = [k \in DOMAIN conns |->
                             [conns[k] EXCEPT !.queue = @ \o Written(c, k)]]]
  /\ LET unset == Len(conns) < num_conn(c) IN wild' = (wild \/ unset) /\ alive' = ~unset

IsThread(s, k) == s \in DOMAIN sess /\ k \in DOMAIN sess[s].conns

(* The k-th reader thread handles a block as if it were alone; the one with *)
(* the last block of the buffer runs the handler.                           *)
ServerRead(s, k) ==
  IsThread(s, k) /\
  LET c == sess[s].client
      me == sess[s].conns[k]
      got == Add(sess[s].got, Head(up[c][me.conn])) IN
  /\ alive /\ me.reads /\ up[c][me.conn] # <<>>
  /\ up' = [up EXCEPT ![c][me.conn] = Tail(@)]
  /\ IF Complete(got)
       THEN Bounce(s, got, sess[s].conns)
       ELSE sess' = [sess EXCEPT ![s].got = got] /\ UNCHANGED process
  /\ UNCHANGED <<setup, udp, client, main, fds, conn, down, history>>

(* Two readers of the session overlap, and the block of one is lost. *)
ServerRaces(s, k) ==
  IsThread(s, k) /\
  LET c == sess[s].client
      me == sess[s].conns[k] IN
  /\ Len(sess[s].conns) > 1 /\ alive /\ me.reads /\ up[c][me.conn] # <<>>
  /\ Fault("raced")
  /\ up' = [up EXCEPT ![c][me.conn] = Tail(@)]
  /\ UNCHANGED <<setup, udp, client, main, sess, fds, conn, down, process>>

AtEndIdle(c, i) == up[c][i] = <<>>
AtEnd(c, i) == up[c][i] = <<>> /\ conn[c][i] = "fin"

ReaderClosesAndGoesOn(s, k) ==
  IsThread(s, k) /\
  LET me == sess[s].conns[k] IN
  /\ alive /\ me.reads
  /\ AtEnd(sess[s].client, me.conn) \/ conn[sess[s].client][me.conn] = "rst"
  /\ fds' = [fds EXCEPT ![me.fd] = Free]
  /\ UNCHANGED <<setup, udp, client, main, sess, conn, streams, process, history>>

(* End of stream, or a reset the sender has been told of: the reader closes *)
(* the descriptor and returns.                                              *)
ReaderCloses(s, k) ==
  IsThread(s, k) /\
  LET me == sess[s].conns[k] IN
  /\ alive /\ me.reads
  /\ AtEnd(sess[s].client, me.conn) \/ conn[sess[s].client][me.conn] = "rst"
  /\ sess' = [sess EXCEPT ![s].conns[k].reads = FALSE]
  /\ fds' = [fds EXCEPT ![me.fd] = Free]
  /\ UNCHANGED <<setup, udp, client, main, conn, streams, process, history>>

(* A reset makes read return -1, and the reader returns without closing.    *)
ReaderFails(s, k) ==
  IsThread(s, k) /\
  LET me == sess[s].conns[k] IN
  /\ alive /\ me.reads /\ conn[sess[s].client][me.conn] = "rst"
  /\ sess' = [sess EXCEPT ![s].conns[k].reads = FALSE]
  /\ UNCHANGED <<setup, udp, client, main, fds, conn, streams, process, history>>

(* The k-th sender thread sends a block on its descriptor, whatever that    *)
(* stands for by now: nothing (the call fails and the block is dropped), a  *)
(* socket that only listens or whose connection was reset (SIGPIPE ends the *)
(* process, or the reset is reported first), a connection whose other end   *)
(* is gone (it is reset), or one that takes the block.                      *)
ServerSend(s, k) ==
  IsThread(s, k) /\
  LET me == sess[s].conns[k] IN
  /\ alive /\ me.queue # <<>>
  /\ sess' = [sess EXCEPT ![s].conns[k].queue = Tail(@)]
  /\ LET target == fds[me.fd] IN
     IF target = Free THEN UNCHANGED <<conn, down, alive>>
     ELSE IF target = <<"listener">> THEN alive' = FALSE /\ UNCHANGED <<conn, down>>
     ELSE LET c == target[1]
              i == target[2] IN
       \/ /\ conn[c][i] = "open"
          /\ down' = [down EXCEPT ![c][i] = Append(@, Head(me.queue))]
          /\ UNCHANGED <<conn, alive>>
       \/ /\ conn[c][i] = "fin"
          /\ conn' = [conn EXCEPT ![c][i] = "rst"]
          /\ UNCHANGED <<down, alive>>
       \/ /\ conn[c][i] = "rst"
          /\ alive' \in BOOLEAN
          /\ UNCHANGED <<conn, down>>
  /\ UNCHANGED <<setup, udp, client, main, fds, up, wild, history>>

-----------------------------------------------------------------------------
Init ==
  /\ setup \in Setups
  /\ request = [c \in Clients |-> 0]
  /\ answer = [c \in Clients |-> {}]
  /\ cpc = [c \in Clients |-> IF num_conn(c) = 0 THEN "gone" ELSE "handshake"]
  /\ cl = [c \in Clients |-> [session |-> 0, opened |-> 0, got |-> NoneYet, saved |-> FALSE]]
  /\ main = [step |-> "receive", session |-> 0]
  /\ sess = <<>>
  /\ fds = [f \in 1 .. MaxSessions * (MAX_CONN + 1) |-> Free]
  /\ conn = [c \in Clients |-> [i \in Conns(c) |-> "none"]]
  /\ up = [c \in Clients |-> [i \in Conns(c) |-> <<>>]]
  /\ down = up
  /\ alive = TRUE
  /\ wild = FALSE
  /\ faults = 0
  /\ seen = {}
  /\ quits = {}

ClientStep(c) == SendRequest(c) \/ ReceivePort(c) \/ Connect(c)
MainStep == (\E c \in Clients : Receive(c)) \/ SendPort \/ CreateThread
SessionStep(s) == Listen(s) \/ Accept(s)
ReaderStep(s, k) == ServerRead(s, k) \/ ReaderCloses(s, k) \/ ReaderFails(s, k)

(* All clients are gone and the server waits for the next. *)
Idle ==
  /\ \A c \in Clients : cpc[c] = "gone"
  /\ UNCHANGED vars

Next ==
  \/ \E c \in Clients :
       \/ ClientStep(c) \/ HandshakeTimesOut(c) \/ Refused(c) \/ Quit(c)
       \/ LoseRequest(c) \/ DuplicateRequest(c) \/ LoseAnswer(c)
       \/ \E i \in 1 .. MAX_CONN : ClientRead(c, i) \/ ClientRaces(c, i)
  \/ MainStep
  \/ \E s \in 1 .. MaxSessions :
       \/ SessionStep(s)
       \/ \E k \in 1 .. MAX_CONN :
            ReaderStep(s, k) \/ ServerRaces(s, k) \/ ServerSend(s, k)
  \/ Idle

(* Threads and processes that can go on do so; no fault has to happen.      *)
Fairness ==
  /\ \A c \in Clients :
       /\ WF_vars(NoFault /\ (ClientStep(c) \/ HandshakeTimesOut(c)))
       /\ \A i \in 1 .. MAX_CONN : WF_vars(ClientRead(c, i))
  /\ WF_vars(MainStep)
  /\ \A s \in 1 .. MaxSessions :
       /\ WF_vars(NoFault /\ SessionStep(s))
       /\ \A k \in 1 .. MAX_CONN :
            WF_vars(ReaderStep(s, k)) /\ WF_vars(ServerSend(s, k))

Spec == Init /\ [][Next]_vars
FairSpec == Spec /\ Fairness

-----------------------------------------------------------------------------
(* Counts are in range, and a reader that has not returned reads from the    *)
(* descriptor that stands for its connection (multiplex_reader.c:50-61).     *)
TypeOK ==
  /\ \A c \in Clients : request[c] <= 1 + faults /\ answer[c] \subseteq DOMAIN sess
  /\ \A c \in Clients : cl[c].session \in 0 .. Len(sess) /\ cl[c].opened \in 0 .. num_conn(c)
  /\ \A s \in DOMAIN sess :
       LET conns == sess[s].conns IN
       /\ Len(conns) <= num_conn(sess[s].client) /\ num_conn(sess[s].client) <= MAX_CONN
       /\ \A k \in DOMAIN conns :
            conns[k].reads => fds[conns[k].fd] = <<sess[s].client, conns[k].conn>>

(* Readers run while queues[] is being filled (server.c:131-149), but when   *)
(* bounce_buffer uses all of it, all of it is set: the init block comes on   *)
(* the connection made last.  This needs the connections to be accepted in   *)
(* the order in which they were made.                                        *)
QueuesReady == wild => "overtaken" \in seen

(* Each file that save_buffer writes is the client's own data (client.c:92). *)
OwnFile == \A c \in Clients : cl[c].saved => cl[c].got.data = [b \in DataBlocks |-> c]

(* A client ends as soon as it has its file, with the server's threads still *)
(* on its connections, and descriptors are used again; as long as no client  *)
(* is stopped before it has its file, SIGPIPE does not end the server and    *)
(* every file is its client's own data, whatever happens to the datagrams.   *)
EndsHarmless == quits = {} => (alive \/ wild) /\ OwnFile

Released(c) == \A f \in DOMAIN fds : fds[f] \notin {<<c, i>> : i \in Conns(c)}

(* The round trip: every client that asks for no more than MAX_CONN          *)
(* connections gets its file back, and the server closes its descriptors, if *)
(* no client is stopped, no two readers of one table overlap so that a block *)
(* is lost (the code does nothing against that), and nothing worse happens   *)
(* than that a datagram is duplicated.  That the port is sent before it is   *)
(* listened on (server.c:99, 128) does no harm, because open_tcp tries again *)
(* (utils.c:111-116).                                                        *)
RoundTrip ==
  [](seen \subseteq {"duplicated"} /\ quits = {}) =>
    \A c \in Clients : num_conn(c) \in 1 .. MAX_CONN => <>[](cl[c].saved /\ Released(c))
=============================================================================
