---------------------------- MODULE SessionProofs ----------------------------
(***************************************************************************)
(* Proofs about Session: its types, that the server never uses an unset    *)
(* entry of queues[] unless a connection was accepted out of order, and    *)
(* that the end of a client that has its file harms nobody.  For any       *)
(* number of clients, connections, blocks and faults.                      *)
(***************************************************************************)
EXTENDS Session, Integers, SequenceTheorems, FiniteSetTheorems,
        WellFoundedInduction, TLAPS

(* Induction, for a set of numbers: one that holds 0 and the successor of   *)
(* each of its members holds them all.                                      *)
LEMMA Rising ==
  ASSUME NEW T, T \subseteq Nat, 0 \in T, \A n \in T : n + 1 \in T
  PROVE  T = Nat
<1> SUFFICES ASSUME Nat \ T # {} PROVE FALSE
  OBVIOUS
<1>1. PICK x \in Nat \ T : \A y \in Nat \ T : ~ (<<y, x>> \in OpToRel(<, Nat))
  BY WFMin, NatLessThanWellFounded
<1>2. \A y \in Nat \ T : ~(y < x)
  BY <1>1 DEF OpToRel
<1>3. x \in Nat /\ x \notin T /\ x # 0
  BY <1>1
<1> HIDE <1>1
<1>4. x - 1 \in Nat /\ x - 1 < x /\ (x - 1) + 1 = x
  BY <1>3
<1>5. x - 1 \in T
  BY <1>2, <1>4
<1>6. QED
  BY <1>3, <1>4, <1>5

(* The invariants speak of the setup x, of one client's table "got" or of   *)
(* one queue "q"; as operators of these they mean the same before and after *)
(* a step.                                                                  *)
Links(x, c) == 1 .. x.conns[c]
Slot(x, c, b) == IF b = 0 THEN x.conns[c] ELSE (((b - 1) * x.stride) % x.conns[c]) + 1

Fds == 1 .. MaxSessions * (MAX_CONN + 1)
Targets(x) == {p \in Clients \X Nat : p[2] \in Links(x, p[1])}
Blocks(x) == [from : Clients, num : 0 .. x.blocks]
Tables(x) == [init : BOOLEAN, count : Nat, data : [1 .. x.blocks -> Clients \cup {"-"}]]
Threads(x) == [conn : Nat, fd : Fds, queue : Seq(Blocks(x)), reads : BOOLEAN]
Runs(x) == [session : Nat, opened : Nat, got : Tables(x), saved : BOOLEAN]
Sessions(x) == [client : Clients, step : {"bound", "started", "listening"},
                conns : Seq(Threads(x)), got : Tables(x)]

-----------------------------------------------------------------------------
(* The types *)

ClientTypes ==
  /\ request \in [Clients -> Nat]
  /\ answer \in [Clients -> SUBSET Nat]
  /\ cpc \in [Clients -> {"handshake", "waiting", "connecting", "sleeping", "gone"}]
  /\ cl \in [Clients -> Runs(setup)]

ServerTypes ==
  /\ main \in [step : {"receive", "send", "create"}, session : Nat]
  /\ sess \in Seq(Sessions(setup))
  /\ fds \in [Fds -> {Free, <<"listener">>} \cup Targets(setup)]

LinkTypes ==
  /\ DOMAIN conn = Clients /\ DOMAIN up = Clients /\ DOMAIN down = Clients
  /\ \A c \in Clients :
       /\ conn[c] \in [Links(setup, c) -> {"none", "open", "fin", "rst"}]
       /\ up[c] \in [Links(setup, c) -> Seq(Blocks(setup))]
       /\ down[c] \in [Links(setup, c) -> Seq(Blocks(setup))]

Types ==
  /\ setup \in Setups
  /\ ClientTypes /\ ServerTypes /\ LinkTypes
  /\ alive \in BOOLEAN /\ wild \in BOOLEAN /\ faults \in Nat

-----------------------------------------------------------------------------
(* The handshake: what a client has of its session, at each of its steps.   *)

Early == {"handshake", "waiting"}

Shaken(x, pc, me) ==
  /\ pc # "gone" => x.conns[me] > 0
  /\ pc \in Early => cl[me].session = 0
  /\ pc \in {"connecting", "sleeping"} => cl[me].session # 0
  /\ cl[me].session = 0 => cl[me].opened = 0
  /\ pc = "connecting" => cl[me].opened < x.conns[me]
  /\ cl[me].opened <= x.conns[me]

(* A client, what is on its way to it, and its connections. *)
Settled(c) ==
  /\ Shaken(setup, cpc[c], c)
  /\ request[c] <= (IF cpc[c] = "handshake" THEN 0 ELSE 1) + faults
  /\ \A s \in answer[c] : s \in DOMAIN sess /\ sess[s].client = c
  /\ cl[c].session # 0 => cl[c].session \in DOMAIN sess /\ sess[cl[c].session].client = c
  /\ \A i \in Links(setup, c) : conn[c][i] # "none" <=> i <= cl[c].opened

Handshake ==
  /\ main.step # "receive" => main.session \in DOMAIN sess
  /\ \A c \in Clients : Settled(c)

(* Each datagram of a client, or a copy of it, makes at most one session.   *)
Datagrams == UNION {{<<c, n>> : n \in 1 .. request[c]} : c \in Clients}
Asked == {c \in Clients : cpc[c] # "handshake"}

Budget ==
  /\ IsFiniteSet(Datagrams)
  /\ Cardinality(Datagrams) + Len(sess) <= Cardinality(Asked) + faults
  /\ faults <= MaxFaults

-----------------------------------------------------------------------------
(* The threads of the sessions: thread k serves a connection of its own,    *)
(* which its client made to this session.                                   *)
ThreadsOf(s) == DOMAIN sess[s].conns

Served ==
  \A s \in DOMAIN sess :
    LET c == sess[s].client IN
    /\ setup.conns[c] <= MAX_CONN
    /\ Len(sess[s].conns) <= setup.conns[c]
    /\ \A k \in ThreadsOf(s) :
         /\ cl[c].session = s
         /\ sess[s].conns[k].conn \in 1 .. cl[c].opened
         /\ \A m \in ThreadsOf(s) : sess[s].conns[k].conn = sess[s].conns[m].conn => k = m

Listeners == {f \in Fds : fds[f] = <<"listener">>}

(* Descriptors suffice: one for each session and each of its connections.   *)
Descriptors ==
  /\ Cardinality(Listeners) <= Len(sess)
  /\ \A f \in Fds : fds[f] \notin {Free, <<"listener">>} =>
       \E s \in DOMAIN sess : \E k \in ThreadsOf(s) : sess[s].conns[k].fd = f
  /\ \A s \in DOMAIN sess : \A k \in ThreadsOf(s) :
       sess[s].conns[k].reads =>
         fds[sess[s].conns[k].fd] = <<sess[s].client, sess[s].conns[k].conn>>

TypeInv == Types /\ Handshake /\ Budget /\ Served /\ Descriptors

-----------------------------------------------------------------------------
(* The init block travels on the connection made last.                      *)
LastLinks ==
  /\ \A c \in Clients : \A i \in Links(setup, c) : \A j \in 1 .. Len(up[c][i]) :
       up[c][i][j].num = 0 => i = setup.conns[c]
  /\ \A s \in DOMAIN sess : sess[s].got.init =>
       \E k \in ThreadsOf(s) : sess[s].conns[k].conn = setup.conns[sess[s].client]

InTurn ==
  "overtaken" \notin seen =>
    \A s \in DOMAIN sess : \A k \in ThreadsOf(s) : sess[s].conns[k].conn = k

ReadyInv == LastLinks /\ InTurn /\ QueuesReady

-----------------------------------------------------------------------------
(* No block is twice on its way.  Has: block b is in the table.             *)

Has(got, b) == IF b = 0 THEN got.init ELSE got.data[b] # "-"
Lacks(got, q) == \A j \in 1 .. Len(q) : ~Has(got, q[j].num)
Full(x, got) == got.init /\ got.count = x.blocks

(* A table that holds blocks of client c only, each once. *)
Counts(x, got, c) ==
  /\ \A b \in 1 .. x.blocks : got.data[b] \in {c, "-"}
  /\ got.count = Cardinality({b \in 1 .. x.blocks : got.data[b] # "-"})

(* A queue of blocks of client c that belong to the i-th of its queues. *)
Ordered(x, c, i, q) ==
  /\ \A j \in 1 .. Len(q) : q[j].from = c /\ Slot(x, c, q[j].num) = i
  /\ \A j, k \in 1 .. Len(q) : j < k => q[j].num < q[k].num

Before(p, q) == \A j \in 1 .. Len(p), k \in 1 .. Len(q) : p[j].num < q[k].num

Nothing(x, got) == \A b \in 0 .. x.blocks : ~Has(got, b)

Calling == Early \cup {"connecting"}

(* Has the server sent anything back to c?  Only when it had everything. *)
Turned(c) == cl[c].session # 0 /\ Full(setup, sess[cl[c].session].got)

(* The i-th connection of c.  What is on its way up is not yet received; a  *)
(* block on its way down has a thread that sent it; and the connection ends *)
(* only when its client has the whole buffer.                               *)
LinkTrip(c, i) ==
  /\ Ordered(setup, c, i, up[c][i])
  /\ cpc[c] \in Calling \/ cl[c].session = 0 => up[c][i] = <<>>
  /\ cl[c].session # 0 => Lacks(sess[cl[c].session].got, up[c][i])
  /\ Lacks(cl[c].got, down[c][i])
  /\ ~Turned(c) => down[c][i] = <<>>
  /\ down[c][i] # <<>> =>
       \E k \in ThreadsOf(cl[c].session) : sess[cl[c].session].conns[k].conn = i
  /\ conn[c][i] # "rst" /\ (conn[c][i] = "fin" => Full(setup, cl[c].got))

ClientTrip(c) ==
  /\ Counts(setup, cl[c].got, c)
  /\ cl[c].saved => Full(setup, cl[c].got)
  /\ ~Turned(c) => Nothing(setup, cl[c].got)
  /\ \A i \in Links(setup, c) : LinkTrip(c, i)

(* The k-th thread of s. *)
ThreadTrip(s, k) ==
  LET c == sess[s].client
      me == sess[s].conns[k] IN
  /\ ~Full(setup, sess[s].got) => me.queue = <<>>
  /\ Ordered(setup, c, k, me.queue)
  /\ Ordered(setup, c, k, down[c][me.conn])
  /\ Before(down[c][me.conn], me.queue)
  /\ Lacks(cl[c].got, me.queue)
  /\ ~me.reads => conn[c][me.conn] = "fin"

SessionTrip(s) ==
  /\ Counts(setup, sess[s].got, sess[s].client)
  /\ cpc[sess[s].client] \in Calling => Nothing(setup, sess[s].got)
  /\ \A k \in ThreadsOf(s) : ThreadTrip(s, k)

Trip ==
  /\ alive \/ wild
  /\ \A c \in Clients : ClientTrip(c)
  /\ \A s \in DOMAIN sess : SessionTrip(s)

TripInv == quits = {} => Trip

-----------------------------------------------------------------------------
(* The constants *)

LEMMA SetupFacts ==
  ASSUME NEW x \in Setups
  PROVE  /\ \A c \in Clients : x.conns[c] \in Nat
         /\ x.blocks \in Nat /\ x.blocks > 0 /\ x.stride \in Nat
         /\ x.faults \in Nat /\ x.faults <= MaxFaults
         /\ MaxFaults \in Nat /\ MAX_CONN \in Nat /\ MAX_CONN > 0
<1>1. x \in [conns : [Clients -> Nat], blocks : Nat \ {0}, stride : Nat, faults : 0 .. MaxFaults]
  BY SessionAssumption
<1>2. QED
  BY <1>1, SessionAssumption

LEMMA SessionsBound ==
  /\ IsFiniteSet(Clients) /\ Cardinality(Clients) \in Nat
  /\ MaxSessions \in Nat
  /\ MAX_CONN \in Nat /\ MAX_CONN > 0 /\ MaxFaults \in Nat
BY SessionAssumption, FS_CardinalityType DEF MaxSessions

LEMMA FcnIsSeq ==
  ASSUME NEW S, NEW n \in Nat, NEW f \in [1 .. n -> S]
  PROVE  f \in Seq(S) /\ Len(f) = n
OBVIOUS

LEMMA HeadIsFirst ==
  ASSUME NEW S, NEW p \in Seq(S), p # <<>>
  PROVE  1 \in 1 .. Len(p) /\ p[1] = Head(p)
OBVIOUS

LEMMA Times ==
  ASSUME NEW a \in Nat, NEW b \in Nat, NEW m \in Nat, a <= b
  PROVE  a * m <= b * m /\ a * m \in Nat /\ a * (m + 1) = a * m + a
OBVIOUS

LEMMA UpTo ==
  ASSUME NEW n \in Nat
  PROVE  IsFiniteSet(1 .. n) /\ Cardinality(1 .. n) = n
<1>1. 1 \in Int /\ n \in Int
  OBVIOUS
<1>2. IsFiniteSet(1 .. n) /\ Cardinality(1 .. n) = IF 1 > n THEN 0 ELSE n - 1 + 1
  BY <1>1, FS_Interval, Zenon
<1>3. QED
  BY <1>2

LEMMA Rectangle ==
  ASSUME NEW n \in Nat, NEW m \in Nat
  PROVE  /\ IsFiniteSet((1 .. n) \X (1 .. m))
         /\ Cardinality((1 .. n) \X (1 .. m)) = n * m
<1>1. /\ IsFiniteSet(1 .. n) /\ Cardinality(1 .. n) = n
      /\ IsFiniteSet(1 .. m) /\ Cardinality(1 .. m) = m
  BY UpTo
<1>2. /\ IsFiniteSet((1 .. n) \X (1 .. m))
      /\ Cardinality((1 .. n) \X (1 .. m)) = Cardinality(1 .. n) * Cardinality(1 .. m)
  BY <1>1, FS_Product, Zenon
<1>3. QED
  BY <1>1, <1>2

-----------------------------------------------------------------------------
(* What a queue is given: the recursion of Written.                         *)

WrittenStep(x, c, i, F, n) ==
  IF n = 0 THEN <<>>
  ELSE IF Slot(x, c, n - 1) = i THEN Append(F[n - 1], Block(c, n - 1)) ELSE F[n - 1]

WrittenRec(x, c, i, F, m) == F = [n \in 0 .. m |-> WrittenStep(x, c, i, F, n)]

WrittenFcn(x, c, i) == CHOOSE F : WrittenRec(x, c, i, F, x.blocks + 1)

LEMMA WrittenIs ==
  ASSUME NEW c, NEW i
  PROVE  Written(c, i) = WrittenFcn(setup, c, i)[setup.blocks + 1]
BY DEF Written, WrittenFcn, WrittenRec, WrittenStep, QueueOf, Slot, num_conn

LEMMA WrittenExists ==
  ASSUME NEW x, NEW c, NEW i, NEW m \in Nat
  PROVE  \E F : WrittenRec(x, c, i, F, m)
<1> DEFINE T == {n \in Nat : \E F : WrittenRec(x, c, i, F, n)}
<1>1. 0 \in T
  <2>1. WrittenRec(x, c, i, [n \in 0 .. 0 |-> <<>>], 0)
    BY DEF WrittenRec, WrittenStep
  <2>2. QED
    BY <2>1
<1>2. ASSUME NEW n \in T PROVE n + 1 \in T
  <2>1. PICK F : WrittenRec(x, c, i, F, n)
    OBVIOUS
  <2> DEFINE G == [k \in 0 .. n + 1 |-> IF k <= n THEN F[k] ELSE WrittenStep(x, c, i, F, k)]
             H == [k \in 0 .. n + 1 |-> WrittenStep(x, c, i, G, k)]
  <2>2. n \in Nat
    OBVIOUS
  <2>3. \A k \in 0 .. n : F[k] = WrittenStep(x, c, i, F, k)
    BY <2>1, <2>2 DEF WrittenRec
  <2>4. ASSUME NEW k \in 0 .. n + 1 PROVE G[k] = H[k]
    <3>1. k # 0 => G[k - 1] = F[k - 1]
      BY <2>2
    <3>2. WrittenStep(x, c, i, G, k) = WrittenStep(x, c, i, F, k)
      BY <3>1 DEF WrittenStep
    <3>3. QED
      BY <2>2, <2>3, <3>2
  <2>5. G = H
    BY <2>4
  <2>6. WrittenRec(x, c, i, G, n + 1)
    BY <2>5 DEF WrittenRec
  <2>7. QED
    BY <2>2, <2>6
<1>3. T = Nat
  BY <1>1, <1>2, Rising
<1>4. QED
  BY <1>3

LEMMA WrittenFcnRec ==
  ASSUME NEW x \in Setups, NEW c, NEW i, NEW n \in 0 .. x.blocks + 1
  PROVE  WrittenFcn(x, c, i)[n] = WrittenStep(x, c, i, WrittenFcn(x, c, i), n)
<1>1. x.blocks + 1 \in Nat
  BY SetupFacts
<1>2. \E F : WrittenRec(x, c, i, F, x.blocks + 1)
  BY <1>1, WrittenExists
<1>3. WrittenRec(x, c, i, WrittenFcn(x, c, i), x.blocks + 1)
  BY <1>2, Zenon DEF WrittenFcn
<1>4. ASSUME NEW F, WrittenRec(x, c, i, F, x.blocks + 1)
      PROVE  F[n] = WrittenStep(x, c, i, F, n)
  BY <1>4 DEF WrittenRec
<1>5. QED
  BY <1>3, <1>4

(* The first n blocks, those of queue i, rising. *)
Rises(x, c, i, n, q) ==
  /\ q \in Seq(Blocks(x))
  /\ \A j \in 1 .. Len(q) : q[j].from = c /\ q[j].num < n /\ Slot(x, c, q[j].num) = i
  /\ \A j, k \in 1 .. Len(q) : j < k => q[j].num < q[k].num

LEMMA RisesAppend ==
  ASSUME NEW x \in Setups, NEW c \in Clients, NEW i, NEW n \in 0 .. x.blocks, NEW q,
         Rises(x, c, i, n, q)
  PROVE  /\ Rises(x, c, i, n + 1, q)
         /\ Slot(x, c, n) = i => Rises(x, c, i, n + 1, Append(q, Block(c, n)))
<1>1. x.blocks \in Nat
  BY SetupFacts
<1>2. Block(c, n) \in Blocks(x) /\ Block(c, n).from = c /\ Block(c, n).num = n
  BY <1>1 DEF Block, Blocks
<1>3. q \in Seq(Blocks(x)) /\ Len(q) \in Nat /\ \A j \in 1 .. Len(q) : q[j] \in Blocks(x)
  BY DEF Rises
<1>4. \A j \in 1 .. Len(q) : q[j].num \in Nat
  BY <1>1, <1>3 DEF Blocks
<1>5. Rises(x, c, i, n + 1, q)
  BY <1>1, <1>3, <1>4 DEF Rises
<1>6. ASSUME Slot(x, c, n) = i PROVE Rises(x, c, i, n + 1, Append(q, Block(c, n)))
  <2> DEFINE e == Block(c, n)
             p == Append(q, e)
  <2>1. /\ p \in Seq(Blocks(x)) /\ Len(p) = Len(q) + 1 /\ p[Len(p)] = e
        /\ \A j \in 1 .. Len(q) : p[j] = q[j]
    BY <1>2, <1>3
  <2>2. e.from = c /\ e.num = n
    BY <1>2
  <2> HIDE DEF e, p
  <2>3. ASSUME NEW j \in 1 .. Len(p)
        PROVE  p[j].from = c /\ p[j].num < n + 1 /\ Slot(x, c, p[j].num) = i
    BY <1>1, <1>3, <1>4, <1>6, <2>1, <2>2 DEF Rises
  <2>4. ASSUME NEW j \in 1 .. Len(p), NEW k \in 1 .. Len(p), j < k
        PROVE  p[j].num < p[k].num
    <3>1. j \in 1 .. Len(q) /\ p[j] = q[j] /\ q[j].num < n
      BY <1>3, <2>1, <2>4 DEF Rises
    <3>2. CASE k = Len(p)
      BY <2>1, <2>2, <3>1, <3>2
    <3>3. CASE k # Len(p)
      BY <1>3, <2>1, <2>4, <3>1, <3>3 DEF Rises
    <3>4. QED
      BY <3>2, <3>3
  <2>5. QED
    BY <2>1, <2>3, <2>4 DEF Rises, p, e
<1>7. QED
  BY <1>5, <1>6

LEMMA WrittenRises ==
  ASSUME setup \in Setups, NEW c \in Clients, NEW i
  PROVE  /\ Written(c, i) \in Seq(Blocks(setup))
         /\ Ordered(setup, c, i, Written(c, i))
<1> PICK x : x = setup
  OBVIOUS
<1>1. x \in Setups /\ x.blocks \in Nat
  BY SetupFacts
<1> DEFINE F == WrittenFcn(x, c, i)
           T == {n \in Nat : n <= x.blocks + 1 => Rises(x, c, i, n, F[n])}
<1>2. \A n \in 0 .. x.blocks + 1 : F[n] = WrittenStep(x, c, i, F, n)
  BY <1>1, WrittenFcnRec
<1> HIDE DEF F
<1>3. 0 \in T
  <2>1. F[0] = <<>>
    BY <1>1, <1>2 DEF WrittenStep
  <2>2. Rises(x, c, i, 0, <<>>)
    BY DEF Rises
  <2>3. QED
    BY <2>1, <2>2
<1>4. ASSUME NEW n \in T PROVE n + 1 \in T
  <2>1. n \in Nat
    OBVIOUS
  <2>2. SUFFICES ASSUME n + 1 <= x.blocks + 1 PROVE Rises(x, c, i, n + 1, F[n + 1])
    BY <2>1
  <2>3. n \in 0 .. x.blocks /\ Rises(x, c, i, n, F[n])
    BY <1>1, <2>1, <2>2
  <2>4. n + 1 \in 0 .. x.blocks + 1 /\ (n + 1) - 1 = n /\ n + 1 # 0
    BY <1>1, <2>3
  <2>5. F[n + 1] = IF Slot(x, c, n) = i THEN Append(F[n], Block(c, n)) ELSE F[n]
    BY <1>2, <2>4 DEF WrittenStep
  <2>6. /\ Rises(x, c, i, n + 1, F[n])
        /\ Slot(x, c, n) = i => Rises(x, c, i, n + 1, Append(F[n], Block(c, n)))
    BY <1>1, <2>3, RisesAppend
  <2>7. QED
    BY <2>5, <2>6
<1>5. T = Nat
  BY <1>3, <1>4, Rising
<1>6. x.blocks + 1 \in T
  BY <1>1, <1>5
<1>7. Rises(x, c, i, x.blocks + 1, F[x.blocks + 1])
  BY <1>1, <1>6
<1>8. Written(c, i) = F[x.blocks + 1]
  BY WrittenIs DEF F
<1>9. QED
  BY <1>7, <1>8 DEF Rises, Ordered

-----------------------------------------------------------------------------
(* What the types say of a session and of a thread *)

LEMMA SessionFacts ==
  ASSUME Types, NEW s \in DOMAIN sess
  PROVE  /\ s \in 1 .. Len(sess) /\ Len(sess) \in Nat
         /\ sess[s] \in Sessions(setup)
         /\ sess[s].client \in Clients /\ setup.conns[sess[s].client] \in Nat
         /\ sess[s].conns \in Seq(Threads(setup)) /\ sess[s].got \in Tables(setup)
<1>1. sess \in Seq(Sessions(setup)) /\ setup \in Setups
  BY DEF Types, ServerTypes
<1>2. sess[s] \in Sessions(setup) /\ s \in 1 .. Len(sess) /\ Len(sess) \in Nat
  BY <1>1
<1>3. sess[s].client \in Clients
  BY <1>2 DEF Sessions
<1>4. QED
  BY <1>1, <1>2, <1>3, SetupFacts DEF Sessions

LEMMA ThreadFacts ==
  ASSUME Types, NEW s \in DOMAIN sess, NEW k \in ThreadsOf(s)
  PROVE  /\ k \in 1 .. Len(sess[s].conns) /\ Len(sess[s].conns) \in Nat
         /\ sess[s].conns[k] \in Threads(setup)
         /\ sess[s].conns[k].conn \in Nat /\ sess[s].conns[k].fd \in Fds
         /\ sess[s].conns[k].queue \in Seq(Blocks(setup)) /\ sess[s].conns[k].reads \in BOOLEAN
<1>1. sess[s].conns \in Seq(Threads(setup))
  BY SessionFacts
<1>2. sess[s].conns[k] \in Threads(setup) /\ k \in 1 .. Len(sess[s].conns)
      /\ Len(sess[s].conns) \in Nat
  BY <1>1 DEF ThreadsOf
<1>3. QED
  BY <1>2 DEF Threads

-----------------------------------------------------------------------------
(* Descriptors *)

LEMMA FdsFinite ==
  /\ IsFiniteSet(Fds) /\ Cardinality(Fds) = MaxSessions * (MAX_CONN + 1)
  /\ MaxSessions * (MAX_CONN + 1) \in Nat
<1>1. MaxSessions * (MAX_CONN + 1) \in Nat
  BY SessionsBound, Times
<1>2. QED
  BY <1>1, FS_Interval DEF Fds

LEMMA LowestFreeIsFree ==
  ASSUME ServerTypes, \E f \in Fds : fds[f] = Free
  PROVE  LowestFree \in Fds /\ fds[LowestFree] = Free
<1> DEFINE T == {f \in Fds : fds[f] = Free}
<1>1. DOMAIN fds = Fds /\ Fds \subseteq Nat /\ \A f \in Fds : 1 .. f - 1 \subseteq Fds
  BY FdsFinite DEF ServerTypes, Fds
<1>2. T # {} /\ T \subseteq Nat
  BY <1>1
<1>3. PICK f \in T : \A g \in T : ~ (<<g, f>> \in OpToRel(<, Nat))
  BY <1>2, WFMin, NatLessThanWellFounded
<1>4. \A g \in 1 .. f - 1 : g \in Fds /\ g \in Nat /\ g < f
  BY <1>1
<1>5. \A g \in 1 .. f - 1 : fds[g] # Free
  BY <1>1, <1>3, <1>4 DEF OpToRel
<1>6. f \in DOMAIN fds /\ fds[f] = Free /\ \A g \in 1 .. f - 1 : fds[g] # Free
  BY <1>1, <1>5
<1>7. LowestFree \in DOMAIN fds /\ fds[LowestFree] = Free
  BY <1>6 DEF LowestFree
<1>8. QED
  BY <1>1, <1>7

(* At most as many descriptors are in use as there are sessions and         *)
(* connections (s, k) in T.                                                 *)
Places ==
  {p \in (1 .. Len(sess)) \X (1 .. MAX_CONN) : p[2] <= Len(sess[p[1]].conns)}

LEMMA InUse ==
  ASSUME TypeInv
  PROVE  /\ IsFiniteSet(Places)
         /\ Cardinality({f \in Fds : fds[f] # Free}) <= Len(sess) + Cardinality(Places)
<1> DEFINE A == 1 .. Len(sess)
           B == 1 .. MAX_CONN
           g == [p \in Places |-> sess[p[1]].conns[p[2]].fd]
           W == {g[p] : p \in Places}
           U == {f \in Fds : fds[f] # Free}
<1>0. Len(sess) \in Nat /\ DOMAIN sess = A /\ MAX_CONN \in Nat
  BY SessionsBound DEF TypeInv, Types, ServerTypes
<1>1. IsFiniteSet(A) /\ IsFiniteSet(B)
  BY <1>0, FS_Interval
<1>2. IsFiniteSet(A \X B) /\ Places \subseteq A \X B
  BY <1>1, FS_Product DEF Places
<1>3. IsFiniteSet(Places)
  BY <1>2, FS_Subset
<1>4. g \in Surjection(Places, W)
  BY DEF Surjection
<1>5. IsFiniteSet(W) /\ Cardinality(W) <= Cardinality(Places)
  BY <1>3, <1>4, FS_Surjection
<1>6. ASSUME NEW f \in U PROVE f \in Listeners \cup W
  <2>1. CASE fds[f] = <<"listener">>
    BY <2>1 DEF Listeners
  <2>2. CASE fds[f] # <<"listener">>
    <3>0. PICK s \in DOMAIN sess : \E k \in ThreadsOf(s) : sess[s].conns[k].fd = f
      BY <2>2, Zenon DEF TypeInv, Descriptors
    <3>1. PICK k \in ThreadsOf(s) : sess[s].conns[k].fd = f
      BY <3>0
    <3>2. sess[s] \in Sessions(setup) /\ setup.conns[sess[s].client] \in Nat
      BY SessionFacts DEF TypeInv
    <3>3. sess[s].conns \in Seq(Threads(setup))
      BY <3>2 DEF Sessions
    <3>4. k \in 1 .. Len(sess[s].conns) /\ Len(sess[s].conns) \in Nat
      BY <3>3 DEF ThreadsOf
    <3>5. Len(sess[s].conns) <= setup.conns[sess[s].client]
          /\ setup.conns[sess[s].client] <= MAX_CONN
      BY Zenon DEF TypeInv, Served
    <3>6. s \in A /\ k \in B /\ k <= Len(sess[s].conns)
      BY <1>0, <3>2, <3>4, <3>5
    <3>7. <<s, k>> \in Places
      BY <3>6 DEF Places
    <3>8. g[<<s, k>>] = f
      BY <3>1, <3>7
    <3>9. QED
      BY <3>7, <3>8
  <2>3. QED
    BY <2>1, <2>2
<1>7. IsFiniteSet(Listeners) /\ Cardinality(Listeners) <= Len(sess)
  <2>1. Listeners \in SUBSET Fds
    BY DEF Listeners
  <2>2. IsFiniteSet(Listeners)
    BY <2>1, FdsFinite, FS_Subset
  <2>3. QED
    BY <2>2 DEF TypeInv, Descriptors
<1> HIDE DEF g, W
<1>8. /\ IsFiniteSet(Listeners \cup W)
      /\ Cardinality(Listeners \cup W) =
           Cardinality(Listeners) + Cardinality(W) - Cardinality(Listeners \cap W)
  BY <1>5, <1>7, FS_Union
<1>9. Cardinality(Listeners \cap W) \in Nat
  BY <1>7, FS_Intersection, FS_CardinalityType
<1>10. U \in SUBSET (Listeners \cup W)
  BY <1>6
<1>11. Cardinality(U) <= Cardinality(Listeners \cup W)
  BY <1>8, <1>10, FS_Subset
<1>12. /\ Cardinality(Listeners) \in Nat /\ Cardinality(W) \in Nat /\ Cardinality(Places) \in Nat
       /\ Cardinality(Listeners \cup W) \in Nat /\ IsFiniteSet(U)
  BY <1>3, <1>5, <1>7, <1>8, <1>10, FS_CardinalityType, FS_Subset
<1>13. Cardinality(U) \in Nat
  BY <1>12, FS_CardinalityType
<1>14. QED
  BY <1>0, <1>3, <1>5, <1>7, <1>8, <1>9, <1>11, <1>12, <1>13

LEMMA FreeLeft ==
  ASSUME TypeInv, NEW n \in Nat, n < MaxSessions * (MAX_CONN + 1),
         Len(sess) + Cardinality(Places) <= n
  PROVE  LowestFree \in Fds /\ fds[LowestFree] = Free
<1>1. \E f \in Fds : fds[f] = Free
  <2> SUFFICES ASSUME \A f \in Fds : fds[f] # Free PROVE FALSE
    OBVIOUS
  <2>1. {f \in Fds : fds[f] # Free} = Fds
    OBVIOUS
  <2>2. Cardinality(Fds) <= Len(sess) + Cardinality(Places) /\ Cardinality(Places) \in Nat
    BY <2>1, InUse, FS_CardinalityType
  <2>3. Len(sess) \in Nat
    BY DEF TypeInv, Types, ServerTypes
  <2>4. QED
    BY <2>2, <2>3, FdsFinite
<1>2. QED
  BY <1>1, LowestFreeIsFree DEF TypeInv, Types

LEMMA SessionsInBound ==
  ASSUME TypeInv
  PROVE  Len(sess) \in Nat /\ Cardinality(Datagrams) \in Nat
         /\ Len(sess) + Cardinality(Datagrams) <= MaxSessions
<1>1. IsFiniteSet(Clients) /\ Asked \in SUBSET Clients
  BY SessionsBound DEF Asked
<1>2. Cardinality(Asked) <= Cardinality(Clients) /\ IsFiniteSet(Asked)
  BY <1>1, FS_Subset
<1>3. Cardinality(Asked) \in Nat /\ Cardinality(Clients) \in Nat /\ Cardinality(Datagrams) \in Nat
  BY <1>1, <1>2, FS_CardinalityType DEF TypeInv, Budget
<1>4. Len(sess) \in Nat /\ faults \in Nat /\ MaxFaults \in Nat
  BY SessionsBound DEF TypeInv, Types, ServerTypes
<1>5. QED
  BY <1>2, <1>3, <1>4 DEF TypeInv, Budget, MaxSessions

(* A descriptor is free for the port of a new session, *)
LEMMA FreeForPort ==
  ASSUME TypeInv, Datagrams # {}
  PROVE  LowestFree \in Fds /\ fds[LowestFree] = Free
<1> PICK n : n = Len(sess)
  OBVIOUS
<1>1. Cardinality(Datagrams) > 0
  BY SessionsInBound, FS_EmptySet DEF TypeInv, Budget
<1>2. n \in Nat /\ n + 1 <= MaxSessions /\ MaxSessions \in Nat /\ MAX_CONN \in Nat
  BY <1>1, SessionsInBound, SessionsBound
<1>3. Places \subseteq (1 .. n) \X (1 .. MAX_CONN)
  BY DEF Places
<1>4. /\ IsFiniteSet((1 .. n) \X (1 .. MAX_CONN))
      /\ Cardinality((1 .. n) \X (1 .. MAX_CONN)) = n * MAX_CONN
  BY <1>2, Rectangle
<1>5. Cardinality(Places) <= n * MAX_CONN /\ Cardinality(Places) \in Nat
  BY <1>3, <1>4, FS_Subset, InUse, FS_CardinalityType
<1>6. /\ n * MAX_CONN \in Nat /\ n * (MAX_CONN + 1) = n * MAX_CONN + n
  BY <1>2, Times
<1>7. (n + 1) * (MAX_CONN + 1) <= MaxSessions * (MAX_CONN + 1)
  BY <1>2, Times
<1>8. (n + 1) * (MAX_CONN + 1) = n * (MAX_CONN + 1) + MAX_CONN + 1
  BY <1>2
<1> DEFINE a == n * (MAX_CONN + 1)
<1>9. a \in Nat /\ a < MaxSessions * (MAX_CONN + 1) /\ Len(sess) + Cardinality(Places) <= a
  BY <1>2, <1>5, <1>6, <1>7, <1>8
<1>10. QED
  BY <1>9, FreeLeft

(* and for a connection to be accepted. *)
LEMMA FreeForConnection ==
  ASSUME TypeInv, NEW s \in DOMAIN sess, Len(sess[s].conns) < setup.conns[sess[s].client]
  PROVE  LowestFree \in Fds /\ fds[LowestFree] = Free
<1> PICK n : n = Len(sess)
  OBVIOUS
<1> PICK k : k = Len(sess[s].conns) + 1
  OBVIOUS
<1>2. n \in Nat /\ n <= MaxSessions /\ MaxSessions \in Nat /\ MAX_CONN \in Nat
  BY SessionsInBound, SessionsBound
<1> DEFINE P == (1 .. n) \X (1 .. MAX_CONN)
<1>3. <<s, k>> \in P /\ <<s, k>> \notin Places
  <2>1. s \in 1 .. n
    BY SessionFacts DEF TypeInv
  <2>2. Len(sess[s].conns) \in Nat /\ setup.conns[sess[s].client] \in Nat
    BY SessionFacts DEF TypeInv
  <2>3. setup.conns[sess[s].client] <= MAX_CONN
    BY Zenon DEF TypeInv, Served
  <2>4. k \in 1 .. MAX_CONN /\ ~(k <= Len(sess[s].conns))
    BY <1>2, <2>2, <2>3
  <2>5. QED
    BY <2>1, <2>4 DEF Places
<1>4. IsFiniteSet(P) /\ Cardinality(P) = n * MAX_CONN
  BY <1>2, Rectangle
<1>5. Cardinality(Places) <= n * MAX_CONN - 1 /\ Cardinality(Places) \in Nat
  <2>1. Places \subseteq P \ {<<s, k>>}
    BY <1>3 DEF Places
  <2> HIDE DEF P
  <2>2. IsFiniteSet(P \ {<<s, k>>}) /\ Cardinality(P \ {<<s, k>>}) = n * MAX_CONN - 1
    BY <1>3, <1>4, FS_RemoveElement
  <2>3. QED
    BY <2>1, <2>2, FS_Subset, InUse, FS_CardinalityType
<1>6. n * MAX_CONN \in Nat /\ n * (MAX_CONN + 1) = n * MAX_CONN + n
  BY <1>2, Times
<1>7. n * (MAX_CONN + 1) <= MaxSessions * (MAX_CONN + 1)
  BY <1>2, Times
<1> DEFINE a == n * (MAX_CONN + 1) - 1
<1>9. a \in Nat /\ a < MaxSessions * (MAX_CONN + 1) /\ Len(sess) + Cardinality(Places) <= a
  <2>1. MaxSessions * (MAX_CONN + 1) \in Nat
    BY FdsFinite
  <2>2. QED
    BY <1>2, <1>5, <1>6, <1>7, <2>1
<1>10. QED
  BY <1>9, FreeLeft

-----------------------------------------------------------------------------
(* What the steps do to the types *)

(* g is f but at c. *)
Elsewhere(f, g, c) == DOMAIN g = DOMAIN f /\ \A d \in DOMAIN f \ {c} : g[d] = f[d]

LEMMA AddType ==
  ASSUME NEW x \in Setups, NEW got \in Tables(x), NEW e \in Blocks(x)
  PROVE  Add(got, e) \in Tables(x)
<1>1. x.blocks \in Nat /\ e.from \in Clients /\ e.num \in 0 .. x.blocks
  BY SetupFacts DEF Blocks
<1>2. /\ got = [init |-> got.init, count |-> got.count, data |-> got.data]
      /\ got.init \in BOOLEAN /\ got.count \in Nat
      /\ got.data \in [1 .. x.blocks -> Clients \cup {"-"}]
  BY DEF Tables
<1>3. CASE e.num = 0
  BY <1>2, <1>3 DEF Add, Tables
<1>4. CASE e.num # 0
  <2>1. [got.data EXCEPT ![e.num] = e.from] \in [1 .. x.blocks -> Clients \cup {"-"}]
    BY <1>1, <1>2, <1>4
  <2>2. Add(got, e) = [init |-> got.init, count |-> got.count + 1,
                       data |-> [got.data EXCEPT ![e.num] = e.from]]
    BY <1>2, <1>4 DEF Add
  <2>3. QED
    BY <1>2, <2>1, <2>2 DEF Tables
<1>5. QED
  BY <1>3, <1>4

LEMMA NoneYetType ==
  ASSUME setup \in Setups
  PROVE  /\ NoneYet \in Tables(setup)
         /\ NoneYet.init = FALSE /\ NoneYet.count = 0
         /\ \A b \in 1 .. setup.blocks : NoneYet.data[b] = "-"
BY DEF NoneYet, Tables, DataBlocks

(* The connections of a client that ends. *)
Closed(c, unread) ==
  \A i \in Links(setup, c) :
    conn'[c][i] = IF conn[c][i] # "open" THEN conn[c][i]
                  ELSE IF unread[i] # <<>> THEN "rst" ELSE "fin"

LEMMA EndsFacts ==
  ASSUME Types, NEW c \in Clients, NEW unread, ProcessEnds(c, unread)
  PROVE  /\ cpc' = [cpc EXCEPT ![c] = "gone"]
         /\ answer' = [answer EXCEPT ![c] = {}]
         /\ Elsewhere(conn, conn', c) /\ Elsewhere(up, up', c) /\ Elsewhere(down, down', c)
         /\ conn'[c] \in [Links(setup, c) -> {"none", "open", "fin", "rst"}]
         /\ Closed(c, unread)
         /\ up'[c] \in [Links(setup, c) -> Seq(Blocks(setup))]
         /\ \A i \in Links(setup, c) :
              \E n \in 0 .. Len(up[c][i]) : up'[c][i] = SubSeq(up[c][i], 1, n)
         /\ down'[c] = [i \in Links(setup, c) |-> <<>>]
<1>1. /\ Conns(c) = Links(setup, c)
      /\ DOMAIN conn = Clients /\ DOMAIN up = Clients /\ DOMAIN down = Clients
      /\ conn[c] \in [Links(setup, c) -> {"none", "open", "fin", "rst"}]
      /\ up[c] \in [Links(setup, c) -> Seq(Blocks(setup))]
  BY DEF Conns, Links, num_conn, Types, LinkTypes
<1> PICK L : L = Links(setup, c)
  OBVIOUS
<1>2. conn' = [conn EXCEPT ![c] = [i \in L |-> IF conn[c][i] # "open" THEN conn[c][i]
                                    ELSE IF unread[i] # <<>> THEN "rst" ELSE "fin"]]
  BY <1>1 DEF ProcessEnds
<1>3. PICK sent \in [L -> 0 .. setup.blocks + 1] :
        /\ \A i \in L : sent[i] <= Len(up[c][i])
        /\ up' = [up EXCEPT ![c] = [i \in L |-> SubSeq(up[c][i], 1, sent[i])]]
  BY <1>1 DEF ProcessEnds
<1>4. down' = [down EXCEPT ![c] = [i \in L |-> <<>>]]
  BY <1>1 DEF ProcessEnds
<1>5. ASSUME NEW i \in L
      PROVE  /\ sent[i] \in 0 .. Len(up[c][i])
             /\ SubSeq(up[c][i], 1, sent[i]) \in Seq(Blocks(setup))
  <2>1. up[c][i] \in Seq(Blocks(setup)) /\ sent[i] \in Nat /\ sent[i] <= Len(up[c][i])
    BY <1>1, <1>3
  <2>2. sent[i] \in 0 .. Len(up[c][i])
    BY <2>1
  <2>3. QED
    BY <2>1, <2>2
<1>6. Elsewhere(conn, conn', c) /\ conn'[c] = [i \in L |-> IF conn[c][i] # "open" THEN conn[c][i]
                                    ELSE IF unread[i] # <<>> THEN "rst" ELSE "fin"]
  BY <1>1, <1>2 DEF Elsewhere
<1>7. Elsewhere(up, up', c) /\ up'[c] = [i \in L |-> SubSeq(up[c][i], 1, sent[i])]
  BY <1>1, <1>3 DEF Elsewhere
<1>8. Elsewhere(down, down', c) /\ down'[c] = [i \in L |-> <<>>]
  BY <1>1, <1>4 DEF Elsewhere
<1>9. up'[c] \in [L -> Seq(Blocks(setup))]
  BY <1>5, <1>7
<1>10. conn'[c] \in [L -> {"none", "open", "fin", "rst"}]
  BY <1>1, <1>6
<1>11. \A i \in L : \E n \in 0 .. Len(up[c][i]) : up'[c][i] = SubSeq(up[c][i], 1, n)
  BY <1>5, <1>7
<1>12. cpc' = [cpc EXCEPT ![c] = "gone"] /\ answer' = [answer EXCEPT ![c] = {}]
  BY DEF ProcessEnds
<1>13. Closed(c, unread)
  BY <1>6 DEF Closed
<1>14. QED
  BY <1>6, <1>7, <1>8, <1>9, <1>10, <1>11, <1>12, <1>13

(* A step that touches the connections of c only. *)
LEMMA LinkTypesKept ==
  ASSUME Types, setup' = setup, NEW c \in Clients,
         Elsewhere(conn, conn', c), Elsewhere(up, up', c), Elsewhere(down, down', c),
         conn'[c] \in [Links(setup, c) -> {"none", "open", "fin", "rst"}],
         up'[c] \in [Links(setup, c) -> Seq(Blocks(setup))],
         down'[c] \in [Links(setup, c) -> Seq(Blocks(setup))]
  PROVE  LinkTypes'
<1>1. DOMAIN conn' = Clients /\ DOMAIN up' = Clients /\ DOMAIN down' = Clients
  BY DEF Elsewhere, Types, LinkTypes
<1>2. ASSUME NEW d \in Clients
      PROVE  /\ conn'[d] \in [Links(setup, d) -> {"none", "open", "fin", "rst"}]
             /\ up'[d] \in [Links(setup, d) -> Seq(Blocks(setup))]
             /\ down'[d] \in [Links(setup, d) -> Seq(Blocks(setup))]
  <2>1. CASE d = c
    BY <2>1
  <2>2. CASE d # c
    <3>1. conn'[d] = conn[d] /\ up'[d] = up[d] /\ down'[d] = down[d]
      BY <1>1, <2>2 DEF Elsewhere
    <3>2. QED
      BY <3>1 DEF Types, LinkTypes
  <2>3. QED
    BY <2>1, <2>2
<1>3. QED
  BY <1>1, <1>2 DEF LinkTypes

LEMMA UnchangedElsewhere ==
  ASSUME Types, NEW c \in Clients
  PROVE  /\ conn' = conn =>
              /\ Elsewhere(conn, conn', c)
              /\ conn'[c] \in [Links(setup, c) -> {"none", "open", "fin", "rst"}]
         /\ up' = up => Elsewhere(up, up', c) /\ up'[c] \in [Links(setup, c) -> Seq(Blocks(setup))]
         /\ down' = down =>
              Elsewhere(down, down', c) /\ down'[c] \in [Links(setup, c) -> Seq(Blocks(setup))]
BY DEF Elsewhere, Types, LinkTypes

LEMMA NetworkTypes ==
  ASSUME TypeInv, NEW c \in Clients,
         \/ LoseRequest(c) \/ DuplicateRequest(c) \/ LoseAnswer(c)
         \/ SendRequest(c) \/ ReceivePort(c) \/ HandshakeTimesOut(c)
  PROVE  Types'
<1> USE DEF TypeInv, Types, vars, udp, client, streams, process, history
<1>1. CASE LoseRequest(c)
  BY <1>1 DEF LoseRequest, Fault, ClientTypes, ServerTypes, LinkTypes
<1>2. CASE DuplicateRequest(c)
  BY <1>2 DEF DuplicateRequest, Fault, ClientTypes, ServerTypes, LinkTypes
<1>3. CASE LoseAnswer(c)
  BY <1>3 DEF LoseAnswer, Fault, ClientTypes, ServerTypes, LinkTypes
<1>4. CASE SendRequest(c)
  BY <1>4 DEF SendRequest, ClientTypes, ServerTypes, LinkTypes
<1>5. CASE ReceivePort(c)
  <2>1. PICK s \in answer[c] :
          /\ cl' = [cl EXCEPT ![c].session = s]
          /\ answer' = [answer EXCEPT ![c] = @ \ {s}]
    BY <1>5 DEF ReceivePort
  <2>2. s \in Nat
    BY DEF ClientTypes
  <2>3. cl[c] \in Runs(setup)
    BY DEF ClientTypes
  <2>4. [cl[c] EXCEPT !.session = s] \in Runs(setup)
    BY <2>2, <2>3 DEF Runs
  <2>5. cl' \in [Clients -> Runs(setup)] /\ answer' \in [Clients -> SUBSET Nat]
    BY <2>1, <2>4 DEF ClientTypes
  <2>6. QED
    BY <1>5, <2>5 DEF ReceivePort, ClientTypes, ServerTypes, LinkTypes
<1>6. CASE HandshakeTimesOut(c)
  <2>1. faults' \in Nat
    BY <1>6 DEF HandshakeTimesOut, Fault, NoFault
  <2>2. QED
    BY <1>6, <2>1 DEF HandshakeTimesOut, ClientTypes, ServerTypes, LinkTypes
<1>7. QED
  BY <1>1, <1>2, <1>3, <1>4, <1>5, <1>6

LEMMA MainTypes ==
  ASSUME TypeInv, SendPort \/ CreateThread
  PROVE  Types'
<1> USE DEF TypeInv, Types, vars, udp, client, streams, process, history
<1>1. CASE SendPort
  <2>1. main' = [main EXCEPT !.step = "create"] /\ UNCHANGED <<sess, fds, cpc, cl, request>>
    BY <1>1 DEF SendPort
  <2>2. main.session \in Nat /\ main' \in [step : {"receive", "send", "create"}, session : Nat]
    BY <2>1 DEF ServerTypes
  <2>3. answer' \in [Clients -> SUBSET Nat]
    BY <1>1, <2>2 DEF SendPort, ClientTypes
  <2>4. QED
    BY <1>1, <2>1, <2>2, <2>3 DEF SendPort, ClientTypes, ServerTypes, LinkTypes
<1>2. CASE CreateThread
  <2>1. main.step = "create" /\ main.session \in DOMAIN sess
    BY <1>2 DEF CreateThread, Handshake
  <2>2. sess' = [sess EXCEPT ![main.session].step = "started"] /\ setup' = setup
        /\ main' = [main EXCEPT !.step = "receive"]
    BY <1>2 DEF CreateThread
  <2>3. sess' \in Seq(Sessions(setup))
    BY <2>1, <2>2, SessionFacts DEF Sessions, ServerTypes
  <2>4. main' \in [step : {"receive", "send", "create"}, session : Nat]
    BY <2>2 DEF ServerTypes
  <2>5. QED
    BY <1>2, <2>2, <2>3, <2>4 DEF CreateThread, ClientTypes, ServerTypes, LinkTypes
<1>3. QED
  BY <1>1, <1>2

LEMMA ConnectTypes ==
  ASSUME TypeInv, NEW c \in Clients, Connect(c)
  PROVE  /\ Types'
         /\ cl' = [cl EXCEPT ![c].opened = cl[c].opened + 1]
         /\ cl[c].opened + 1 \in Links(setup, c)
         /\ conn' = [conn EXCEPT ![c][cl[c].opened + 1] = "open"]
         /\ Elsewhere(up, up', c)
         /\ \/ /\ cl[c].opened + 1 # setup.conns[c] /\ up' = up /\ cpc' = cpc
            \/ /\ cl[c].opened + 1 = setup.conns[c] /\ cpc' = [cpc EXCEPT ![c] = "sleeping"]
               /\ \A i \in Links(setup, c) : up'[c][i] = Written(c, i)
<1> PICK i : i = cl[c].opened + 1
  OBVIOUS
<1>1. /\ setup \in Setups /\ setup' = setup /\ setup.conns[c] \in Nat
      /\ Conns(c) = Links(setup, c) /\ num_conn(c) = setup.conns[c]
  BY SetupFacts DEF TypeInv, Types, Connect, Conns, Links, num_conn
<1>2. cl[c] \in Runs(setup) /\ cl[c].opened \in Nat
  BY DEF TypeInv, Types, ClientTypes, Runs
<1>3. cl[c].opened < setup.conns[c]
  BY DEF TypeInv, Handshake, Settled, Shaken, Connect
<1>4. i \in Links(setup, c)
  BY <1>1, <1>2, <1>3 DEF Links
<1>5. cl' = [cl EXCEPT ![c].opened = i] /\ conn' = [conn EXCEPT ![c][i] = "open"]
  BY DEF Connect
<1>6. [cl[c] EXCEPT !.opened = i] \in Runs(setup)
  BY <1>2 DEF Runs
<1>7. cl' \in [Clients -> Runs(setup)]
  BY <1>5, <1>6 DEF TypeInv, Types, ClientTypes
<1>8. /\ Elsewhere(conn, conn', c)
      /\ conn'[c] \in [Links(setup, c) -> {"none", "open", "fin", "rst"}]
  BY <1>4, <1>5 DEF Elsewhere, TypeInv, Types, LinkTypes
<1>9. /\ Elsewhere(up, up', c) /\ up'[c] \in [Links(setup, c) -> Seq(Blocks(setup))]
      /\ \/ /\ cl[c].opened + 1 # setup.conns[c] /\ up' = up /\ cpc' = cpc
         \/ /\ cl[c].opened + 1 = setup.conns[c] /\ cpc' = [cpc EXCEPT ![c] = "sleeping"]
            /\ \A j \in Links(setup, c) : up'[c][j] = Written(c, j)
  <2>1. CASE i = setup.conns[c]
    <3>1. /\ up' = [up EXCEPT ![c] = [j \in Links(setup, c) |-> Written(c, j)]]
          /\ cpc' = [cpc EXCEPT ![c] = "sleeping"]
      BY <1>1, <2>1 DEF Connect
    <3>2. \A j \in Links(setup, c) : Written(c, j) \in Seq(Blocks(setup))
      BY <1>1, WrittenRises
    <3>3. DOMAIN up = Clients
      BY DEF TypeInv, Types, LinkTypes
    <3>4. up'[c] = [j \in Links(setup, c) |-> Written(c, j)] /\ Elsewhere(up, up', c)
      BY <3>1, <3>3 DEF Elsewhere
    <3>5. up'[c] \in [Links(setup, c) -> Seq(Blocks(setup))]
      BY <3>2, <3>4
    <3>6. QED
      BY <2>1, <3>1, <3>4, <3>5
  <2>2. CASE i # setup.conns[c]
    <3>1. up' = up /\ cpc' = cpc
      BY <1>1, <2>2 DEF Connect
    <3>2. QED
      BY <2>2, <3>1, UnchangedElsewhere DEF TypeInv
  <2>3. QED
    BY <2>1, <2>2
<1>10. down' = down /\ UNCHANGED <<request, answer, main, sess, fds, alive, wild, faults>>
  BY DEF Connect, udp, process, history
<1>11. LinkTypes'
  BY <1>1, <1>8, <1>9, <1>10, UnchangedElsewhere, LinkTypesKept DEF TypeInv
<1>12. cpc' \in [Clients -> {"handshake", "waiting", "connecting", "sleeping", "gone"}]
  BY <1>9 DEF TypeInv, Types, ClientTypes
<1>13. ClientTypes' /\ ServerTypes'
  BY <1>1, <1>7, <1>10, <1>12 DEF TypeInv, Types, ClientTypes, ServerTypes
<1>14. Types'
  BY <1>1, <1>10, <1>11, <1>13 DEF TypeInv, Types
<1>15. QED
  BY <1>4, <1>5, <1>9, <1>14

LEMMA QuitTypes ==
  ASSUME TypeInv, NEW c \in Clients, Quit(c)
  PROVE  Types'
<1>1. ProcessEnds(c, down[c]) /\ setup' = setup
      /\ UNCHANGED <<request, cl, main, sess, fds, alive, wild, faults>>
  BY DEF Quit, process
<1>2. /\ cpc' = [cpc EXCEPT ![c] = "gone"] /\ answer' = [answer EXCEPT ![c] = {}]
      /\ Elsewhere(conn, conn', c) /\ Elsewhere(up, up', c) /\ Elsewhere(down, down', c)
      /\ conn'[c] \in [Links(setup, c) -> {"none", "open", "fin", "rst"}]
      /\ up'[c] \in [Links(setup, c) -> Seq(Blocks(setup))]
      /\ down'[c] = [i \in Links(setup, c) |-> <<>>]
  BY <1>1, EndsFacts DEF TypeInv
<1>3. down'[c] \in [Links(setup, c) -> Seq(Blocks(setup))]
  BY <1>2
<1>4. LinkTypes'
  BY <1>1, <1>2, <1>3, LinkTypesKept DEF TypeInv
<1>5. ClientTypes' /\ ServerTypes'
  BY <1>1, <1>2 DEF TypeInv, Types, ClientTypes, ServerTypes
<1>6. QED
  BY <1>1, <1>4, <1>5 DEF TypeInv, Types


LEMMA ClientReadTypes ==
  ASSUME TypeInv, NEW c \in Clients, NEW i, ClientRead(c, i)
  PROVE  /\ Types'
         /\ i \in Links(setup, c) /\ cpc[c] # "gone" /\ down[c][i] # <<>>
         /\ down[c][i] \in Seq(Blocks(setup))
         /\ Head(down[c][i]) \in Blocks(setup) /\ Tail(down[c][i]) \in Seq(Blocks(setup))
<1> PICK e, rest : e = Head(down[c][i]) /\ rest = Tail(down[c][i])
  OBVIOUS
<1> PICK x : x = setup
  OBVIOUS
<1>1. /\ x \in Setups /\ setup' = setup
      /\ UNCHANGED <<request, main, sess, fds, alive, wild, faults>>
  BY DEF TypeInv, Types, ClientRead, process, history
<1>2. i \in Links(x, c) /\ cpc[c] # "gone" /\ down[c][i] # <<>>
  BY DEF ClientRead, Conns, Links, num_conn
<1>3. down[c] \in [Links(x, c) -> Seq(Blocks(x))]
  BY DEF TypeInv, Types, LinkTypes
<1>4. down[c][i] \in Seq(Blocks(x)) /\ e \in Blocks(x) /\ rest \in Seq(Blocks(x))
  BY <1>2, <1>3
<1> DEFINE unread == [down[c] EXCEPT ![i] = rest]
<1>5. unread \in [Links(x, c) -> Seq(Blocks(x))]
  BY <1>2, <1>3, <1>4
<1>6. cl[c] \in Runs(x) /\ cl[c].got \in Tables(x)
  BY DEF TypeInv, Types, ClientTypes, Runs
<1>7. Add(cl[c].got, e) \in Tables(x)
  BY <1>1, <1>4, <1>6, AddType
<1>8. PICK b \in BOOLEAN : cl' = [cl EXCEPT ![c].got = Add(cl[c].got, e), ![c].saved = b]
  BY DEF ClientRead
<1>9. [cl[c] EXCEPT !.got = Add(cl[c].got, e), !.saved = b] \in Runs(x)
  BY <1>6, <1>7 DEF Runs
<1>10. cl' = [cl EXCEPT ![c] = [cl[c] EXCEPT !.got = Add(cl[c].got, e), !.saved = b]]
  BY <1>8 DEF TypeInv, Types, ClientTypes
<1>11. cl' \in [Clients -> Runs(x)]
  BY <1>9, <1>10 DEF TypeInv, Types, ClientTypes
<1>12. ProcessEnds(c, unread) \/ (down' = [down EXCEPT ![c] = unread]
                                  /\ UNCHANGED <<cpc, conn, up, answer>>)
  BY DEF ClientRead
<1> HIDE DEF unread
<1>13. CASE ProcessEnds(c, unread)
  <2>1. /\ cpc' = [cpc EXCEPT ![c] = "gone"] /\ answer' = [answer EXCEPT ![c] = {}]
        /\ Elsewhere(conn, conn', c) /\ Elsewhere(up, up', c) /\ Elsewhere(down, down', c)
        /\ conn'[c] \in [Links(setup, c) -> {"none", "open", "fin", "rst"}]
        /\ up'[c] \in [Links(setup, c) -> Seq(Blocks(setup))]
        /\ down'[c] = [k \in Links(setup, c) |-> <<>>]
    BY <1>13, EndsFacts DEF TypeInv
  <2>2. down'[c] \in [Links(setup, c) -> Seq(Blocks(setup))]
    BY <2>1
  <2>3. LinkTypes'
    BY <1>1, <2>1, <2>2, LinkTypesKept DEF TypeInv
  <2>4. ClientTypes' /\ ServerTypes'
    BY <1>1, <1>11, <2>1 DEF TypeInv, Types, ClientTypes, ServerTypes
  <2>5. QED
    BY <1>1, <1>2, <1>4, <2>3, <2>4 DEF TypeInv, Types
<1>14. CASE down' = [down EXCEPT ![c] = unread] /\ UNCHANGED <<cpc, conn, up, answer>>
  <2>1. Elsewhere(down, down', c) /\ down'[c] = unread
    BY <1>14 DEF Elsewhere, TypeInv, Types, LinkTypes
  <2>2. LinkTypes'
    BY <1>1, <1>5, <1>14, <2>1, UnchangedElsewhere, LinkTypesKept DEF TypeInv
  <2>3. ClientTypes' /\ ServerTypes'
    BY <1>1, <1>11, <1>14 DEF TypeInv, Types, ClientTypes, ServerTypes
  <2>4. QED
    BY <1>1, <1>2, <1>4, <2>2, <2>3 DEF TypeInv, Types
<1>15. QED
  BY <1>12, <1>13, <1>14

-----------------------------------------------------------------------------
(* What the steps of the server do.  Updated: session s becomes y.          *)

Updated(s, y) ==
  /\ y \in Sessions(setup) /\ y.client = sess[s].client
  /\ sess' = [sess EXCEPT ![s] = y]

SameThreads(s, y) == y.conns = sess[s].conns /\ y.got = sess[s].got

(* Thread k of the session becomes t. *)
Rethreaded(s, y, k, t) ==
  /\ t \in Threads(setup) /\ y.got = sess[s].got
  /\ y.conns = [sess[s].conns EXCEPT ![k] = t]
  /\ t.conn = sess[s].conns[k].conn /\ t.fd = sess[s].conns[k].fd

LEMMA UpdatedTypes ==
  ASSUME Types, setup' = setup, NEW s \in DOMAIN sess, NEW y, Updated(s, y)
  PROVE  /\ sess' \in Seq(Sessions(setup)) /\ Len(sess') = Len(sess)
         /\ DOMAIN sess' = DOMAIN sess /\ sess'[s] = y
         /\ \A q \in DOMAIN sess : q # s => sess'[q] = sess[q]
<1>1. sess \in Seq(Sessions(setup)) /\ y \in Sessions(setup) /\ sess' = [sess EXCEPT ![s] = y]
  BY DEF Types, ServerTypes, Updated
<1>2. QED
  BY <1>1

LEMMA CreateFacts ==
  ASSUME TypeInv, CreateThread
  PROVE  /\ main.session \in DOMAIN sess /\ setup' = setup
         /\ \E y : Updated(main.session, y) /\ SameThreads(main.session, y)
<1> PICK s : s = main.session
  OBVIOUS
<1>1. s \in DOMAIN sess /\ setup' = setup /\ sess' = [sess EXCEPT ![s].step = "started"]
  BY DEF CreateThread, TypeInv, Handshake
<1>2. sess[s] \in Sessions(setup)
  BY <1>1, SessionFacts DEF TypeInv
<1> PICK y : y = [sess[s] EXCEPT !.step = "started"]
  OBVIOUS
<1>3. y \in Sessions(setup) /\ y.client = sess[s].client
      /\ y.conns = sess[s].conns /\ y.got = sess[s].got
  BY <1>2 DEF Sessions
<1>4. sess' = [sess EXCEPT ![s] = y]
  BY <1>1
<1>5. QED
  BY <1>1, <1>3, <1>4 DEF Updated, SameThreads

LEMMA ListenFacts ==
  ASSUME TypeInv, NEW s, Listen(s)
  PROVE  /\ s \in DOMAIN sess /\ setup' = setup
         /\ \E y : Updated(s, y) /\ SameThreads(s, y)
<1>1. s \in DOMAIN sess /\ setup' = setup /\ sess' = [sess EXCEPT ![s].step = "listening"]
  BY DEF Listen
<1>2. sess[s] \in Sessions(setup)
  BY <1>1, SessionFacts DEF TypeInv
<1> PICK y : y = [sess[s] EXCEPT !.step = "listening"]
  OBVIOUS
<1>3. y \in Sessions(setup) /\ y.client = sess[s].client
      /\ y.conns = sess[s].conns /\ y.got = sess[s].got
  BY <1>2 DEF Sessions
<1>4. sess' = [sess EXCEPT ![s] = y]
  BY <1>1
<1>5. QED
  BY <1>1, <1>3, <1>4 DEF Updated, SameThreads

LEMMA ListenTypes ==
  ASSUME TypeInv, NEW s, Listen(s)
  PROVE  Types'
<1>1. sess' \in Seq(Sessions(setup)) /\ setup' = setup
  BY ListenFacts, UpdatedTypes DEF TypeInv
<1>2. QED
  BY <1>1 DEF Listen, TypeInv, Types, ClientTypes, ServerTypes, LinkTypes,
              udp, client, streams, process, history

(* What Receive appends. *)
NewSession(c) ==
  [client |-> c, step |-> "bound", conns |-> <<>>, got |-> NoneYet]

LEMMA ReceiveFacts ==
  ASSUME TypeInv, NEW c \in Clients, Receive(c)
  PROVE  /\ setup' = setup /\ request[c] > 0 /\ request' = [request EXCEPT ![c] = request[c] - 1]
         /\ \/ UNCHANGED <<main, sess, fds>>
            \/ /\ setup.conns[c] <= MAX_CONN
               /\ NewSession(c) \in Sessions(setup)
               /\ sess' = Append(sess, NewSession(c))
               /\ LowestFree \in Fds /\ fds[LowestFree] = Free
               /\ fds' = [fds EXCEPT ![LowestFree] = <<"listener">>]
               /\ main' = [step |-> "send", session |-> Len(sess) + 1]
<1>1. setup' = setup /\ request[c] > 0 /\ request' = [request EXCEPT ![c] = request[c] - 1]
  BY DEF Receive
<1>2. CASE num_conn(c) > MAX_CONN
  BY <1>1, <1>2 DEF Receive
<1>3. CASE ~(num_conn(c) > MAX_CONN)
  <2>1. /\ sess' = Append(sess, NewSession(c))
        /\ fds' = [fds EXCEPT ![LowestFree] = <<"listener">>]
        /\ main' = [step |-> "send", session |-> Len(sess) + 1]
    BY <1>3 DEF Receive, NewSession
  <2>2. setup.conns[c] <= MAX_CONN
    BY <1>3, SetupFacts DEF num_conn, TypeInv, Types
  <2>3. NewSession(c) \in Sessions(setup)
    <3>1. NoneYet \in Tables(setup)
      BY NoneYetType DEF TypeInv, Types
    <3>2. <<>> \in Seq(Threads(setup))
      OBVIOUS
    <3>3. QED
      BY <3>1, <3>2 DEF NewSession, Sessions
  <2>4. <<c, 1>> \in Datagrams
    <3>1. request[c] \in Nat
      BY DEF TypeInv, Types, ClientTypes
    <3>2. 1 \in 1 .. request[c]
      BY <1>1, <3>1
    <3>3. QED
      BY <3>2 DEF Datagrams
  <2>5. LowestFree \in Fds /\ fds[LowestFree] = Free
    BY <2>4, FreeForPort
  <2>6. QED
    BY <1>1, <2>1, <2>2, <2>3, <2>5
<1>4. QED
  BY <1>2, <1>3

LEMMA ReceiveTypes ==
  ASSUME TypeInv, NEW c \in Clients, Receive(c)
  PROVE  Types'
<1>1. request' \in [Clients -> Nat] /\ setup' = setup
  BY ReceiveFacts DEF TypeInv, Types, ClientTypes
<1>2. main' \in [step : {"receive", "send", "create"}, session : Nat]
      /\ sess' \in Seq(Sessions(setup))
      /\ fds' \in [Fds -> {Free, <<"listener">>} \cup Targets(setup)]
  <2>1. /\ main \in [step : {"receive", "send", "create"}, session : Nat]
        /\ sess \in Seq(Sessions(setup)) /\ Len(sess) \in Nat
        /\ fds \in [Fds -> {Free, <<"listener">>} \cup Targets(setup)]
    BY DEF TypeInv, Types, ServerTypes
  <2>2. CASE UNCHANGED <<main, sess, fds>>
    BY <2>1, <2>2
  <2>3. CASE ~UNCHANGED <<main, sess, fds>>
    <3>1. /\ NewSession(c) \in Sessions(setup)
          /\ sess' = Append(sess, NewSession(c))
          /\ LowestFree \in Fds
          /\ fds' = [fds EXCEPT ![LowestFree] = <<"listener">>]
          /\ main' = [step |-> "send", session |-> Len(sess) + 1]
      BY <2>3, ReceiveFacts
    <3>2. sess' \in Seq(Sessions(setup))
      BY <2>1, <3>1
    <3>3. fds' \in [Fds -> {Free, <<"listener">>} \cup Targets(setup)]
      BY <2>1, <3>1
    <3>4. main' \in [step : {"receive", "send", "create"}, session : Nat]
      BY <2>1, <3>1
    <3>5. QED
      BY <3>2, <3>3, <3>4
  <2>4. QED
    BY <2>2, <2>3
<1>3. QED
  BY <1>1, <1>2 DEF Receive, TypeInv, Types, ClientTypes, ServerTypes, LinkTypes,
                    client, streams, process, history

NewThread(i) == [conn |-> i, fd |-> LowestFree, queue |-> <<>>, reads |-> TRUE]

LEMMA AcceptFacts ==
  ASSUME TypeInv, NEW s, Accept(s)
  PROVE  /\ s \in DOMAIN sess /\ setup' = setup
         /\ Len(sess[s].conns) < setup.conns[sess[s].client]
         /\ LowestFree \in Fds /\ fds[LowestFree] = Free
         /\ \E i \in Backlog(s) : \E y :
              /\ IF \E j \in Backlog(s) : j < i THEN Fault("overtaken") ELSE NoFault
              /\ i \in Links(setup, sess[s].client)
              /\ NewThread(i) \in Threads(setup)
              /\ Updated(s, y) /\ y.got = sess[s].got
              /\ y.conns = Append(sess[s].conns, NewThread(i))
              /\ fds' = [fds EXCEPT ![LowestFree] = <<sess[s].client, i>>]
<1>1. s \in DOMAIN sess /\ setup' = setup
  BY DEF Accept
<1>2. Len(sess[s].conns) < setup.conns[sess[s].client]
  BY DEF Accept, num_conn
<1>3. LowestFree \in Fds /\ fds[LowestFree] = Free
  BY <1>1, <1>2, FreeForConnection
<1>4. PICK i \in Backlog(s) :
        /\ IF \E j \in Backlog(s) : j < i THEN Fault("overtaken") ELSE NoFault
        /\ sess' = [sess EXCEPT ![s].conns = Append(sess[s].conns, NewThread(i))]
        /\ fds' = [fds EXCEPT ![LowestFree] = <<sess[s].client, i>>]
  BY DEF Accept, NewThread
<1>5. i \in Links(setup, sess[s].client)
  BY DEF Backlog, Conns, num_conn, Links
<1>6. NewThread(i) \in Threads(setup)
  <2>1. <<>> \in Seq(Blocks(setup)) /\ i \in Nat
    BY <1>5 DEF Links
  <2>2. QED
    BY <1>3, <2>1 DEF NewThread, Threads
<1> PICK y : y = [sess[s] EXCEPT !.conns = Append(sess[s].conns, NewThread(i))]
  OBVIOUS
<1>7. sess[s] \in Sessions(setup) /\ sess[s].conns \in Seq(Threads(setup))
  BY <1>1, SessionFacts DEF TypeInv
<1>8. Append(sess[s].conns, NewThread(i)) \in Seq(Threads(setup))
  BY <1>6, <1>7
<1>9. y \in Sessions(setup) /\ y.client = sess[s].client
      /\ y.conns = Append(sess[s].conns, NewThread(i)) /\ y.got = sess[s].got
  BY <1>7, <1>8 DEF Sessions
<1>10. sess' = [sess EXCEPT ![s] = y]
  BY <1>4
<1>11. Updated(s, y)
  BY <1>9, <1>10 DEF Updated
<1>12. QED
  BY <1>1, <1>2, <1>3, <1>4, <1>5, <1>6, <1>9, <1>11

LEMMA AcceptTypes ==
  ASSUME TypeInv, NEW s, Accept(s)
  PROVE  Types'
<1>0. PICK i \in Backlog(s) : \E y :
        /\ IF \E j \in Backlog(s) : j < i THEN Fault("overtaken") ELSE NoFault
        /\ i \in Links(setup, sess[s].client) /\ Updated(s, y)
        /\ fds' = [fds EXCEPT ![LowestFree] = <<sess[s].client, i>>]
  BY AcceptFacts
<1>1. PICK y :
        /\ IF \E j \in Backlog(s) : j < i THEN Fault("overtaken") ELSE NoFault
        /\ i \in Links(setup, sess[s].client) /\ Updated(s, y)
        /\ fds' = [fds EXCEPT ![LowestFree] = <<sess[s].client, i>>]
  BY <1>0
<1>2. sess' \in Seq(Sessions(setup)) /\ setup' = setup
  BY <1>1, AcceptFacts, UpdatedTypes DEF TypeInv
<1>3. faults' \in Nat
  BY <1>1 DEF Fault, NoFault, history, TypeInv, Types
<1>4. <<sess[s].client, i>> \in Targets(setup)
  BY <1>1, AcceptFacts, SessionFacts DEF Links, Targets, TypeInv
<1>5. fds' \in [Fds -> {Free, <<"listener">>} \cup Targets(setup)]
  BY <1>1, <1>4 DEF TypeInv, Types, ServerTypes
<1>6. QED
  BY <1>2, <1>3, <1>5 DEF Accept, TypeInv, Types, ClientTypes, ServerTypes, LinkTypes,
              udp, client, streams, process

(* Readers and senders of the server *)

LEMMA LinkOfThread ==
  ASSUME TypeInv, NEW s \in DOMAIN sess, NEW k \in ThreadsOf(s)
  PROVE  /\ sess[s].conns[k].conn \in Links(setup, sess[s].client)
         /\ cl[sess[s].client].session = s
         /\ sess[s].conns[k].conn <= cl[sess[s].client].opened
<1>1. sess[s].client \in Clients /\ setup.conns[sess[s].client] \in Nat
  BY SessionFacts DEF TypeInv
<1>2. cl[sess[s].client].opened \in Nat
  BY <1>1 DEF TypeInv, Types, ClientTypes, Runs
<1>3. cl[sess[s].client].opened <= setup.conns[sess[s].client]
  BY <1>1, Zenon DEF TypeInv, Handshake, Settled, Shaken
<1>4. sess[s].conns[k].conn \in 1 .. cl[sess[s].client].opened /\ cl[sess[s].client].session = s
  BY DEF TypeInv, Served
<1>5. QED
  BY <1>1, <1>2, <1>3, <1>4 DEF Links

(* A reader of the server: block e is taken, and the last one makes it      *)
(* write the buffer to all of queues[].                                     *)
Bounced(s, y) ==
  /\ Len(y.conns) = Len(sess[s].conns)
  /\ \A m \in ThreadsOf(s) :
       /\ y.conns[m].queue = sess[s].conns[m].queue \o Written(sess[s].client, m)
       /\ y.conns[m].conn = sess[s].conns[m].conn /\ y.conns[m].fd = sess[s].conns[m].fd
       /\ y.conns[m].reads = sess[s].conns[m].reads

Unset(s) == Len(sess[s].conns) < setup.conns[sess[s].client]

(* Block e is the first on connection i of client c, q the rest.            *)
TakenUp(c, i, e, q) ==
  /\ e \in Blocks(setup) /\ q \in Seq(Blocks(setup))
  /\ up[c][i] \in Seq(Blocks(setup)) /\ up[c][i] # <<>>
  /\ e = Head(up[c][i]) /\ q = Tail(up[c][i])
  /\ Elsewhere(up, up', c) /\ up'[c] = [up[c] EXCEPT ![i] = q]

TurnedBy(s, y) ==
  \/ /\ Full(setup, y.got) /\ Bounced(s, y)
     /\ wild' = (wild \/ Unset(s)) /\ alive' = ~Unset(s)
  \/ /\ ~Full(setup, y.got) /\ y.conns = sess[s].conns
     /\ UNCHANGED <<alive, wild>>

BouncedConns(c, conns) ==
  [m \in DOMAIN conns |-> [conns[m] EXCEPT !.queue = conns[m].queue \o Written(c, m)]]

LEMMA BouncedThreads ==
  ASSUME setup \in Setups, NEW c \in Clients, NEW conns \in Seq(Threads(setup))
  PROVE  /\ BouncedConns(c, conns) \in Seq(Threads(setup))
         /\ Len(BouncedConns(c, conns)) = Len(conns)
         /\ \A m \in DOMAIN conns :
              /\ BouncedConns(c, conns)[m].queue = conns[m].queue \o Written(c, m)
              /\ BouncedConns(c, conns)[m].conn = conns[m].conn
              /\ BouncedConns(c, conns)[m].fd = conns[m].fd
              /\ BouncedConns(c, conns)[m].reads = conns[m].reads
<1> PICK u : u = BouncedConns(c, conns)
  OBVIOUS
<1>1. DOMAIN conns = 1 .. Len(conns) /\ Len(conns) \in Nat
  OBVIOUS
<1>2. ASSUME NEW m \in DOMAIN conns
      PROVE  /\ u[m] \in Threads(setup)
             /\ u[m].queue = conns[m].queue \o Written(c, m)
             /\ u[m].conn = conns[m].conn /\ u[m].fd = conns[m].fd
             /\ u[m].reads = conns[m].reads
  <2> PICK v, r : v = conns[m] /\ r = conns[m].queue \o Written(c, m)
    OBVIOUS
  <2>1. v \in Threads(setup)
    OBVIOUS
  <2>2. v.queue \in Seq(Blocks(setup)) /\ Written(c, m) \in Seq(Blocks(setup))
    BY <2>1, WrittenRises DEF Threads
  <2>3. r \in Seq(Blocks(setup))
    BY <2>2, ConcatProperties
  <2>4. /\ [v EXCEPT !.queue = r] \in Threads(setup) /\ [v EXCEPT !.queue = r].queue = r
        /\ [v EXCEPT !.queue = r].conn = v.conn /\ [v EXCEPT !.queue = r].fd = v.fd
        /\ [v EXCEPT !.queue = r].reads = v.reads
    BY <2>1, <2>3 DEF Threads
  <2>5. u[m] = [v EXCEPT !.queue = r]
    BY DEF BouncedConns
  <2>6. QED
    BY <2>4, <2>5
<1>3. u \in [1 .. Len(conns) -> Threads(setup)]
  BY <1>1, <1>2 DEF BouncedConns
<1>4. u \in Seq(Threads(setup)) /\ Len(u) = Len(conns)
  BY <1>1, <1>3, FcnIsSeq, Zenon
<1>5. QED
  BY <1>2, <1>4

LEMMA ServerReadFacts ==
  ASSUME TypeInv, NEW s, NEW k, ServerRead(s, k)
  PROVE  /\ s \in DOMAIN sess /\ k \in ThreadsOf(s) /\ setup' = setup /\ alive
         /\ \E e, q, y : /\ TakenUp(sess[s].client, sess[s].conns[k].conn, e, q)
                         /\ Updated(s, y) /\ y.got = Add(sess[s].got, e)
                         /\ TurnedBy(s, y)
<1> PICK x : x = setup
  OBVIOUS
<1>1. s \in DOMAIN sess /\ k \in ThreadsOf(s) /\ setup' = setup /\ alive
  BY DEF ServerRead, IsThread, ThreadsOf
<1> PICK c, i, conns : c = sess[s].client /\ i = sess[s].conns[k].conn /\ conns = sess[s].conns
  OBVIOUS
<1>2. c \in Clients /\ sess[s] \in Sessions(x) /\ sess[s].got \in Tables(x)
      /\ x \in Setups /\ conns \in Seq(Threads(x)) /\ ThreadsOf(s) = DOMAIN conns
  BY <1>1, SessionFacts DEF TypeInv, Types, ThreadsOf
<1>3. i \in Links(x, c) /\ up[c] \in [Links(x, c) -> Seq(Blocks(x))] /\ DOMAIN up = Clients
  BY <1>1, <1>2, LinkOfThread DEF TypeInv, Types, LinkTypes
<1>4. up[c][i] # <<>> /\ up[c][i] \in Seq(Blocks(x)) /\ up' = [up EXCEPT ![c][i] = Tail(up[c][i])]
  BY <1>3 DEF ServerRead
<1> PICK e, q : e = Head(up[c][i]) /\ q = Tail(up[c][i])
  OBVIOUS
<1>5. e \in Blocks(x) /\ q \in Seq(Blocks(x))
  BY <1>4
<1>6. Elsewhere(up, up', c) /\ up'[c] = [up[c] EXCEPT ![i] = q]
  BY <1>2, <1>3, <1>4 DEF Elsewhere
<1>6a. TakenUp(sess[s].client, sess[s].conns[k].conn, e, q)
  BY <1>4, <1>5, <1>6 DEF TakenUp
<1> PICK got : got = Add(sess[s].got, e)
  OBVIOUS
<1>7. got \in Tables(x)
  BY <1>2, <1>5, AddType
<1>8. IF Full(x, got) THEN Bounce(s, got, conns)
      ELSE sess' = [sess EXCEPT ![s].got = got] /\ UNCHANGED process
  BY DEF ServerRead, Complete, Full
<1>9. CASE ~Full(x, got)
  <2> PICK y : y = [sess[s] EXCEPT !.got = got]
    OBVIOUS
  <2>1. y \in Sessions(x) /\ y.client = c /\ y.conns = conns /\ y.got = got
    BY <1>2, <1>7 DEF Sessions
  <2>2. sess' = [sess EXCEPT ![s] = y] /\ UNCHANGED <<alive, wild>>
    BY <1>8, <1>9 DEF process
  <2>3. Updated(s, y)
    BY <2>1, <2>2 DEF Updated
  <2>4. TurnedBy(s, y)
    BY <1>9, <2>1, <2>2 DEF TurnedBy
  <2>5. QED
    BY <1>1, <1>6a, <2>1, <2>3, <2>4
<1>10. CASE Full(x, got)
  <2> PICK u : u = BouncedConns(c, conns)
    OBVIOUS
  <2>1. /\ sess' = [sess EXCEPT ![s].got = got, ![s].conns = u]
        /\ wild' = (wild \/ Unset(s)) /\ alive' = ~Unset(s)
    BY <1>8, <1>10 DEF Bounce, BouncedConns, Unset, num_conn
  <2>2. /\ u \in Seq(Threads(setup)) /\ Len(u) = Len(conns)
        /\ \A m \in DOMAIN conns :
             /\ u[m].queue = conns[m].queue \o Written(c, m)
             /\ u[m].conn = conns[m].conn /\ u[m].fd = conns[m].fd
             /\ u[m].reads = conns[m].reads
    <3>1. setup \in Setups /\ c \in Clients /\ conns \in Seq(Threads(setup))
      BY <1>2
    <3>2. QED
      BY <3>1, BouncedThreads, Zenon
  <2> PICK y : y = [sess[s] EXCEPT !.got = got, !.conns = u]
    OBVIOUS
  <2>4. y \in Sessions(x) /\ y.client = c /\ y.conns = u /\ y.got = got
    BY <1>2, <1>7, <2>2 DEF Sessions
  <2>5. sess' = [sess EXCEPT ![s] = y]
    BY <1>1, <2>1 DEF TypeInv, Types, ServerTypes
  <2>6. Updated(s, y)
    BY <2>4, <2>5 DEF Updated
  <2>7. Bounced(s, y)
    <3>1. y.conns = u /\ sess[s].conns = conns /\ ThreadsOf(s) = DOMAIN conns /\ sess[s].client = c
      BY <1>2, <2>4
    <3>2. QED
      BY <2>2, <3>1 DEF Bounced
  <2>8. TurnedBy(s, y)
    BY <1>10, <2>1, <2>4, <2>7 DEF TurnedBy
  <2>9. QED
    BY <1>1, <1>6a, <2>4, <2>6, <2>8
<1>11. QED
  BY <1>9, <1>10

LEMMA ServerReadTypes ==
  ASSUME TypeInv, NEW s, NEW k, ServerRead(s, k)
  PROVE  Types'
<1> PICK c, i : c = sess[s].client /\ i = sess[s].conns[k].conn
  OBVIOUS
<1>1. s \in DOMAIN sess /\ k \in ThreadsOf(s) /\ setup' = setup
  BY ServerReadFacts
<1>0. PICK e, q, y : TakenUp(c, i, e, q) /\ Updated(s, y) /\ TurnedBy(s, y)
  BY ServerReadFacts
<1>2. /\ Elsewhere(up, up', c) /\ up'[c] = [up[c] EXCEPT ![i] = q] /\ q \in Seq(Blocks(setup))
      /\ alive' \in BOOLEAN /\ wild' \in BOOLEAN
  <2>1. alive \in BOOLEAN /\ wild \in BOOLEAN
    BY DEF TypeInv, Types
  <2>2. alive' \in BOOLEAN /\ wild' \in BOOLEAN
    BY <1>0, <2>1 DEF TurnedBy, Unset
  <2>3. QED
    BY <1>0, <2>2 DEF TakenUp
<1>3. c \in Clients /\ up[c] \in [Links(setup, c) -> Seq(Blocks(setup))]
  BY <1>1, SessionFacts DEF TypeInv, Types, LinkTypes
<1>4. up'[c] \in [Links(setup, c) -> Seq(Blocks(setup))]
  BY <1>2, <1>3
<1>5. sess' \in Seq(Sessions(setup))
  BY <1>0, <1>1, UpdatedTypes DEF TypeInv
<1>6. UNCHANGED <<cpc, cl, request, answer, main, fds, conn, down, faults>>
  BY DEF ServerRead, udp, client, history
<1>7. LinkTypes'
  BY <1>1, <1>2, <1>3, <1>4, <1>6, UnchangedElsewhere, LinkTypesKept DEF TypeInv
<1>8. ClientTypes' /\ ServerTypes'
  BY <1>1, <1>5, <1>6 DEF TypeInv, Types, ClientTypes, ServerTypes
<1>9. QED
  BY <1>1, <1>2, <1>6, <1>7, <1>8 DEF TypeInv, Types

(* Thread k of session s stops reading. *)
Halted(s, k, t) == t.queue = sess[s].conns[k].queue /\ t.reads = FALSE

LEMMA StopFacts ==
  ASSUME TypeInv, NEW s, NEW k, ReaderCloses(s, k) \/ ReaderFails(s, k)
  PROVE  /\ s \in DOMAIN sess /\ k \in ThreadsOf(s) /\ setup' = setup
         /\ sess[s].conns[k].reads
         /\ conn[sess[s].client][sess[s].conns[k].conn] \in {"fin", "rst"}
         /\ \/ fds' = fds /\ conn[sess[s].client][sess[s].conns[k].conn] = "rst"
            \/ fds' = [fds EXCEPT ![sess[s].conns[k].fd] = Free]
         /\ \E y, t : Updated(s, y) /\ Rethreaded(s, y, k, t) /\ Halted(s, k, t)
<1>1. /\ s \in DOMAIN sess /\ k \in ThreadsOf(s) /\ setup' = setup
      /\ sess[s].conns[k].reads
      /\ conn[sess[s].client][sess[s].conns[k].conn] \in {"fin", "rst"}
  BY DEF ReaderCloses, ReaderFails, IsThread, ThreadsOf, AtEnd
<1>2. \/ fds' = fds /\ conn[sess[s].client][sess[s].conns[k].conn] = "rst"
      \/ fds' = [fds EXCEPT ![sess[s].conns[k].fd] = Free]
  BY DEF ReaderCloses, ReaderFails
<1>3. sess' = [sess EXCEPT ![s].conns[k].reads = FALSE]
  BY DEF ReaderCloses, ReaderFails
<1> PICK t : t = [sess[s].conns[k] EXCEPT !.reads = FALSE]
  OBVIOUS
<1>4. sess[s].conns[k] \in Threads(setup)
  BY <1>1, ThreadFacts DEF TypeInv
<1>5. /\ t \in Threads(setup) /\ t.conn = sess[s].conns[k].conn /\ t.fd = sess[s].conns[k].fd
      /\ t.queue = sess[s].conns[k].queue /\ t.reads = FALSE
  BY <1>4 DEF Threads
<1> PICK u : u = [sess[s].conns EXCEPT ![k] = t]
  OBVIOUS
<1>6. sess[s] \in Sessions(setup) /\ sess[s].conns \in Seq(Threads(setup))
  BY <1>1, SessionFacts DEF TypeInv
<1>7. u \in Seq(Threads(setup))
  BY <1>1, <1>5, <1>6 DEF ThreadsOf
<1> PICK y : y = [sess[s] EXCEPT !.conns = u]
  OBVIOUS
<1>8. y \in Sessions(setup) /\ y.client = sess[s].client /\ y.conns = u /\ y.got = sess[s].got
  BY <1>6, <1>7 DEF Sessions
<1>9. sess' = [sess EXCEPT ![s] = y]
  BY <1>3
<1>10. Updated(s, y) /\ Rethreaded(s, y, k, t)
  BY <1>5, <1>8, <1>9 DEF Updated, Rethreaded
<1>11. Halted(s, k, t)
  BY <1>5 DEF Halted
<1>12. QED
  BY <1>1, <1>2, <1>10, <1>11

LEMMA StopTypes ==
  ASSUME TypeInv, NEW s, NEW k, ReaderCloses(s, k) \/ ReaderFails(s, k)
  PROVE  Types'
<1>1. s \in DOMAIN sess /\ k \in ThreadsOf(s) /\ setup' = setup
  BY StopFacts
<1>1a. fds' = fds \/ fds' = [fds EXCEPT ![sess[s].conns[k].fd] = Free]
  BY DEF ReaderCloses, ReaderFails
<1>2. PICK y : Updated(s, y)
  BY StopFacts
<1>3. sess' \in Seq(Sessions(setup))
  BY <1>1, <1>2, UpdatedTypes DEF TypeInv
<1>4. fds' \in [Fds -> {Free, <<"listener">>} \cup Targets(setup)]
  BY <1>1a DEF TypeInv, Types, ServerTypes
<1>5. UNCHANGED <<udp, client, main, conn, streams, process, history>>
  BY DEF ReaderCloses, ReaderFails
<1>6. QED
  BY <1>1, <1>3, <1>4, <1>5 DEF TypeInv, Types, ClientTypes, ServerTypes, LinkTypes,
              udp, client, streams, process, history

(* A sender of the server: its block goes to what the descriptor stands for. *)
SentTo(p, e) ==
  LET c == p[1]
      i == p[2] IN
  \/ /\ conn[c][i] = "open"
     /\ Elsewhere(down, down', c) /\ down'[c] = [down[c] EXCEPT ![i] = Append(down[c][i], e)]
     /\ UNCHANGED <<conn, alive>>
  \/ /\ conn[c][i] = "fin" /\ conn' = [conn EXCEPT ![c][i] = "rst"]
     /\ UNCHANGED <<down, alive>>
  \/ /\ conn[c][i] = "rst" /\ alive' \in BOOLEAN
     /\ UNCHANGED <<conn, down>>

LEMMA ServerSendFacts ==
  ASSUME TypeInv, NEW s, NEW k, ServerSend(s, k)
  PROVE  /\ s \in DOMAIN sess /\ k \in ThreadsOf(s) /\ setup' = setup /\ alive
         /\ sess[s].conns[k].queue # <<>>
         /\ Head(sess[s].conns[k].queue) \in Blocks(setup)
         /\ \E y, t : /\ Updated(s, y) /\ Rethreaded(s, y, k, t)
                      /\ t.queue = Tail(sess[s].conns[k].queue)
                      /\ t.reads = sess[s].conns[k].reads
         /\ LET p == fds[sess[s].conns[k].fd] IN
            \/ /\ p \in {Free, <<"listener">>} /\ UNCHANGED <<conn, down>> /\ alive' \in BOOLEAN
            \/ /\ p \in Targets(setup)
               /\ SentTo(p, Head(sess[s].conns[k].queue))
<1> PICK v : v = sess[s].conns[k]
  OBVIOUS
<1>1. s \in DOMAIN sess /\ k \in ThreadsOf(s) /\ setup' = setup /\ alive /\ v.queue # <<>>
  BY DEF ServerSend, IsThread, ThreadsOf
<1>2. v \in Threads(setup) /\ v.queue \in Seq(Blocks(setup)) /\ v.fd \in Fds
  BY <1>1, ThreadFacts DEF TypeInv
<1> PICK e, q : e = Head(v.queue) /\ q = Tail(v.queue)
  OBVIOUS
<1>3. e \in Blocks(setup) /\ q \in Seq(Blocks(setup))
  BY <1>1, <1>2
<1>4. sess' = [sess EXCEPT ![s].conns[k].queue = q]
  BY DEF ServerSend
<1> PICK t : t = [v EXCEPT !.queue = q]
  OBVIOUS
<1>5. /\ t \in Threads(setup) /\ t.conn = v.conn /\ t.fd = v.fd
      /\ t.queue = q /\ t.reads = v.reads
  BY <1>2, <1>3 DEF Threads
<1> PICK u : u = [sess[s].conns EXCEPT ![k] = t]
  OBVIOUS
<1>6. sess[s] \in Sessions(setup) /\ sess[s].conns \in Seq(Threads(setup))
  BY <1>1, SessionFacts DEF TypeInv
<1>7. u \in Seq(Threads(setup))
  BY <1>1, <1>5, <1>6 DEF ThreadsOf
<1> PICK y : y = [sess[s] EXCEPT !.conns = u]
  OBVIOUS
<1>8. y \in Sessions(setup) /\ y.client = sess[s].client /\ y.conns = u /\ y.got = sess[s].got
  BY <1>6, <1>7 DEF Sessions
<1>9. sess' = [sess EXCEPT ![s] = y]
  BY <1>4
<1>10. Updated(s, y) /\ Rethreaded(s, y, k, t)
  BY <1>5, <1>8, <1>9 DEF Updated, Rethreaded
<1> PICK p : p = fds[v.fd]
  OBVIOUS
<1>11. p \in {Free, <<"listener">>} \cup Targets(setup)
  BY <1>2 DEF TypeInv, Types, ServerTypes
<1>12. CASE p \in {Free, <<"listener">>}
  <2>1. UNCHANGED <<conn, down>> /\ alive' \in BOOLEAN
    BY <1>1, <1>12 DEF ServerSend, TypeInv, Types
  <2>2. QED
    BY <1>1, <1>3, <1>5, <1>10, <1>12, <2>1
<1>13. CASE p \notin {Free, <<"listener">>}
  <2>1. p \in Targets(setup)
    BY <1>11, <1>13
  <2>2. p[1] \in Clients /\ DOMAIN down = Clients
    BY <2>1 DEF Targets, TypeInv, Types, LinkTypes
  <2>3. \/ /\ conn[p[1]][p[2]] = "open"
           /\ down' = [down EXCEPT ![p[1]][p[2]] = Append(down[p[1]][p[2]], e)]
           /\ UNCHANGED <<conn, alive>>
        \/ /\ conn[p[1]][p[2]] = "fin"
           /\ conn' = [conn EXCEPT ![p[1]][p[2]] = "rst"]
           /\ UNCHANGED <<down, alive>>
        \/ /\ conn[p[1]][p[2]] = "rst"
           /\ alive' \in BOOLEAN
           /\ UNCHANGED <<conn, down>>
    BY <1>13 DEF ServerSend
  <2>4. SentTo(p, e)
    BY <2>2, <2>3 DEF SentTo, Elsewhere
  <2>5. QED
    BY <1>1, <1>3, <1>5, <1>10, <2>1, <2>4
<1>14. QED
  BY <1>12, <1>13

LEMMA ServerSendTypes ==
  ASSUME TypeInv, NEW s, NEW k, ServerSend(s, k)
  PROVE  Types'
<1> PICK e : e = Head(sess[s].conns[k].queue)
  OBVIOUS
<1> PICK p : p = fds[sess[s].conns[k].fd]
  OBVIOUS
<1>1. s \in DOMAIN sess /\ k \in ThreadsOf(s) /\ setup' = setup /\ e \in Blocks(setup)
  BY ServerSendFacts
<1>2. PICK y : Updated(s, y)
  BY ServerSendFacts
<1>3. sess' \in Seq(Sessions(setup))
  BY <1>1, <1>2, UpdatedTypes DEF TypeInv
<1>4. UNCHANGED <<cpc, cl, request, answer, main, fds, up, faults, wild>>
  BY DEF ServerSend, udp, client, history
<1>5. ClientTypes' /\ ServerTypes'
  BY <1>1, <1>3, <1>4 DEF TypeInv, Types, ClientTypes, ServerTypes
<1>6. LinkTypes' /\ alive' \in BOOLEAN
  <2>1. alive \in BOOLEAN
    BY DEF TypeInv, Types
  <2>2. CASE UNCHANGED <<conn, down>> /\ alive' \in BOOLEAN
    BY <1>1, <1>4, <2>2 DEF TypeInv, Types, LinkTypes
  <2>3. CASE p \in Targets(setup) /\ SentTo(p, e)
    <3> PICK c, i : c = p[1] /\ i = p[2]
      OBVIOUS
    <3>1. c \in Clients /\ i \in Links(setup, c)
      BY <2>3 DEF Targets
    <3>2. /\ DOMAIN conn = Clients /\ DOMAIN down = Clients
          /\ conn[c] \in [Links(setup, c) -> {"none", "open", "fin", "rst"}]
          /\ down[c] \in [Links(setup, c) -> Seq(Blocks(setup))]
      BY <3>1 DEF TypeInv, Types, LinkTypes
    <3>3. CASE Elsewhere(down, down', c) /\ conn' = conn /\ alive' = alive
               /\ down'[c] = [down[c] EXCEPT ![i] = Append(down[c][i], e)]
      <4>1. down'[c] \in [Links(setup, c) -> Seq(Blocks(setup))]
        <5>1. down[c][i] \in Seq(Blocks(setup)) /\ e \in Blocks(setup)
          BY <1>1, <3>1, <3>2
        <5> PICK r : r = Append(down[c][i], e)
          OBVIOUS
        <5>2. r \in Seq(Blocks(setup))
          BY <5>1, AppendProperties
        <5>3. down'[c] = [down[c] EXCEPT ![i] = r]
          BY <3>3
        <5>4. [down[c] EXCEPT ![i] = r] \in [Links(setup, c) -> Seq(Blocks(setup))]
          BY <3>1, <3>2, <5>2
        <5>5. QED
          BY <5>3, <5>4
      <4>2. QED
        BY <1>1, <1>4, <2>1, <3>1, <3>3, <4>1, UnchangedElsewhere, LinkTypesKept DEF TypeInv
    <3>4. CASE conn' = [conn EXCEPT ![c][i] = "rst"] /\ UNCHANGED <<down, alive>>
      <4>1. Elsewhere(conn, conn', c) /\ conn'[c] = [conn[c] EXCEPT ![i] = "rst"]
        BY <3>2, <3>4, <3>1 DEF Elsewhere
      <4>2. conn'[c] \in [Links(setup, c) -> {"none", "open", "fin", "rst"}]
        BY <3>1, <3>2, <4>1
      <4>3. QED
        BY <1>1, <1>4, <2>1, <3>1, <3>4, <4>1, <4>2, UnchangedElsewhere, LinkTypesKept DEF TypeInv
    <3>5. CASE UNCHANGED <<conn, down>> /\ alive' \in BOOLEAN
      BY <2>2, <3>5
    <3>6. QED
      BY <2>3, <3>3, <3>4, <3>5 DEF SentTo
  <2>4. QED
    BY <2>2, <2>3, ServerSendFacts
<1>7. QED
  BY <1>1, <1>4, <1>5, <1>6 DEF TypeInv, Types

LEMMA StutterTypes ==
  ASSUME TypeInv, UNCHANGED vars
  PROVE  Types'
BY DEF vars, udp, client, streams, process, history,
       TypeInv, Types, ClientTypes, ServerTypes, LinkTypes

(* Every step is a stuttering step or one of these. *)
Steps ==
  \/ \E c \in Clients :
       \/ LoseRequest(c) \/ DuplicateRequest(c) \/ LoseAnswer(c)
       \/ SendRequest(c) \/ ReceivePort(c) \/ HandshakeTimesOut(c)
       \/ Connect(c) \/ Quit(c) \/ Receive(c)
       \/ \E i : ClientRead(c, i)
  \/ SendPort \/ CreateThread
  \/ \E s : Listen(s) \/ Accept(s)
  \/ \E s, k : \/ ServerRead(s, k) \/ ServerSend(s, k)
               \/ ReaderCloses(s, k) \/ ReaderFails(s, k)

(* A block is lost between two readers of one table, *)
Races ==
  \/ \E c \in Clients : \E i : ClientRaces(c, i)
  \/ \E s, k : ServerRaces(s, k)

(* and nothing else changes: every queue of blocks is what it was, or that  *)
(* without its first block.                                                 *)
LEMMA RacesQuiet ==
  ASSUME Races
  PROVE  /\ UNCHANGED <<setup, request, answer, cpc, cl, main, sess, fds, conn, alive, wild>>
         /\ Fault("raced")
BY DEF Races, ClientRaces, ServerRaces, udp, client, process

Shortened(p, q) ==
  \/ q = p
  \/ \E n \in 0 .. Len(p) : q = SubSeq(p, 1, n)
  \/ p # <<>> /\ q = Tail(p)

(* A queue of blocks of c, and of c only, loses its first. *)
Dropped(old, new, c) ==
  \E i \in Links(setup, c) : old[c][i] # <<>> /\ new = [old EXCEPT ![c][i] = Tail(@)]

LEMMA DroppedFacts ==
  ASSUME setup \in Setups, NEW old, NEW new, DOMAIN old = Clients, NEW c \in Clients,
         \A d \in Clients : old[d] \in [Links(setup, d) -> Seq(Blocks(setup))],
         Dropped(old, new, c)
  PROVE  /\ DOMAIN new = Clients
         /\ \A d \in Clients :
              /\ new[d] \in [Links(setup, d) -> Seq(Blocks(setup))]
              /\ \A j \in Links(setup, d) : Shortened(old[d][j], new[d][j])
<1>1. PICK i \in Links(setup, c) : old[c][i] # <<>> /\ new = [old EXCEPT ![c][i] = Tail(@)]
  BY DEF Dropped
<1> PICK q : q = Tail(old[c][i])
  OBVIOUS
<1>2. new = [old EXCEPT ![c] = [old[c] EXCEPT ![i] = q]]
  BY <1>1
<1>3. old[c] \in [Links(setup, c) -> Seq(Blocks(setup))]
  OBVIOUS
<1>4. q \in Seq(Blocks(setup)) /\ Shortened(old[c][i], q)
  BY <1>1, <1>3 DEF Shortened
<1>5. DOMAIN new = Clients /\ new[c] = [old[c] EXCEPT ![i] = q]
      /\ \A d \in Clients : d # c => new[d] = old[d]
  BY <1>2
<1>6. new[c] \in [Links(setup, c) -> Seq(Blocks(setup))]
  BY <1>3, <1>4, <1>5
<1>7. \A j \in Links(setup, c) : Shortened(old[c][j], new[c][j])
  BY <1>3, <1>4, <1>5 DEF Shortened
<1>8. QED
  BY <1>5, <1>6, <1>7 DEF Shortened

LEMMA RacesDrop ==
  ASSUME TypeInv, Races
  PROVE  \E c \in Clients : \/ Dropped(up, up', c) /\ down' = down
                            \/ Dropped(down, down', c) /\ up' = up
<1>1. ASSUME NEW c \in Clients, NEW i, ClientRaces(c, i) PROVE Dropped(down, down', c) /\ up' = up
  BY <1>1 DEF ClientRaces, Dropped, Conns, Links, num_conn
<1>2. ASSUME NEW s, NEW k, ServerRaces(s, k)
      PROVE  sess[s].client \in Clients /\ Dropped(up, up', sess[s].client) /\ down' = down
  <2>1. s \in DOMAIN sess /\ k \in ThreadsOf(s)
    BY <1>2 DEF ServerRaces, IsThread, ThreadsOf
  <2>2. sess[s].client \in Clients
    BY <2>1, SessionFacts DEF TypeInv
  <2>3. sess[s].conns[k].conn \in Links(setup, sess[s].client)
    BY <2>1, LinkOfThread
  <2>4. QED
    BY <1>2, <2>2, <2>3 DEF ServerRaces, Dropped
<1>3. QED
  BY <1>1, <1>2 DEF Races

LEMMA RacesShorten ==
  ASSUME TypeInv, Races
  PROVE  /\ DOMAIN up' = Clients /\ DOMAIN down' = Clients
         /\ \A c \in Clients :
              /\ up'[c] \in [Links(setup, c) -> Seq(Blocks(setup))]
              /\ down'[c] \in [Links(setup, c) -> Seq(Blocks(setup))]
              /\ \A i \in Links(setup, c) :
                   Shortened(up[c][i], up'[c][i]) /\ Shortened(down[c][i], down'[c][i])
<1>1. PICK c \in Clients : \/ Dropped(up, up', c) /\ down' = down
                           \/ Dropped(down, down', c) /\ up' = up
  BY RacesDrop
<1>2. /\ setup \in Setups /\ DOMAIN up = Clients /\ DOMAIN down = Clients
      /\ \A d \in Clients : /\ up[d] \in [Links(setup, d) -> Seq(Blocks(setup))]
                            /\ down[d] \in [Links(setup, d) -> Seq(Blocks(setup))]
  BY DEF TypeInv, Types, LinkTypes
<1>3. CASE Dropped(up, up', c) /\ down' = down
  <2>1. /\ DOMAIN up' = Clients
        /\ \A d \in Clients :
             /\ up'[d] \in [Links(setup, d) -> Seq(Blocks(setup))]
             /\ \A j \in Links(setup, d) : Shortened(up[d][j], up'[d][j])
    BY <1>2, <1>3, DroppedFacts
  <2>2. \A d \in Clients : \A j \in Links(setup, d) : Shortened(down[d][j], down'[d][j])
    BY <1>3 DEF Shortened
  <2>3. QED
    BY <1>2, <1>3, <2>1, <2>2
<1>4. CASE Dropped(down, down', c) /\ up' = up
  <2>1. /\ DOMAIN down' = Clients
        /\ \A d \in Clients :
             /\ down'[d] \in [Links(setup, d) -> Seq(Blocks(setup))]
             /\ \A j \in Links(setup, d) : Shortened(down[d][j], down'[d][j])
    BY <1>2, <1>4, DroppedFacts
  <2>2. \A d \in Clients : \A j \in Links(setup, d) : Shortened(up[d][j], up'[d][j])
    BY <1>4 DEF Shortened
  <2>3. QED
    BY <1>2, <1>4, <2>1, <2>2
<1>5. QED
  BY <1>1, <1>3, <1>4

LEMMA RacesTypes ==
  ASSUME TypeInv, Races
  PROVE  Types'
<1>1. LinkTypes'
  BY RacesShorten, RacesQuiet DEF LinkTypes, TypeInv, Types
<1>2. ClientTypes' /\ ServerTypes'
  BY RacesQuiet DEF ClientTypes, ServerTypes, TypeInv, Types
<1>3. QED
  BY <1>1, <1>2, RacesQuiet DEF TypeInv, Types, Fault

LEMMA NextSteps ==
  ASSUME [Next]_vars
  PROVE  UNCHANGED vars \/ Steps \/ Races
<1>1. CASE UNCHANGED vars
  BY <1>1
<1>2. CASE Next
  <2>1. CASE Idle
    BY <2>1 DEF Idle
  <2>2. CASE MainStep
    BY <2>2, Zenon DEF MainStep, Steps
  <2>3. CASE \E c \in Clients :
               \/ ClientStep(c) \/ HandshakeTimesOut(c) \/ Refused(c) \/ Quit(c)
               \/ LoseRequest(c) \/ DuplicateRequest(c) \/ LoseAnswer(c)
               \/ \E i \in 1 .. MAX_CONN : ClientRead(c, i) \/ ClientRaces(c, i)
    <3>1. PICK c \in Clients :
               \/ ClientStep(c) \/ HandshakeTimesOut(c) \/ Refused(c) \/ Quit(c)
               \/ LoseRequest(c) \/ DuplicateRequest(c) \/ LoseAnswer(c)
               \/ \E i \in 1 .. MAX_CONN : ClientRead(c, i) \/ ClientRaces(c, i)
      BY <2>3
    <3>2. Refused(c) => UNCHANGED vars
      BY DEF Refused
    <3>3. QED
      BY <3>1, <3>2, Zenon DEF ClientStep, Steps, Races
  <2>4. CASE \E s \in 1 .. MaxSessions :
               \/ SessionStep(s)
               \/ \E k \in 1 .. MAX_CONN :
                    ReaderStep(s, k) \/ ServerRaces(s, k) \/ ServerSend(s, k)
    BY <2>4, Zenon DEF SessionStep, ReaderStep, Steps, Races
  <2>5. QED
    BY <1>2, <2>1, <2>2, <2>3, <2>4 DEF Next
<1>3. QED
  BY <1>1, <1>2

LEMMA NextTypes ==
  ASSUME TypeInv, [Next]_vars
  PROVE  Types'
<1>1. CASE UNCHANGED vars
  BY <1>1, StutterTypes
<1>2. CASE Steps
  <2>1. ASSUME SendPort \/ CreateThread PROVE Types'
    BY <2>1, MainTypes
  <2>2. ASSUME NEW c \in Clients,
               \/ LoseRequest(c) \/ DuplicateRequest(c) \/ LoseAnswer(c)
               \/ SendRequest(c) \/ ReceivePort(c) \/ HandshakeTimesOut(c)
               \/ Connect(c) \/ Quit(c) \/ Receive(c)
               \/ \E i : ClientRead(c, i)
        PROVE  Types'
    BY <2>2, NetworkTypes, ConnectTypes, QuitTypes, ClientReadTypes, ReceiveTypes
  <2>3. ASSUME NEW s, Listen(s) \/ Accept(s) PROVE Types'
    BY <2>3, ListenTypes, AcceptTypes
  <2>4. ASSUME NEW s, NEW k, \/ ServerRead(s, k) \/ ServerSend(s, k)
                             \/ ReaderCloses(s, k) \/ ReaderFails(s, k)
        PROVE  Types'
    BY <2>4, ServerReadTypes, ServerSendTypes, StopTypes
  <2>5. QED
    BY <1>2, <2>1, <2>2, <2>3, <2>4, Zenon DEF Steps
<1>3. CASE Races
  BY <1>3, RacesTypes
<1>4. QED
  BY <1>1, <1>2, <1>3, NextSteps

-----------------------------------------------------------------------------
(* The handshake *)

SessExtends ==
  /\ DOMAIN sess \subseteq DOMAIN sess'
  /\ \A s \in DOMAIN sess : sess'[s].client = sess[s].client

LEMMA SessUpdated ==
  ASSUME Types, setup' = setup, NEW s \in DOMAIN sess, NEW y, Updated(s, y)
  PROVE  SessExtends /\ DOMAIN sess' = DOMAIN sess
<1>1. /\ DOMAIN sess' = DOMAIN sess /\ sess'[s] = y
      /\ \A q \in DOMAIN sess : q # s => sess'[q] = sess[q]
  BY UpdatedTypes
<1>2. QED
  BY <1>1 DEF SessExtends, Updated

SameNone(c) == \A i \in Links(setup, c) : conn'[c][i] = "none" <=> conn[c][i] = "none"

(* What a client has of its session is left alone by a step of another.     *)
LEMMA SettledKept ==
  ASSUME TypeInv, Types', setup' = setup, NEW c \in Clients,
         cpc'[c] = cpc[c], cl'[c].session = cl[c].session, cl'[c].opened = cl[c].opened,
         request'[c] <= request[c], answer'[c] \subseteq answer[c],
         faults <= faults', SessExtends, SameNone(c)
  PROVE  Settled(c)'
<1>1. Settled(c)
  BY DEF TypeInv, Handshake
<1>2. Shaken(setup, cpc[c], c)'
  BY <1>1 DEF Settled, Shaken
<1>3. request'[c] <= (IF cpc'[c] = "handshake" THEN 0 ELSE 1) + faults'
  <2>1. /\ request[c] \in Nat /\ request'[c] \in Nat /\ faults \in Nat /\ faults' \in Nat
    BY DEF TypeInv, Types, ClientTypes
  <2>2. request[c] <= (IF cpc[c] = "handshake" THEN 0 ELSE 1) + faults
    BY <1>1 DEF Settled
  <2>3. QED
    BY <2>1, <2>2
<1>4. \A s \in answer'[c] : s \in DOMAIN sess' /\ sess'[s].client = c
  BY <1>1 DEF Settled, SessExtends
<1>5. cl'[c].session # 0 => cl'[c].session \in DOMAIN sess' /\ sess'[cl'[c].session].client = c
  BY <1>1 DEF Settled, SessExtends
<1>6. \A i \in Links(setup', c) : conn'[c][i] # "none" <=> i <= cl'[c].opened
  BY <1>1 DEF Settled, SameNone
<1>7. QED
  BY <1>2, <1>3, <1>4, <1>5, <1>6 DEF Settled

LEMMA MainKept ==
  ASSUME TypeInv, SessExtends, main' = main
  PROVE  main'.step # "receive" => main'.session \in DOMAIN sess'
BY DEF TypeInv, Handshake, SessExtends

LEMMA SessSame ==
  ASSUME sess' = sess
  PROVE  SessExtends
BY DEF SessExtends

LEMMA UpdatedHandshake ==
  ASSUME TypeInv, Types', setup' = setup, NEW s \in DOMAIN sess, NEW y, Updated(s, y),
         UNCHANGED <<request, answer, cpc, cl, main>>, faults <= faults',
         \A c \in Clients : SameNone(c)
  PROVE  Handshake'
<1>1. SessExtends
  BY SessUpdated DEF TypeInv
<1>2. ASSUME NEW c \in Clients PROVE Settled(c)'
  <2>1. request[c] \in Nat
    BY DEF TypeInv, Types, ClientTypes
  <2>2. request'[c] <= request[c]
    BY <2>1
  <2>3. QED
    BY <1>1, <2>2, SettledKept
<1>3. QED
  BY <1>1, <1>2, MainKept DEF Handshake

LEMMA ServerHandshake ==
  ASSUME TypeInv, Types', NEW s, NEW k,
         \/ Listen(s) \/ Accept(s) \/ ServerRead(s, k) \/ ServerSend(s, k)
         \/ ReaderCloses(s, k) \/ ReaderFails(s, k)
  PROVE  Handshake'
<1>1. faults \in Nat
  BY DEF TypeInv, Types
<1>2. CASE Listen(s)
  <2>1. PICK y : s \in DOMAIN sess /\ setup' = setup /\ Updated(s, y)
    BY <1>2, ListenFacts
  <2>2. UNCHANGED <<request, answer, cpc, cl, main, conn, faults>>
    BY <1>2 DEF Listen, udp, client, history
  <2>3. QED
    BY <1>1, <2>1, <2>2, UpdatedHandshake DEF SameNone
<1>3. CASE Accept(s)
  <2>1. PICK i \in Backlog(s) : \E y :
          /\ IF \E j \in Backlog(s) : j < i THEN Fault("overtaken") ELSE NoFault
          /\ Updated(s, y)
    BY <1>3, AcceptFacts
  <2>2. PICK y : Updated(s, y)
    BY <2>1
  <2>3. s \in DOMAIN sess /\ setup' = setup
    BY <1>3, AcceptFacts
  <2>4. UNCHANGED <<request, answer, cpc, cl, main, conn>>
    BY <1>3 DEF Accept, udp, client
  <2>5. faults <= faults'
    BY <1>1, <2>1 DEF Fault, NoFault, history
  <2>6. QED
    BY <2>2, <2>3, <2>4, <2>5, UpdatedHandshake DEF SameNone
<1>4. CASE ServerRead(s, k)
  <2>1. PICK y : Updated(s, y)
    BY <1>4, ServerReadFacts
  <2>2. s \in DOMAIN sess /\ setup' = setup
    BY <1>4, ServerReadFacts
  <2>3. UNCHANGED <<request, answer, cpc, cl, main, conn, faults>>
    BY <1>4 DEF ServerRead, udp, client, history
  <2>4. QED
    BY <1>1, <2>1, <2>2, <2>3, UpdatedHandshake DEF SameNone
<1>5. CASE ReaderCloses(s, k) \/ ReaderFails(s, k)
  <2>1. PICK y : Updated(s, y)
    BY <1>5, StopFacts
  <2>2. s \in DOMAIN sess /\ setup' = setup
    BY <1>5, StopFacts
  <2>3. UNCHANGED <<request, answer, cpc, cl, main, conn, faults>>
    BY <1>5 DEF ReaderCloses, ReaderFails, udp, client, history
  <2>4. QED
    BY <1>1, <2>1, <2>2, <2>3, UpdatedHandshake DEF SameNone
<1>6. CASE ServerSend(s, k)
  <2> PICK e : e = Head(sess[s].conns[k].queue)
    OBVIOUS
  <2> PICK p : p = fds[sess[s].conns[k].fd]
    OBVIOUS
  <2>1. PICK y : Updated(s, y)
    BY <1>6, ServerSendFacts
  <2>2. s \in DOMAIN sess /\ setup' = setup
    BY <1>6, ServerSendFacts
  <2>3. UNCHANGED <<request, answer, cpc, cl, main, faults>>
    BY <1>6 DEF ServerSend, udp, client, history
  <2>4. ASSUME NEW c \in Clients PROVE SameNone(c)
    <3>1. CASE conn' = conn
      BY <3>1 DEF SameNone
    <3>2. CASE p \in Targets(setup) /\ SentTo(p, e)
      <4>1. DOMAIN conn = Clients /\ p[1] \in Clients
            /\ conn[p[1]] \in [Links(setup, p[1]) -> {"none", "open", "fin", "rst"}]
        BY <3>2 DEF Targets, TypeInv, Types, LinkTypes
      <4>2. CASE conn[p[1]][p[2]] = "fin" /\ conn' = [conn EXCEPT ![p[1]][p[2]] = "rst"]
        BY <4>1, <4>2 DEF SameNone
      <4>3. QED
        BY <3>1, <3>2, <4>2 DEF SentTo
    <3>3. QED
      BY <1>6, <3>1, <3>2, ServerSendFacts
  <2>5. QED
    BY <1>1, <2>1, <2>2, <2>3, <2>4, UpdatedHandshake
<1>7. QED
  BY <1>2, <1>3, <1>4, <1>5, <1>6

(* The steps of one client, with the others at rest. *)
LEMMA OthersSettled ==
  ASSUME TypeInv, Types', setup' = setup, NEW c \in Clients, Settled(c)',
         \A d \in Clients \ {c} : /\ cpc'[d] = cpc[d] /\ cl'[d] = cl[d]
                                  /\ request'[d] = request[d] /\ answer'[d] = answer[d]
                                  /\ conn'[d] = conn[d],
         faults <= faults', sess' = sess, main' = main
  PROVE  Handshake'
<1>1. ASSUME NEW d \in Clients PROVE Settled(d)'
  <2>1. CASE d = c
    BY <2>1
  <2>2. CASE d # c
    <3>1. request[d] \in Nat
      BY DEF TypeInv, Types, ClientTypes
    <3>2. request'[d] <= request[d] /\ SameNone(d)
      BY <2>2, <3>1 DEF SameNone
    <3>3. QED
      BY <2>2, <3>2, SettledKept, SessSame
  <2>3. QED
    BY <2>1, <2>2
<1>2. QED
  BY <1>1, MainKept, SessSame DEF Handshake

LEMMA ClientBasics ==
  ASSUME TypeInv, NEW c \in Clients
  PROVE  /\ setup \in Setups /\ setup.conns[c] \in Nat
         /\ request[c] \in Nat /\ faults \in Nat /\ answer[c] \subseteq Nat
         /\ cl[c] \in Runs(setup) /\ cl[c].session \in Nat /\ cl[c].opened \in Nat
         /\ cl[c].got \in Tables(setup) /\ cl[c].saved \in BOOLEAN
         /\ DOMAIN request = Clients /\ DOMAIN answer = Clients /\ DOMAIN cpc = Clients
         /\ DOMAIN cl = Clients
         /\ Settled(c)
<1>1. cl[c] \in Runs(setup)
  BY DEF TypeInv, Types, ClientTypes
<1>2. QED
  BY <1>1, SetupFacts DEF TypeInv, Types, ClientTypes, Handshake, Runs

(* What a client that ends leaves behind. *)
LEMMA EndsSettled ==
  ASSUME TypeInv, NEW c \in Clients, NEW unread, ProcessEnds(c, unread), setup' = setup,
         cl'[c].session = cl[c].session, cl'[c].opened = cl[c].opened,
         request' = request, faults' = faults, sess' = sess
  PROVE  /\ Settled(c)' /\ SameNone(c)
         /\ \A d \in Clients \ {c} : cpc'[d] = cpc[d] /\ answer'[d] = answer[d] /\ conn'[d] = conn[d]
<1>0. Types
  BY DEF TypeInv
<1>1. /\ cpc' = [cpc EXCEPT ![c] = "gone"] /\ answer' = [answer EXCEPT ![c] = {}]
      /\ Elsewhere(conn, conn', c)
  BY <1>0, EndsFacts
<1>1a. Closed(c, unread)
  BY <1>0, EndsFacts
<1>2. /\ request[c] \in Nat /\ faults \in Nat /\ Settled(c)
      /\ DOMAIN cpc = Clients /\ DOMAIN answer = Clients /\ DOMAIN conn = Clients
  BY ClientBasics DEF TypeInv, Types, LinkTypes
<1>3. SameNone(c)
  BY <1>1a DEF SameNone, Closed
<1>4. cpc'[c] = "gone" /\ answer'[c] = {}
  BY <1>1, <1>2
<1>5. Shaken(setup, cpc[c], c)'
  BY <1>2, <1>4 DEF Settled, Shaken, Early
<1>6. request'[c] <= (IF cpc'[c] = "handshake" THEN 0 ELSE 1) + faults'
  BY <1>2, <1>4 DEF Settled
<1>7. \A i \in Links(setup', c) : conn'[c][i] # "none" <=> i <= cl'[c].opened
  BY <1>2, <1>3 DEF Settled, SameNone
<1>8. Settled(c)'
  BY <1>2, <1>4, <1>5, <1>6, <1>7 DEF Settled
<1>9. QED
  BY <1>1, <1>2, <1>3, <1>8 DEF Elsewhere

LEMMA ClientHandshake ==
  ASSUME TypeInv, Types', NEW c \in Clients,
         \/ LoseRequest(c) \/ DuplicateRequest(c) \/ LoseAnswer(c)
         \/ SendRequest(c) \/ ReceivePort(c) \/ HandshakeTimesOut(c)
         \/ Connect(c) \/ Quit(c) \/ \E i : ClientRead(c, i)
  PROVE  Handshake'
<1>1. /\ setup.conns[c] \in Nat /\ request[c] \in Nat /\ faults \in Nat
      /\ cl[c].session \in Nat /\ cl[c].opened \in Nat /\ answer[c] \subseteq Nat
      /\ DOMAIN request = Clients /\ DOMAIN answer = Clients /\ DOMAIN cpc = Clients
      /\ DOMAIN cl = Clients /\ Settled(c)
  BY ClientBasics
<1>2. CASE LoseRequest(c)
  <2>1. /\ request' = [request EXCEPT ![c] = request[c] - 1] /\ faults' = faults + 1
        /\ UNCHANGED <<setup, answer, cpc, cl, main, sess, conn>>
    BY <1>2 DEF LoseRequest, Fault, client
  <2>2. Settled(c)'
    BY <1>1, <2>1, SettledKept, SessSame DEF SameNone
  <2>3. QED
    BY <1>1, <2>1, <2>2, OthersSettled
<1>3. CASE DuplicateRequest(c)
  <2>1. /\ request' = [request EXCEPT ![c] = request[c] + 1] /\ faults' = faults + 1
        /\ request[c] > 0
        /\ UNCHANGED <<setup, answer, cpc, cl, main, sess, conn>>
    BY <1>3 DEF DuplicateRequest, Fault, client
  <2>2. Settled(c)'
    BY <1>1, <2>1 DEF Settled, Shaken
  <2>3. QED
    BY <1>1, <2>1, <2>2, OthersSettled
<1>4. CASE LoseAnswer(c)
  <2>1. PICK s \in answer[c] : answer' = [answer EXCEPT ![c] = @ \ {s}]
    BY <1>4 DEF LoseAnswer
  <2>2. faults' = faults + 1 /\ UNCHANGED <<setup, request, cpc, cl, main, sess, conn>>
    BY <1>4 DEF LoseAnswer, Fault, client
  <2>3. Settled(c)'
    BY <1>1, <2>1, <2>2, SettledKept, SessSame DEF SameNone
  <2>4. QED
    BY <1>1, <2>1, <2>2, <2>3, OthersSettled
<1>5. CASE SendRequest(c)
  <2>1. /\ request' = [request EXCEPT ![c] = request[c] + 1]
        /\ cpc' = [cpc EXCEPT ![c] = "waiting"] /\ cpc[c] = "handshake"
        /\ UNCHANGED <<setup, answer, cl, main, sess, conn, faults>>
    BY <1>5 DEF SendRequest, history
  <2>2. Settled(c)'
    BY <1>1, <2>1 DEF Settled, Shaken, Early
  <2>3. QED
    BY <1>1, <2>1, <2>2, OthersSettled
<1>6. CASE ReceivePort(c)
  <2>1. PICK s \in answer[c] : /\ cl' = [cl EXCEPT ![c].session = s]
                               /\ answer' = [answer EXCEPT ![c] = @ \ {s}]
    BY <1>6 DEF ReceivePort
  <2>2. /\ cpc[c] = "waiting" /\ cpc' = [cpc EXCEPT ![c] = "connecting"]
        /\ UNCHANGED <<setup, request, main, sess, conn, faults>>
    BY <1>6 DEF ReceivePort, history
  <2>3. s \in DOMAIN sess /\ sess[s].client = c /\ s # 0
    BY <1>1, SessionFacts DEF Settled, TypeInv
  <2>4. cl[c].session = 0 /\ cl[c].opened = 0 /\ setup.conns[c] > 0
    BY <1>1, <2>2 DEF Settled, Shaken, Early
  <2>5. cl[c] \in Runs(setup)
    BY ClientBasics
  <2>6. cl'[c].session = s /\ cl'[c].opened = 0
    BY <1>1, <2>1, <2>4, <2>5 DEF Runs
  <2>7. cpc'[c] = "connecting" /\ answer'[c] \subseteq answer[c]
    BY <1>1, <2>1, <2>2
  <2>8. Settled(c)'
    BY <1>1, <2>2, <2>3, <2>4, <2>6, <2>7 DEF Settled, Shaken, Early
  <2>9. QED
    BY <1>1, <2>1, <2>2, <2>8, OthersSettled
<1>7. CASE HandshakeTimesOut(c)
  <2>1. /\ cpc[c] = "waiting" /\ cpc' = [cpc EXCEPT ![c] = "gone"]
        /\ answer' = [answer EXCEPT ![c] = {}]
        /\ UNCHANGED <<setup, request, cl, main, sess, conn>>
    BY <1>7 DEF HandshakeTimesOut
  <2>2. faults <= faults' /\ faults' \in Nat
    BY <1>1, <1>7 DEF HandshakeTimesOut, Fault, NoFault, history
  <2>3. Settled(c)'
    BY <1>1, <2>1, <2>2 DEF Settled, Shaken, Early
  <2>4. QED
    BY <1>1, <2>1, <2>2, <2>3, OthersSettled
<1>8. CASE Connect(c)
  <2> PICK n : n = cl[c].opened + 1
    OBVIOUS
  <2>1. /\ cl' = [cl EXCEPT ![c].opened = n] /\ n \in Links(setup, c)
        /\ conn' = [conn EXCEPT ![c][n] = "open"]
        /\ \/ cpc' = cpc /\ n # setup.conns[c]
           \/ cpc' = [cpc EXCEPT ![c] = "sleeping"]
    BY <1>8, ConnectTypes
  <2>2. /\ cpc[c] = "connecting" /\ setup' = setup
        /\ UNCHANGED <<request, answer, main, sess, faults>>
    BY <1>8 DEF Connect, udp, history
  <2>3. cl[c] \in Runs(setup) /\ DOMAIN conn = Clients
        /\ conn[c] \in [Links(setup, c) -> {"none", "open", "fin", "rst"}]
    BY ClientBasics DEF TypeInv, Types, LinkTypes
  <2>4. cl'[c].opened = n /\ cl'[c].session = cl[c].session
    BY <1>1, <2>1, <2>3 DEF Runs
  <2>5. ASSUME NEW i \in Links(setup', c) PROVE conn'[c][i] # "none" <=> i <= cl'[c].opened
    <3>1. i \in Links(setup, c) /\ i \in Nat /\ (conn[c][i] # "none" <=> i <= cl[c].opened)
      BY <1>1, <2>2 DEF Settled, Links
    <3>2. conn'[c][i] = IF i = n THEN "open" ELSE conn[c][i]
      BY <2>1, <2>3, <3>1
    <3>3. QED
      BY <1>1, <2>4, <3>1, <3>2
  <2>6. Shaken(setup, cpc[c], c)'
    <3>1. (cpc'[c] = "connecting" /\ n # setup.conns[c]) \/ cpc'[c] = "sleeping"
      BY <1>1, <2>1, <2>2
    <3>2. n \in Nat /\ n <= setup.conns[c] /\ n > 0 /\ cl[c].session # 0
      BY <1>1, <2>1, <2>2 DEF Links, Settled, Shaken
    <3>3. QED
      BY <1>1, <2>2, <2>4, <3>1, <3>2 DEF Shaken, Early
  <2>7. cpc'[c] # "handshake" /\ cpc[c] # "handshake"
    BY <1>1, <2>1, <2>2
  <2>8. Settled(c)'
    BY <1>1, <2>2, <2>4, <2>5, <2>6, <2>7 DEF Settled
  <2>9. \A d \in Clients \ {c} : cpc'[d] = cpc[d] /\ cl'[d] = cl[d] /\ conn'[d] = conn[d]
    BY <1>1, <2>1, <2>3
  <2>10. QED
    BY <1>1, <2>2, <2>8, <2>9, OthersSettled
<1>9. CASE Quit(c)
  <2>1. ProcessEnds(c, down[c]) /\ UNCHANGED <<setup, request, cl, main, sess, faults>>
    BY <1>9 DEF Quit
  <2>2. /\ Settled(c)'
        /\ \A d \in Clients \ {c} : cpc'[d] = cpc[d] /\ answer'[d] = answer[d] /\ conn'[d] = conn[d]
    BY <2>1, EndsSettled
  <2>3. QED
    BY <1>1, <2>1, <2>2, OthersSettled
<1>10. CASE \E i : ClientRead(c, i)
  <2>1. PICK i : ClientRead(c, i)
    BY <1>10
  <2>2. PICK unread :
          \/ ProcessEnds(c, unread)
          \/ UNCHANGED <<cpc, conn, answer>>
    BY <2>1 DEF ClientRead
  <2>3. UNCHANGED <<setup, request, main, sess, faults>>
    BY <2>1 DEF ClientRead, history
  <2>4. /\ cl'[c].session = cl[c].session /\ cl'[c].opened = cl[c].opened
        /\ \A d \in Clients \ {c} : cl'[d] = cl[d]
    <3>1. PICK g, b : cl' = [cl EXCEPT ![c].got = g, ![c].saved = b]
      BY <2>1 DEF ClientRead
    <3>2. cl[c] \in Runs(setup)
      BY ClientBasics
    <3>3. QED
      BY <1>1, <3>1, <3>2 DEF Runs
  <2>5. CASE ProcessEnds(c, unread)
    <3>1. /\ Settled(c)'
          /\ \A d \in Clients \ {c} :
               cpc'[d] = cpc[d] /\ answer'[d] = answer[d] /\ conn'[d] = conn[d]
      BY <2>3, <2>4, <2>5, EndsSettled
    <3>2. QED
      BY <1>1, <2>3, <2>4, <3>1, OthersSettled
  <2>6. CASE UNCHANGED <<cpc, conn, answer>>
    <3>1. Settled(c)'
      BY <1>1, <2>3, <2>4, <2>6, SettledKept, SessSame DEF SameNone
    <3>2. QED
      BY <1>1, <2>3, <2>4, <2>6, <3>1, OthersSettled
  <2>7. QED
    BY <2>2, <2>5, <2>6
<1>11. QED
  BY <1>2, <1>3, <1>4, <1>5, <1>6, <1>7, <1>8, <1>9, <1>10

(* Main, and the session it is setting up. *)
LEMMA MainHandshake ==
  ASSUME TypeInv, Types', NEW c \in Clients, SendPort \/ CreateThread \/ Receive(c)
  PROVE  Handshake'
<1>0. Types
  BY DEF TypeInv
<1>1. CASE SendPort
  <2> PICK p, d : p = main.session /\ d = sess[main.session].client
    OBVIOUS
  <2>1. /\ p \in DOMAIN sess /\ main' = [main EXCEPT !.step = "create"]
        /\ UNCHANGED <<setup, request, cpc, cl, sess, conn, faults>>
        /\ answer' = IF cpc[d] = "gone" THEN answer ELSE [answer EXCEPT ![d] = @ \cup {p}]
    BY <1>1 DEF SendPort, TypeInv, Handshake, client, history
  <2>2. main'.session = p
    BY <2>1 DEF TypeInv, Types, ServerTypes
  <2>3. ASSUME NEW e \in Clients PROVE Settled(e)'
    <3>1. /\ Settled(e) /\ DOMAIN answer = Clients
      BY ClientBasics
    <3>2. \A s \in answer'[e] : s \in DOMAIN sess /\ sess[s].client = e
      BY <2>1, <3>1 DEF Settled
    <3>3. QED
      BY <2>1, <3>1, <3>2 DEF Settled, Shaken
  <2>4. QED
    BY <2>1, <2>2, <2>3 DEF Handshake
<1>2. CASE CreateThread
  <2>1. PICK y : Updated(main.session, y)
    BY <1>2, CreateFacts
  <2>2. main.session \in DOMAIN sess /\ setup' = setup
    BY <1>2, CreateFacts
  <2>3. SessExtends
    BY <1>0, <2>1, <2>2, SessUpdated
  <2>4. UNCHANGED <<request, answer, cpc, cl, conn, faults>> /\ main' = [main EXCEPT !.step = "receive"]
    BY <1>2 DEF CreateThread, udp, client, history
  <2>5. main'.step = "receive"
    BY <2>4 DEF TypeInv, Types, ServerTypes
  <2>6. ASSUME NEW e \in Clients PROVE Settled(e)'
    <3>1. request[e] \in Nat /\ faults \in Nat
      BY ClientBasics
    <3>2. request'[e] <= request[e] /\ faults <= faults' /\ SameNone(e)
      BY <2>4, <3>1 DEF SameNone
    <3>3. QED
      BY <2>2, <2>3, <2>4, <3>2, SettledKept
  <2>7. QED
    BY <2>5, <2>6 DEF Handshake
<1>3. CASE Receive(c)
  <2>1. /\ setup' = setup /\ request' = [request EXCEPT ![c] = request[c] - 1]
    BY <1>3, ReceiveFacts
  <2>2. \/ UNCHANGED <<main, sess>>
        \/ /\ NewSession(c) \in Sessions(setup) /\ sess' = Append(sess, NewSession(c))
           /\ main' = [step |-> "send", session |-> Len(sess) + 1]
    BY <1>3, ReceiveFacts
  <2>3. UNCHANGED <<answer, cpc, cl, conn, faults>>
    BY <1>3 DEF Receive, client, history
  <2>4. /\ SessExtends
        /\ main'.step # "receive" => main'.session \in DOMAIN sess'
    <3>1. CASE UNCHANGED <<main, sess>>
      BY <3>1, MainKept, SessSame
    <3>2. CASE /\ NewSession(c) \in Sessions(setup) /\ sess' = Append(sess, NewSession(c))
               /\ main' = [step |-> "send", session |-> Len(sess) + 1]
      <4> PICK y : y = NewSession(c)
        OBVIOUS
      <4>1. sess \in Seq(Sessions(setup)) /\ y \in Sessions(setup) /\ sess' = Append(sess, y)
        BY <1>0, <3>2 DEF Types, ServerTypes
      <4>2. /\ DOMAIN sess = 1 .. Len(sess) /\ Len(sess) \in Nat
            /\ DOMAIN sess' = 1 .. Len(sess) + 1
            /\ \A s \in DOMAIN sess : sess'[s] = sess[s]
        BY <4>1
      <4>3. QED
        BY <3>2, <4>2 DEF SessExtends
    <3>3. QED
      BY <2>2, <3>1, <3>2
  <2>5. ASSUME NEW e \in Clients PROVE Settled(e)'
    <3>1. request[e] \in Nat /\ faults \in Nat /\ DOMAIN request = Clients
      BY ClientBasics
    <3>2. request'[e] <= request[e] /\ faults <= faults' /\ SameNone(e)
      BY <2>1, <2>3, <3>1 DEF SameNone
    <3>3. QED
      BY <2>1, <2>3, <2>4, <3>2, SettledKept
  <2>6. QED
    BY <2>4, <2>5 DEF Handshake
<1>4. QED
  BY <1>1, <1>2, <1>3

LEMMA StutterHandshake ==
  ASSUME TypeInv, UNCHANGED vars
  PROVE  Handshake'
BY DEF vars, udp, client, streams, process, history, TypeInv, Handshake, Settled, Shaken

LEMMA NextHandshake ==
  ASSUME TypeInv, [Next]_vars
  PROVE  Handshake'
<1>0. Types'
  BY NextTypes
<1>1. CASE UNCHANGED vars
  BY <1>1, StutterHandshake
<1>2. CASE Steps
  <2>1. ASSUME NEW c \in Clients, SendPort \/ CreateThread \/ Receive(c) PROVE Handshake'
    BY <1>0, <2>1, MainHandshake
  <2>2. ASSUME NEW c \in Clients,
               \/ LoseRequest(c) \/ DuplicateRequest(c) \/ LoseAnswer(c)
               \/ SendRequest(c) \/ ReceivePort(c) \/ HandshakeTimesOut(c)
               \/ Connect(c) \/ Quit(c)
               \/ \E i : ClientRead(c, i)
        PROVE  Handshake'
    BY <1>0, <2>2, ClientHandshake
  <2>3. ASSUME NEW s, NEW k,
               \/ Listen(s) \/ Accept(s) \/ ServerRead(s, k) \/ ServerSend(s, k)
               \/ ReaderCloses(s, k) \/ ReaderFails(s, k)
        PROVE  Handshake'
    BY <1>0, <2>3, ServerHandshake
  <2>4. ASSUME SendPort \/ CreateThread PROVE Handshake'
    <3>1. main.session \in DOMAIN sess
      BY <2>4 DEF SendPort, CreateThread, TypeInv, Handshake
    <3>2. sess[main.session].client \in Clients
      BY <3>1, SessionFacts DEF TypeInv
    <3>3. QED
      BY <2>1, <2>4, <3>2
  <2>5. QED
    BY <1>2, <2>1, <2>2, <2>3, <2>4, Zenon DEF Steps
<1>3. CASE Races
  <2>1. faults <= faults'
    BY <1>3, RacesQuiet DEF Fault, TypeInv, Types
  <2>2. SessExtends /\ \A c \in Clients : SameNone(c)
    BY <1>3, RacesQuiet, SessSame DEF SameNone
  <2>3. ASSUME NEW c \in Clients PROVE Settled(c)'
    <3>1. request'[c] <= request[c]
      BY <1>3, RacesQuiet DEF TypeInv, Types, ClientTypes
    <3>2. QED
      BY <1>0, <1>3, <2>1, <2>2, <3>1, RacesQuiet, SettledKept
  <2>4. QED
    BY <1>3, <2>2, <2>3, RacesQuiet, MainKept DEF Handshake
<1>4. QED
  BY <1>1, <1>2, <1>3, NextSteps

-----------------------------------------------------------------------------
(* The budget of datagrams and sessions *)

LEMMA FaultFacts ==
  ASSUME TypeInv
  PROVE  /\ \A w : Fault(w) => faults' = faults + 1 /\ faults' <= MaxFaults /\ quits' = quits
         /\ NoFault => faults' = faults /\ seen' = seen /\ quits' = quits
<1>1. setup.faults \in Nat /\ setup.faults <= MaxFaults /\ MaxFaults \in Nat /\ faults \in Nat
  BY SetupFacts DEF TypeInv, Types
<1>2. QED
  BY <1>1 DEF Fault, NoFault, history

LEMMA AskedFacts ==
  ASSUME TypeInv
  PROVE  IsFiniteSet(Asked) /\ Cardinality(Asked) \in Nat
<1>1. Asked \in SUBSET Clients /\ IsFiniteSet(Clients)
  BY SessionAssumption DEF Asked
<1>2. QED
  BY <1>1, FS_Subset, FS_CardinalityType

LEMMA AskedGrows ==
  ASSUME TypeInv, Types', Asked \subseteq Asked'
  PROVE  Cardinality(Asked) <= Cardinality(Asked') /\ Cardinality(Asked') \in Nat
<1>1. Asked' \in SUBSET Clients /\ IsFiniteSet(Clients)
  BY SessionAssumption DEF Asked
<1>2. IsFiniteSet(Asked')
  BY <1>1, FS_Subset
<1>3. QED
  BY <1>2, FS_Subset, FS_CardinalityType

(* One datagram more, or one less. *)
LEMMA OneMore ==
  ASSUME TypeInv, NEW c \in Clients, request' = [request EXCEPT ![c] = request[c] + 1]
  PROVE  IsFiniteSet(Datagrams') /\ Cardinality(Datagrams') = Cardinality(Datagrams) + 1
<1>1. request \in [Clients -> Nat]
  BY DEF TypeInv, Types, ClientTypes
<1> PICK e : e = <<c, request[c] + 1>>
  OBVIOUS
<1>2. Datagrams' = Datagrams \cup {e}
  BY <1>1 DEF Datagrams
<1>3. e \notin Datagrams
  BY <1>1 DEF Datagrams
<1>4. QED
  BY <1>2, <1>3, FS_AddElement DEF TypeInv, Budget

LEMMA OneLess ==
  ASSUME TypeInv, NEW c \in Clients, request[c] > 0, request' = [request EXCEPT ![c] = request[c] - 1]
  PROVE  /\ IsFiniteSet(Datagrams') /\ Cardinality(Datagrams') = Cardinality(Datagrams) - 1
         /\ Cardinality(Datagrams) \in Nat
<1>1. request \in [Clients -> Nat]
  BY DEF TypeInv, Types, ClientTypes
<1> PICK e : e = <<c, request[c]>>
  OBVIOUS
<1>2. Datagrams' = Datagrams \ {e}
  BY <1>1 DEF Datagrams
<1>3. e \in Datagrams
  BY <1>1 DEF Datagrams
<1>4. QED
  BY <1>2, <1>3, FS_RemoveElement, FS_CardinalityType DEF TypeInv, Budget

LEMMA BudgetKept ==
  ASSUME TypeInv, Types', request' = request, Len(sess') = Len(sess), Asked \subseteq Asked',
         faults <= faults', faults' <= MaxFaults
  PROVE  Budget'
<1>1. Datagrams' = Datagrams
  BY DEF Datagrams
<1>2. /\ Cardinality(Asked) <= Cardinality(Asked') /\ Cardinality(Asked') \in Nat
      /\ Cardinality(Asked) \in Nat
  BY AskedFacts, AskedGrows
<1>3. Cardinality(Datagrams) \in Nat /\ Len(sess) \in Nat
  BY SessionsInBound
<1>4. faults \in Nat /\ faults' \in Nat /\ MaxFaults \in Nat
  BY SessionAssumption DEF TypeInv, Types
<1>5. QED
  BY <1>1, <1>2, <1>3, <1>4 DEF TypeInv, Budget

LEMMA NextBudget ==
  ASSUME TypeInv, [Next]_vars
  PROVE  Budget'
<1>0. Types /\ Types' /\ faults \in Nat /\ faults' \in Nat /\ MaxFaults \in Nat /\ faults <= MaxFaults
  BY NextTypes, SessionAssumption DEF TypeInv, Types, Budget
<1>a. cpc' = cpc => Asked \subseteq Asked'
  BY DEF Asked
<1>b. /\ Cardinality(Datagrams) \in Nat /\ Len(sess) \in Nat /\ Cardinality(Asked) \in Nat
      /\ IsFiniteSet(Asked)
      /\ Cardinality(Datagrams) + Len(sess) <= Cardinality(Asked) + faults
  BY SessionsInBound, AskedFacts DEF TypeInv, Budget
<1>1. CASE UNCHANGED vars
  BY <1>0, <1>1, <1>a, BudgetKept DEF vars, udp, client, history
<1>2. CASE Steps
  <2>1. ASSUME SendPort \/ CreateThread PROVE Budget'
    <3>1. UNCHANGED <<request, cpc, faults>>
      BY <2>1 DEF SendPort, CreateThread, udp, client, history
    <3>2. Len(sess') = Len(sess)
      BY <1>0, <2>1, CreateFacts, UpdatedTypes DEF SendPort
    <3>3. QED
      BY <1>0, <1>a, <3>1, <3>2, BudgetKept
  <2>2. ASSUME NEW c \in Clients, LoseAnswer(c)
        PROVE  Budget'
    BY <1>0, <1>a, <2>2, FaultFacts, BudgetKept DEF LoseAnswer, client
  <2>3. ASSUME NEW c \in Clients,
               \/ ReceivePort(c) \/ HandshakeTimesOut(c)
               \/ Connect(c) \/ Quit(c) \/ \E i : ClientRead(c, i)
        PROVE  Budget'
    <3>1. UNCHANGED <<request, sess>>
      BY <2>3 DEF ReceivePort, HandshakeTimesOut, Connect, Quit, ClientRead, udp
    <3>2. /\ cpc[c] # "handshake" \/ Quit(c) \/ \E i : ClientRead(c, i)
          /\ cpc' = cpc \/ \E w : w # "handshake" /\ cpc' = [cpc EXCEPT ![c] = w]
      BY <2>3 DEF ReceivePort, HandshakeTimesOut, Connect, Quit, ClientRead, ProcessEnds
    <3>3. Asked \subseteq Asked'
      BY <1>a, <3>2 DEF Asked, TypeInv, Types, ClientTypes
    <3>4. faults <= faults' /\ faults' <= MaxFaults
      <4>1. faults' = faults \/ Fault("late")
        BY <2>3 DEF ReceivePort, HandshakeTimesOut, Connect, Quit, ClientRead, NoFault, history
      <4>2. QED
        BY <1>0, <4>1, FaultFacts
    <3>5. QED
      BY <1>0, <3>1, <3>3, <3>4, BudgetKept
  <2>4. ASSUME NEW c \in Clients, SendRequest(c) PROVE Budget'
    <3>1. /\ request' = [request EXCEPT ![c] = request[c] + 1]
          /\ cpc[c] = "handshake" /\ cpc' = [cpc EXCEPT ![c] = "waiting"]
          /\ sess' = sess /\ faults' = faults
      BY <2>4 DEF SendRequest, history
    <3>2. Asked' = Asked \cup {c} /\ c \notin Asked
      BY <3>1 DEF Asked, TypeInv, Types, ClientTypes
    <3>3. Cardinality(Asked') = Cardinality(Asked) + 1
      BY <1>b, <3>2, FS_AddElement
    <3>4. IsFiniteSet(Datagrams') /\ Cardinality(Datagrams') = Cardinality(Datagrams) + 1
      BY <3>1, OneMore
    <3>5. QED
      BY <1>0, <1>b, <3>1, <3>3, <3>4 DEF Budget
  <2>5. ASSUME NEW c \in Clients, DuplicateRequest(c) PROVE Budget'
    <3>1. /\ request' = [request EXCEPT ![c] = request[c] + 1]
          /\ cpc' = cpc /\ sess' = sess /\ faults' = faults + 1 /\ faults' <= MaxFaults
      BY <2>5, FaultFacts DEF DuplicateRequest, client
    <3>2. Asked' = Asked
      BY <3>1 DEF Asked
    <3>4. IsFiniteSet(Datagrams') /\ Cardinality(Datagrams') = Cardinality(Datagrams) + 1
      BY <3>1, OneMore
    <3>5. QED
      BY <1>0, <1>b, <3>1, <3>2, <3>4 DEF Budget
  <2>6. ASSUME NEW c \in Clients, LoseRequest(c) PROVE Budget'
    <3>1. /\ request' = [request EXCEPT ![c] = request[c] - 1] /\ request[c] > 0
          /\ cpc' = cpc /\ sess' = sess /\ faults' = faults + 1 /\ faults' <= MaxFaults
      BY <2>6, FaultFacts DEF LoseRequest, client
    <3>2. Asked' = Asked
      BY <3>1 DEF Asked
    <3>4. IsFiniteSet(Datagrams') /\ Cardinality(Datagrams') = Cardinality(Datagrams) - 1
      BY <3>1, OneLess
    <3>5. QED
      BY <1>0, <1>b, <3>1, <3>2, <3>4 DEF Budget
  <2>7. ASSUME NEW c \in Clients, Receive(c) PROVE Budget'
    <3>1. request' = [request EXCEPT ![c] = request[c] - 1] /\ request[c] > 0
      BY <2>7, ReceiveFacts
    <3>2. cpc' = cpc /\ faults' = faults
      BY <2>7 DEF Receive, client, history
    <3>3. Len(sess') \in Nat /\ Len(sess') <= Len(sess) + 1
      <4>1. sess' = sess \/ (NewSession(c) \in Sessions(setup) /\ sess' = Append(sess, NewSession(c)))
        BY <2>7, ReceiveFacts
      <4>2. ASSUME NEW y \in Sessions(setup), sess' = Append(sess, y)
            PROVE  Len(sess') \in Nat /\ Len(sess') <= Len(sess) + 1
        <5>1. sess \in Seq(Sessions(setup))
          BY DEF TypeInv, Types, ServerTypes
        <5>2. QED
          BY <4>2, <5>1
      <4>3. QED
        BY <1>b, <4>1, <4>2
    <3>4. Asked' = Asked
      BY <3>2 DEF Asked
    <3>5. IsFiniteSet(Datagrams') /\ Cardinality(Datagrams') = Cardinality(Datagrams) - 1
      BY <3>1, OneLess
    <3>6. QED
      BY <1>0, <1>b, <3>2, <3>3, <3>4, <3>5 DEF Budget
  <2>8. ASSUME NEW s, NEW k,
               \/ Listen(s) \/ Accept(s) \/ ServerRead(s, k) \/ ServerSend(s, k)
               \/ ReaderCloses(s, k) \/ ReaderFails(s, k)
        PROVE  Budget'
    <3>1. UNCHANGED <<request, cpc>>
      BY <2>8 DEF Listen, Accept, ServerRead, ServerSend, ReaderCloses, ReaderFails, udp, client
    <3>2. Len(sess') = Len(sess)
      BY <1>0, <2>8, ListenFacts, AcceptFacts, ServerReadFacts, ServerSendFacts, StopFacts,
         UpdatedTypes
    <3>3. faults <= faults' /\ faults' <= MaxFaults
      <4>1. faults' = faults \/ Fault("overtaken")
        BY <2>8 DEF Listen, Accept, ServerRead, ServerSend, ReaderCloses, ReaderFails,
                    NoFault, history
      <4>2. QED
        BY <1>0, <4>1, FaultFacts
    <3>4. QED
      BY <1>0, <1>a, <3>1, <3>2, <3>3, BudgetKept
  <2>9. QED
    BY <1>2, <2>1, <2>2, <2>3, <2>4, <2>5, <2>6, <2>7, <2>8, Zenon DEF Steps
<1>3. CASE Races
  <2>1. Fault("raced") /\ UNCHANGED <<request, cpc, sess>>
    BY <1>3, RacesQuiet
  <2>2. faults' = faults + 1 /\ faults' <= MaxFaults
    BY <2>1, FaultFacts
  <2>3. QED
    BY <1>0, <1>a, <2>1, <2>2, BudgetKept
<1>4. QED
  BY <1>1, <1>2, <1>3, NextSteps

-----------------------------------------------------------------------------
(* The threads of the sessions *)

(* Clients keep their session and their connections; *)
Running ==
  \A c \in Clients : cl[c].session # 0 =>
    cl'[c].session = cl[c].session /\ cl'[c].opened >= cl[c].opened

(* sessions keep their threads, and new ones have none. *)
SameThreading ==
  /\ SessExtends
  /\ \A s \in DOMAIN sess :
       /\ Len(sess'[s].conns) = Len(sess[s].conns)
       /\ \A k \in ThreadsOf(s) :
            /\ sess'[s].conns[k].conn = sess[s].conns[k].conn
            /\ sess'[s].conns[k].fd = sess[s].conns[k].fd
            /\ sess'[s].conns[k].reads => sess[s].conns[k].reads
  /\ \A s \in DOMAIN sess' \ DOMAIN sess :
       sess'[s].conns = <<>> /\ setup.conns[sess'[s].client] <= MAX_CONN

LEMMA NextRunning ==
  ASSUME TypeInv, [Next]_vars
  PROVE  Running
<1>0. \A c \in Clients : cl[c] \in Runs(setup)
  BY DEF TypeInv, Types, ClientTypes
<1>0a. \A c \in Clients : cl[c].opened \in Nat
  BY <1>0 DEF Runs
<1>0b. cl' = cl => Running
  BY <1>0a DEF Running
<1>1. CASE UNCHANGED vars
  BY <1>1, <1>0b DEF vars, client
<1>2. CASE Steps
  <2>1. ASSUME SendPort \/ CreateThread PROVE Running
    BY <2>1, <1>0b DEF SendPort, CreateThread, client
  <2>2. ASSUME NEW c \in Clients,
               \/ LoseRequest(c) \/ DuplicateRequest(c) \/ LoseAnswer(c)
               \/ SendRequest(c) \/ HandshakeTimesOut(c) \/ Quit(c) \/ Receive(c)
        PROVE  Running
    BY <2>2, <1>0b DEF LoseRequest, DuplicateRequest, LoseAnswer, SendRequest,
                       HandshakeTimesOut, Quit, Receive, client
  <2>3. ASSUME NEW c \in Clients, ReceivePort(c) PROVE Running
    <3>1. PICK n : cl' = [cl EXCEPT ![c].session = n]
      BY <2>3 DEF ReceivePort
    <3>2. Settled(c) /\ cpc[c] = "waiting"
      BY <2>3 DEF ReceivePort, TypeInv, Handshake
    <3>3. cl[c].session = 0
      BY <3>2 DEF Settled, Shaken, Early
    <3>4. ASSUME NEW d \in Clients, cl[d].session # 0 PROVE cl'[d] = cl[d]
      BY <3>1, <3>3, <3>4 DEF TypeInv, Types, ClientTypes
    <3>5. QED
      BY <1>0a, <3>4 DEF Running
  <2>4. ASSUME NEW c \in Clients, Connect(c) PROVE Running
    <3> PICK n : n = cl[c].opened + 1
      OBVIOUS
    <3>1. cl' = [cl EXCEPT ![c].opened = n]
      BY <2>4 DEF Connect
    <3>2. DOMAIN cl = Clients /\ n \in Nat /\ n > cl[c].opened
      BY <1>0a DEF TypeInv, Types, ClientTypes
    <3>3. cl'[c].session = cl[c].session /\ cl'[c].opened = n
      BY <1>0, <3>1, <3>2 DEF Runs
    <3>4. \A d \in Clients \ {c} : cl'[d] = cl[d]
      BY <3>1, <3>2
    <3>5. ASSUME NEW d \in Clients, cl[d].session # 0
          PROVE  cl'[d].session = cl[d].session /\ cl'[d].opened >= cl[d].opened
      BY <1>0a, <3>2, <3>3, <3>4
    <3>6. QED
      BY <3>5 DEF Running
  <2>5. ASSUME NEW c \in Clients, NEW i, ClientRead(c, i) PROVE Running
    <3>1. PICK g, b : cl' = [cl EXCEPT ![c].got = g, ![c].saved = b]
      BY <2>5 DEF ClientRead
    <3>2. DOMAIN cl = Clients
      BY DEF TypeInv, Types, ClientTypes
    <3>3. cl'[c].session = cl[c].session /\ cl'[c].opened = cl[c].opened
      BY <1>0, <3>1, <3>2 DEF Runs
    <3>4. \A d \in Clients \ {c} : cl'[d] = cl[d]
      BY <3>1, <3>2
    <3>5. ASSUME NEW d \in Clients, cl[d].session # 0
          PROVE  cl'[d].session = cl[d].session /\ cl'[d].opened >= cl[d].opened
      BY <1>0a, <3>3, <3>4
    <3>6. QED
      BY <3>5 DEF Running
  <2>6. ASSUME NEW s, NEW k,
               \/ Listen(s) \/ Accept(s) \/ ServerRead(s, k) \/ ServerSend(s, k)
               \/ ReaderCloses(s, k) \/ ReaderFails(s, k)
        PROVE  Running
    BY <2>6, <1>0b DEF Listen, Accept, ServerRead, ServerSend, ReaderCloses, ReaderFails, client
  <2>7. QED
    BY <1>2, <2>1, <2>2, <2>3, <2>4, <2>5, <2>6, Zenon DEF Steps
<1>3. CASE Races
  BY <1>3, <1>0b, RacesQuiet
<1>4. QED
  BY <1>1, <1>2, <1>3, NextSteps

LEMMA UpdatedThreading ==
  ASSUME TypeInv, setup' = setup, NEW s \in DOMAIN sess, NEW y, Updated(s, y),
         Len(y.conns) = Len(sess[s].conns),
         \A k \in ThreadsOf(s) : /\ y.conns[k].conn = sess[s].conns[k].conn
                                 /\ y.conns[k].fd = sess[s].conns[k].fd
                                 /\ y.conns[k].reads => sess[s].conns[k].reads
  PROVE  SameThreading
<1>1. Types
  BY DEF TypeInv
<1>2. /\ DOMAIN sess' = DOMAIN sess /\ sess'[s] = y
      /\ \A q \in DOMAIN sess : q # s => sess'[q] = sess[q]
  BY <1>1, UpdatedTypes
<1>3. SessExtends
  BY <1>1, SessUpdated
<1>4. QED
  BY <1>2, <1>3 DEF SameThreading

LEMMA RethreadedThreading ==
  ASSUME TypeInv, setup' = setup, NEW s \in DOMAIN sess, NEW y, NEW k \in ThreadsOf(s), NEW t,
         Updated(s, y), Rethreaded(s, y, k, t), t.reads => sess[s].conns[k].reads
  PROVE  SameThreading /\ y.conns[k] = t
                       /\ \A m \in ThreadsOf(s) \ {k} : y.conns[m] = sess[s].conns[m]
<1>1. sess[s].conns \in Seq(Threads(setup)) /\ t \in Threads(setup)
      /\ y.conns = [sess[s].conns EXCEPT ![k] = t] /\ k \in DOMAIN sess[s].conns
  BY SessionFacts DEF TypeInv, Rethreaded, ThreadsOf
<1>2. /\ Len(y.conns) = Len(sess[s].conns) /\ y.conns[k] = t
      /\ \A m \in ThreadsOf(s) \ {k} : y.conns[m] = sess[s].conns[m]
  BY <1>1 DEF ThreadsOf
<1>3. t.conn = sess[s].conns[k].conn /\ t.fd = sess[s].conns[k].fd
  BY DEF Rethreaded
<1>4. QED
  BY <1>2, <1>3, UpdatedThreading

LEMMA NextThreading ==
  ASSUME TypeInv, [Next]_vars
  PROVE  SameThreading \/ \E s : Accept(s)
<1>0. sess' = sess => SameThreading
  BY DEF SameThreading, SessExtends
<1>1. CASE UNCHANGED vars
  BY <1>0, <1>1 DEF vars
<1>2. CASE Steps
  <2>1. ASSUME NEW c \in Clients,
               \/ LoseRequest(c) \/ DuplicateRequest(c) \/ LoseAnswer(c)
               \/ SendRequest(c) \/ ReceivePort(c) \/ HandshakeTimesOut(c)
               \/ Connect(c) \/ Quit(c) \/ \E i : ClientRead(c, i)
        PROVE  SameThreading
    BY <1>0, <2>1 DEF LoseRequest, DuplicateRequest, LoseAnswer, SendRequest, ReceivePort,
                      HandshakeTimesOut, Connect, Quit, ClientRead
  <2>2. ASSUME SendPort PROVE SameThreading
    BY <1>0, <2>2 DEF SendPort
  <2>3. ASSUME CreateThread PROVE SameThreading
    <3>1. PICK y : Updated(main.session, y) /\ SameThreads(main.session, y)
      BY <2>3, CreateFacts
    <3>2. main.session \in DOMAIN sess /\ setup' = setup
      BY <2>3, CreateFacts
    <3>3. QED
      BY <3>1, <3>2, UpdatedThreading DEF SameThreads
  <2>4. ASSUME NEW c \in Clients, Receive(c) PROVE SameThreading
    <3>1. CASE sess' = sess
      BY <1>0, <3>1
    <3>2. CASE sess' # sess
      <4> PICK y : y = NewSession(c)
        OBVIOUS
      <4>1. sess' = Append(sess, y) /\ y \in Sessions(setup) /\ setup.conns[c] <= MAX_CONN
        BY <2>4, <3>2, ReceiveFacts
      <4>2. sess \in Seq(Sessions(setup)) /\ y.conns = <<>> /\ y.client = c
        BY DEF TypeInv, Types, ServerTypes, NewSession
      <4>3. /\ DOMAIN sess = 1 .. Len(sess) /\ Len(sess) \in Nat
            /\ DOMAIN sess' = 1 .. Len(sess) + 1 /\ sess'[Len(sess) + 1] = y
            /\ \A s \in DOMAIN sess : sess'[s] = sess[s]
        BY <4>1, <4>2
      <4>4. DOMAIN sess' \ DOMAIN sess = {Len(sess) + 1}
        BY <4>3
      <4>5. QED
        BY <4>1, <4>2, <4>3, <4>4 DEF SameThreading, SessExtends
    <3>3. QED
      BY <3>1, <3>2
  <2>5. ASSUME NEW s, Listen(s) PROVE SameThreading
    <3>1. PICK y : Updated(s, y) /\ SameThreads(s, y)
      BY <2>5, ListenFacts
    <3>2. s \in DOMAIN sess /\ setup' = setup
      BY <2>5, ListenFacts
    <3>3. QED
      BY <3>1, <3>2, UpdatedThreading DEF SameThreads
  <2>6. ASSUME NEW s, NEW k, ServerRead(s, k) PROVE SameThreading
    <3>1. PICK y : Updated(s, y) /\ TurnedBy(s, y)
      BY <2>6, ServerReadFacts
    <3>2. s \in DOMAIN sess /\ setup' = setup
      BY <2>6, ServerReadFacts
    <3>3. QED
      BY <3>1, <3>2, UpdatedThreading DEF TurnedBy, Bounced
  <2>7. ASSUME NEW s, NEW k, ReaderCloses(s, k) \/ ReaderFails(s, k) PROVE SameThreading
    <3>1. s \in DOMAIN sess /\ k \in ThreadsOf(s) /\ setup' = setup
      BY <2>7, StopFacts
    <3>2. PICK y, t : Updated(s, y) /\ Rethreaded(s, y, k, t) /\ Halted(s, k, t)
      BY <2>7, StopFacts
    <3>3. QED
      BY <3>1, <3>2, RethreadedThreading DEF Halted
  <2>8. ASSUME NEW s, NEW k, ServerSend(s, k) PROVE SameThreading
    <3>1. s \in DOMAIN sess /\ k \in ThreadsOf(s) /\ setup' = setup
      BY <2>8, ServerSendFacts
    <3>2. PICK y, t : Updated(s, y) /\ Rethreaded(s, y, k, t) /\ t.reads = sess[s].conns[k].reads
      BY <2>8, ServerSendFacts
    <3>3. QED
      BY <3>1, <3>2, RethreadedThreading
  <2>9. QED
    BY <1>2, <2>1, <2>2, <2>3, <2>4, <2>5, <2>6, <2>7, <2>8, Zenon DEF Steps
<1>3. CASE Races
  BY <1>3, <1>0, RacesQuiet
<1>4. QED
  BY <1>1, <1>2, <1>3, NextSteps

(* Session s has accepted connection i: it has one more thread. *)
Accepted(s, i) ==
  LET c == sess[s].client
      n == Len(sess[s].conns) + 1 IN
  /\ s \in DOMAIN sess /\ DOMAIN sess' = DOMAIN sess
  /\ \A q \in DOMAIN sess \ {s} : sess'[q] = sess[q]
  /\ sess'[s].client = c /\ sess'[s].got = sess[s].got
  /\ n <= setup.conns[c] /\ Len(sess'[s].conns) = n
  /\ \A k \in ThreadsOf(s) : sess'[s].conns[k] = sess[s].conns[k]
  /\ sess'[s].conns[n] = NewThread(i)
  /\ LowestFree \in Fds /\ fds[LowestFree] = Free
  /\ fds' = [fds EXCEPT ![LowestFree] = <<c, i>>]
  /\ cl[c].session = s /\ i \in 1 .. cl[c].opened /\ i \in Links(setup, c)
  /\ i \in Backlog(s)
  /\ \A k \in ThreadsOf(s) : sess[s].conns[k].conn # i

LEMMA AcceptThreads ==
  ASSUME TypeInv, NEW s, Accept(s)
  PROVE  \E i : /\ Accepted(s, i)
                /\ IF \E j \in Backlog(s) : j < i THEN Fault("overtaken") ELSE NoFault
<1> PICK c, conns, n : c = sess[s].client /\ conns = sess[s].conns /\ n = Len(sess[s].conns) + 1
  OBVIOUS
<1>1. /\ s \in DOMAIN sess /\ setup' = setup /\ Len(conns) < setup.conns[c]
      /\ LowestFree \in Fds /\ fds[LowestFree] = Free
  BY AcceptFacts
<1>2. PICK i \in Backlog(s) : \E y :
        /\ IF \E j \in Backlog(s) : j < i THEN Fault("overtaken") ELSE NoFault
        /\ i \in Links(setup, sess[s].client)
        /\ NewThread(i) \in Threads(setup)
        /\ Updated(s, y) /\ y.got = sess[s].got
        /\ y.conns = Append(sess[s].conns, NewThread(i))
        /\ fds' = [fds EXCEPT ![LowestFree] = <<sess[s].client, i>>]
  BY AcceptFacts
<1>3. PICK y :
        /\ IF \E j \in Backlog(s) : j < i THEN Fault("overtaken") ELSE NoFault
        /\ i \in Links(setup, sess[s].client)
        /\ NewThread(i) \in Threads(setup)
        /\ Updated(s, y) /\ y.got = sess[s].got
        /\ y.conns = Append(sess[s].conns, NewThread(i))
        /\ fds' = [fds EXCEPT ![LowestFree] = <<sess[s].client, i>>]
  BY <1>2
<1> PICK t : t = NewThread(i)
  OBVIOUS
<1>4. /\ conns \in Seq(Threads(setup)) /\ c \in Clients /\ setup.conns[c] \in Nat
      /\ sess[s] \in Sessions(setup)
  BY <1>1, SessionFacts DEF TypeInv
<1>5. t \in Threads(setup) /\ y.conns = Append(conns, t)
  BY <1>3
<1>6. /\ Len(conns) \in Nat /\ DOMAIN conns = 1 .. Len(conns) /\ n \in Nat
      /\ Len(y.conns) = n /\ y.conns[n] = t
      /\ \A k \in DOMAIN conns : y.conns[k] = conns[k]
  BY <1>4, <1>5
<1>7. /\ DOMAIN sess' = DOMAIN sess /\ sess'[s] = y
      /\ \A q \in DOMAIN sess \ {s} : sess'[q] = sess[q]
  BY <1>1, <1>3, UpdatedTypes DEF TypeInv
<1>8. y.client = c /\ y.got = sess[s].got
  BY <1>3 DEF Updated
<1>9. cl[c].session = s /\ conn[c][i] # "none" /\ i \in Links(setup, c)
      /\ \A k \in 1 .. Len(conns) : conns[k].conn # i
  BY <1>2 DEF Backlog, Conns, num_conn, Links
<1>10. i \in 1 .. cl[c].opened
  <2>1. Settled(c) /\ cl[c].opened \in Nat
    BY <1>4, ClientBasics
  <2>2. i <= cl[c].opened
    BY <1>9, <2>1 DEF Settled
  <2>3. QED
    BY <1>4, <1>9, <2>1, <2>2 DEF Links
<1>11. n <= setup.conns[c]
  BY <1>1, <1>4, <1>6
<1>12. Accepted(s, i)
  BY <1>1, <1>2, <1>3, <1>6, <1>7, <1>8, <1>9, <1>10, <1>11 DEF Accepted, ThreadsOf
<1>13. QED
  BY <1>3, <1>12

LEMMA SetupKept ==
  ASSUME [Next]_vars
  PROVE  setup' = setup
<1>1. CASE UNCHANGED vars
  BY <1>1 DEF vars
<1>2. CASE Steps
  <2>1. ASSUME SendPort \/ CreateThread PROVE setup' = setup
    BY <2>1 DEF SendPort, CreateThread
  <2>2. ASSUME NEW c \in Clients,
               \/ LoseRequest(c) \/ DuplicateRequest(c) \/ LoseAnswer(c)
               \/ SendRequest(c) \/ ReceivePort(c) \/ HandshakeTimesOut(c)
               \/ Connect(c) \/ Quit(c) \/ Receive(c)
               \/ \E i : ClientRead(c, i)
        PROVE  setup' = setup
    BY <2>2 DEF LoseRequest, DuplicateRequest, LoseAnswer, SendRequest, ReceivePort,
                HandshakeTimesOut, Connect, Quit, Receive, ClientRead
  <2>3. ASSUME NEW s, NEW k,
               \/ Listen(s) \/ Accept(s) \/ ServerRead(s, k) \/ ServerSend(s, k)
               \/ ReaderCloses(s, k) \/ ReaderFails(s, k)
        PROVE  setup' = setup
    BY <2>3 DEF Listen, Accept, ServerRead, ServerSend, ReaderCloses, ReaderFails
  <2>4. QED
    BY <1>2, <2>1, <2>2, <2>3, Zenon DEF Steps
<1>3. CASE Races
  BY <1>3, RacesQuiet
<1>4. QED
  BY <1>1, <1>2, <1>3, NextSteps

LEMMA NextServed ==
  ASSUME TypeInv, [Next]_vars
  PROVE  Served'
<1>0. Types' /\ Running /\ setup' = setup
  BY SetupKept, NextTypes, NextRunning
<1>a. ASSUME NEW c \in Clients, cl[c].session # 0
      PROVE  /\ cl'[c].session = cl[c].session /\ 1 .. cl[c].opened \subseteq 1 .. cl'[c].opened
  <2>1. cl[c] \in Runs(setup) /\ cl'[c] \in Runs(setup)
    BY <1>0 DEF TypeInv, Types, ClientTypes
  <2>2. cl[c].opened \in Nat /\ cl'[c].opened \in Nat
    BY <2>1 DEF Runs
  <2>3. QED
    BY <1>0, <1>a, <2>2 DEF Running
<1>b. ASSUME NEW s \in DOMAIN sess, NEW k \in ThreadsOf(s)
      PROVE  /\ cl'[sess[s].client].session = s
             /\ sess[s].conns[k].conn \in 1 .. cl'[sess[s].client].opened
  <2>1. s # 0 /\ sess[s].client \in Clients
    BY SessionFacts DEF TypeInv
  <2>2. cl[sess[s].client].session = s /\ sess[s].conns[k].conn \in 1 .. cl[sess[s].client].opened
    BY DEF TypeInv, Served
  <2>3. QED
    BY <1>a, <2>1, <2>2
<1>1. CASE SameThreading
  <2>1. ASSUME NEW s \in DOMAIN sess
        PROVE  /\ s \in DOMAIN sess' /\ ThreadsOf(s)' = ThreadsOf(s)
               /\ sess'[s].client = sess[s].client
    <3>1. s \in DOMAIN sess' /\ sess'[s].client = sess[s].client
          /\ Len(sess'[s].conns) = Len(sess[s].conns)
      BY <1>1 DEF SameThreading, SessExtends
    <3>2. sess[s].conns \in Seq(Threads(setup))
      BY SessionFacts DEF TypeInv
    <3>3. sess'[s] \in Sessions(setup)
      BY <1>0, <3>1 DEF Types, ServerTypes
    <3>4. sess'[s].conns \in Seq(Threads(setup))
      BY <3>3 DEF Sessions
    <3>5. DOMAIN sess'[s].conns = DOMAIN sess[s].conns
      BY <3>1, <3>2, <3>4
    <3>6. QED
      BY <3>1, <3>5 DEF ThreadsOf
  <2>2. ASSUME NEW s \in DOMAIN sess'
        PROVE  LET c == sess'[s].client IN
               /\ setup.conns[c] <= MAX_CONN
               /\ Len(sess'[s].conns) <= setup.conns[c]
               /\ \A k \in ThreadsOf(s)' :
                    /\ cl'[c].session = s
                    /\ sess'[s].conns[k].conn \in 1 .. cl'[c].opened
                    /\ \A m \in ThreadsOf(s)' :
                         sess'[s].conns[k].conn = sess'[s].conns[m].conn => k = m
    <3>1. CASE s \in DOMAIN sess
      BY <1>1, <1>b, <2>1, <3>1 DEF SameThreading, TypeInv, Served
    <3>2. CASE s \notin DOMAIN sess
      <4>1. sess'[s].conns = <<>> /\ setup.conns[sess'[s].client] <= MAX_CONN
        BY <1>1, <3>2 DEF SameThreading
      <4>2. sess'[s] \in Sessions(setup)
        BY <1>0 DEF Types, ServerTypes
      <4>3. setup.conns[sess'[s].client] \in Nat
        BY <1>0, <4>2, SetupFacts DEF Sessions, Types
      <4>4. QED
        BY <4>1, <4>3 DEF ThreadsOf
    <3>3. QED
      BY <3>1, <3>2
  <2>3. QED
    BY <1>0, <2>2 DEF Served
<1>2. CASE \E s : Accept(s)
  <2>1. PICK s, i : Accepted(s, i)
    BY <1>2, AcceptThreads
  <2> PICK c, n : c = sess[s].client /\ n = Len(sess[s].conns) + 1
    OBVIOUS
  <2>2. /\ s \in DOMAIN sess /\ DOMAIN sess' = DOMAIN sess
        /\ \A q \in DOMAIN sess \ {s} : sess'[q] = sess[q]
        /\ sess'[s].client = c /\ n <= setup.conns[c] /\ Len(sess'[s].conns) = n
        /\ \A k \in ThreadsOf(s) : sess'[s].conns[k] = sess[s].conns[k]
        /\ sess'[s].conns[n].conn = i
        /\ cl[c].session = s /\ i \in 1 .. cl[c].opened
        /\ \A k \in ThreadsOf(s) : sess[s].conns[k].conn # i
    BY <2>1 DEF Accepted, NewThread
  <2>3. sess[s].conns \in Seq(Threads(setup)) /\ sess'[s] \in Sessions(setup) /\ s # 0 /\ c \in Clients
    BY <1>0, <2>2, SessionFacts DEF TypeInv, Types, ServerTypes
  <2>4. sess'[s].conns \in Seq(Threads(setup))
    BY <2>3 DEF Sessions
  <2>5. ThreadsOf(s)' = ThreadsOf(s) \cup {n}
    BY <2>2, <2>3, <2>4 DEF ThreadsOf
  <2>6. cl'[c].session = s /\ i \in 1 .. cl'[c].opened
    BY <1>a, <2>2, <2>3
  <2>7. ASSUME NEW q \in DOMAIN sess, q # s
        PROVE  LET d == sess'[q].client IN
               /\ setup.conns[d] <= MAX_CONN
               /\ Len(sess'[q].conns) <= setup.conns[d]
               /\ \A k \in ThreadsOf(q)' :
                    /\ cl'[d].session = q
                    /\ sess'[q].conns[k].conn \in 1 .. cl'[d].opened
                    /\ \A m \in ThreadsOf(q)' :
                         sess'[q].conns[k].conn = sess'[q].conns[m].conn => k = m
    <3>1. sess'[q] = sess[q]
      BY <2>2, <2>7
    <3>2. ThreadsOf(q)' = ThreadsOf(q)
      BY <3>1 DEF ThreadsOf
    <3>3. QED
      BY <1>b, <3>1, <3>2 DEF TypeInv, Served
  <2>8. /\ setup.conns[c] <= MAX_CONN
        /\ Len(sess'[s].conns) <= setup.conns[c]
        /\ \A k \in ThreadsOf(s)' :
             /\ cl'[c].session = s
             /\ sess'[s].conns[k].conn \in 1 .. cl'[c].opened
             /\ \A m \in ThreadsOf(s)' :
                  sess'[s].conns[k].conn = sess'[s].conns[m].conn => k = m
    <3>1. setup.conns[c] <= MAX_CONN
          /\ \A k, m \in ThreadsOf(s) : sess[s].conns[k].conn = sess[s].conns[m].conn => k = m
      BY <2>2 DEF TypeInv, Served
    <3>2. QED
      BY <1>b, <2>2, <2>5, <2>6, <3>1
  <2>9. QED
    BY <1>0, <2>2, <2>7, <2>8 DEF Served
<1>3. QED
  BY <1>1, <1>2, NextThreading

-----------------------------------------------------------------------------
(* The descriptors *)

LEMMA SameIndexes ==
  ASSUME TypeInv, Types', setup' = setup, SameThreading, NEW s \in DOMAIN sess
  PROVE  /\ s \in DOMAIN sess' /\ sess'[s].client = sess[s].client
         /\ ThreadsOf(s)' = ThreadsOf(s)
<1>1. s \in DOMAIN sess' /\ sess'[s].client = sess[s].client
      /\ Len(sess'[s].conns) = Len(sess[s].conns)
  BY DEF SameThreading, SessExtends
<1>2. sess[s].conns \in Seq(Threads(setup))
  BY SessionFacts DEF TypeInv
<1>3. sess'[s] \in Sessions(setup)
  BY <1>1 DEF Types, ServerTypes
<1>4. sess'[s].conns \in Seq(Threads(setup))
  BY <1>3 DEF Sessions
<1>5. DOMAIN sess'[s].conns = DOMAIN sess[s].conns
  BY <1>1, <1>2, <1>4
<1>6. QED
  BY <1>1, <1>5 DEF ThreadsOf

(* No two threads serve the same connection. *)
LEMMA OneThread ==
  ASSUME TypeInv, NEW s \in DOMAIN sess, NEW k \in ThreadsOf(s),
         NEW q \in DOMAIN sess, NEW m \in ThreadsOf(q),
         sess[s].client = sess[q].client, sess[s].conns[k].conn = sess[q].conns[m].conn
  PROVE  s = q /\ k = m
<1>1. cl[sess[s].client].session = s /\ cl[sess[q].client].session = q
  BY LinkOfThread
<1>2. QED
  BY <1>1 DEF TypeInv, Served

LEMMA ListenersFinite ==
  IsFiniteSet(Listeners) /\ Cardinality(Listeners) \in Nat
<1>1. Listeners \in SUBSET Fds
  BY DEF Listeners
<1>2. QED
  BY <1>1, FdsFinite, FS_Subset, FS_CardinalityType

LEMMA Distinct ==
  \A a, b : <<a, b>> # Free /\ <<a, b>> # <<"listener">> /\ Free # <<"listener">>
<1> TAKE a, b
<1>1. Len(<<a, b>>) = 2 /\ Len(<<"free">>) = 1 /\ Len(<<"listener">>) = 1
  OBVIOUS
<1>2. Free # <<"listener">>
  BY DEF Free
<1>3. QED
  BY <1>1, <1>2 DEF Free

LEMMA DescriptorsKept ==
  ASSUME TypeInv, Types', setup' = setup, SameThreading, fds' = fds, Len(sess) <= Len(sess')
  PROVE  Descriptors'
<1>1. Listeners' = Listeners
  BY DEF Listeners
<1>2. Cardinality(Listeners) \in Nat /\ Len(sess) \in Nat /\ Len(sess') \in Nat
  BY ListenersFinite DEF TypeInv, Types, ServerTypes
<1>3. Cardinality(Listeners') <= Len(sess')
  BY <1>1, <1>2 DEF TypeInv, Descriptors
<1>4. ASSUME NEW f \in Fds, fds'[f] \notin {Free, <<"listener">>}
      PROVE  \E s \in DOMAIN sess' : \E k \in ThreadsOf(s)' : sess'[s].conns[k].fd = f
  <2>1. PICK s \in DOMAIN sess : \E k \in ThreadsOf(s) : sess[s].conns[k].fd = f
    BY <1>4 DEF TypeInv, Descriptors
  <2>2. PICK k \in ThreadsOf(s) : sess[s].conns[k].fd = f
    BY <2>1
  <2>3. s \in DOMAIN sess' /\ k \in ThreadsOf(s)'
    BY SameIndexes
  <2>4. sess'[s].conns[k].fd = f
    BY <2>2 DEF SameThreading
  <2>5. QED
    BY <2>3, <2>4
<1>5. ASSUME NEW s \in DOMAIN sess', NEW k \in ThreadsOf(s)', sess'[s].conns[k].reads
      PROVE  fds'[sess'[s].conns[k].fd] = <<sess'[s].client, sess'[s].conns[k].conn>>
  <2>1. s \in DOMAIN sess
    BY DEF SameThreading, ThreadsOf
  <2>2. k \in ThreadsOf(s) /\ sess'[s].client = sess[s].client
    BY <2>1, SameIndexes
  <2>3. /\ sess'[s].conns[k].conn = sess[s].conns[k].conn
        /\ sess'[s].conns[k].fd = sess[s].conns[k].fd /\ sess[s].conns[k].reads
    BY <1>5, <2>1, <2>2 DEF SameThreading
  <2>4. QED
    BY <2>1, <2>2, <2>3 DEF TypeInv, Descriptors
<1>6. QED
  BY <1>3, <1>4, <1>5, Zenon DEF Descriptors

LEMMA DescriptorsReceive ==
  ASSUME TypeInv, Types', setup' = setup, SameThreading, NEW c \in Clients, Receive(c)
  PROVE  Descriptors'
<1>0. fds \in [Fds -> {Free, <<"listener">>} \cup Targets(setup)] /\ Len(sess) \in Nat
  BY DEF TypeInv, Types, ServerTypes
<1>1. CASE UNCHANGED <<main, sess, fds>>
  BY <1>0, <1>1, DescriptorsKept
<1>2. CASE ~UNCHANGED <<main, sess, fds>>
  <2> PICK g, y : g = LowestFree /\ y = NewSession(c)
    OBVIOUS
  <2>1. /\ sess' = Append(sess, y) /\ y \in Sessions(setup)
        /\ g \in Fds /\ fds[g] = Free /\ fds' = [fds EXCEPT ![g] = <<"listener">>]
    BY <1>2, ReceiveFacts
  <2>2. Len(sess') = Len(sess) + 1
    <3>1. sess \in Seq(Sessions(setup))
      BY DEF TypeInv, Types, ServerTypes
    <3>2. QED
      BY <2>1, <3>1
  <2>3. Listeners' = Listeners \cup {g} /\ g \notin Listeners
    <3>1. Free # <<"listener">>
      BY DEF Free
    <3>2. QED
      BY <1>0, <2>1, <3>1 DEF Listeners
  <2>4. Cardinality(Listeners') = Cardinality(Listeners) + 1
    BY <2>3, ListenersFinite, FS_AddElement
  <2>5. Cardinality(Listeners') <= Len(sess')
    BY <1>0, <2>2, <2>4, ListenersFinite DEF TypeInv, Descriptors
  <2>6. ASSUME NEW f \in Fds, fds'[f] \notin {Free, <<"listener">>}
        PROVE  \E s \in DOMAIN sess' : \E k \in ThreadsOf(s)' : sess'[s].conns[k].fd = f
    <3>0. fds'[f] = fds[f]
      BY <1>0, <2>1, <2>6
    <3>1. PICK s \in DOMAIN sess : \E k \in ThreadsOf(s) : sess[s].conns[k].fd = f
      BY <2>6, <3>0 DEF TypeInv, Descriptors
    <3>2. PICK k \in ThreadsOf(s) : sess[s].conns[k].fd = f
      BY <3>1
    <3>3. s \in DOMAIN sess' /\ k \in ThreadsOf(s)'
      BY SameIndexes
    <3>4. sess'[s].conns[k].fd = f
      BY <3>2 DEF SameThreading
    <3>5. QED
      BY <3>3, <3>4
  <2>7. ASSUME NEW s \in DOMAIN sess', NEW k \in ThreadsOf(s)', sess'[s].conns[k].reads
        PROVE  fds'[sess'[s].conns[k].fd] = <<sess'[s].client, sess'[s].conns[k].conn>>
    <3>1. s \in DOMAIN sess
      BY DEF SameThreading, ThreadsOf
    <3>2. k \in ThreadsOf(s) /\ sess'[s].client = sess[s].client
      BY <3>1, SameIndexes
    <3>3. /\ sess'[s].conns[k].conn = sess[s].conns[k].conn
          /\ sess'[s].conns[k].fd = sess[s].conns[k].fd /\ sess[s].conns[k].reads
      BY <2>7, <3>1, <3>2 DEF SameThreading
    <3>4. fds[sess[s].conns[k].fd] = <<sess[s].client, sess[s].conns[k].conn>>
      BY <3>1, <3>2, <3>3 DEF TypeInv, Descriptors
    <3>5. sess[s].conns[k].fd # g
      BY <2>1, <3>4, Distinct
    <3>6. sess[s].conns[k].fd \in Fds
      BY <3>1, <3>2, ThreadFacts DEF TypeInv
    <3>7. QED
      BY <1>0, <2>1, <3>2, <3>3, <3>4, <3>5, <3>6
  <2>8. QED
    BY <2>5, <2>6, <2>7, Zenon DEF Descriptors
<1>3. QED
  BY <1>1, <1>2

LEMMA DescriptorsStop ==
  ASSUME TypeInv, Types', setup' = setup, SameThreading, NEW s, NEW k,
         ReaderCloses(s, k) \/ ReaderFails(s, k)
  PROVE  Descriptors'
<1>0. fds \in [Fds -> {Free, <<"listener">>} \cup Targets(setup)] /\ Len(sess) \in Nat
  BY DEF TypeInv, Types, ServerTypes
<1>1. /\ s \in DOMAIN sess /\ k \in ThreadsOf(s) /\ sess[s].conns[k].reads
      /\ fds' = fds \/ fds' = [fds EXCEPT ![sess[s].conns[k].fd] = Free]
  BY StopFacts
<1>2. PICK y, t : Updated(s, y) /\ Rethreaded(s, y, k, t) /\ Halted(s, k, t)
  BY StopFacts
<1>3. Len(sess') = Len(sess) /\ sess'[s] = y /\ DOMAIN sess' = DOMAIN sess
  BY <1>1, <1>2, UpdatedTypes DEF TypeInv
<1>4. sess'[s].conns[k] = t /\ ~t.reads
  BY <1>1, <1>2, <1>3, RethreadedThreading DEF Halted
<1>5. CASE fds' = fds
  BY <1>0, <1>3, <1>5, DescriptorsKept
<1>6. CASE fds' = [fds EXCEPT ![sess[s].conns[k].fd] = Free]
  <2> PICK g : g = sess[s].conns[k].fd
    OBVIOUS
  <2>1. g \in Fds /\ fds' = [fds EXCEPT ![g] = Free]
    BY <1>1, <1>6, ThreadFacts DEF TypeInv
  <2>2. Listeners' \subseteq Listeners
    BY <1>0, <2>1 DEF Listeners, Free
  <2>3. Cardinality(Listeners') <= Len(sess')
    <3>1. Cardinality(Listeners') <= Cardinality(Listeners) /\ IsFiniteSet(Listeners')
      BY <2>2, ListenersFinite, FS_Subset
    <3>2. Cardinality(Listeners') \in Nat /\ Cardinality(Listeners) \in Nat
      BY <3>1, ListenersFinite, FS_CardinalityType
    <3>3. QED
      BY <1>0, <1>3, <3>1, <3>2 DEF TypeInv, Descriptors
  <2>4. ASSUME NEW f \in Fds, fds'[f] \notin {Free, <<"listener">>}
        PROVE  \E q \in DOMAIN sess' : \E m \in ThreadsOf(q)' : sess'[q].conns[m].fd = f
    <3>0. fds'[f] = fds[f]
      BY <1>0, <2>1, <2>4
    <3>1. PICK q \in DOMAIN sess : \E m \in ThreadsOf(q) : sess[q].conns[m].fd = f
      BY <2>4, <3>0 DEF TypeInv, Descriptors
    <3>2. PICK m \in ThreadsOf(q) : sess[q].conns[m].fd = f
      BY <3>1
    <3>3. q \in DOMAIN sess' /\ m \in ThreadsOf(q)'
      BY SameIndexes
    <3>4. sess'[q].conns[m].fd = f
      BY <3>2 DEF SameThreading
    <3>5. QED
      BY <3>3, <3>4
  <2>5. ASSUME NEW q \in DOMAIN sess', NEW m \in ThreadsOf(q)', sess'[q].conns[m].reads
        PROVE  fds'[sess'[q].conns[m].fd] = <<sess'[q].client, sess'[q].conns[m].conn>>
    <3>1. q \in DOMAIN sess
      BY <1>3
    <3>2. m \in ThreadsOf(q) /\ sess'[q].client = sess[q].client
      BY <3>1, SameIndexes
    <3>3. /\ sess'[q].conns[m].conn = sess[q].conns[m].conn
          /\ sess'[q].conns[m].fd = sess[q].conns[m].fd /\ sess[q].conns[m].reads
      BY <2>5, <3>1, <3>2 DEF SameThreading
    <3>4. /\ fds[sess[q].conns[m].fd] = <<sess[q].client, sess[q].conns[m].conn>>
          /\ fds[g] = <<sess[s].client, sess[s].conns[k].conn>>
      BY <1>1, <3>1, <3>2, <3>3 DEF TypeInv, Descriptors
    <3>5. sess[q].conns[m].fd # g
      <4>1. SUFFICES ASSUME sess[q].conns[m].fd = g PROVE FALSE
        OBVIOUS
      <4>2. sess[q].client = sess[s].client /\ sess[q].conns[m].conn = sess[s].conns[k].conn
        BY <3>4, <4>1
      <4>3. q = s /\ m = k
        BY <1>1, <3>1, <3>2, <4>2, OneThread
      <4>4. QED
        BY <1>4, <2>5, <4>3
    <3>6. sess[q].conns[m].fd \in Fds
      BY <3>1, <3>2, ThreadFacts DEF TypeInv
    <3>7. QED
      BY <1>0, <2>1, <3>2, <3>3, <3>4, <3>5, <3>6
  <2>6. QED
    BY <2>3, <2>4, <2>5, Zenon DEF Descriptors
<1>7. QED
  BY <1>1, <1>5, <1>6

LEMMA DescriptorsAccept ==
  ASSUME TypeInv, Types', setup' = setup, NEW s, NEW i, Accepted(s, i)
  PROVE  Descriptors'
<1> PICK c, n, g : c = sess[s].client /\ n = Len(sess[s].conns) + 1 /\ g = LowestFree
  OBVIOUS
<1>0. fds \in [Fds -> {Free, <<"listener">>} \cup Targets(setup)] /\ Len(sess) \in Nat
      /\ Len(sess') \in Nat /\ DOMAIN sess = 1 .. Len(sess) /\ DOMAIN sess' = 1 .. Len(sess')
  BY DEF TypeInv, Types, ServerTypes
<1>1. /\ s \in DOMAIN sess /\ DOMAIN sess' = DOMAIN sess
      /\ \A q \in DOMAIN sess \ {s} : sess'[q] = sess[q]
      /\ sess'[s].client = c /\ Len(sess'[s].conns) = n
      /\ \A k \in ThreadsOf(s) : sess'[s].conns[k] = sess[s].conns[k]
      /\ sess'[s].conns[n].conn = i /\ sess'[s].conns[n].fd = g
      /\ g \in Fds /\ fds[g] = Free /\ fds' = [fds EXCEPT ![g] = <<c, i>>]
  BY DEF Accepted, NewThread
<1>2. sess[s].conns \in Seq(Threads(setup)) /\ sess'[s] \in Sessions(setup)
  BY <1>1, SessionFacts DEF TypeInv, Types, ServerTypes
<1>3. sess'[s].conns \in Seq(Threads(setup))
  BY <1>2 DEF Sessions
<1>4. ThreadsOf(s)' = ThreadsOf(s) \cup {n}
  BY <1>1, <1>2, <1>3 DEF ThreadsOf
<1>5. \A q \in DOMAIN sess : q # s => ThreadsOf(q)' = ThreadsOf(q)
  BY <1>1 DEF ThreadsOf
<1>6. Len(sess) <= Len(sess')
  <2>1. 1 .. Len(sess) \subseteq 1 .. Len(sess')
    BY <1>0, <1>1
  <2>2. QED
    BY <1>0, <2>1
<1>7. Listeners' = Listeners
  BY <1>0, <1>1, Distinct DEF Listeners
<1>8. Cardinality(Listeners') <= Len(sess')
  BY <1>0, <1>6, <1>7, ListenersFinite DEF TypeInv, Descriptors
<1>9. ASSUME NEW f \in Fds, fds'[f] \notin {Free, <<"listener">>}
      PROVE  \E q \in DOMAIN sess' : \E m \in ThreadsOf(q)' : sess'[q].conns[m].fd = f
  <2>1. CASE f = g
    BY <1>1, <1>4, <2>1
  <2>2. CASE f # g
    <3>0. fds'[f] = fds[f]
      BY <1>0, <1>1, <2>2
    <3>1. PICK q \in DOMAIN sess : \E m \in ThreadsOf(q) : sess[q].conns[m].fd = f
      BY <1>9, <3>0 DEF TypeInv, Descriptors
    <3>2. PICK m \in ThreadsOf(q) : sess[q].conns[m].fd = f
      BY <3>1
    <3>3. q \in DOMAIN sess' /\ m \in ThreadsOf(q)'
      BY <1>1, <1>4, <1>5
    <3>4. sess'[q].conns[m].fd = f
      BY <1>1, <3>2
    <3>5. QED
      BY <3>3, <3>4
  <2>3. QED
    BY <2>1, <2>2
<1>10. ASSUME NEW q \in DOMAIN sess', NEW m \in ThreadsOf(q)', sess'[q].conns[m].reads
       PROVE  fds'[sess'[q].conns[m].fd] = <<sess'[q].client, sess'[q].conns[m].conn>>
  <2>1. CASE q = s /\ m = n
    BY <1>0, <1>1, <2>1
  <2>2. CASE ~(q = s /\ m = n)
    <3>1. q \in DOMAIN sess /\ m \in ThreadsOf(q) /\ sess'[q].client = sess[q].client
          /\ sess'[q].conns[m] = sess[q].conns[m]
      BY <1>1, <1>4, <1>5, <2>2
    <3>2. fds[sess[q].conns[m].fd] = <<sess[q].client, sess[q].conns[m].conn>>
      BY <1>10, <3>1 DEF TypeInv, Descriptors
    <3>3. sess[q].conns[m].fd # g /\ sess[q].conns[m].fd \in Fds
      BY <1>1, <3>1, <3>2, Distinct, ThreadFacts DEF TypeInv
    <3>4. QED
      BY <1>0, <1>1, <3>1, <3>2, <3>3
  <2>3. QED
    BY <2>1, <2>2
<1>11. QED
  BY <1>8, <1>9, <1>10, Zenon DEF Descriptors

(* The steps that leave the descriptors alone. *)
LEMMA QuietDescriptors ==
  ASSUME TypeInv, Types', setup' = setup, SameThreading, fds' = fds
  PROVE  Descriptors'
<1>1. DOMAIN sess \subseteq DOMAIN sess'
  BY DEF SameThreading, SessExtends
<1>2. /\ Len(sess) \in Nat /\ Len(sess') \in Nat
      /\ DOMAIN sess = 1 .. Len(sess) /\ DOMAIN sess' = 1 .. Len(sess')
  BY DEF TypeInv, Types, ServerTypes
<1>3. Len(sess) <= Len(sess')
  BY <1>1, <1>2
<1>4. QED
  BY <1>3, DescriptorsKept

LEMMA NextDescriptors ==
  ASSUME TypeInv, [Next]_vars
  PROVE  Descriptors'
<1>0. Types' /\ setup' = setup
  BY SetupKept, NextTypes
<1>1. CASE \E s : Accept(s)
  BY <1>0, <1>1, AcceptThreads, DescriptorsAccept
<1>2. CASE SameThreading
  <2>1. CASE UNCHANGED vars
    BY <1>0, <1>2, <2>1, QuietDescriptors DEF vars
  <2>2. CASE Steps
    <3>1. ASSUME SendPort \/ CreateThread PROVE Descriptors'
      BY <1>0, <1>2, <3>1, QuietDescriptors DEF SendPort, CreateThread
    <3>2. ASSUME NEW c \in Clients,
                 \/ LoseRequest(c) \/ DuplicateRequest(c) \/ LoseAnswer(c)
                 \/ SendRequest(c) \/ ReceivePort(c) \/ HandshakeTimesOut(c)
                 \/ Connect(c) \/ Quit(c) \/ \E i : ClientRead(c, i)
          PROVE  Descriptors'
      BY <1>0, <1>2, <3>2, QuietDescriptors
         DEF LoseRequest, DuplicateRequest, LoseAnswer, SendRequest, ReceivePort,
             HandshakeTimesOut, Connect, Quit, ClientRead
    <3>3. ASSUME NEW c \in Clients, Receive(c) PROVE Descriptors'
      BY <1>0, <1>2, <3>3, DescriptorsReceive
    <3>4. ASSUME NEW s, NEW k, Listen(s) \/ ServerRead(s, k) \/ ServerSend(s, k)
          PROVE  Descriptors'
      BY <1>0, <1>2, <3>4, QuietDescriptors DEF Listen, ServerRead, ServerSend
    <3>5. ASSUME NEW s, NEW k, ReaderCloses(s, k) \/ ReaderFails(s, k) PROVE Descriptors'
      BY <1>0, <1>2, <3>5, DescriptorsStop
    <3>6. ASSUME NEW s, Accept(s) PROVE Descriptors'
      BY <1>1, <3>6
    <3>7. QED
      BY <2>2, <3>1, <3>2, <3>3, <3>4, <3>5, <3>6, Zenon DEF Steps
  <2>3. CASE Races
    BY <1>0, <1>2, <2>3, RacesQuiet, QuietDescriptors
  <2>4. QED
    BY <2>1, <2>2, <2>3, NextSteps
<1>3. QED
  BY <1>1, <1>2, NextThreading

LEMMA NextTypeInv ==
  ASSUME TypeInv, [Next]_vars
  PROVE  TypeInv'
BY NextTypes, NextHandshake, NextBudget, NextServed, NextDescriptors DEF TypeInv

LEMMA InitTypeInv ==
  ASSUME Init
  PROVE  TypeInv
<1>0. setup \in Setups /\ \A c \in Clients : setup.conns[c] \in Nat
  BY SetupFacts DEF Init
<1>1. Types
  <2>1. NoneYet \in Tables(setup)
    BY <1>0, NoneYetType
  <2>2. ClientTypes
    BY <2>1 DEF Init, ClientTypes, Runs
  <2>3. ServerTypes
    <3>1. fds \in [Fds -> {Free, <<"listener">>} \cup Targets(setup)]
      BY DEF Init, Fds
    <3>2. sess \in Seq(Sessions(setup)) /\ main \in [step : {"receive", "send", "create"}, session : Nat]
      BY DEF Init
    <3>3. QED
      BY <3>1, <3>2 DEF ServerTypes
  <2>4. LinkTypes
    <3>1. <<>> \in Seq(Blocks(setup))
      OBVIOUS
    <3>2. \A c \in Clients : Conns(c) = Links(setup, c)
      BY DEF Conns, Links, num_conn
    <3>3. QED
      BY <3>1, <3>2 DEF Init, LinkTypes
  <2>5. QED
    BY <1>0, <2>2, <2>3, <2>4 DEF Init, Types
<1>2. Handshake
  <2>1. ASSUME NEW c \in Clients PROVE Settled(c)
    <3>1. /\ setup.conns[c] \in Nat
          /\ cpc[c] = IF setup.conns[c] = 0 THEN "gone" ELSE "handshake"
          /\ request[c] = 0 /\ answer[c] = {} /\ faults = 0
          /\ cl[c].session = 0 /\ cl[c].opened = 0
          /\ \A i \in Links(setup, c) : conn[c][i] = "none" /\ ~(i <= 0)
      BY <1>0 DEF Init, num_conn, Conns, Links
    <3>2. QED
      BY <3>1 DEF Settled, Shaken, Early
  <2>2. QED
    BY <2>1 DEF Init, Handshake
<1>3. Budget
  <2>1. Datagrams = {}
    BY DEF Init, Datagrams
  <2>2. Asked \in SUBSET Clients
    BY DEF Asked
  <2>3. Cardinality(Asked) \in Nat
    BY <2>2, SessionAssumption, FS_Subset, FS_CardinalityType
  <2>4. Len(sess) = 0 /\ faults = 0 /\ MaxFaults \in Nat
    BY SessionAssumption DEF Init
  <2>5. QED
    BY <2>1, <2>3, <2>4, FS_EmptySet DEF Budget
<1>4. Served
  BY DEF Init, Served
<1>5. Descriptors
  <2>1. \A f \in Fds : fds[f] = Free
    BY DEF Init, Fds
  <2>2. Listeners = {}
    BY <2>1, Distinct DEF Listeners
  <2>3. Cardinality(Listeners) <= Len(sess)
    BY <2>2, FS_EmptySet DEF Init
  <2>4. sess = <<>>
    BY DEF Init
  <2>5. QED
    BY <2>1, <2>3, <2>4 DEF Descriptors
<1>6. QED
  BY <1>1, <1>2, <1>3, <1>4, <1>5 DEF TypeInv

LEMMA TypeInvImplies ==
  ASSUME TypeInv
  PROVE  TypeOK
<1>0. Len(sess) \in Nat /\ DOMAIN sess = 1 .. Len(sess)
  BY DEF TypeInv, Types, ServerTypes
<1>1. ASSUME NEW c \in Clients
      PROVE  request[c] <= 1 + faults /\ answer[c] \subseteq DOMAIN sess
  <2>1. request[c] \in Nat /\ faults \in Nat /\ Settled(c)
    BY ClientBasics
  <2>2. QED
    BY <2>1 DEF Settled
<1>2. ASSUME NEW c \in Clients
      PROVE  cl[c].session \in 0 .. Len(sess) /\ cl[c].opened \in 0 .. num_conn(c)
  <2>1. cl[c].session \in Nat /\ cl[c].opened \in Nat /\ setup.conns[c] \in Nat /\ Settled(c)
    BY ClientBasics
  <2>2. cl[c].session # 0 => cl[c].session \in 1 .. Len(sess)
    BY <1>0, <2>1 DEF Settled
  <2>3. QED
    BY <1>0, <2>1, <2>2 DEF Settled, Shaken, num_conn
<1>3. ASSUME NEW s \in DOMAIN sess
      PROVE  /\ Len(sess[s].conns) <= num_conn(sess[s].client)
             /\ num_conn(sess[s].client) <= MAX_CONN
             /\ \A k \in DOMAIN sess[s].conns :
                  sess[s].conns[k].reads =>
                    fds[sess[s].conns[k].fd] = <<sess[s].client, sess[s].conns[k].conn>>
  BY DEF TypeInv, Served, Descriptors, num_conn, ThreadsOf
<1>4. QED
  BY <1>1, <1>2, <1>3 DEF TypeOK

(* The counts of the handshake are in range, and a reader of the server that *)
(* has not returned reads from the descriptor that stands for its connection *)
(* (multiplex_reader.c:50-61), although descriptors are used again.          *)
THEOREM SessionTypeCorrect == Spec => []TypeOK
<1>1. Init => TypeInv
  BY InitTypeInv
<1>2. TypeInv /\ [Next]_vars => TypeInv'
  BY NextTypeInv
<1>3. TypeInv => TypeOK
  BY TypeInvImplies
<1>4. QED
  BY <1>1, <1>2, <1>3, PTL DEF Spec

-----------------------------------------------------------------------------
(* What happens to a queue of a client, to a table of the server, and to    *)
(* the history.                                                             *)

LEMMA HistoryGrows ==
  ASSUME [Next]_vars
  PROVE  /\ seen \subseteq seen' /\ quits \subseteq quits'
         /\ wild' = wild \/ \E s, k : ServerRead(s, k)
         /\ quits' = quits \/ \E c \in Clients : Quit(c)
<1> DEFINE P == /\ seen \subseteq seen' /\ quits \subseteq quits'
                /\ wild' = wild \/ \E s, k : ServerRead(s, k)
                /\ quits' = quits \/ \E c \in Clients : Quit(c)
<1>1. CASE UNCHANGED vars
  BY <1>1 DEF vars, process, history
<1>2. CASE Steps
  <2>1. ASSUME SendPort \/ CreateThread PROVE P
    BY <2>1 DEF SendPort, CreateThread, process, history
  <2>2. ASSUME NEW c \in Clients,
               \/ LoseRequest(c) \/ DuplicateRequest(c) \/ LoseAnswer(c)
               \/ SendRequest(c) \/ ReceivePort(c) \/ HandshakeTimesOut(c)
               \/ Connect(c) \/ Receive(c)
               \/ \E i : ClientRead(c, i)
        PROVE  P
    BY <2>2 DEF LoseRequest, DuplicateRequest, LoseAnswer, SendRequest, ReceivePort,
                HandshakeTimesOut, Connect, Receive, ClientRead, Fault, NoFault,
                process, history
  <2>3. ASSUME NEW c \in Clients, Quit(c) PROVE P
    BY <2>3 DEF Quit, process
  <2>4. ASSUME NEW s, NEW k,
               \/ Listen(s) \/ Accept(s) \/ ServerSend(s, k)
               \/ ReaderCloses(s, k) \/ ReaderFails(s, k)
        PROVE  P
    BY <2>4 DEF Listen, Accept, ServerSend, ReaderCloses, ReaderFails, Fault, NoFault,
                process, history
  <2>5. ASSUME NEW s, NEW k, ServerRead(s, k) PROVE P
    BY <2>5 DEF ServerRead, history
  <2>6. QED
    BY <1>2, <2>1, <2>2, <2>3, <2>4, <2>5, Zenon DEF Steps
<1>3. CASE Races
  BY <1>3, RacesQuiet DEF Fault
<1>4. QED
  BY <1>1, <1>2, <1>3, NextSteps

LEMMA NextUp ==
  ASSUME TypeInv, [Next]_vars, NEW c \in Clients, NEW i \in Links(setup, c)
  PROVE  Shortened(up[c][i], up'[c][i]) \/ up'[c][i] = Written(c, i)
<1>0. DOMAIN up = Clients /\ up[c] \in [Links(setup, c) -> Seq(Blocks(setup))] /\ Types
  BY DEF TypeInv, Types, LinkTypes
<1>a. up' = up => Shortened(up[c][i], up'[c][i])
  BY DEF Shortened
<1>b. ASSUME NEW d \in Clients, NEW unread, ProcessEnds(d, unread)
      PROVE  Shortened(up[c][i], up'[c][i])
  <2>1. CASE d = c
    <3>1. \A k \in Links(setup, d) : \E n \in 0 .. Len(up[d][k]) : up'[d][k] = SubSeq(up[d][k], 1, n)
      BY <1>0, <1>b, EndsFacts
    <3>2. QED
      BY <2>1, <3>1 DEF Shortened
  <2>2. CASE d # c
    <3>1. Elsewhere(up, up', d)
      BY <1>0, <1>b, EndsFacts
    <3>2. QED
      BY <1>0, <2>2, <3>1 DEF Shortened, Elsewhere
  <2>3. QED
    BY <2>1, <2>2
<1>1. CASE UNCHANGED vars
  BY <1>1, <1>a DEF vars, streams
<1>2. CASE Steps
  <2> DEFINE P == Shortened(up[c][i], up'[c][i]) \/ up'[c][i] = Written(c, i)
  <2>1. ASSUME SendPort \/ CreateThread PROVE P
    BY <1>a, <2>1 DEF SendPort, CreateThread, streams
  <2>2. ASSUME NEW d \in Clients,
               \/ LoseRequest(d) \/ DuplicateRequest(d) \/ LoseAnswer(d)
               \/ SendRequest(d) \/ ReceivePort(d) \/ HandshakeTimesOut(d) \/ Receive(d)
        PROVE  P
    BY <1>a, <2>2 DEF LoseRequest, DuplicateRequest, LoseAnswer, SendRequest, ReceivePort,
                HandshakeTimesOut, Receive, streams
  <2>3. ASSUME NEW d \in Clients, Quit(d) PROVE P
    BY <1>b, <2>3 DEF Quit
  <2>4. ASSUME NEW d \in Clients, NEW k, ClientRead(d, k) PROVE P
    <3>1. PICK unread : ProcessEnds(d, unread) \/ up' = up
      BY <2>4 DEF ClientRead
    <3>2. QED
      BY <1>a, <1>b, <3>1
  <2>5. ASSUME NEW d \in Clients, Connect(d) PROVE P
    <3>1. Elsewhere(up, up', d)
      BY <2>5, ConnectTypes
    <3>2. up' = up \/ \A k \in Links(setup, d) : up'[d][k] = Written(d, k)
      BY <2>5, ConnectTypes
    <3>3. QED
      BY <1>0, <1>a, <3>1, <3>2 DEF Shortened, Elsewhere
  <2>6. ASSUME NEW s, NEW k,
               \/ Listen(s) \/ Accept(s) \/ ServerSend(s, k)
               \/ ReaderCloses(s, k) \/ ReaderFails(s, k)
        PROVE  P
    BY <1>a, <2>6 DEF Listen, Accept, ServerSend, ReaderCloses, ReaderFails, streams
  <2>7. ASSUME NEW s, NEW k, ServerRead(s, k) PROVE P
    <3> PICK d, m : d = sess[s].client /\ m = sess[s].conns[k].conn
      OBVIOUS
    <3>1. PICK e, q : TakenUp(d, m, e, q)
      BY <2>7, ServerReadFacts
    <3>2. up[d][m] # <<>> /\ q = Tail(up[d][m]) /\ Elsewhere(up, up', d)
          /\ up'[d] = [up[d] EXCEPT ![m] = q]
      BY <3>1 DEF TakenUp
    <3>3. QED
      BY <1>0, <3>2 DEF Shortened, Elsewhere
  <2>8. QED
    BY <1>2, <2>1, <2>2, <2>3, <2>4, <2>5, <2>6, <2>7, Zenon DEF Steps
<1>3. CASE Races
  BY <1>3, RacesShorten
<1>4. QED
  BY <1>1, <1>2, <1>3, NextSteps

(* A table changes only when a reader of its session takes a block. *)
LEMMA NextGot ==
  ASSUME TypeInv, [Next]_vars, NEW s \in DOMAIN sess
  PROVE  sess'[s].got = sess[s].got \/ \E k : ServerRead(s, k)
<1> DEFINE P == sess'[s].got = sess[s].got \/ \E k : ServerRead(s, k)
<1>0. Types
  BY DEF TypeInv
<1>a. sess' = sess => P
  OBVIOUS
<1>b. ASSUME NEW q \in DOMAIN sess, NEW y, setup' = setup, Updated(q, y),
             q # s \/ y.got = sess[q].got
      PROVE  P
  BY <1>0, <1>b, UpdatedTypes
<1>1. CASE UNCHANGED vars
  BY <1>1 DEF vars
<1>2. CASE Steps
  <2>1. ASSUME NEW c \in Clients,
               \/ LoseRequest(c) \/ DuplicateRequest(c) \/ LoseAnswer(c)
               \/ SendRequest(c) \/ ReceivePort(c) \/ HandshakeTimesOut(c)
               \/ Connect(c) \/ Quit(c) \/ \E i : ClientRead(c, i)
        PROVE  P
    BY <1>a, <2>1 DEF LoseRequest, DuplicateRequest, LoseAnswer, SendRequest, ReceivePort,
                      HandshakeTimesOut, Connect, Quit, ClientRead
  <2>2. ASSUME SendPort PROVE P
    BY <1>a, <2>2 DEF SendPort
  <2>3. ASSUME CreateThread PROVE P
    <3>1. PICK y : Updated(main.session, y) /\ SameThreads(main.session, y)
      BY <2>3, CreateFacts
    <3>2. main.session \in DOMAIN sess /\ setup' = setup
      BY <2>3, CreateFacts
    <3>3. QED
      BY <1>b, <3>1, <3>2 DEF SameThreads
  <2>4. ASSUME NEW c \in Clients, Receive(c) PROVE P
    <3>1. CASE sess' = sess
      BY <1>a, <3>1
    <3>2. CASE sess' # sess
      <4> PICK y : y = NewSession(c)
        OBVIOUS
      <4>1. sess' = Append(sess, y) /\ y \in Sessions(setup)
        BY <2>4, <3>2, ReceiveFacts
      <4>2. sess \in Seq(Sessions(setup))
        BY DEF TypeInv, Types, ServerTypes
      <4>3. sess'[s] = sess[s]
        BY <4>1, <4>2
      <4>4. QED
        BY <4>3
    <3>3. QED
      BY <3>1, <3>2
  <2>5. ASSUME NEW q, Listen(q) PROVE P
    <3>1. PICK y : Updated(q, y) /\ SameThreads(q, y)
      BY <2>5, ListenFacts
    <3>2. q \in DOMAIN sess /\ setup' = setup
      BY <2>5, ListenFacts
    <3>3. QED
      BY <1>b, <3>1, <3>2 DEF SameThreads
  <2>6. ASSUME NEW q, NEW k, ServerRead(q, k) PROVE P
    <3>1. PICK y : Updated(q, y)
      BY <2>6, ServerReadFacts
    <3>2. q \in DOMAIN sess /\ setup' = setup
      BY <2>6, ServerReadFacts
    <3>3. CASE q = s
      BY <2>6, <3>3
    <3>4. CASE q # s
      BY <1>b, <3>1, <3>2, <3>4
    <3>5. QED
      BY <3>3, <3>4
  <2>7. ASSUME NEW q, NEW k, ReaderCloses(q, k) \/ ReaderFails(q, k) PROVE P
    <3>1. q \in DOMAIN sess /\ k \in ThreadsOf(q) /\ setup' = setup
      BY <2>7, StopFacts
    <3>2. PICK y, t : Updated(q, y) /\ Rethreaded(q, y, k, t) /\ Halted(q, k, t)
      BY <2>7, StopFacts
    <3>3. QED
      BY <1>b, <3>1, <3>2 DEF Rethreaded
  <2>8. ASSUME NEW q, NEW k, ServerSend(q, k) PROVE P
    <3>1. q \in DOMAIN sess /\ k \in ThreadsOf(q) /\ setup' = setup
      BY <2>8, ServerSendFacts
    <3>2. PICK y, t : Updated(q, y) /\ Rethreaded(q, y, k, t) /\ t.reads = sess[q].conns[k].reads
      BY <2>8, ServerSendFacts
    <3>3. QED
      BY <1>b, <3>1, <3>2 DEF Rethreaded
  <2>9. ASSUME NEW q, Accept(q) PROVE P
    <3>1. PICK i : Accepted(q, i)
      BY <2>9, AcceptThreads
    <3>2. QED
      BY <3>1 DEF Accepted
  <2>10. QED
    BY <1>2, <2>1, <2>2, <2>3, <2>4, <2>5, <2>6, <2>7, <2>8, <2>9, Zenon DEF Steps
<1>3. CASE Races
  BY <1>3, <1>a, RacesQuiet
<1>4. QED
  BY <1>1, <1>2, <1>3, NextSteps

(* A new session has received nothing. *)
LEMMA NewGot ==
  ASSUME TypeInv, [Next]_vars, NEW s \in DOMAIN sess', s \notin DOMAIN sess
  PROVE  \E c \in Clients : Receive(c) /\ sess'[s] = NewSession(c)
<1>0. Types
  BY DEF TypeInv
<1>a. ASSUME NEW q \in DOMAIN sess, NEW y, setup' = setup, Updated(q, y) PROVE FALSE
  BY <1>0, <1>a, UpdatedTypes
<1>b. sess' # sess
  OBVIOUS
<1>1. Steps
  BY <1>b, NextSteps, RacesQuiet DEF vars
<1>2. PICK c \in Clients : Receive(c)
  <2> DEFINE P == \E c \in Clients : Receive(c)
  <2>1. ASSUME NEW c \in Clients,
               \/ LoseRequest(c) \/ DuplicateRequest(c) \/ LoseAnswer(c)
               \/ SendRequest(c) \/ ReceivePort(c) \/ HandshakeTimesOut(c)
               \/ Connect(c) \/ Quit(c) \/ \E i : ClientRead(c, i)
        PROVE  P
    BY <1>b, <2>1 DEF LoseRequest, DuplicateRequest, LoseAnswer, SendRequest, ReceivePort,
                      HandshakeTimesOut, Connect, Quit, ClientRead
  <2>2. ASSUME SendPort \/ CreateThread PROVE P
    BY <1>a, <1>b, <2>2, CreateFacts DEF SendPort
  <2>3. ASSUME NEW q, NEW k,
               \/ Listen(q) \/ Accept(q) \/ ServerRead(q, k) \/ ServerSend(q, k)
               \/ ReaderCloses(q, k) \/ ReaderFails(q, k)
        PROVE  P
    BY <1>a, <2>3, ListenFacts, AcceptFacts, ServerReadFacts, StopFacts, ServerSendFacts
  <2>4. QED
    BY <1>1, <2>1, <2>2, <2>3, Zenon DEF Steps
<1> PICK y : y = NewSession(c)
  OBVIOUS
<1>3. sess' = Append(sess, y) /\ y \in Sessions(setup)
  BY <1>2, <1>b, ReceiveFacts
<1>4. sess \in Seq(Sessions(setup))
  BY DEF TypeInv, Types, ServerTypes
<1>5. sess'[s] = y
  BY <1>3, <1>4
<1>6. QED
  BY <1>2, <1>5

-----------------------------------------------------------------------------
(* All of queues[] is set when it is used *)

(* In queue q, the i-th of client c: the init block only if i is the last.  *)
InitLast(x, c, i, q) == \A j \in 1 .. Len(q) : q[j].num = 0 => i = x.conns[c]

LEMMA InitLastShortened ==
  ASSUME NEW x, NEW c, NEW i, NEW S, NEW p \in Seq(S), NEW q, Shortened(p, q), InitLast(x, c, i, p)
  PROVE  InitLast(x, c, i, q)
<1>1. CASE q = p
  BY <1>1
<1>2. ASSUME NEW n \in 0 .. Len(p), q = SubSeq(p, 1, n) PROVE InitLast(x, c, i, q)
  <2>1. Len(q) = n /\ \A j \in 1 .. Len(q) : q[j] = p[j] /\ j \in 1 .. Len(p)
    BY <1>2
  <2>2. QED
    BY <2>1 DEF InitLast
<1>3. CASE p # <<>> /\ q = Tail(p)
  <2>1. \A j \in 1 .. Len(q) : q[j] = p[j + 1] /\ j + 1 \in 1 .. Len(p)
    BY <1>3
  <2>2. QED
    BY <2>1 DEF InitLast
<1>4. QED
  BY <1>1, <1>2, <1>3 DEF Shortened

LEMMA InitLastWritten ==
  ASSUME setup \in Setups, NEW c \in Clients, NEW i
  PROVE  InitLast(setup, c, i, Written(c, i))
<1> PICK q : q = Written(c, i)
  OBVIOUS
<1>1. \A j \in 1 .. Len(q) : Slot(setup, c, q[j].num) = i
  BY WrittenRises DEF Ordered
<1>2. QED
  BY <1>1 DEF InitLast, Slot

LEMMA LastLinksUp ==
  ASSUME TypeInv, [Next]_vars, LastLinks, NEW c \in Clients, NEW i \in Links(setup, c)
  PROVE  InitLast(setup, c, i, up'[c][i])
<1>1. Shortened(up[c][i], up'[c][i]) \/ up'[c][i] = Written(c, i)
  BY NextUp
<1>2. up[c][i] \in Seq(Blocks(setup)) /\ setup \in Setups
  BY DEF TypeInv, Types, LinkTypes
<1>3. InitLast(setup, c, i, up[c][i])
  BY DEF LastLinks, InitLast
<1>4. CASE up'[c][i] = Written(c, i)
  BY <1>2, <1>4, InitLastWritten
<1>5. CASE Shortened(up[c][i], up'[c][i])
  BY <1>2, <1>3, <1>5, InitLastShortened
<1>6. QED
  BY <1>1, <1>4, <1>5

(* Which thread brought the init block. *)
LEMMA InitBy ==
  ASSUME TypeInv, LastLinks, NEW s, NEW k, ServerRead(s, k), NEW e, NEW q,
         TakenUp(sess[s].client, sess[s].conns[k].conn, e, q),
         Add(sess[s].got, e).init
  PROVE  \E m \in ThreadsOf(s) : sess[s].conns[m].conn = setup.conns[sess[s].client]
<1>1. s \in DOMAIN sess /\ k \in ThreadsOf(s)
  BY ServerReadFacts
<1> PICK c, i : c = sess[s].client /\ i = sess[s].conns[k].conn
  OBVIOUS
<1>2. CASE e.num = 0
  <2>1. c \in Clients /\ i \in Links(setup, c)
    BY <1>1, LinkOfThread, SessionFacts DEF TypeInv
  <2>2. up[c][i] \in Seq(Blocks(setup)) /\ up[c][i] # <<>> /\ e = Head(up[c][i])
    BY DEF TakenUp
  <2>3. 1 \in 1 .. Len(up[c][i]) /\ up[c][i][1] = e
    BY <2>2, HeadIsFirst, Zenon
  <2>4. i = setup.conns[c]
    BY <1>2, <2>1, <2>3 DEF LastLinks
  <2>5. QED
    BY <1>1, <2>4
<1>3. CASE e.num # 0
  <2>1. sess[s].got \in Tables(setup)
    BY <1>1, SessionFacts DEF TypeInv
  <2>2. sess[s].got.init
    BY <1>3, <2>1 DEF Add, Tables
  <2>3. QED
    BY <1>1, <2>2 DEF LastLinks
<1>4. QED
  BY <1>2, <1>3

(* The threads of a session remain. *)
LEMMA ThreadsRemain ==
  ASSUME TypeInv, [Next]_vars, NEW s \in DOMAIN sess, NEW k \in ThreadsOf(s)
  PROVE  /\ s \in DOMAIN sess' /\ sess'[s].client = sess[s].client
         /\ k \in ThreadsOf(s)' /\ sess'[s].conns[k].conn = sess[s].conns[k].conn
<1>0. Types' /\ setup' = setup
  BY SetupKept, NextTypes
<1>1. CASE SameThreading
  BY <1>0, <1>1, SameIndexes DEF SameThreading
<1>2. ASSUME NEW q, Accept(q)
      PROVE  /\ s \in DOMAIN sess' /\ sess'[s].client = sess[s].client
             /\ k \in ThreadsOf(s)' /\ sess'[s].conns[k].conn = sess[s].conns[k].conn
  <2>1. PICK i : Accepted(q, i)
    BY <1>2, AcceptThreads
  <2>2. s \in DOMAIN sess' /\ sess'[s].client = sess[s].client
    BY <2>1 DEF Accepted
  <2>3. CASE s # q
    BY <2>1, <2>2, <2>3 DEF Accepted, ThreadsOf
  <2>4. CASE s = q
    <3>1. /\ Len(sess'[s].conns) = Len(sess[s].conns) + 1
          /\ sess'[s].conns[k] = sess[s].conns[k]
      BY <2>1, <2>4 DEF Accepted
    <3>2. k \in 1 .. Len(sess[s].conns) /\ Len(sess[s].conns) \in Nat
      BY ThreadFacts DEF TypeInv
    <3>3. sess'[s] \in Sessions(setup)
      BY <1>0, <2>2 DEF Types, ServerTypes
    <3>4. sess'[s].conns \in Seq(Threads(setup))
      BY <3>3 DEF Sessions
    <3>5. DOMAIN sess'[s].conns = 1 .. Len(sess[s].conns) + 1
      BY <3>1, <3>4
    <3>6. QED
      BY <2>2, <3>1, <3>2, <3>5 DEF ThreadsOf
  <2>5. QED
    BY <2>3, <2>4
<1>3. QED
  BY <1>1, <1>2, NextThreading

LEMMA NextLastLinks ==
  ASSUME TypeInv, [Next]_vars, LastLinks
  PROVE  LastLinks'
<1>0. Types' /\ setup' = setup
  BY SetupKept, NextTypes
<1>1. \A c \in Clients : \A i \in Links(setup', c) : \A j \in 1 .. Len(up'[c][i]) :
        up'[c][i][j].num = 0 => i = setup'.conns[c]
  BY <1>0, LastLinksUp DEF InitLast
<1>2. ASSUME NEW s \in DOMAIN sess', sess'[s].got.init
      PROVE  \E k \in ThreadsOf(s)' : sess'[s].conns[k].conn = setup.conns[sess'[s].client]
  <2>1. CASE s \notin DOMAIN sess
    <3>1. \E c \in Clients : sess'[s] = NewSession(c)
      BY <2>1, NewGot
    <3>2. sess'[s].got = NoneYet
      BY <3>1 DEF NewSession
    <3>3. ~NoneYet.init
      BY DEF NoneYet
    <3>4. QED
      BY <1>2, <3>2, <3>3
  <2>2. CASE s \in DOMAIN sess
    <3>1. \E k \in ThreadsOf(s) : sess[s].conns[k].conn = setup.conns[sess[s].client]
      <4>1. CASE sess'[s].got = sess[s].got
        BY <1>2, <2>2, <4>1 DEF LastLinks
      <4>2. ASSUME NEW k, ServerRead(s, k)
            PROVE  \E m \in ThreadsOf(s) : sess[s].conns[m].conn = setup.conns[sess[s].client]
        <5>1. PICK e, q, y : /\ TakenUp(sess[s].client, sess[s].conns[k].conn, e, q)
                             /\ Updated(s, y) /\ y.got = Add(sess[s].got, e)
                             /\ TurnedBy(s, y)
          BY <4>2, ServerReadFacts
        <5>2. sess'[s] = y
          BY <1>0, <2>2, <5>1, UpdatedTypes DEF TypeInv
        <5>3. Add(sess[s].got, e).init
          BY <1>2, <5>1, <5>2
        <5>4. QED
          BY <4>2, <5>1, <5>3, InitBy
      <4>3. QED
        BY <2>2, <4>1, <4>2, NextGot
    <3>2. PICK k \in ThreadsOf(s) : sess[s].conns[k].conn = setup.conns[sess[s].client]
      BY <3>1
    <3>3. QED
      BY <2>2, <3>2, ThreadsRemain
  <2>3. QED
    BY <2>1, <2>2
<1>3. QED
  BY <1>0, <1>1, <1>2 DEF LastLinks

LEMMA NextInTurn ==
  ASSUME TypeInv, [Next]_vars, InTurn
  PROVE  InTurn'
<1>0. Types' /\ setup' = setup /\ seen \subseteq seen'
  BY SetupKept, NextTypes, HistoryGrows
<1> SUFFICES ASSUME "overtaken" \notin seen',
                    NEW s \in DOMAIN sess', NEW k \in ThreadsOf(s)'
             PROVE  sess'[s].conns[k].conn = k
  BY DEF InTurn
<1>1. \A q \in DOMAIN sess : \A m \in ThreadsOf(q) : sess[q].conns[m].conn = m
  BY <1>0 DEF InTurn
<1>2. CASE SameThreading
  <2>1. s \in DOMAIN sess
    BY <1>2 DEF SameThreading, ThreadsOf
  <2>2. k \in ThreadsOf(s)
    BY <1>0, <1>2, <2>1, SameIndexes
  <2>3. QED
    BY <1>1, <1>2, <2>1, <2>2 DEF SameThreading
<1>3. ASSUME NEW q, Accept(q) PROVE sess'[s].conns[k].conn = k
  <2>1. PICK i : /\ Accepted(q, i)
                 /\ IF \E j \in Backlog(q) : j < i THEN Fault("overtaken") ELSE NoFault
    BY <1>3, AcceptThreads
  <2>2. s \in DOMAIN sess /\ q \in DOMAIN sess
    BY <2>1 DEF Accepted
  <2>3. CASE s # q
    <3>1. sess'[s] = sess[s]
      BY <2>1, <2>2, <2>3 DEF Accepted
    <3>2. QED
      BY <1>1, <2>2, <3>1 DEF ThreadsOf
  <2>4. CASE s = q
    <3> PICK c, n : c = sess[s].client /\ n = Len(sess[s].conns) + 1
      OBVIOUS
    <3>1. /\ Len(sess'[s].conns) = n
          /\ \A m \in ThreadsOf(s) : sess'[s].conns[m] = sess[s].conns[m]
          /\ sess'[s].conns[n].conn = i
          /\ cl[c].session = s /\ i \in 1 .. cl[c].opened
          /\ \A m \in ThreadsOf(s) : sess[s].conns[m].conn # i
      BY <2>1, <2>4 DEF Accepted, NewThread
    <3>2. sess[s].conns \in Seq(Threads(setup)) /\ sess'[s] \in Sessions(setup) /\ c \in Clients
      BY <1>0, <2>2, SessionFacts DEF TypeInv, Types, ServerTypes
    <3>3. sess'[s].conns \in Seq(Threads(setup))
      BY <3>2 DEF Sessions
    <3>4. ThreadsOf(s)' = 1 .. n /\ ThreadsOf(s) = 1 .. n - 1 /\ n \in Nat /\ n > 0
      BY <3>1, <3>2, <3>3 DEF ThreadsOf
    <3>5. CASE k \in ThreadsOf(s)
      BY <1>1, <2>2, <3>1, <3>5
    <3>6. CASE k \notin ThreadsOf(s)
      <4>1. k = n
        BY <3>4, <3>6
      <4>4. cl[c].opened \in Nat /\ Settled(c) /\ setup.conns[c] \in Nat
        BY <3>2, ClientBasics
      <4>2. i \in Nat /\ i >= n
        <5>1. \A m \in 1 .. n - 1 : m # i
          BY <1>1, <2>2, <3>1, <3>4
        <5>2. i \in Nat /\ i > 0
          BY <3>1, <4>4
        <5>3. QED
          BY <3>4, <5>1, <5>2
      <4>3. SUFFICES ASSUME i > n PROVE FALSE
        BY <3>1, <4>1, <4>2, <3>4
      <4>5. n \in Links(setup, c) /\ conn[c][n] # "none"
        BY <3>1, <3>4, <4>2, <4>3, <4>4 DEF Settled, Shaken, Links
      <4>6. \A m \in 1 .. Len(sess[s].conns) : sess[s].conns[m].conn # n
        BY <1>1, <2>2, <3>2, <3>4 DEF ThreadsOf
      <4>7. n \in Backlog(s)
        BY <3>1, <4>5, <4>6 DEF Backlog, Conns, Links, num_conn
      <4>8. Fault("overtaken")
        BY <2>1, <2>4, <4>3, <4>7
      <4>9. QED
        BY <4>8 DEF Fault
    <3>7. QED
      BY <3>5, <3>6
  <2>5. QED
    BY <2>3, <2>4
<1>4. QED
  BY <1>2, <1>3, NextThreading

LEMMA NextQueuesReady ==
  ASSUME TypeInv, [Next]_vars, ReadyInv
  PROVE  QueuesReady'
<1>0. seen \subseteq seen' /\ (wild' = wild \/ \E s, k : ServerRead(s, k))
  BY HistoryGrows
<1>1. CASE wild' = wild
  BY <1>0, <1>1 DEF ReadyInv, QueuesReady
<1>2. ASSUME NEW s, NEW k, ServerRead(s, k) PROVE QueuesReady'
  <2>0. seen' = seen
    BY <1>2 DEF ServerRead, history
  <2>1. PICK e, q, y : /\ TakenUp(sess[s].client, sess[s].conns[k].conn, e, q)
                       /\ Updated(s, y) /\ y.got = Add(sess[s].got, e)
                       /\ TurnedBy(s, y)
    BY <1>2, ServerReadFacts
  <2>2. SUFFICES ASSUME "overtaken" \notin seen, Full(setup, y.got)
                 PROVE  ~Unset(s)
    BY <2>0, <2>1 DEF TurnedBy, ReadyInv, QueuesReady
  <2>3. Add(sess[s].got, e).init
    BY <2>1, <2>2 DEF Full
  <2>4. PICK m \in ThreadsOf(s) : sess[s].conns[m].conn = setup.conns[sess[s].client]
    BY <1>2, <2>1, <2>3, InitBy DEF ReadyInv
  <2>5. s \in DOMAIN sess
    BY <1>2, ServerReadFacts
  <2>6. m = setup.conns[sess[s].client]
    BY <2>2, <2>4, <2>5 DEF ReadyInv, InTurn
  <2>7. m \in 1 .. Len(sess[s].conns) /\ Len(sess[s].conns) \in Nat
    BY <2>5, ThreadFacts DEF TypeInv
  <2>8. QED
    BY <2>6, <2>7 DEF Unset
<1>3. QED
  BY <1>0, <1>1, <1>2

LEMMA InitReady ==
  ASSUME Init
  PROVE  ReadyInv
<1>1. LastLinks
  BY DEF Init, LastLinks, Links, Conns, num_conn
<1>2. InTurn /\ QueuesReady
  BY DEF Init, InTurn, QueuesReady
<1>3. QED
  BY <1>1, <1>2 DEF ReadyInv

(* Whatever happens to datagrams and clients: bounce_buffer finds all of     *)
(* queues[] set (server.c:131-149), unless a connection made later was       *)
(* accepted before one made earlier.                                         *)
THEOREM SessionQueuesReady == Spec => []QueuesReady
<1>1. Init => TypeInv /\ ReadyInv
  BY InitTypeInv, InitReady
<1>2. TypeInv /\ ReadyInv /\ [Next]_vars => TypeInv' /\ ReadyInv'
  BY NextTypeInv, NextLastLinks, NextInTurn, NextQueuesReady DEF ReadyInv
<1>3. ReadyInv => QueuesReady
  BY DEF ReadyInv
<1>4. QED
  BY <1>1, <1>2, <1>3, PTL DEF Spec

-----------------------------------------------------------------------------
(* Tables and queues.  A block that is added to a table that lacks it; a    *)
(* full table has every block; queues that lose a part or get one more.     *)

LEMMA BlockFacts ==
  ASSUME NEW x \in Setups, NEW e \in Blocks(x)
  PROVE  e.num \in 0 .. x.blocks /\ e.num \in Nat /\ e.from \in Clients /\ x.blocks \in Nat
BY SetupFacts DEF Blocks

LEMMA AddOK ==
  ASSUME NEW x \in Setups, NEW c \in Clients, NEW got \in Tables(x), NEW e \in Blocks(x),
         Counts(x, got, c), e.from = c, ~Has(got, e.num)
  PROVE  /\ Counts(x, Add(got, e), c)
         /\ \A b \in 0 .. x.blocks : Has(Add(got, e), b) <=> Has(got, b) \/ b = e.num
<1>1. /\ x.blocks \in Nat /\ e.num \in 0 .. x.blocks /\ c # "-"
      /\ got.init \in BOOLEAN /\ got.count \in Nat
      /\ got.data \in [1 .. x.blocks -> Clients \cup {"-"}]
      /\ got = [init |-> got.init, count |-> got.count, data |-> got.data]
  BY BlockFacts, SessionAssumption DEF Tables
<1> DEFINE D(g) == {b \in 1 .. x.blocks : g.data[b] # "-"}
<1> PICK a : a = Add(got, e)
  OBVIOUS
<1>2. CASE e.num = 0
  <2>1. a = [init |-> TRUE, count |-> got.count, data |-> got.data]
    BY <1>1, <1>2 DEF Add
  <2>2. a.init /\ a.count = got.count /\ a.data = got.data
    BY <2>1
  <2>3. D(a) = D(got)
    BY <2>2
  <2>4. QED
    BY <1>1, <1>2, <2>2, <2>3 DEF Counts, Has
<1>3. CASE e.num # 0
  <2> PICK n : n = e.num
    OBVIOUS
  <2>0. n \in 1 .. x.blocks
    BY <1>1, <1>3
  <2>1. a = [init |-> got.init, count |-> got.count + 1, data |-> [got.data EXCEPT ![n] = c]]
    BY <1>1, <1>3 DEF Add
  <2>2. a.init = got.init /\ a.count = got.count + 1 /\ a.data = [got.data EXCEPT ![n] = c]
    BY <2>1
  <2>3. a.data[n] = c /\ \A b \in 1 .. x.blocks : b # n => a.data[b] = got.data[b]
    BY <1>1, <2>0, <2>2
  <2>4. got.data[n] = "-"
    BY <1>3 DEF Has
  <2>5. D(a) = D(got) \cup {n} /\ n \notin D(got)
    BY <1>1, <2>0, <2>3, <2>4
  <2>6. IsFiniteSet(D(got))
    BY <1>1, UpTo, FS_Subset
  <2> HIDE DEF D
  <2>7. Cardinality(D(a)) = Cardinality(D(got)) + 1
    BY <2>5, <2>6, FS_AddElement
  <2>8. got.count = Cardinality(D(got)) /\ \A b \in 1 .. x.blocks : got.data[b] \in {c, "-"}
    BY DEF Counts, D
  <2>9. a.count = Cardinality(D(a)) /\ \A b \in 1 .. x.blocks : a.data[b] \in {c, "-"}
    BY <2>2, <2>3, <2>7, <2>8
  <2>10. Counts(x, a, c)
    BY <2>9 DEF Counts, D
  <2>11. \A b \in 0 .. x.blocks : Has(a, b) <=> Has(got, b) \/ b = n
    BY <1>1, <2>0, <2>2, <2>3 DEF Has
  <2>12. QED
    BY <2>10, <2>11
<1>4. QED
  BY <1>2, <1>3

LEMMA FullHas ==
  ASSUME NEW x \in Setups, NEW c \in Clients, NEW got, Counts(x, got, c), Full(x, got),
         NEW b \in 0 .. x.blocks
  PROVE  Has(got, b)
<1>1. x.blocks \in Nat
  BY SetupFacts
<1> PICK D : D = {d \in 1 .. x.blocks : got.data[d] # "-"}
  OBVIOUS
<1>2. IsFiniteSet(1 .. x.blocks) /\ Cardinality(1 .. x.blocks) = x.blocks /\ D \in SUBSET (1 .. x.blocks)
  BY <1>1, UpTo
<1>3. Cardinality(D) = x.blocks
  BY DEF Counts, Full
<1>4. 1 .. x.blocks = D
  BY <1>2, <1>3, FS_Subset
<1>5. b # 0 => b \in D
  BY <1>1, <1>4
<1>6. QED
  BY <1>5 DEF Has, Full

LEMMA NothingFacts ==
  ASSUME NEW x \in Setups, NEW got, Nothing(x, got), NEW q \in Seq(Blocks(x))
  PROVE  Lacks(got, q) /\ ~Full(x, got)
<1>1. x.blocks \in Nat
  BY SetupFacts
<1>2. \A j \in 1 .. Len(q) : q[j] \in Blocks(x)
  OBVIOUS
<1>3. \A j \in 1 .. Len(q) : q[j].num \in 0 .. x.blocks
  BY <1>2, BlockFacts
<1>4. ~Has(got, 0)
  BY <1>1 DEF Nothing
<1>5. QED
  BY <1>3, <1>4 DEF Nothing, Lacks, Has, Full

LEMMA FullLacks ==
  ASSUME NEW x \in Setups, NEW c \in Clients, NEW got, Counts(x, got, c), Full(x, got),
         NEW q \in Seq(Blocks(x)), Lacks(got, q)
  PROVE  q = <<>>
<1> SUFFICES ASSUME q # <<>> PROVE FALSE
  OBVIOUS
<1>1. 1 \in 1 .. Len(q) /\ q[1] \in Blocks(x)
  OBVIOUS
<1>2. q[1].num \in 0 .. x.blocks
  BY <1>1, BlockFacts
<1>3. QED
  BY <1>1, <1>2, FullHas DEF Lacks

(* Block e is in none of the places where q is. *)
Apart(e, q) == \A j \in 1 .. Len(q) : q[j].num # e.num

LEMMA AddLacks ==
  ASSUME NEW x \in Setups, NEW c \in Clients, NEW got \in Tables(x), NEW e \in Blocks(x),
         Counts(x, got, c), e.from = c, ~Has(got, e.num),
         NEW q \in Seq(Blocks(x)), Lacks(got, q), Apart(e, q)
  PROVE  Lacks(Add(got, e), q)
<1>1. \A j \in 1 .. Len(q) : q[j] \in Blocks(x)
  OBVIOUS
<1>2. \A j \in 1 .. Len(q) : q[j].num \in 0 .. x.blocks
  BY <1>1, BlockFacts
<1>3. \A b \in 0 .. x.blocks : Has(Add(got, e), b) <=> Has(got, b) \/ b = e.num
  BY AddOK
<1>4. QED
  BY <1>2, <1>3 DEF Lacks, Apart

LEMMA OtherQueue ==
  ASSUME NEW x, NEW c, NEW i, NEW k, NEW e, NEW q,
         Slot(x, c, e.num) = i, Ordered(x, c, k, q), i # k
  PROVE  Apart(e, q)
BY DEF Ordered, Apart

LEMMA ShortenedFrom ==
  ASSUME NEW S, NEW p \in Seq(S), NEW q, Shortened(p, q)
  PROVE  \A j \in 1 .. Len(q) : \E m \in 1 .. Len(p) : q[j] = p[m]
<1>1. ASSUME NEW n \in 0 .. Len(p), q = SubSeq(p, 1, n)
      PROVE  \A j \in 1 .. Len(q) : q[j] = p[j] /\ j \in 1 .. Len(p)
  BY <1>1
<1>2. ASSUME p # <<>>, q = Tail(p)
      PROVE  \A j \in 1 .. Len(q) : q[j] = p[j + 1] /\ j + 1 \in 1 .. Len(p)
  BY <1>2
<1>3. QED
  BY <1>1, <1>2 DEF Shortened

LEMMA OrderedShortened ==
  ASSUME NEW S, NEW p \in Seq(S), NEW q, Shortened(p, q)
  PROVE  /\ p = <<>> => q = <<>>
         /\ \A x, c, i : Ordered(x, c, i, p) => Ordered(x, c, i, q)
         /\ \A got : Lacks(got, p) => Lacks(got, q)
<1>1. CASE q = p
  BY <1>1
<1>2. ASSUME NEW n \in 0 .. Len(p), q = SubSeq(p, 1, n)
      PROVE  /\ p = <<>> => q = <<>>
             /\ \A x, c, i : Ordered(x, c, i, p) => Ordered(x, c, i, q)
             /\ \A got : Lacks(got, p) => Lacks(got, q)
  <2>1. Len(q) = n /\ \A j \in 1 .. Len(q) : q[j] = p[j] /\ j \in 1 .. Len(p)
    BY <1>2
  <2>2. p = <<>> => q = <<>>
    BY <1>2
  <2>3. QED
    BY <2>1, <2>2 DEF Ordered, Lacks
<1>3. CASE p # <<>> /\ q = Tail(p)
  <2>1. \A j \in 1 .. Len(q) : q[j] = p[j + 1] /\ j + 1 \in 1 .. Len(p)
    BY <1>3
  <2>2. Len(q) \in Nat
    BY <1>3
  <2>3. \A got : Lacks(got, p) => Lacks(got, q)
    BY <2>1 DEF Lacks
  <2>4. ASSUME NEW x, NEW c, NEW i, Ordered(x, c, i, p) PROVE Ordered(x, c, i, q)
    <3>1. \A j, k \in 1 .. Len(q) : j < k => j + 1 < k + 1
      BY <2>2
    <3>2. QED
      BY <2>1, <2>4, <3>1 DEF Ordered
  <2>5. QED
    BY <1>3, <2>3, <2>4
<1>4. QED
  BY <1>1, <1>2, <1>3 DEF Shortened

(* What the first block of a queue, e, and the rest of it, r, have of it.   *)
Headed(x, c, i, q, e, r) ==
  /\ e \in Blocks(x) /\ r \in Seq(Blocks(x))
  /\ e.from = c /\ Slot(x, c, e.num) = i
  /\ Apart(e, r) /\ Shortened(q, r)
  /\ \A got : Lacks(got, q) => ~Has(got, e.num)

LEMMA OrderedHead ==
  ASSUME NEW x \in Setups, NEW c, NEW i, NEW q \in Seq(Blocks(x)), q # <<>>, Ordered(x, c, i, q)
  PROVE  Headed(x, c, i, q, Head(q), Tail(q))
<1> PICK e, r : e = Head(q) /\ r = Tail(q)
  OBVIOUS
<1>1. 1 \in 1 .. Len(q) /\ e = q[1] /\ e \in Blocks(x) /\ r \in Seq(Blocks(x))
  OBVIOUS
<1>2. \A j \in 1 .. Len(r) : r[j] = q[j + 1] /\ j + 1 \in 1 .. Len(q) /\ 1 < j + 1
  OBVIOUS
<1>3. \A j \in 1 .. Len(r) : e.num < r[j].num /\ r[j] \in Blocks(x)
  BY <1>1, <1>2 DEF Ordered
<1>4. Apart(e, r)
  <2>1. \A j \in 1 .. Len(r) : e.num \in Nat /\ r[j].num \in Nat
    BY <1>1, <1>3, BlockFacts
  <2>2. QED
    BY <1>3, <2>1 DEF Apart
<1>5. Headed(x, c, i, q, e, r)
  BY <1>1, <1>4 DEF Headed, Ordered, Shortened, Lacks
<1>6. QED
  BY <1>5

LEMMA BeforeApart ==
  ASSUME NEW x \in Setups, NEW p \in Seq(Blocks(x)), p # <<>>, NEW q \in Seq(Blocks(x)),
         Before(p, q)
  PROVE  Apart(Head(p), q) /\ Before(Tail(p), q)
<1> PICK e, r : e = Head(p) /\ r = Tail(p)
  OBVIOUS
<1>1. 1 \in 1 .. Len(p) /\ e = p[1] /\ e \in Blocks(x)
  OBVIOUS
<1>2. \A j \in 1 .. Len(r) : r[j] = p[j + 1] /\ j + 1 \in 1 .. Len(p)
  OBVIOUS
<1>3. \A j \in 1 .. Len(q) : q[j] \in Blocks(x) /\ e.num < q[j].num
  BY <1>1 DEF Before
<1>4. \A j \in 1 .. Len(q) : e.num \in Nat /\ q[j].num \in Nat
  BY <1>1, <1>3, BlockFacts
<1>5. QED
  BY <1>2, <1>3, <1>4 DEF Apart, Before

(* The head of q moves to the end of p. *)
Moved(x, c, i, p, q) ==
  /\ Ordered(x, c, i, Append(p, Head(q))) /\ Ordered(x, c, i, Tail(q))
  /\ Before(Append(p, Head(q)), Tail(q))
  /\ \A got : Lacks(got, p) /\ Lacks(got, q) =>
                 Lacks(got, Append(p, Head(q))) /\ Lacks(got, Tail(q))

LEMMA HeadMoves ==
  ASSUME NEW x \in Setups, NEW c, NEW i, NEW p \in Seq(Blocks(x)), NEW q \in Seq(Blocks(x)),
         q # <<>>, Ordered(x, c, i, p), Ordered(x, c, i, q), Before(p, q)
  PROVE  Moved(x, c, i, p, q)
<1> PICK e, r : e = Head(q) /\ r = Tail(q)
  OBVIOUS
<1> PICK a : a = Append(p, e)
  OBVIOUS
<1>1. 1 \in 1 .. Len(q) /\ e = q[1] /\ e \in Blocks(x) /\ r \in Seq(Blocks(x))
  OBVIOUS
<1>2. Len(r) \in Nat /\ \A j \in 1 .. Len(r) : r[j] = q[j + 1] /\ j + 1 \in 1 .. Len(q) /\ 1 < j + 1
  OBVIOUS
<1>3. /\ Len(a) = Len(p) + 1 /\ Len(p) \in Nat /\ a[Len(p) + 1] = e
      /\ \A j \in 1 .. Len(p) : a[j] = p[j]
  BY <1>1
<1>4. /\ \A j \in 1 .. Len(p) : /\ p[j].from = c /\ Slot(x, c, p[j].num) = i
                                /\ p[j].num < e.num
      /\ e.from = c /\ Slot(x, c, e.num) = i
  BY <1>1 DEF Ordered, Before
<1>5. Ordered(x, c, i, a)
  <2>1. \A j \in 1 .. Len(a) : j \in 1 .. Len(p) \/ j = Len(p) + 1
    BY <1>3
  <2>2. \A j \in 1 .. Len(a) : a[j].from = c /\ Slot(x, c, a[j].num) = i
    BY <1>3, <1>4, <2>1
  <2>3. ASSUME NEW j \in 1 .. Len(a), NEW k \in 1 .. Len(a), j < k PROVE a[j].num < a[k].num
    <3>1. j \in 1 .. Len(p)
      BY <1>3, <2>3
    <3>2. QED
      BY <1>3, <1>4, <2>1, <2>3, <3>1 DEF Ordered
  <2>4. QED
    BY <2>2, <2>3 DEF Ordered
<1>6. Ordered(x, c, i, r) /\ \A got : Lacks(got, q) => Lacks(got, r)
  <2>1. Shortened(q, r)
    BY DEF Shortened
  <2>2. QED
    BY <2>1, OrderedShortened
<1>7. Before(a, r)
  <2>1. \A j \in 1 .. Len(a) : j \in 1 .. Len(p) \/ j = Len(p) + 1
    BY <1>3
  <2>2. ASSUME NEW j \in 1 .. Len(a), NEW k \in 1 .. Len(r) PROVE a[j].num < r[k].num
    <3>1. CASE j \in 1 .. Len(p)
      BY <1>2, <1>3, <3>1 DEF Before
    <3>2. CASE j = Len(p) + 1
      BY <1>1, <1>2, <1>3, <3>2 DEF Ordered
    <3>3. QED
      BY <2>1, <3>1, <3>2
  <2>3. QED
    BY <2>2 DEF Before
<1>8. \A got : Lacks(got, p) /\ Lacks(got, q) => Lacks(got, a)
  <2>1. \A j \in 1 .. Len(a) : j \in 1 .. Len(p) \/ j = Len(p) + 1
    BY <1>3
  <2>2. QED
    BY <1>1, <1>3, <2>1 DEF Lacks
<1>9. QED
  BY <1>5, <1>6, <1>7, <1>8 DEF Moved

-----------------------------------------------------------------------------
(* Steps that leave a client, or a session, as it was *)

(* Session s has the same table before and after. *)
SameGot(s) == s \in DOMAIN sess => sess'[s].got = sess[s].got

LEMMA ClientKept ==
  ASSUME TypeInv, [Next]_vars, NEW c \in Clients, ClientTrip(c),
         cl'[c].session = cl[c].session, cl'[c].got = cl[c].got, cl'[c].saved = cl[c].saved,
         up'[c] = up[c], down'[c] = down[c],
         \A i \in Links(setup, c) : conn'[c][i] = conn[c][i] \/ conn'[c][i] = "open",
         cpc'[c] \in Calling => cpc[c] \in Calling,
         SameGot(cl[c].session)
  PROVE  ClientTrip(c)'
<1> PICK s : s = cl[c].session
  OBVIOUS
<1>0. setup' = setup
  BY SetupKept
<1>1. s # 0 => s \in DOMAIN sess
  BY ClientBasics DEF Settled
<1>2. s # 0 => sess'[s].got = sess[s].got
  BY <1>1 DEF SameGot
<1>3. Turned(c)' <=> Turned(c)
  BY <1>0, <1>2 DEF Turned
<1>4. ASSUME NEW i \in Links(setup, c) PROVE LinkTrip(c, i)'
  <2>1. LinkTrip(c, i)
    BY DEF ClientTrip
  <2>2. ASSUME down[c][i] # <<>>
        PROVE  \E k \in ThreadsOf(s)' : sess'[s].conns[k].conn = i
    <3>1. PICK k \in ThreadsOf(s) : sess[s].conns[k].conn = i
      BY <2>1, <2>2 DEF LinkTrip
    <3>2. s \in DOMAIN sess
      BY <1>1, <2>1, <2>2 DEF LinkTrip, Turned
    <3>3. QED
      BY <3>1, <3>2, ThreadsRemain
  <2>3. /\ Ordered(setup', c, i, up'[c][i])
        /\ cpc'[c] \in Calling \/ cl'[c].session = 0 => up'[c][i] = <<>>
        /\ cl'[c].session # 0 => Lacks(sess'[cl'[c].session].got, up'[c][i])
    BY <1>0, <1>2, <2>1 DEF LinkTrip
  <2>4. /\ Lacks(cl'[c].got, down'[c][i])
        /\ ~Turned(c)' => down'[c][i] = <<>>
        /\ down'[c][i] # <<>> =>
             \E k \in ThreadsOf(cl[c].session)' : sess'[cl'[c].session].conns[k].conn = i
    BY <1>3, <2>1, <2>2 DEF LinkTrip
  <2>5. conn'[c][i] # "rst" /\ (conn'[c][i] = "fin" => Full(setup', cl'[c].got))
    BY <1>0, <2>1 DEF LinkTrip
  <2>6. QED
    BY <2>3, <2>4, <2>5 DEF LinkTrip, ThreadsOf
<1>5. QED
  BY <1>0, <1>3, <1>4 DEF ClientTrip

LEMMA SessionKept ==
  ASSUME TypeInv, [Next]_vars, NEW s \in DOMAIN sess, SessionTrip(s),
         sess'[s].client = sess[s].client, sess'[s].got = sess[s].got,
         cpc'[sess[s].client] \in Calling => cpc[sess[s].client] \in Calling,
         ThreadsOf(s)' = ThreadsOf(s),
         \A k \in ThreadsOf(s) :
           LET c == sess[s].client
               i == sess[s].conns[k].conn IN
           /\ sess'[s].conns[k].conn = i
           /\ sess'[s].conns[k].queue = sess[s].conns[k].queue
           /\ sess[s].conns[k].reads => sess'[s].conns[k].reads
           /\ cl'[c].got = cl[c].got /\ down'[c][i] = down[c][i]
           /\ conn[c][i] = "fin" => conn'[c][i] = "fin"
  PROVE  SessionTrip(s)'
<1>0. setup' = setup
  BY SetupKept
<1>1. ASSUME NEW k \in ThreadsOf(s) PROVE ThreadTrip(s, k)'
  BY <1>0 DEF SessionTrip, ThreadTrip
<1>2. QED
  BY <1>0, <1>1 DEF SessionTrip

(* A step of the handshake, or of main. *)
LEMMA QuietTrip ==
  ASSUME TypeInv, [Next]_vars, Trip, UNCHANGED <<up, down, conn, sess, alive, wild>>,
         \A c \in Clients :
           /\ cl'[c] = cl[c] /\ (cpc'[c] \in Calling => cpc[c] \in Calling)
  PROVE  Trip'
<1>1. ASSUME NEW c \in Clients PROVE ClientTrip(c)'
  BY ClientKept DEF SameGot, Trip
<1>2. ASSUME NEW s \in DOMAIN sess PROVE SessionTrip(s)'
  <2>1. sess[s].client \in Clients
    BY SessionFacts DEF TypeInv
  <2>2. ThreadsOf(s)' = ThreadsOf(s)
    BY DEF ThreadsOf
  <2>3. QED
    BY <2>1, <2>2, SessionKept DEF Trip
<1>3. QED
  BY <1>1, <1>2 DEF Trip

LEMMA HandshakeTrip ==
  ASSUME TypeInv, [Next]_vars, Trip, NEW c \in Clients,
         \/ LoseRequest(c) \/ DuplicateRequest(c) \/ LoseAnswer(c)
         \/ SendRequest(c) \/ HandshakeTimesOut(c) \/ SendPort
  PROVE  Trip'
<1>0. DOMAIN cpc = Clients
  BY DEF TypeInv, Types, ClientTypes
<1>1. UNCHANGED <<up, down, conn, sess, alive, wild, cl>>
  BY DEF LoseRequest, DuplicateRequest, LoseAnswer, SendRequest, HandshakeTimesOut, SendPort,
         client, streams, process
<1>2. \/ cpc' = cpc
      \/ cpc' = [cpc EXCEPT ![c] = "waiting"] /\ cpc[c] = "handshake"
      \/ cpc' = [cpc EXCEPT ![c] = "gone"]
  BY DEF LoseRequest, DuplicateRequest, LoseAnswer, SendRequest, HandshakeTimesOut, SendPort, client
<1>3. \A d \in Clients : cpc'[d] \in Calling => cpc[d] \in Calling
  BY <1>0, <1>2 DEF Calling, Early
<1>4. QED
  BY <1>1, <1>3, QuietTrip

(* The client learns its session, which has received nothing yet. *)
LEMMA ReceivePortTrip ==
  ASSUME TypeInv, [Next]_vars, Trip, NEW c \in Clients, ReceivePort(c)
  PROVE  Trip'
<1>0. DOMAIN cpc = Clients /\ DOMAIN cl = Clients /\ setup' = setup /\ setup \in Setups
  BY SetupKept DEF TypeInv, Types, ClientTypes
<1>1. PICK s \in answer[c] : cl' = [cl EXCEPT ![c].session = s]
  BY DEF ReceivePort
<1>2. /\ cpc[c] = "waiting" /\ cpc' = [cpc EXCEPT ![c] = "connecting"]
      /\ UNCHANGED <<up, down, conn, sess, alive, wild>>
  BY DEF ReceivePort, streams, process
<1>3. cl[c] \in Runs(setup) /\ s \in DOMAIN sess /\ sess[s].client = c /\ cl[c].session = 0
  BY <1>2, ClientBasics DEF Settled, Shaken, Early
<1>4. cl'[c].session = s /\ cl'[c].got = cl[c].got /\ cl'[c].saved = cl[c].saved
  BY <1>0, <1>1, <1>3 DEF Runs
<1>5. \A d \in Clients \ {c} : cl'[d] = cl[d] /\ cpc'[d] = cpc[d]
  BY <1>0, <1>1, <1>2
<1>6. s # 0
  BY <1>3, SessionFacts DEF TypeInv
<1>7. Nothing(setup, sess[s].got)
  BY <1>2, <1>3 DEF Trip, SessionTrip, Calling, Early
<1>8. ~Full(setup, sess[s].got)
  BY <1>0, <1>7, NothingFacts, EmptySeq
<1>9. ~Turned(c) /\ ~Turned(c)'
  BY <1>0, <1>2, <1>3, <1>4, <1>8 DEF Turned
<1>10. ClientTrip(c)'
  <2>1. ClientTrip(c)
    BY DEF Trip
  <2>2. ASSUME NEW i \in Links(setup, c) PROVE LinkTrip(c, i)'
    <3>1. LinkTrip(c, i)
      BY <2>1 DEF ClientTrip
    <3>2. up[c][i] = <<>> /\ down[c][i] = <<>>
      BY <1>3, <1>9, <3>1 DEF LinkTrip
    <3>3. \A got : Lacks(got, <<>>)
      BY DEF Lacks
    <3>4. QED
      BY <1>0, <1>2, <1>4, <1>9, <3>1, <3>2, <3>3 DEF LinkTrip
  <2>3. QED
    BY <1>0, <1>4, <1>9, <2>1, <2>2 DEF ClientTrip
<1>11. ASSUME NEW d \in Clients, d # c PROVE ClientTrip(d)'
  BY <1>2, <1>5, <1>11, ClientKept DEF SameGot, Trip
<1>12. ASSUME NEW q \in DOMAIN sess PROVE SessionTrip(q)'
  <2>1. sess[q].client \in Clients
    BY SessionFacts DEF TypeInv
  <2>2. ThreadsOf(q)' = ThreadsOf(q) /\ cl'[sess[q].client].got = cl[sess[q].client].got
    BY <1>2, <1>4, <1>5, <2>1 DEF ThreadsOf
  <2>3. cpc'[sess[q].client] \in Calling => cpc[sess[q].client] \in Calling
    BY <1>0, <1>2, <1>5, <2>1 DEF Calling, Early
  <2>4. QED
    BY <1>2, <2>2, <2>3, SessionKept DEF Trip
<1>13. QED
  BY <1>2, <1>10, <1>11, <1>12 DEF Trip

LEMMA ConnectTrip ==
  ASSUME TypeInv, [Next]_vars, Trip, NEW c \in Clients, Connect(c)
  PROVE  Trip'
<1> PICK n, s : n = cl[c].opened + 1 /\ s = cl[c].session
  OBVIOUS
<1>0. /\ DOMAIN cpc = Clients /\ DOMAIN cl = Clients /\ setup' = setup /\ setup \in Setups
      /\ DOMAIN conn = Clients /\ DOMAIN up = Clients
      /\ conn[c] \in [Links(setup, c) -> {"none", "open", "fin", "rst"}]
  BY SetupKept DEF TypeInv, Types, ClientTypes, LinkTypes
<1>1. /\ cl' = [cl EXCEPT ![c].opened = n] /\ n \in Links(setup, c)
      /\ conn' = [conn EXCEPT ![c][n] = "open"] /\ Elsewhere(up, up', c)
      /\ \/ up' = up /\ cpc' = cpc
         \/ /\ cpc' = [cpc EXCEPT ![c] = "sleeping"]
            /\ \A i \in Links(setup, c) : up'[c][i] = Written(c, i)
  BY ConnectTypes
<1>2. cpc[c] = "connecting" /\ UNCHANGED <<down, sess, alive, wild>>
  BY DEF Connect, process
<1>3. cl[c] \in Runs(setup) /\ Settled(c) /\ cl[c].opened \in Nat
  BY ClientBasics
<1>4. cl'[c].session = s /\ cl'[c].got = cl[c].got /\ cl'[c].saved = cl[c].saved
  BY <1>0, <1>1, <1>3 DEF Runs
<1>5. \A d \in Clients \ {c} : cl'[d] = cl[d] /\ cpc'[d] = cpc[d] /\ up'[d] = up[d] /\ conn'[d] = conn[d]
  BY <1>0, <1>1 DEF Elsewhere
<1>6. conn'[c][n] = "open" /\ conn[c][n] = "none"
      /\ \A i \in Links(setup, c) : i # n => conn'[c][i] = conn[c][i]
  <2>1. ~(n <= cl[c].opened)
    BY <1>3
  <2>2. QED
    BY <1>0, <1>1, <1>3, <2>1 DEF Settled
<1>7. cpc'[c] \in Calling => cpc[c] \in Calling
  BY <1>2 DEF Calling
<1>8. ClientTrip(c)'
  <2>1. CASE up' = up /\ cpc' = cpc
    BY <1>2, <1>4, <1>6, <1>7, <2>1, ClientKept DEF SameGot, Trip
  <2>2. CASE /\ cpc' = [cpc EXCEPT ![c] = "sleeping"]
             /\ \A i \in Links(setup, c) : up'[c][i] = Written(c, i)
    <3>1. s # 0 /\ s \in DOMAIN sess /\ sess[s].client = c
      BY <1>2, <1>3 DEF Settled, Shaken
    <3>2. Nothing(setup, sess[s].got)
      BY <1>2, <3>1 DEF Trip, SessionTrip, Calling
    <3>3. cpc'[c] \notin Calling
      BY <1>0, <2>2 DEF Calling, Early
    <3>4. ClientTrip(c)
      BY DEF Trip
    <3>5. Turned(c)' <=> Turned(c)
      BY <1>0, <1>2, <1>4 DEF Turned
    <3>6. ASSUME NEW i \in Links(setup, c) PROVE LinkTrip(c, i)'
      <4>1. LinkTrip(c, i)
        BY <3>4 DEF ClientTrip
      <4>2. Written(c, i) \in Seq(Blocks(setup)) /\ Ordered(setup, c, i, Written(c, i))
        BY <1>0, WrittenRises
      <4>3. Lacks(sess[s].got, Written(c, i))
        BY <1>0, <3>2, <4>2, NothingFacts
      <4>4. up'[c][i] = Written(c, i)
        BY <2>2
      <4>5. /\ Ordered(setup', c, i, up'[c][i])
            /\ cpc'[c] \in Calling \/ cl'[c].session = 0 => up'[c][i] = <<>>
            /\ cl'[c].session # 0 => Lacks(sess'[cl'[c].session].got, up'[c][i])
        BY <1>0, <1>2, <1>4, <3>1, <3>3, <4>2, <4>3, <4>4
      <4>6. /\ Lacks(cl'[c].got, down'[c][i])
            /\ ~Turned(c)' => down'[c][i] = <<>>
            /\ down'[c][i] # <<>> =>
                 \E k \in ThreadsOf(cl[c].session)' : sess'[cl'[c].session].conns[k].conn = i
        BY <1>2, <1>4, <3>5, <4>1 DEF LinkTrip, ThreadsOf
      <4>7. conn'[c][i] # "rst" /\ (conn'[c][i] = "fin" => Full(setup', cl'[c].got))
        BY <1>0, <1>4, <1>6, <4>1 DEF LinkTrip
      <4>8. QED
        BY <1>4, <4>5, <4>6, <4>7 DEF LinkTrip, ThreadsOf
    <3>7. QED
      BY <1>0, <1>4, <3>4, <3>5, <3>6 DEF ClientTrip
  <2>3. QED
    BY <1>1, <2>1, <2>2
<1>9. ASSUME NEW d \in Clients, d # c PROVE ClientTrip(d)'
  BY <1>2, <1>5, <1>9, ClientKept DEF SameGot, Trip
<1>10. ASSUME NEW q \in DOMAIN sess PROVE SessionTrip(q)'
  <2> PICK d : d = sess[q].client
    OBVIOUS
  <2>1. d \in Clients
    BY SessionFacts DEF TypeInv
  <2>2. ThreadsOf(q)' = ThreadsOf(q) /\ cl'[d].got = cl[d].got
    BY <1>2, <1>4, <1>5, <2>1 DEF ThreadsOf
  <2>3. cpc'[d] \in Calling => cpc[d] \in Calling
    BY <1>5, <1>7, <2>1
  <2>4. ASSUME NEW k \in ThreadsOf(q)
        PROVE  conn[d][sess[q].conns[k].conn] = "fin" => conn'[d][sess[q].conns[k].conn] = "fin"
    <3>1. sess[q].conns[k].conn \in Links(setup, d)
      BY LinkOfThread
    <3>2. QED
      BY <1>5, <1>6, <2>1, <3>1
  <2>5. QED
    BY <1>2, <2>2, <2>3, <2>4, SessionKept DEF Trip
<1>11. QED
  BY <1>2, <1>8, <1>9, <1>10 DEF Trip

(* Steps of main and of serve_client. *)
LEMMA ServerQuietTrip ==
  ASSUME TypeInv, [Next]_vars, Trip, UNCHANGED <<up, down, conn, alive, wild, cl, cpc>>,
         \A s \in DOMAIN sess : sess'[s].got = sess[s].got,
         \A s \in DOMAIN sess' : SessionTrip(s)'
  PROVE  Trip'
<1>1. ASSUME NEW c \in Clients PROVE ClientTrip(c)'
  BY ClientKept DEF SameGot, Trip
<1>2. QED
  BY <1>1 DEF Trip

LEMMA SameThreadsTrip ==
  ASSUME TypeInv, [Next]_vars, Trip, UNCHANGED <<up, down, conn, alive, wild, cl, cpc>>,
         NEW s \in DOMAIN sess, NEW y, Updated(s, y), SameThreads(s, y)
  PROVE  Trip'
<1>0. /\ DOMAIN sess' = DOMAIN sess /\ sess'[s] = y
      /\ \A q \in DOMAIN sess : q # s => sess'[q] = sess[q]
  BY SetupKept, UpdatedTypes DEF TypeInv
<1>1. \A q \in DOMAIN sess : /\ sess'[q].got = sess[q].got /\ sess'[q].conns = sess[q].conns
                             /\ sess'[q].client = sess[q].client
  BY <1>0 DEF SameThreads, Updated
<1>2. ASSUME NEW q \in DOMAIN sess PROVE SessionTrip(q)'
  <2>1. ThreadsOf(q)' = ThreadsOf(q)
    BY <1>1 DEF ThreadsOf
  <2>2. QED
    BY <1>1, <2>1, SessionKept DEF Trip
<1>3. QED
  BY <1>0, <1>1, <1>2, ServerQuietTrip

LEMMA StartTrip ==
  ASSUME TypeInv, [Next]_vars, Trip, NEW s, CreateThread \/ Listen(s)
  PROVE  Trip'
<1>1. UNCHANGED <<up, down, conn, alive, wild, cl, cpc>>
  BY DEF CreateThread, Listen, streams, process, client
<1>2. CASE CreateThread
  <2>1. PICK y : Updated(main.session, y) /\ SameThreads(main.session, y)
    BY <1>2, CreateFacts
  <2>2. main.session \in DOMAIN sess
    BY <1>2, CreateFacts
  <2>3. QED
    BY <1>1, <2>1, <2>2, SameThreadsTrip
<1>3. CASE Listen(s)
  <2>1. PICK y : Updated(s, y) /\ SameThreads(s, y)
    BY <1>3, ListenFacts
  <2>2. s \in DOMAIN sess
    BY <1>3, ListenFacts
  <2>3. QED
    BY <1>1, <2>1, <2>2, SameThreadsTrip
<1>4. QED
  BY <1>2, <1>3

LEMMA NothingCounts ==
  ASSUME setup \in Setups, NEW c
  PROVE  Counts(setup, NoneYet, c) /\ Nothing(setup, NoneYet)
<1>1. /\ NoneYet.init = FALSE /\ NoneYet.count = 0 /\ setup.blocks \in Nat
      /\ \A b \in 1 .. setup.blocks : NoneYet.data[b] = "-"
  BY NoneYetType, SetupFacts
<1> PICK x, got : x = setup /\ got = NoneYet
  OBVIOUS
<1>2. {b \in 1 .. x.blocks : got.data[b] # "-"} = {}
  BY <1>1
<1>3. Counts(x, got, c)
  BY <1>1, <1>2, FS_EmptySet DEF Counts
<1>4. Nothing(x, got)
  BY <1>1 DEF Nothing, Has
<1>5. QED
  BY <1>3, <1>4

LEMMA ReceiveTrip ==
  ASSUME TypeInv, [Next]_vars, Trip, NEW c \in Clients, Receive(c)
  PROVE  Trip'
<1>0. setup' = setup /\ setup \in Setups
  BY SetupKept DEF TypeInv, Types
<1>1. UNCHANGED <<up, down, conn, alive, wild, cl, cpc>>
  BY DEF Receive, streams, process, client
<1>2. CASE sess' = sess
  BY <1>1, <1>2, QuietTrip
<1>3. CASE sess' # sess
  <2> PICK y : y = NewSession(c)
    OBVIOUS
  <2>1. sess' = Append(sess, y) /\ y \in Sessions(setup)
    BY <1>3, ReceiveFacts
  <2>2. sess \in Seq(Sessions(setup)) /\ y.conns = <<>> /\ y.client = c /\ y.got = NoneYet
    BY DEF TypeInv, Types, ServerTypes, NewSession
  <2>3. /\ DOMAIN sess = 1 .. Len(sess) /\ Len(sess) \in Nat
        /\ DOMAIN sess' = 1 .. Len(sess) + 1 /\ sess'[Len(sess) + 1] = y
        /\ \A s \in DOMAIN sess : sess'[s] = sess[s]
    BY <2>1, <2>2
  <2>4. ASSUME NEW s \in DOMAIN sess' PROVE SessionTrip(s)'
    <3>1. CASE s \in DOMAIN sess
      <4>1. sess'[s] = sess[s]
        BY <2>3, <3>1
      <4>2. ThreadsOf(s)' = ThreadsOf(s)
        BY <4>1 DEF ThreadsOf
      <4>3. QED
        BY <1>1, <3>1, <4>1, <4>2, SessionKept DEF Trip
    <3>2. CASE s \notin DOMAIN sess
      <4>1. sess'[s] = y
        BY <2>3, <3>2
      <4>2. ThreadsOf(s)' = {}
        BY <2>2, <4>1 DEF ThreadsOf
      <4>3. QED
        BY <1>0, <2>2, <4>1, <4>2, NothingCounts DEF SessionTrip
    <3>3. QED
      BY <3>1, <3>2
  <2>5. QED
    BY <1>1, <2>3, <2>4, ServerQuietTrip
<1>4. QED
  BY <1>2, <1>3

(* A thread that starts has a connection on which nothing was sent. *)
LEMMA AcceptTrip ==
  ASSUME TypeInv, [Next]_vars, Trip, NEW s, Accept(s)
  PROVE  Trip'
<1>0. setup' = setup /\ setup \in Setups /\ Types'
  BY SetupKept, NextTypes DEF TypeInv, Types
<1>1. UNCHANGED <<up, down, conn, alive, wild, cl, cpc>>
  BY DEF Accept, streams, process, client
<1>2. PICK i : Accepted(s, i)
  BY AcceptThreads
<1> PICK c, n : c = sess[s].client /\ n = Len(sess[s].conns) + 1
  OBVIOUS
<1>3. /\ s \in DOMAIN sess /\ DOMAIN sess' = DOMAIN sess
      /\ \A q \in DOMAIN sess \ {s} : sess'[q] = sess[q]
      /\ sess'[s].client = c /\ sess'[s].got = sess[s].got
      /\ Len(sess'[s].conns) = n
      /\ \A k \in ThreadsOf(s) : sess'[s].conns[k] = sess[s].conns[k]
      /\ sess'[s].conns[n].conn = i /\ sess'[s].conns[n].queue = <<>> /\ sess'[s].conns[n].reads
      /\ cl[c].session = s /\ i \in Links(setup, c)
      /\ \A k \in ThreadsOf(s) : sess[s].conns[k].conn # i
  BY <1>2 DEF Accepted, NewThread
<1>4. c \in Clients /\ sess[s].conns \in Seq(Threads(setup)) /\ sess'[s] \in Sessions(setup)
  BY <1>0, <1>3, SessionFacts DEF TypeInv, Types, ServerTypes
<1>5. sess'[s].conns \in Seq(Threads(setup))
  BY <1>4 DEF Sessions
<1>6. ThreadsOf(s)' = ThreadsOf(s) \cup {n}
  BY <1>3, <1>4, <1>5 DEF ThreadsOf
<1>7. down[c][i] = <<>>
  BY <1>3, <1>4 DEF Trip, ClientTrip, LinkTrip
<1>8. SessionTrip(s)'
  <2>1. SessionTrip(s)
    BY <1>3 DEF Trip
  <2>2. ASSUME NEW k \in ThreadsOf(s) PROVE ThreadTrip(s, k)'
    BY <1>0, <1>1, <1>3, <2>1 DEF SessionTrip, ThreadTrip
  <2>3. ThreadTrip(s, n)'
    <3>1. /\ \A x, d, k : Ordered(x, d, k, <<>>)
          /\ Before(<<>>, <<>>) /\ \A got : Lacks(got, <<>>)
      BY DEF Ordered, Before, Lacks
    <3>2. QED
      BY <1>0, <1>1, <1>3, <1>7, <3>1 DEF ThreadTrip
  <2>4. QED
    BY <1>0, <1>1, <1>3, <1>6, <2>1, <2>2, <2>3 DEF SessionTrip
<1>9. ASSUME NEW q \in DOMAIN sess, q # s PROVE SessionTrip(q)'
  <2>1. sess'[q] = sess[q]
    BY <1>3, <1>9
  <2>2. ThreadsOf(q)' = ThreadsOf(q)
    BY <2>1 DEF ThreadsOf
  <2>3. QED
    BY <1>1, <2>1, <2>2, SessionKept DEF Trip
<1>10. \A q \in DOMAIN sess : sess'[q].got = sess[q].got
  BY <1>3
<1>11. QED
  BY <1>1, <1>3, <1>8, <1>9, <1>10, ServerQuietTrip

(* A reader of the server returns: its client has closed the connection.    *)
LEMMA StopTrip ==
  ASSUME TypeInv, [Next]_vars, Trip, NEW s, NEW k, ReaderCloses(s, k) \/ ReaderFails(s, k)
  PROVE  Trip'
<1>0. setup' = setup /\ setup \in Setups /\ Types
  BY SetupKept DEF TypeInv, Types
<1>1. UNCHANGED <<up, down, conn, alive, wild, cl, cpc>>
  BY DEF ReaderCloses, ReaderFails, streams, process, client
<1> PICK c, i : c = sess[s].client /\ i = sess[s].conns[k].conn
  OBVIOUS
<1>2. s \in DOMAIN sess /\ k \in ThreadsOf(s) /\ conn[c][i] \in {"fin", "rst"}
  BY StopFacts
<1>3. PICK y, t : Updated(s, y) /\ Rethreaded(s, y, k, t) /\ Halted(s, k, t)
  BY StopFacts
<1>4. /\ DOMAIN sess' = DOMAIN sess /\ sess'[s] = y
      /\ \A q \in DOMAIN sess : q # s => sess'[q] = sess[q]
  BY <1>0, <1>2, <1>3, UpdatedTypes
<1>5. /\ SameThreading /\ y.conns[k] = t
      /\ \A m \in ThreadsOf(s) \ {k} : y.conns[m] = sess[s].conns[m]
  BY <1>0, <1>2, <1>3, RethreadedThreading DEF Halted
<1>6. y.client = c /\ y.got = sess[s].got /\ t.conn = i /\ t.queue = sess[s].conns[k].queue
  BY <1>3 DEF Updated, Rethreaded, Halted
<1>7. ThreadsOf(s)' = ThreadsOf(s)
  BY <1>0, <1>2, <1>5, SameIndexes, NextTypes
<1>8. conn[c][i] = "fin"
  <2>1. c \in Clients /\ i \in Links(setup, c)
    BY <1>2, LinkOfThread, SessionFacts DEF TypeInv
  <2>2. QED
    BY <1>2, <2>1 DEF Trip, ClientTrip, LinkTrip
<1>9. SessionTrip(s)'
  <2>1. SessionTrip(s)
    BY <1>2 DEF Trip
  <2>2. ASSUME NEW m \in ThreadsOf(s) PROVE ThreadTrip(s, m)'
    <3>0. ThreadTrip(s, m)
      BY <2>1 DEF SessionTrip
    <3>1. CASE m # k
      <4>1. sess'[s].conns[m] = sess[s].conns[m]
        BY <1>4, <1>5, <3>1
      <4>2. QED
        BY <1>0, <1>1, <1>4, <1>6, <3>0, <4>1 DEF ThreadTrip
    <3>2. CASE m = k
      <4>1. sess'[s].conns[m].conn = i /\ sess'[s].conns[m].queue = sess[s].conns[m].queue
        BY <1>4, <1>5, <1>6, <3>2
      <4>2. QED
        BY <1>0, <1>1, <1>4, <1>6, <1>8, <3>0, <3>2, <4>1 DEF ThreadTrip
    <3>3. QED
      BY <3>1, <3>2
  <2>3. QED
    BY <1>0, <1>1, <1>4, <1>6, <1>7, <2>1, <2>2 DEF SessionTrip
<1>10. ASSUME NEW q \in DOMAIN sess, q # s PROVE SessionTrip(q)'
  <2>1. sess'[q] = sess[q]
    BY <1>4, <1>10
  <2>2. ThreadsOf(q)' = ThreadsOf(q)
    BY <2>1 DEF ThreadsOf
  <2>3. QED
    BY <1>1, <2>1, <2>2, SessionKept DEF Trip
<1>11. \A q \in DOMAIN sess : sess'[q].got = sess[q].got
  BY <1>4, <1>6
<1>12. QED
  BY <1>1, <1>4, <1>9, <1>10, <1>11, ServerQuietTrip

(* A sender that has something to send has its connection. *)
LEMMA SenderConnected ==
  ASSUME TypeInv, Trip, NEW s \in DOMAIN sess, NEW k \in ThreadsOf(s),
         sess[s].conns[k].queue # <<>>
  PROVE  LET c == sess[s].client
             i == sess[s].conns[k].conn IN
         /\ conn[c][i] = "open" /\ fds[sess[s].conns[k].fd] = <<c, i>>
         /\ Full(setup, sess[s].got) /\ ~Full(setup, cl[c].got)
<1> PICK c, i, q : c = sess[s].client /\ i = sess[s].conns[k].conn /\ q = sess[s].conns[k].queue
  OBVIOUS
<1>1. /\ c \in Clients /\ i \in Links(setup, c) /\ setup \in Setups
      /\ i <= cl[c].opened /\ q \in Seq(Blocks(setup)) /\ q # <<>>
  BY LinkOfThread, SessionFacts, ThreadFacts DEF TypeInv, Types
<1>2. ThreadTrip(s, k) /\ ClientTrip(c) /\ LinkTrip(c, i)
  BY <1>1 DEF Trip, SessionTrip, ClientTrip
<1>3. Counts(setup, cl[c].got, c) /\ Lacks(cl[c].got, q) /\ Full(setup, sess[s].got)
  BY <1>1, <1>2 DEF ThreadTrip, ClientTrip
<1>4. ~Full(setup, cl[c].got)
  BY <1>1, <1>3, FullLacks
<1>5. conn[c][i] \notin {"fin", "rst"}
  BY <1>2, <1>4 DEF LinkTrip
<1>6. conn[c][i] # "none" /\ conn[c] \in [Links(setup, c) -> {"none", "open", "fin", "rst"}]
  BY <1>1, ClientBasics DEF Settled, TypeInv, Types, LinkTypes
<1>7. conn[c][i] = "open"
  BY <1>1, <1>5, <1>6
<1>8. sess[s].conns[k].reads
  BY <1>2, <1>7 DEF ThreadTrip
<1>9. fds[sess[s].conns[k].fd] = <<c, i>>
  BY <1>8 DEF TypeInv, Descriptors
<1>10. QED
  BY <1>3, <1>4, <1>7, <1>9

LEMMA ServerSendTrip ==
  ASSUME TypeInv, [Next]_vars, Trip, NEW s, NEW k, ServerSend(s, k)
  PROVE  Trip'
<1> PICK c, i, q : c = sess[s].client /\ i = sess[s].conns[k].conn /\ q = sess[s].conns[k].queue
  OBVIOUS
<1> PICK e, r, d : e = Head(q) /\ r = Tail(q) /\ d = down[c][i]
  OBVIOUS
<1>0. setup' = setup /\ setup \in Setups /\ Types /\ Types'
  BY SetupKept, NextTypes DEF TypeInv, Types
<1>1. UNCHANGED <<up, wild, cl, cpc>>
  BY DEF ServerSend, client
<1>2. s \in DOMAIN sess /\ k \in ThreadsOf(s) /\ q # <<>>
  BY ServerSendFacts
<1>3. PICK y, t : /\ Updated(s, y) /\ Rethreaded(s, y, k, t)
                  /\ t.queue = Tail(sess[s].conns[k].queue)
                  /\ t.reads = sess[s].conns[k].reads
  BY ServerSendFacts
<1>4. /\ DOMAIN sess' = DOMAIN sess /\ sess'[s] = y
      /\ \A p \in DOMAIN sess : p # s => sess'[p] = sess[p]
  BY <1>0, <1>2, <1>3, UpdatedTypes
<1>5. /\ SameThreading /\ y.conns[k] = t
      /\ \A m \in ThreadsOf(s) \ {k} : y.conns[m] = sess[s].conns[m]
  BY <1>0, <1>2, <1>3, RethreadedThreading
<1>6. y.client = c /\ y.got = sess[s].got /\ t.conn = i /\ t.queue = r
  BY <1>3 DEF Updated, Rethreaded
<1>7. ThreadsOf(s)' = ThreadsOf(s)
  BY <1>0, <1>2, <1>5, SameIndexes
<1>8. conn[c][i] = "open" /\ fds[sess[s].conns[k].fd] = <<c, i>> /\ Full(setup, sess[s].got)
  BY <1>2, SenderConnected
<1>9. /\ c \in Clients /\ i \in Links(setup, c) /\ cl[c].session = s /\ s # 0
      /\ q \in Seq(Blocks(setup)) /\ d \in Seq(Blocks(setup))
      /\ DOMAIN down = Clients /\ DOMAIN down[c] = Links(setup, c)
  <2>1. s \in 1 .. Len(sess) /\ Len(sess) \in Nat /\ c \in Clients
    BY <1>0, <1>2, SessionFacts
  <2>2. s # 0
    BY <2>1
  <2>3. i \in Links(setup, c) /\ cl[c].session = s
    BY <1>2, LinkOfThread
  <2>4. q \in Seq(Blocks(setup))
    BY <1>0, <1>2, ThreadFacts
  <2>5. LinkTypes
    BY <1>0 DEF Types
  <2>6. d \in Seq(Blocks(setup)) /\ DOMAIN down = Clients /\ DOMAIN down[c] = Links(setup, c)
    BY <2>1, <2>3, <2>5 DEF LinkTypes
  <2>7. QED
    BY <2>1, <2>2, <2>3, <2>4, <2>6
<1>10. /\ Elsewhere(down, down', c) /\ down'[c] = [down[c] EXCEPT ![i] = Append(d, e)]
       /\ conn' = conn /\ alive' = alive
  <2>1. PICK p : p = <<c, i>>
    OBVIOUS
  <2>2. p \notin {Free, <<"listener">>} /\ p[1] = c /\ p[2] = i
    BY <2>1, Distinct
  <2>3. SentTo(p, e)
    BY <1>8, <2>1, <2>2, ServerSendFacts
  <2>4. QED
    BY <1>8, <2>2, <2>3 DEF SentTo
<1>11. down'[c][i] = Append(d, e) /\ \A j \in Links(setup, c) : j # i => down'[c][j] = down[c][j]
  BY <1>9, <1>10
<1>12. \A b \in Clients : b # c => down'[b] = down[b]
  BY <1>9, <1>10 DEF Elsewhere
<1>13. ThreadTrip(s, k) /\ ClientTrip(c) /\ LinkTrip(c, i)
  BY <1>2, <1>9 DEF Trip, SessionTrip, ClientTrip
<1>14. /\ Ordered(setup, c, k, Append(d, e)) /\ Ordered(setup, c, k, r)
       /\ Before(Append(d, e), r)
       /\ Lacks(cl[c].got, Append(d, e)) /\ Lacks(cl[c].got, r)
  <2>1. /\ Ordered(setup, c, k, d) /\ Ordered(setup, c, k, q) /\ Before(d, q)
        /\ Lacks(cl[c].got, d) /\ Lacks(cl[c].got, q)
    BY <1>13 DEF ThreadTrip, LinkTrip
  <2> PICK x : x = setup
    OBVIOUS
  <2>2. x \in Setups /\ q \in Seq(Blocks(x)) /\ d \in Seq(Blocks(x)) /\ q # <<>>
    BY <1>0, <1>2, <1>9
  <2>3. Ordered(x, c, k, d) /\ Ordered(x, c, k, q)
    BY <2>1
  <2>4. Moved(x, c, k, d, q)
    BY <2>1, <2>2, <2>3, HeadMoves, Zenon
  <2>5. Lacks(cl[c].got, Append(d, Head(q))) /\ Lacks(cl[c].got, Tail(q))
    BY <2>1, <2>4 DEF Moved
  <2>6. QED
    BY <2>4, <2>5 DEF Moved
<1>15. Turned(c) /\ Turned(c)'
  BY <1>0, <1>1, <1>4, <1>6, <1>8, <1>9 DEF Turned
<1>16. ClientTrip(c)'
  <2>1. ASSUME NEW j \in Links(setup, c) PROVE LinkTrip(c, j)'
    <3>1. LinkTrip(c, j)
      BY <1>13 DEF ClientTrip
    <3>2. /\ Ordered(setup', c, j, up'[c][j])
          /\ cpc'[c] \in Calling \/ cl'[c].session = 0 => up'[c][j] = <<>>
          /\ cl'[c].session # 0 => Lacks(sess'[cl'[c].session].got, up'[c][j])
      BY <1>0, <1>1, <1>4, <1>6, <1>9, <3>1 DEF LinkTrip
    <3>3. Lacks(cl'[c].got, down'[c][j])
      BY <1>1, <1>11, <1>14, <3>1 DEF LinkTrip
    <3>4. ASSUME down'[c][j] # <<>>
          PROVE  \E m \in ThreadsOf(s)' : sess'[s].conns[m].conn = j
      <4>1. PICK m \in ThreadsOf(s) : sess[s].conns[m].conn = j
        BY <1>2, <1>9, <1>11, <3>1, <3>4 DEF LinkTrip
      <4>2. QED
        BY <1>2, <4>1, ThreadsRemain
    <3>5. conn'[c][j] # "rst" /\ (conn'[c][j] = "fin" => Full(setup', cl'[c].got))
      BY <1>0, <1>1, <1>10, <3>1 DEF LinkTrip
    <3>6. QED
      BY <1>1, <1>9, <1>15, <3>2, <3>3, <3>4, <3>5 DEF LinkTrip, ThreadsOf
  <2>2. QED
    BY <1>0, <1>1, <1>13, <1>15, <2>1 DEF ClientTrip
<1>17. ASSUME NEW b \in Clients, b # c PROVE ClientTrip(b)'
  <2>1. SameGot(cl[b].session)
    BY <1>4, <1>6 DEF SameGot
  <2>2. QED
    BY <1>1, <1>10, <1>12, <1>17, <2>1, ClientKept DEF Trip
<1>18. SessionTrip(s)'
  <2>1. SessionTrip(s)
    BY <1>2 DEF Trip
  <2>2. ASSUME NEW m \in ThreadsOf(s) PROVE ThreadTrip(s, m)'
    <3>0. ThreadTrip(s, m)
      BY <2>1 DEF SessionTrip
    <3>1. CASE m # k
      <4>1. sess'[s].conns[m] = sess[s].conns[m]
        BY <1>4, <1>5, <3>1
      <4>2. sess[s].conns[m].conn # i /\ sess[s].conns[m].conn \in Links(setup, c)
        BY <1>2, <3>1, OneThread, LinkOfThread
      <4>3. down'[c][sess[s].conns[m].conn] = down[c][sess[s].conns[m].conn]
        BY <1>11, <4>2
      <4>4. QED
        BY <1>0, <1>1, <1>4, <1>6, <1>10, <3>0, <4>1, <4>3 DEF ThreadTrip
    <3>2. CASE m = k
      <4>1. sess'[s].conns[k].conn = i /\ sess'[s].conns[k].queue = r
            /\ sess'[s].conns[k].reads = sess[s].conns[k].reads
        BY <1>3, <1>4, <1>5, <1>6
      <4>2. QED
        BY <1>0, <1>1, <1>4, <1>6, <1>8, <1>10, <1>11, <1>14, <3>0, <3>2, <4>1 DEF ThreadTrip
    <3>3. QED
      BY <3>1, <3>2
  <2>3. QED
    BY <1>0, <1>1, <1>4, <1>6, <1>7, <2>1, <2>2 DEF SessionTrip
<1>19. ASSUME NEW p \in DOMAIN sess, p # s PROVE SessionTrip(p)'
  <2>1. sess'[p] = sess[p]
    BY <1>4, <1>19
  <2>2. ThreadsOf(p)' = ThreadsOf(p)
    BY <2>1 DEF ThreadsOf
  <2>3. ASSUME NEW m \in ThreadsOf(p) PROVE sess[p].client \in Clients \ {c}
    <3>1. cl[sess[p].client].session = p /\ sess[p].client \in Clients
      BY LinkOfThread, SessionFacts DEF TypeInv
    <3>2. QED
      BY <1>9, <1>19, <3>1
  <2>4. QED
    BY <1>1, <1>10, <1>12, <2>1, <2>2, <2>3, SessionKept DEF Trip
<1>20. QED
  BY <1>1, <1>4, <1>10, <1>16, <1>17, <1>18, <1>19 DEF Trip

(* A reader of the server takes a block that the session lacks.  The last   *)
(* one fills the table, and all queues, empty until then, are given what    *)
(* belongs to them.                                                         *)
LEMMA ServerReadTrip ==
  ASSUME TypeInv, [Next]_vars, Trip, NEW s, NEW k, ServerRead(s, k)
  PROVE  Trip'
<1> PICK c, i, got : c = sess[s].client /\ i = sess[s].conns[k].conn /\ got = sess[s].got
  OBVIOUS
<1>0. setup' = setup /\ setup \in Setups /\ Types /\ Types'
  BY SetupKept, NextTypes DEF TypeInv, Types
<1>1. UNCHANGED <<down, conn, cl, cpc>>
  BY DEF ServerRead, client
<1>2. s \in DOMAIN sess /\ k \in ThreadsOf(s)
  BY ServerReadFacts
<1>3. PICK e, q, y : TakenUp(c, i, e, q) /\ Updated(s, y) /\ y.got = Add(got, e) /\ TurnedBy(s, y)
  BY ServerReadFacts
<1> PICK new : new = Add(got, e)
  OBVIOUS
<1>4. /\ DOMAIN sess' = DOMAIN sess /\ sess'[s] = y
      /\ \A p \in DOMAIN sess : p # s => sess'[p] = sess[p]
  BY <1>0, <1>2, <1>3, UpdatedTypes
<1>5. /\ c \in Clients /\ i \in Links(setup, c) /\ cl[c].session = s /\ s # 0
      /\ got \in Tables(setup) /\ y.client = c /\ y.got = new
      /\ up[c] \in [Links(setup, c) -> Seq(Blocks(setup))]
  BY <1>0, <1>2, <1>3, LinkOfThread, SessionFacts DEF Updated, Types, LinkTypes
<1>6. SessionTrip(s) /\ ClientTrip(c) /\ LinkTrip(c, i)
  BY <1>2, <1>5 DEF Trip, ClientTrip
<1>7. /\ up[c][i] \in Seq(Blocks(setup)) /\ up[c][i] # <<>>
      /\ e = Head(up[c][i]) /\ q = Tail(up[c][i])
      /\ Ordered(setup, c, i, up[c][i]) /\ Lacks(got, up[c][i])
  BY <1>3, <1>5, <1>6 DEF TakenUp, LinkTrip
<1>8. /\ e \in Blocks(setup) /\ q \in Seq(Blocks(setup))
      /\ e.from = c /\ Slot(setup, c, e.num) = i /\ Apart(e, q)
      /\ Shortened(up[c][i], q) /\ ~Has(got, e.num)
  <2> PICK p, x : p = up[c][i] /\ x = setup
    OBVIOUS
  <2>1. p \in Seq(Blocks(x)) /\ p # <<>> /\ Ordered(x, c, i, p) /\ Lacks(got, p) /\ x \in Setups
    BY <1>0, <1>7
  <2>2. Headed(x, c, i, p, Head(p), Tail(p))
    BY <2>1, OrderedHead, Zenon
  <2>3. Headed(x, c, i, p, e, q)
    BY <1>7, <2>2
  <2>4. QED
    BY <2>1, <2>3 DEF Headed
<1>9. Counts(setup, got, c) /\ Counts(setup, new, c)
  BY <1>0, <1>5, <1>6, <1>8, AddOK DEF SessionTrip
<1>10. ~Full(setup, got)
  BY <1>0, <1>5, <1>8, <1>9, FullHas, BlockFacts
<1>11. ~Turned(c)
  BY <1>5, <1>10 DEF Turned
<1>12. /\ Nothing(setup, cl[c].got) /\ cpc[c] \notin Calling
       /\ \A j \in Links(setup, c) : down[c][j] = <<>>
  BY <1>5, <1>6, <1>7, <1>11 DEF ClientTrip, LinkTrip
<1>13. /\ up'[c][i] = q /\ \A j \in Links(setup, c) : j # i => up'[c][j] = up[c][j]
       /\ \A b \in Clients : b # c => up'[b] = up[b]
  BY <1>0, <1>3, <1>5 DEF TakenUp, Elsewhere, Types, LinkTypes
<1>14. ASSUME NEW j \in Links(setup, c)
       PROVE  Ordered(setup, c, j, up'[c][j]) /\ Lacks(new, up'[c][j])
  <2> PICK p : p = up[c][j]
    OBVIOUS
  <2>1. p \in Seq(Blocks(setup)) /\ Ordered(setup, c, j, p) /\ Lacks(got, p)
    BY <1>5, <1>6 DEF ClientTrip, LinkTrip
  <2>2. CASE j = i
    <3>1. Ordered(setup, c, j, q) /\ Lacks(got, q)
      BY <1>8, <2>1, <2>2, OrderedShortened
    <3>2. Lacks(new, q)
      BY <1>0, <1>5, <1>8, <1>9, <3>1, AddLacks
    <3>3. QED
      BY <1>13, <2>2, <3>1, <3>2
  <2>3. CASE j # i
    <3>1. Apart(e, p)
      BY <1>8, <2>1, <2>3, OtherQueue
    <3>2. Lacks(new, p)
      BY <1>0, <1>5, <1>8, <1>9, <2>1, <3>1, AddLacks
    <3>3. QED
      BY <1>13, <2>1, <2>3, <3>2
  <2>4. QED
    BY <2>2, <2>3
<1>15. ClientTrip(c)'
  <2>1. ASSUME NEW j \in Links(setup, c) PROVE LinkTrip(c, j)'
    <3>1. LinkTrip(c, j)
      BY <1>6 DEF ClientTrip
    <3>2. /\ Ordered(setup', c, j, up'[c][j])
          /\ cpc'[c] \notin Calling /\ cl'[c].session # 0
          /\ Lacks(sess'[cl'[c].session].got, up'[c][j])
      BY <1>0, <1>1, <1>4, <1>5, <1>12, <1>14
    <3>3. Lacks(cl'[c].got, down'[c][j]) /\ down'[c][j] = <<>>
      BY <1>1, <1>12, <3>1 DEF LinkTrip
    <3>4. conn'[c][j] # "rst" /\ (conn'[c][j] = "fin" => Full(setup', cl'[c].got))
      BY <1>0, <1>1, <3>1 DEF LinkTrip
    <3>5. QED
      BY <3>2, <3>3, <3>4 DEF LinkTrip
  <2>2. Nothing(setup', cl'[c].got)
    BY <1>0, <1>1, <1>12
  <2>3. QED
    BY <1>0, <1>1, <1>6, <2>1, <2>2 DEF ClientTrip
<1>16. ASSUME NEW m \in ThreadsOf(s)
       PROVE  /\ sess[s].conns[m].queue = <<>> /\ down[c][sess[s].conns[m].conn] = <<>>
              /\ ~sess[s].conns[m].reads => conn[c][sess[s].conns[m].conn] = "fin"
              /\ ThreadTrip(s, m)
  <2>1. ThreadTrip(s, m) /\ sess[s].conns[m].conn \in Links(setup, c)
    BY <1>2, <1>6, LinkOfThread DEF SessionTrip
  <2>2. QED
    BY <1>10, <1>12, <2>1 DEF ThreadTrip
<1>17. SessionTrip(s)'
  <2>1. CASE Full(setup, y.got) /\ Bounced(s, y)
    <3>1. ASSUME NEW m \in ThreadsOf(s) PROVE ThreadTrip(s, m)'
      <4> PICK w, j : w = Written(c, m) /\ j = sess[s].conns[m].conn
        OBVIOUS
      <4>1. w \in Seq(Blocks(setup)) /\ Ordered(setup, c, m, w)
        BY <1>0, <1>5, WrittenRises
      <4>2. Lacks(cl[c].got, w)
        BY <1>0, <1>12, <4>1, NothingFacts
      <4>3. sess'[s].conns[m].queue = <<>> \o w
        BY <1>4, <1>16, <2>1 DEF Bounced
      <4>4. <<>> \o w = w
        BY <4>1
      <4>5. sess'[s].conns[m].conn = j /\ sess'[s].conns[m].reads = sess[s].conns[m].reads
        BY <1>4, <2>1 DEF Bounced
      <4>6. down'[c][j] = <<>> /\ Ordered(setup, c, m, <<>>) /\ Before(<<>>, w)
        BY <1>1, <1>16 DEF Ordered, Before
      <4>7. ~sess'[s].conns[m].reads => conn'[c][j] = "fin"
        BY <1>1, <1>16, <4>5
      <4>8. sess'[s].client = c /\ sess'[s].conns[m].queue = w /\ Full(setup', sess'[s].got)
        BY <1>0, <1>4, <1>5, <2>1, <4>3, <4>4
      <4>9. QED
        BY <1>0, <1>1, <4>1, <4>2, <4>5, <4>6, <4>7, <4>8 DEF ThreadTrip
    <3>2. ThreadsOf(s)' = ThreadsOf(s)
      <4>1. Len(y.conns) = Len(sess[s].conns) /\ y \in Sessions(setup)
        BY <1>3, <2>1 DEF Bounced, Updated
      <4>2. y.conns \in Seq(Threads(setup)) /\ sess[s].conns \in Seq(Threads(setup))
        BY <1>0, <1>2, <4>1, SessionFacts DEF Sessions
      <4>3. DOMAIN y.conns = DOMAIN sess[s].conns
        BY <4>1, <4>2
      <4>4. QED
        BY <1>4, <4>3 DEF ThreadsOf
    <3>3. QED
      BY <1>0, <1>1, <1>4, <1>5, <1>9, <1>12, <3>1, <3>2 DEF SessionTrip
  <2>2. CASE ~Full(setup, y.got) /\ y.conns = sess[s].conns
    <3>1. ASSUME NEW m \in ThreadsOf(s) PROVE ThreadTrip(s, m)'
      <4>1. sess'[s].conns[m] = sess[s].conns[m] /\ sess'[s].client = c
        BY <1>4, <1>5, <2>2
      <4>2. QED
        BY <1>0, <1>1, <1>16, <4>1 DEF ThreadTrip
    <3>2. ThreadsOf(s)' = ThreadsOf(s)
      BY <1>4, <2>2 DEF ThreadsOf
    <3>3. QED
      BY <1>0, <1>1, <1>4, <1>5, <1>9, <1>12, <3>1, <3>2 DEF SessionTrip
  <2>3. QED
    BY <1>3, <2>1, <2>2 DEF TurnedBy
<1>18. ASSUME NEW b \in Clients, b # c PROVE ClientTrip(b)'
  <2>1. cl[b].session # s
    BY <1>2, <1>5, <1>18, ClientBasics DEF Settled
  <2>2. SameGot(cl[b].session)
    BY <1>4, <2>1 DEF SameGot
  <2>3. QED
    BY <1>1, <1>13, <1>18, <2>2, ClientKept DEF Trip
<1>19. ASSUME NEW p \in DOMAIN sess, p # s PROVE SessionTrip(p)'
  <2>1. sess'[p] = sess[p]
    BY <1>4, <1>19
  <2>2. ThreadsOf(p)' = ThreadsOf(p)
    BY <2>1 DEF ThreadsOf
  <2>3. QED
    BY <1>1, <2>1, <2>2, SessionKept DEF Trip
<1>20. alive' \/ wild'
  <2>1. CASE Full(setup, y.got)
    <3>1. wild' = (wild \/ Unset(s)) /\ alive' = ~Unset(s)
      BY <1>3, <2>1, Zenon DEF TurnedBy
    <3>2. CASE Unset(s)
      BY <3>1, <3>2
    <3>3. CASE ~Unset(s)
      BY <3>1, <3>3
    <3>4. QED
      BY <3>2, <3>3
  <2>2. CASE ~Full(setup, y.got)
    <3>1. UNCHANGED <<alive, wild>>
      BY <1>3, <2>2, Zenon DEF TurnedBy
    <3>2. QED
      BY <3>1 DEF Trip
  <2>3. QED
    BY <2>1, <2>2
<1>21. QED
  BY <1>4, <1>15, <1>17, <1>18, <1>19, <1>20 DEF Trip

(* A step of client c that reads: a block its table lacks, the rest unread. *)
ReadBy(c, new, unread) ==
  \/ Full(setup, new) /\ ProcessEnds(c, unread)
  \/ ~Full(setup, new) /\ down' = [down EXCEPT ![c] = unread] /\ UNCHANGED <<cpc, conn, up>>

LEMMA ClientReadFacts ==
  ASSUME TypeInv, NEW c \in Clients, NEW i, ClientRead(c, i), ~Has(cl[c].got, Head(down[c][i]).num)
  PROVE  LET new == Add(cl[c].got, Head(down[c][i])) IN
         /\ cl'[c].got = new /\ cl'[c].session = cl[c].session
         /\ cl'[c].saved => Full(setup, new)
         /\ \A b \in Clients : b # c => cl'[b] = cl[b]
         /\ ReadBy(c, new, [down[c] EXCEPT ![i] = Tail(down[c][i])])
<1> PICK e, new : e = Head(down[c][i]) /\ new = Add(cl[c].got, e)
  OBVIOUS
<1> PICK unread : unread = [down[c] EXCEPT ![i] = Tail(down[c][i])]
  OBVIOUS
<1>1. ~(e.num = 0 /\ cl[c].got.init)
  BY DEF Has
<1>2. Complete(new) <=> Full(setup, new)
  BY DEF Complete, Full
<1>3. PICK v : /\ cl' = [cl EXCEPT ![c].got = new, ![c].saved = v]
               /\ v => Full(setup, new)
  <2>1. cl' = [cl EXCEPT ![c].got = new,
                         ![c].saved = Complete(new) /\ ~(e.num = 0 /\ cl[c].got.init)]
    BY DEF ClientRead
  <2>2. QED
    BY <1>2, <2>1
<1>4. DOMAIN cl = Clients /\ cl[c] \in Runs(setup)
  BY ClientBasics
<1>5. cl' = [cl EXCEPT ![c] = [cl[c] EXCEPT !.got = new, !.saved = v]]
  BY <1>3, <1>4
<1> PICK w : w = [cl[c] EXCEPT !.got = new, !.saved = v]
  OBVIOUS
<1>6. w.got = new /\ w.session = cl[c].session /\ w.saved = v
  BY <1>4 DEF Runs
<1>7. cl'[c] = w /\ \A b \in Clients : b # c => cl'[b] = cl[b]
  BY <1>4, <1>5
<1>8. \/ Complete(new) /\ ProcessEnds(c, unread)
      \/ ~Complete(new) /\ down' = [down EXCEPT ![c] = unread] /\ UNCHANGED <<cpc, conn, up>>
  BY <1>1 DEF ClientRead
<1>9. ReadBy(c, new, unread)
  BY <1>2, <1>8 DEF ReadBy
<1>10. QED
  BY <1>3, <1>6, <1>7, <1>9

(* What becomes of the connections, if a table that is full leaves nothing  *)
(* unread.                                                                  *)
LinksRead(c, new, unread) ==
  \A j \in Links(setup, c) :
    /\ Shortened(up[c][j], up'[c][j])
    /\ down'[c][j] = <<>> \/ down'[c][j] = unread[j]
    /\ conn'[c][j] \in {"none", "open", "fin", "rst"}
    /\ conn'[c][j] = conn[c][j] \/ (conn'[c][j] = "fin" /\ Full(setup, new))

OthersRead(c) ==
  \A b \in Clients : b # c =>
    up'[b] = up[b] /\ down'[b] = down[b] /\ conn'[b] = conn[b] /\ cpc'[b] = cpc[b]

LEMMA ReadLinks ==
  ASSUME TypeInv, NEW c \in Clients, NEW new, NEW unread, ReadBy(c, new, unread),
         Full(setup, new) => \A j \in Links(setup, c) : unread[j] = <<>>
  PROVE  cpc'[c] \in {cpc[c], "gone"} /\ OthersRead(c) /\ LinksRead(c, new, unread)
<1>0. Types /\ DOMAIN conn = Clients /\ DOMAIN up = Clients /\ DOMAIN down = Clients
      /\ DOMAIN cpc = Clients /\ conn[c] \in [Links(setup, c) -> {"none", "open", "fin", "rst"}]
  BY DEF TypeInv, Types, LinkTypes, ClientTypes
<1>1. CASE Full(setup, new) /\ ProcessEnds(c, unread)
  <2>1. /\ cpc' = [cpc EXCEPT ![c] = "gone"]
        /\ Elsewhere(conn, conn', c) /\ Elsewhere(up, up', c) /\ Elsewhere(down, down', c)
        /\ conn'[c] \in [Links(setup, c) -> {"none", "open", "fin", "rst"}]
        /\ Closed(c, unread)
        /\ \A j \in Links(setup, c) : \E n \in 0 .. Len(up[c][j]) : up'[c][j] = SubSeq(up[c][j], 1, n)
        /\ down'[c] = [j \in Links(setup, c) |-> <<>>]
    BY <1>0, <1>1, EndsFacts
  <2>2. ASSUME NEW j \in Links(setup, c)
        PROVE  conn'[c][j] = conn[c][j] \/ conn'[c][j] = "fin"
    BY <1>1, <2>1, <2>2 DEF Closed
  <2>3. \A j \in Links(setup, c) : Shortened(up[c][j], up'[c][j])
    BY <2>1 DEF Shortened
  <2>4. \A j \in Links(setup, c) : down'[c][j] = <<>>
    BY <2>1
  <2>5. \A b \in Clients : b # c => up'[b] = up[b] /\ down'[b] = down[b] /\ conn'[b] = conn[b]
    BY <1>0, <2>1 DEF Elsewhere
  <2>6. cpc'[c] = "gone" /\ \A b \in Clients : b # c => cpc'[b] = cpc[b]
    BY <1>0, <2>1
  <2>7. QED
    BY <1>1, <2>1, <2>2, <2>3, <2>4, <2>5, <2>6 DEF LinksRead, OthersRead
<1>2. CASE down' = [down EXCEPT ![c] = unread] /\ UNCHANGED <<cpc, conn, up>>
  <2>1. \A j \in Links(setup, c) : Shortened(up[c][j], up'[c][j])
    BY <1>2 DEF Shortened
  <2>2. down'[c] = unread /\ \A b \in Clients : b # c => down'[b] = down[b]
    BY <1>0, <1>2
  <2>3. QED
    BY <1>0, <1>2, <2>1, <2>2 DEF LinksRead, OthersRead
<1>3. QED
  BY <1>1, <1>2 DEF ReadBy

(* A reader of the client takes a block that no other place has.  The last  *)
(* one finds everything else empty, so the process ends in order.           *)
LEMMA ClientReadTrip ==
  ASSUME TypeInv, [Next]_vars, Trip, NEW c \in Clients, NEW i, ClientRead(c, i)
  PROVE  Trip'
<1> PICK x, s, got : x = setup /\ s = cl[c].session /\ got = cl[c].got
  OBVIOUS
<1> PICK d, e, r : d = down[c][i] /\ e = Head(d) /\ r = Tail(d)
  OBVIOUS
<1> PICK new : new = Add(got, e)
  OBVIOUS
<1> PICK unread : unread = [down[c] EXCEPT ![i] = r]
  OBVIOUS
<1>0. setup' = x /\ x \in Setups /\ Types
  BY SetupKept DEF TypeInv, Types
<1>1. UNCHANGED <<sess, alive, wild>>
  BY DEF ClientRead, process
<1>2. i \in Links(x, c) /\ d # <<>> /\ d \in Seq(Blocks(x)) /\ e \in Blocks(x)
  BY ClientReadTypes
<1>3. /\ got \in Tables(x) /\ DOMAIN down[c] = Links(x, c)
      /\ \A j \in Links(x, c) : up[c][j] \in Seq(Blocks(x)) /\ down[c][j] \in Seq(Blocks(x))
  BY <1>0, ClientBasics DEF Types, LinkTypes
<1>4. ClientTrip(c) /\ LinkTrip(c, i) /\ Counts(x, got, c)
  BY <1>2 DEF Trip, ClientTrip
<1>5. Turned(c) /\ s # 0 /\ s \in DOMAIN sess /\ sess[s].client = c
  BY <1>2, <1>4, ClientBasics DEF LinkTrip, Turned, Settled
<1>6. PICK k \in ThreadsOf(s) : sess[s].conns[k].conn = i
  BY <1>2, <1>4 DEF LinkTrip
<1>7. SessionTrip(s) /\ \A m \in ThreadsOf(s) : ThreadTrip(s, m)
  BY <1>5 DEF Trip, SessionTrip
<1>8. Ordered(x, c, k, d) /\ Lacks(got, d)
  BY <1>4, <1>5, <1>6, <1>7 DEF ThreadTrip, LinkTrip
<1>9. Headed(x, c, k, d, e, r)
  BY <1>0, <1>2, <1>8, OrderedHead, Zenon
<1>10. /\ ~Has(got, e.num) /\ e.from = c /\ Slot(x, c, e.num) = k
       /\ Apart(e, r) /\ Shortened(d, r) /\ r \in Seq(Blocks(x))
  BY <1>8, <1>9 DEF Headed
<1>11. Counts(x, new, c)
  BY <1>0, <1>2, <1>3, <1>4, <1>10, AddOK
<1>12. ~Full(x, got)
  BY <1>0, <1>2, <1>4, <1>10, FullHas, BlockFacts
<1>13. /\ cl'[c].got = new /\ cl'[c].session = s /\ (cl'[c].saved => Full(x, new))
       /\ \A b \in Clients : b # c => cl'[b] = cl[b]
       /\ ReadBy(c, new, unread)
  BY <1>10, ClientReadFacts
<1>14. unread[i] = r /\ \A j \in Links(x, c) : j # i => unread[j] = down[c][j]
  BY <1>2, <1>3
<1>15. ASSUME NEW j \in Links(x, c)
       PROVE  /\ unread[j] \in Seq(Blocks(x)) /\ Lacks(new, unread[j])
              /\ Shortened(down[c][j], unread[j])
  <2> PICK p : p = down[c][j]
    OBVIOUS
  <2>1. CASE j = i
    <3>1. Lacks(got, r)
      BY <1>2, <1>8, <1>10, OrderedShortened
    <3>2. Lacks(new, r)
      BY <1>0, <1>2, <1>3, <1>4, <1>10, <3>1, AddLacks
    <3>3. QED
      BY <1>10, <1>14, <2>1, <3>2
  <2>2. CASE j # i
    <3>1. unread[j] = p /\ p \in Seq(Blocks(x)) /\ Lacks(got, p) /\ LinkTrip(c, j)
      BY <1>3, <1>4, <1>14, <2>2 DEF ClientTrip, LinkTrip
    <3>2. Apart(e, p)
      <4>1. CASE p = <<>>
        BY <4>1 DEF Apart
      <4>2. CASE p # <<>>
        <5>1. PICK m \in ThreadsOf(s) : sess[s].conns[m].conn = j
          BY <3>1, <4>2 DEF LinkTrip
        <5>2. Ordered(x, c, m, p)
          BY <1>5, <1>7, <5>1 DEF ThreadTrip
        <5>3. m # k
          BY <1>6, <2>2, <5>1
        <5>4. QED
          BY <1>10, <5>2, <5>3, OtherQueue
      <4>3. QED
        BY <4>1, <4>2
    <3>3. Lacks(new, p)
      BY <1>0, <1>2, <1>3, <1>4, <1>10, <3>1, <3>2, AddLacks
    <3>4. QED
      BY <3>1, <3>3 DEF Shortened
  <2>3. QED
    BY <2>1, <2>2
<1>16. Full(x, new) => \A j \in Links(x, c) : unread[j] = <<>>
  BY <1>0, <1>11, <1>15, FullLacks
<1>17. /\ cpc'[c] \in {cpc[c], "gone"} /\ \A b \in Clients : b # c => cpc'[b] = cpc[b]
       /\ \A b \in Clients : b # c => up'[b] = up[b] /\ down'[b] = down[b] /\ conn'[b] = conn[b]
       /\ \A j \in Links(x, c) :
            /\ Shortened(up[c][j], up'[c][j])
            /\ down'[c][j] = <<>> \/ down'[c][j] = unread[j]
            /\ conn'[c][j] \in {"none", "open", "fin", "rst"}
            /\ conn'[c][j] = conn[c][j] \/ (conn'[c][j] = "fin" /\ Full(x, new))
  <2>1. cpc'[c] \in {cpc[c], "gone"} /\ OthersRead(c) /\ LinksRead(c, new, unread)
    BY <1>13, <1>16, ReadLinks
  <2>2. QED
    BY <2>1 DEF LinksRead, OthersRead
<1>18. cpc'[c] \in Calling => cpc[c] \in Calling
  BY <1>17 DEF Calling, Early
<1>19. Turned(c)'
  BY <1>0, <1>1, <1>5, <1>13 DEF Turned
<1>20. ClientTrip(c)'
  <2>1. ASSUME NEW j \in Links(x, c) PROVE LinkTrip(c, j)'
    <3> PICK p, q : p = up[c][j] /\ q = up'[c][j]
      OBVIOUS
    <3>1. LinkTrip(c, j) /\ p \in Seq(Blocks(x)) /\ Shortened(p, q)
      BY <1>3, <1>4, <1>17 DEF ClientTrip
    <3>2. /\ Ordered(x, c, j, q) /\ Lacks(sess[s].got, q)
          /\ cpc[c] \in Calling => q = <<>>
      BY <1>5, <3>1, OrderedShortened DEF LinkTrip
    <3>3. Lacks(new, down'[c][j]) /\ Shortened(down[c][j], unread[j])
      <4>1. Lacks(new, <<>>)
        BY DEF Lacks
      <4>2. QED
        BY <1>15, <1>17, <4>1
    <3>4. down'[c][j] # <<>> => down[c][j] # <<>>
      BY <1>3, <1>17, <3>3, OrderedShortened
    <3>5. down'[c][j] # <<>> => \E m \in ThreadsOf(s) : sess[s].conns[m].conn = j
      BY <3>1, <3>4 DEF LinkTrip
    <3>6. conn'[c][j] # "rst" /\ (conn'[c][j] = "fin" => Full(x, new))
      BY <1>12, <1>17, <3>1 DEF LinkTrip
    <3>7. ThreadsOf(s)' = ThreadsOf(s)
      BY <1>1 DEF ThreadsOf
    <3>8. QED
      BY <1>0, <1>1, <1>5, <1>13, <1>18, <1>19, <3>2, <3>3, <3>5, <3>6, <3>7 DEF LinkTrip, ThreadsOf
  <2>2. QED
    BY <1>0, <1>11, <1>13, <1>19, <2>1 DEF ClientTrip
<1>21. SessionTrip(s)'
  <2>1. ASSUME NEW m \in ThreadsOf(s) PROVE ThreadTrip(s, m)'
    <3> PICK j, q, p : /\ j = sess[s].conns[m].conn /\ q = sess[s].conns[m].queue
                       /\ p = down[c][j]
      OBVIOUS
    <3>1. /\ ThreadTrip(s, m) /\ j \in Links(x, c) /\ q \in Seq(Blocks(x))
          /\ p \in Seq(Blocks(x)) /\ LinkTrip(c, j)
      BY <1>0, <1>3, <1>4, <1>5, <1>7, LinkOfThread, ThreadFacts DEF ClientTrip
    <3>2. Ordered(x, c, m, q) /\ Ordered(x, c, m, p) /\ Before(p, q) /\ Lacks(got, q)
      BY <1>5, <3>1 DEF ThreadTrip
    <3>3. Apart(e, q) /\ Before(unread[j], q)
      <4>1. CASE m = k
        <5>1. j = i /\ p = d
          BY <1>6, <4>1
        <5>2. Apart(Head(d), q) /\ Before(Tail(d), q)
          BY <1>0, <1>2, <3>1, <3>2, <5>1, BeforeApart
        <5>3. QED
          BY <1>14, <5>1, <5>2
      <4>2. CASE m # k
        <5>1. j # i
          BY <1>5, <1>6, <4>2, OneThread
        <5>2. unread[j] = p
          BY <1>14, <3>1, <5>1
        <5>3. Apart(e, q)
          <6>1. Slot(x, c, e.num) = k /\ Ordered(x, c, m, q) /\ k # m
            BY <1>10, <3>2, <4>2
          <6>2. QED
            BY <6>1 DEF Ordered, Apart
        <5>4. QED
          BY <3>2, <5>2, <5>3
      <4>3. QED
        BY <4>1, <4>2
    <3>4. Lacks(new, q)
      BY <1>0, <1>2, <1>3, <1>4, <1>10, <3>1, <3>2, <3>3, AddLacks
    <3>5. Ordered(x, c, m, unread[j])
      BY <1>15, <3>1, <3>2, OrderedShortened
    <3>6. Ordered(x, c, m, down'[c][j]) /\ Before(down'[c][j], q)
      <4>1. CASE down'[c][j] = <<>>
        BY <4>1 DEF Ordered, Before
      <4>2. CASE down'[c][j] = unread[j]
        BY <3>3, <3>5, <4>2
      <4>3. QED
        BY <1>17, <3>1, <4>1, <4>2
    <3>7. sess[s].conns[m].reads
      BY <1>5, <1>12, <3>1 DEF ThreadTrip, LinkTrip
    <3>8. ~Full(x, sess[s].got) => q = <<>>
      BY <3>1 DEF ThreadTrip
    <3>9. QED
      BY <1>0, <1>1, <1>5, <1>13, <3>2, <3>4, <3>6, <3>7, <3>8 DEF ThreadTrip
  <2>2. ThreadsOf(s)' = ThreadsOf(s)
    BY <1>1 DEF ThreadsOf
  <2>3. Counts(x, sess[s].got, c) /\ (cpc'[c] \in Calling => Nothing(x, sess[s].got))
    BY <1>5, <1>7, <1>18 DEF SessionTrip
  <2>4. QED
    BY <1>0, <1>1, <1>5, <2>1, <2>2, <2>3 DEF SessionTrip
<1>22. ASSUME NEW b \in Clients, b # c PROVE ClientTrip(b)'
  <2>1. SameGot(cl[b].session)
    BY <1>1 DEF SameGot
  <2>2. QED
    BY <1>13, <1>17, <1>22, <2>1, ClientKept DEF Trip
<1>23. ASSUME NEW p \in DOMAIN sess, p # s PROVE SessionTrip(p)'
  <2>1. sess'[p] = sess[p] /\ sess[p].client \in Clients
    BY <1>0, <1>1, SessionFacts
  <2>2. ThreadsOf(p)' = ThreadsOf(p)
    BY <2>1 DEF ThreadsOf
  <2>3. cpc'[sess[p].client] \in Calling => cpc[sess[p].client] \in Calling
    BY <1>17, <1>18, <2>1
  <2>4. ASSUME NEW m \in ThreadsOf(p) PROVE sess[p].client \in Clients \ {c}
    <3>1. cl[sess[p].client].session = p
      BY LinkOfThread
    <3>2. QED
      BY <1>23, <2>1, <3>1
  <2>5. QED
    BY <1>13, <1>17, <2>1, <2>2, <2>3, <2>4, SessionKept DEF Trip
<1>24. QED
  BY <1>1, <1>20, <1>21, <1>22, <1>23 DEF Trip

-----------------------------------------------------------------------------
(* All steps *)

(* Blocks lost between readers leave the others where they were. *)
LEMMA RacesTrip ==
  ASSUME TypeInv, [Next]_vars, Trip, Races
  PROVE  Trip'
<1>0. UNCHANGED <<setup, cpc, cl, sess, conn, alive, wild>>
  BY RacesQuiet
<1>1. ASSUME NEW c \in Clients, NEW i \in Links(setup, c)
      PROVE  /\ up[c][i] \in Seq(Blocks(setup)) /\ down[c][i] \in Seq(Blocks(setup))
             /\ down'[c][i] \in Seq(Blocks(setup))
             /\ Shortened(up[c][i], up'[c][i]) /\ Shortened(down[c][i], down'[c][i])
  BY RacesShorten DEF TypeInv, Types, LinkTypes
<1>2. ASSUME NEW c \in Clients PROVE ClientTrip(c)'
  <2>1. ClientTrip(c)
    BY DEF Trip
  <2>2. Turned(c)' <=> Turned(c)
    BY <1>0 DEF Turned
  <2>3. ASSUME NEW i \in Links(setup, c) PROVE LinkTrip(c, i)'
    <3>1. LinkTrip(c, i)
      BY <2>1 DEF ClientTrip
    <3>2. /\ up[c][i] = <<>> => up'[c][i] = <<>>
          /\ Ordered(setup, c, i, up'[c][i])
          /\ \A got : Lacks(got, up[c][i]) => Lacks(got, up'[c][i])
      BY <1>1, <3>1, OrderedShortened DEF LinkTrip
    <3>3. /\ down[c][i] = <<>> => down'[c][i] = <<>>
          /\ \A got : Lacks(got, down[c][i]) => Lacks(got, down'[c][i])
      BY <1>1, OrderedShortened
    <3>4. ThreadsOf(cl[c].session)' = ThreadsOf(cl[c].session)
      BY <1>0 DEF ThreadsOf
    <3>5. QED
      BY <1>0, <2>2, <3>1, <3>2, <3>3, <3>4 DEF LinkTrip
  <2>4. QED
    BY <1>0, <2>1, <2>2, <2>3 DEF ClientTrip
<1>3. ASSUME NEW s \in DOMAIN sess PROVE SessionTrip(s)'
  <2>1. SessionTrip(s)
    BY DEF Trip
  <2>2. ThreadsOf(s)' = ThreadsOf(s)
    BY <1>0 DEF ThreadsOf
  <2>3. ASSUME NEW k \in ThreadsOf(s) PROVE ThreadTrip(s, k)'
    <3> PICK c, i : c = sess[s].client /\ i = sess[s].conns[k].conn
      OBVIOUS
    <3>1. ThreadTrip(s, k) /\ c \in Clients /\ i \in Links(setup, c)
      BY <2>1, SessionFacts, LinkOfThread DEF SessionTrip, TypeInv
    <3>2. Ordered(setup, c, k, down'[c][i])
      BY <1>1, <3>1, OrderedShortened DEF ThreadTrip
    <3>3. Before(down'[c][i], sess[s].conns[k].queue)
      <4>1. Before(down[c][i], sess[s].conns[k].queue)
        BY <3>1 DEF ThreadTrip
      <4>2. \A j \in 1 .. Len(down'[c][i]) :
              \E m \in 1 .. Len(down[c][i]) : down'[c][i][j] = down[c][i][m]
        BY <1>1, <3>1, ShortenedFrom
      <4>3. QED
        BY <4>1, <4>2 DEF Before
    <3>4. QED
      BY <1>0, <3>1, <3>2, <3>3 DEF ThreadTrip
  <2>4. QED
    BY <1>0, <2>1, <2>2, <2>3 DEF SessionTrip
<1>4. QED
  BY <1>0, <1>2, <1>3 DEF Trip

LEMMA StutterTrip ==
  ASSUME TypeInv, [Next]_vars, Trip, UNCHANGED vars
  PROVE  Trip'
<1>1. UNCHANGED <<up, down, conn, sess, alive, wild, cl, cpc>>
  BY DEF vars, streams, process, client
<1>2. QED
  BY <1>1, QuietTrip

LEMMA NextTrip ==
  ASSUME TypeInv, [Next]_vars, TripInv
  PROVE  TripInv'
<1> SUFFICES ASSUME quits' = {} PROVE Trip'
  BY DEF TripInv
<1>0. Trip
  BY HistoryGrows DEF TripInv
<1>1. CASE UNCHANGED vars
  BY <1>0, <1>1, StutterTrip
<1>2. CASE Steps
  <2>1. ASSUME NEW c \in Clients,
               \/ LoseRequest(c) \/ DuplicateRequest(c) \/ LoseAnswer(c)
               \/ SendRequest(c) \/ HandshakeTimesOut(c) \/ SendPort
        PROVE  Trip'
    BY <1>0, <2>1, HandshakeTrip
  <2>2. ASSUME NEW c \in Clients,
               ReceivePort(c) \/ Connect(c) \/ Receive(c) \/ \E i : ClientRead(c, i)
        PROVE  Trip'
    BY <1>0, <2>2, ReceivePortTrip, ConnectTrip, ReceiveTrip, ClientReadTrip
  <2>3. \A c \in Clients : ~Quit(c)
    BY DEF Quit
  <2>4. ASSUME SendPort PROVE Trip'
    <3>1. sess[main.session].client \in Clients
      <4>1. main.session \in DOMAIN sess
        BY <2>4 DEF SendPort, TypeInv, Handshake
      <4>2. QED
        BY <4>1, SessionFacts DEF TypeInv
    <3>2. QED
      BY <2>1, <2>4, <3>1
  <2>5. ASSUME NEW s, CreateThread \/ Listen(s) \/ Accept(s) PROVE Trip'
    BY <1>0, <2>5, StartTrip, AcceptTrip
  <2>6. ASSUME NEW s, NEW k,
               \/ ServerRead(s, k) \/ ServerSend(s, k)
               \/ ReaderCloses(s, k) \/ ReaderFails(s, k)
        PROVE  Trip'
    BY <1>0, <2>6, ServerReadTrip, ServerSendTrip, StopTrip
  <2>7. QED
    BY <1>2, <2>1, <2>2, <2>3, <2>4, <2>5, <2>6, Zenon DEF Steps
<1>3. CASE Races
  BY <1>0, <1>3, RacesTrip
<1>4. QED
  BY <1>1, <1>2, <1>3, NextSteps

LEMMA InitTrip ==
  ASSUME Init
  PROVE  TripInv
<1>0. setup \in Setups /\ sess = <<>> /\ alive
  BY DEF Init
<1>1. ASSUME NEW c \in Clients PROVE ClientTrip(c)
  <2>1. cl[c].session = 0 /\ cl[c].got = NoneYet /\ cl[c].saved = FALSE
    BY DEF Init
  <2>2. Counts(setup, NoneYet, c) /\ Nothing(setup, NoneYet)
    BY <1>0, NothingCounts
  <2>3. ASSUME NEW i \in Links(setup, c) PROVE LinkTrip(c, i)
    <3>1. up[c][i] = <<>> /\ down[c][i] = <<>> /\ conn[c][i] = "none"
      BY DEF Init, Links, Conns, num_conn
    <3>2. Ordered(setup, c, i, <<>>) /\ Lacks(cl[c].got, <<>>)
      BY DEF Ordered, Lacks
    <3>3. QED
      BY <2>1, <3>1, <3>2 DEF LinkTrip
  <2>4. QED
    BY <2>1, <2>2, <2>3 DEF ClientTrip
<1>2. QED
  BY <1>0, <1>1 DEF TripInv, Trip

LEMMA TripInvImplies ==
  ASSUME TypeInv, TripInv
  PROVE  EndsHarmless
<1> SUFFICES ASSUME quits = {} PROVE (alive \/ wild) /\ OwnFile
  BY DEF EndsHarmless
<1>1. Trip
  BY DEF TripInv
<1>2. ASSUME NEW c \in Clients, cl[c].saved
      PROVE  cl[c].got.data = [b \in DataBlocks |-> c]
  <2> PICK x, got : x = setup /\ got = cl[c].got
    OBVIOUS
  <2>1. x \in Setups /\ got \in Tables(x) /\ x.blocks \in Nat
    BY ClientBasics, SetupFacts
  <2>2. Counts(x, got, c) /\ Full(x, got)
    BY <1>1, <1>2 DEF Trip, ClientTrip
  <2>3. ASSUME NEW b \in 1 .. x.blocks PROVE got.data[b] = c
    <3>1. b \in 0 .. x.blocks /\ b # 0
      BY <2>1
    <3>2. Has(got, b)
      BY <2>1, <2>2, <3>1, FullHas
    <3>3. QED
      BY <2>2, <3>1, <3>2 DEF Has, Counts
  <2>4. got.data \in [1 .. x.blocks -> Clients \cup {"-"}]
    BY <2>1 DEF Tables
  <2>5. QED
    BY <2>3, <2>4 DEF DataBlocks
<1>3. QED
  BY <1>1, <1>2 DEF Trip, OwnFile

(* However datagrams fare and threads run: as long as no client is stopped   *)
(* before it has its file, the server's sends on connections of clients that *)
(* have ended do not end it (server.c sends on them, SIGPIPE), and every     *)
(* file save_buffer writes (client.c:92) is its client's own data.           *)
THEOREM SessionEndsHarmless == Spec => []EndsHarmless
<1>1. Init => TypeInv /\ TripInv
  BY InitTypeInv, InitTrip
<1>2. TypeInv /\ TripInv /\ [Next]_vars => TypeInv' /\ TripInv'
  BY NextTypeInv, NextTrip
<1>3. TypeInv /\ TripInv => EndsHarmless
  BY TripInvImplies
<1>4. QED
  BY <1>1, <1>2, <1>3, PTL DEF Spec
=============================================================================
