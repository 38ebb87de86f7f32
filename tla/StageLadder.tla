----------------------------- MODULE StageLadder -----------------------------
(***************************************************************************)
(* What the four-stage exercise of proj1 and proj2 is about: the server    *)
(* hands out secrets 1 to 4 (A to D), the later ones only to the client it *)
(* is talking to, and the client comes to know none that the server thread *)
(* it talks to has not handed out.                                         *)
(***************************************************************************)
EXTENDS Naturals

CONSTANTS Threads, NoThread

VARIABLES
  granted,    \* granted[t]: how many secrets thread t has handed out
  session,    \* the thread the client talks to
  known       \* the secrets the client knows

lvars == <<granted, session, known>>

LInit ==
  /\ granted = [t \in Threads |-> 0]
  /\ session = NoThread
  /\ known = {}

(* Any thread may reach secret B; beyond that, only the client's own. *)
Grant(t) ==
  /\ granted[t] < 4
  /\ granted[t] >= 2 => session = t
  /\ granted' = [granted EXCEPT ![t] = @ + 1]
  /\ UNCHANGED <<session, known>>

(* Secret A ties the client to the thread it comes from, for good. *)
Meet(t) ==
  /\ session = NoThread /\ granted[t] >= 1
  /\ session' = t
  /\ known' = {1}
  /\ UNCHANGED granted

Learn(s) ==
  /\ session # NoThread /\ s \in 2 .. granted[session]
  /\ known' = known \cup {s}
  /\ UNCHANGED <<granted, session>>

LNext ==
  \/ \E t \in Threads : Grant(t) \/ Meet(t)
  \/ \E s \in 2 .. 4 : Learn(s)

LSpec == LInit /\ [][LNext]_lvars
=============================================================================
