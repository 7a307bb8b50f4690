---------------------------- MODULE TimeWindows -----------------------------
(***************************************************************************)
(* CreateLoopback.c, the older forwarder: a node sends while the time of   *)
(* day, taken modulo the epoch, lies in its window.  Windows and epoch     *)
(* come from the controller over PUB/SUB; one thread stores them element   *)
(* by element while the main loop tests them, with no lock between.        *)
(* Two things are assumed of the world, as the program does: the clocks of *)
(* the nodes agree, and a packet is out at most Delay after the clock was  *)
(* read, which is what the guard at the start of a window is for.          *)
(***************************************************************************)
EXTENDS Controller, FiniteSets

CONSTANTS
  Forwarder,  \* the nodes that run the program
  Earlier,    \* reducers' nodes of earlier runs of the controller
  Guard,      \* silence at the start of a window (500)
  Delay,      \* longest time from reading the clock to the end of the packet
  Second,     \* after so many units tv_usec starts from 0 again
  MaxRestarts \* bound: restarts of forwarders while the controller runs

ASSUME ForwarderAssumption == Forwarder \subseteq 1 .. clusterSize /\ Earlier \subseteq Nat
ASSUME TimeAssumption ==
  /\ Guard \in Nat /\ Delay \in Nat /\ Delay <= Guard /\ Second \in Nat \ {0}
  /\ Guard < Base[1] - Shorten
  /\ MaxRestarts \in Nat

VARIABLES
  t,         \* tv_usec
  tAlloc,    \* tAlloc[n]: the array of node n
  epoch,     \* epoch[n]
  connected, \* the nodes whose subscription the publisher knows
  msg,       \* msg[n]: the message that has arrived, or is being stored
  next,      \* next[n]: the element to be stored next; Idle between messages
  dirty,     \* dirty[n]: config1 has not been cleared yet
  pc,        \* pc[n]: where the main loop is
  now,       \* now[n]: its local variable
  age,       \* time since it read the clock
  clean,     \* history: all arrays have been equal since n read the clock
  restarts   \* restarts so far

clockVars == <<pc, now, age, clean>>
storeVars == <<tAlloc, epoch, msg, next, dirty>>
vars == <<controllerVars, t, storeVars, connected, clockVars, restarts>>

Idle == clusterSize + 2

\* Digits that lie behind the last number become part of it.
Junk(v) == 10 * v

Settled == \A m, n \in Forwarder : tAlloc[m] = tAlloc[n] /\ epoch[n] = tAlloc[n][clusterSize]

\* What a forwarder holds that an earlier run reached last for reducer r, or none (0).
Kept(r) == IF r = 0 THEN Base ELSE Windows(r)

\* Each forwarder has its defaults, or what the last earlier run that reached it published.
Init ==
  /\ ControllerInit
  /\ t = 0
  /\ \E r \in [Forwarder -> {0} \cup Earlier] :
       /\ tAlloc = [n \in Forwarder |-> Kept(r[n])]
       /\ dirty = [n \in Forwarder |-> r[n] = 0]
  /\ epoch = [n \in Forwarder |-> tAlloc[n][clusterSize]]
  /\ connected = {}
  /\ msg = [n \in Forwarder |-> Base] /\ next = [n \in Forwarder |-> Idle]
  /\ pc = [n \in Forwarder |-> "Select"]
  /\ now = [n \in Forwarder |-> 0] /\ age = [n \in Forwarder |-> 0]
  /\ clean = [n \in Forwarder |-> FALSE]
  /\ restarts = 0

-----------------------------------------------------------------------------
(* The controller and the network.                                         *)

Ask ==
  /\ Request
  /\ UNCHANGED <<t, storeVars, connected, clockVars, restarts>>

\* ZeroMQ connects in the background; what is published before is lost.
Connect(n) ==
  /\ n \notin connected
  /\ connected' = connected \cup {n}
  /\ UNCHANGED <<controllerVars, t, storeVars, clockVars, restarts>>

\* A mistake the checks must notice: the windows are published once.
PublishOnce ==
  /\ cpc = "Publish" /\ cpc' = "Exited"
  /\ \A n \in Forwarder : next[n] = Idle
  /\ msg' = [n \in Forwarder |-> IF n \in connected THEN Windows(rNodeId) ELSE msg[n]]
  /\ next' = [n \in Forwarder |-> IF n \in connected THEN 0 ELSE Idle]
  /\ UNCHANGED <<appId, jobId, attempts, rNodeId, t, tAlloc, epoch, dirty, connected, clockVars, restarts>>

\* A message is stored long before the next is due: 2 ms against 2 s.
Publish ==
  /\ cpc = "Publish"
  /\ \A n \in Forwarder : next[n] = Idle
  /\ msg' = [n \in Forwarder |-> IF n \in connected THEN Windows(rNodeId) ELSE msg[n]]
  /\ next' = [n \in Forwarder |-> IF n \in connected THEN 0 ELSE Idle]
  /\ UNCHANGED <<controllerVars, t, tAlloc, epoch, dirty, connected, clockVars, restarts>>

-----------------------------------------------------------------------------
(* recv_config of node n.                                                  *)

StillClean == clean' = [n \in Forwarder |-> clean[n] /\ Settled']

\* What the token may be read as.
Numbers(n) ==
  LET v == msg[n][next[n]]
  IN  IF dirty[n] /\ next[n] = clusterSize THEN {v, Junk(v)} ELSE {v}

Store(n) ==
  /\ next[n] <= clusterSize
  /\ \E v \in Numbers(n) : tAlloc' = [tAlloc EXCEPT ![n][next[n]] = v]
  /\ next' = [next EXCEPT ![n] = @ + 1]
  /\ UNCHANGED <<controllerVars, t, epoch, msg, dirty, connected, pc, now, age, restarts>>
  /\ StillClean

\* A mistake the checks must notice: the epoch is the first number.
StoreEpochFirst(n) ==
  /\ next[n] = clusterSize + 1
  /\ epoch' = [epoch EXCEPT ![n] = tAlloc[n][0]]
  /\ dirty' = [dirty EXCEPT ![n] = FALSE]
  /\ next' = [next EXCEPT ![n] = Idle]
  /\ UNCHANGED <<controllerVars, t, tAlloc, msg, connected, pc, now, age, restarts>>
  /\ StillClean

StoreEpoch(n) ==
  /\ next[n] = clusterSize + 1
  /\ epoch' = [epoch EXCEPT ![n] = tAlloc[n][clusterSize]]
  /\ dirty' = [dirty EXCEPT ![n] = FALSE]
  /\ next' = [next EXCEPT ![n] = Idle]
  /\ UNCHANGED <<controllerVars, t, tAlloc, msg, connected, pc, now, age, restarts>>
  /\ StillClean

RecvConfig(n) == Store(n) \/ StoreEpoch(n)

-----------------------------------------------------------------------------
(* The main loop of node n when a packet waits at the interface.           *)

ReadClock(n) ==
  /\ pc[n] = "Select"
  /\ now' = [now EXCEPT ![n] = t % epoch[n]]
  /\ age' = [age EXCEPT ![n] = 0]
  /\ clean' = [clean EXCEPT ![n] = Settled]
  /\ pc' = [pc EXCEPT ![n] = "End"]
  /\ UNCHANGED <<controllerVars, t, storeVars, connected, restarts>>

\* To the next packet; the locals are dead.
Back(n) ==
  /\ pc' = [pc EXCEPT ![n] = "Select"]
  /\ now' = [now EXCEPT ![n] = 0] /\ age' = [age EXCEPT ![n] = 0]
  /\ clean' = [clean EXCEPT ![n] = FALSE]

Go(n, to) == pc' = [pc EXCEPT ![n] = to] /\ UNCHANGED <<now, age, clean>>

\* A mistake the checks must notice: the end of the window belongs to it.
TestEndInclusive(n) ==
  /\ pc[n] = "End"
  /\ IF now[n] <= tAlloc[n][n] THEN Go(n, "Start") ELSE Back(n)
  /\ UNCHANGED <<controllerVars, t, storeVars, connected, restarts>>

TestEnd(n) ==
  /\ pc[n] = "End"
  /\ IF now[n] < tAlloc[n][n] THEN Go(n, "Start") ELSE Back(n)
  /\ UNCHANGED <<controllerVars, t, storeVars, connected, restarts>>

\* A mistake the checks must notice: no guard.
TestStartNoGuard(n) ==
  /\ pc[n] = "Start"
  /\ IF now[n] >= tAlloc[n][n - 1] THEN Go(n, "Send") ELSE Back(n)
  /\ UNCHANGED <<controllerVars, t, storeVars, connected, restarts>>

TestStart(n) ==
  /\ pc[n] = "Start"
  /\ IF now[n] >= tAlloc[n][n - 1] + Guard THEN Go(n, "Send") ELSE Back(n)
  /\ UNCHANGED <<controllerVars, t, storeVars, connected, restarts>>

Send(n) ==
  /\ pc[n] = "Send"
  /\ Back(n)
  /\ UNCHANGED <<controllerVars, t, storeVars, connected, restarts>>

MainLoop(n) == ReadClock(n) \/ TestEnd(n) \/ TestStart(n) \/ Send(n)

Busy == {n \in Forwarder : pc[n] # "Select"}

Tick ==
  /\ \A n \in Busy : age[n] < Delay
  /\ t' = (t + 1) % Second
  /\ age' = [n \in Forwarder |-> IF n \in Busy THEN age[n] + 1 ELSE age[n]]
  /\ UNCHANGED <<controllerVars, storeVars, connected, pc, now, clean, restarts>>

\* The forwarder of node n ends anywhere and is started again: its defaults, a new
\* subscription, a buffer nobody cleared.
Restart(n) ==
  /\ restarts < MaxRestarts /\ restarts' = restarts + 1
  /\ tAlloc' = [tAlloc EXCEPT ![n] = Base]
  /\ epoch' = [epoch EXCEPT ![n] = Base[clusterSize]]
  /\ dirty' = [dirty EXCEPT ![n] = TRUE]
  /\ connected' = connected \ {n}
  /\ msg' = [msg EXCEPT ![n] = Base] /\ next' = [next EXCEPT ![n] = Idle]
  /\ pc' = [pc EXCEPT ![n] = "Select"]
  /\ now' = [now EXCEPT ![n] = 0] /\ age' = [age EXCEPT ![n] = 0]
  /\ clean' = [m \in Forwarder |-> m # n /\ clean[m] /\ Settled']
  /\ UNCHANGED <<controllerVars, t>>

Next ==
  \/ Ask \/ Publish \/ Tick
  \/ \E n \in Forwarder : Connect(n) \/ RecvConfig(n) \/ MainLoop(n) \/ Restart(n)

Spec == Init /\ [][Next]_vars

FairSpec ==
  /\ Spec
  /\ WF_vars(Ask) /\ WF_vars(Publish) /\ WF_vars(Tick)
  /\ \A n \in Forwarder : WF_vars(Connect(n)) /\ WF_vars(RecvConfig(n)) /\ WF_vars(MainLoop(n))

-----------------------------------------------------------------------------
(* Properties.                                                             *)

TypeOK ==
  /\ ControllerTypeOK
  /\ t \in 0 .. Second - 1
  /\ tAlloc \in [Forwarder -> [0 .. clusterSize -> Nat]]
  /\ epoch \in [Forwarder -> Nat \ {0}]
  /\ connected \subseteq Forwarder
  /\ msg \in [Forwarder -> [0 .. clusterSize -> Nat]]
  /\ next \in [Forwarder -> 0 .. Idle]
  /\ dirty \in [Forwarder -> BOOLEAN]
  /\ pc \in [Forwarder -> {"Select", "End", "Start", "Send"}]
  /\ now \in [Forwarder -> Nat]
  /\ age \in [Forwarder -> 0 .. Delay]
  /\ clean \in [Forwarder -> BOOLEAN]
  /\ restarts \in 0 .. MaxRestarts

-----------------------------------------------------------------------------
(* What makes Exclusive inductive.                                         *)

\* Any mixture of the arrays that are ever published is ordered like Base.
Ordered(a) ==
  /\ a[0] = 0
  /\ \A k \in 1 .. clusterSize : Base[k] - Shorten <= a[k]
  /\ \A k \in 1 .. clusterSize - 1 : a[k] <= Base[k]

\* Since n read the clock its phase has gone on by its age, or has wrapped.
OnTime(n) == t % epoch[n] = now[n] + age[n] \/ t % epoch[n] < age[n]

\* Of two nodes, both have read the same stretch of time, or the one that
\* read later did so after the wrap.
SameStretch(m, n) ==
  \/ now[m] + age[m] = now[n] + age[n]
  \/ now[n] < age[m] \/ now[m] < age[n]

InWindow(n) ==
  /\ pc[n] \in {"Start", "Send"} => now[n] < tAlloc[n][n]
  /\ pc[n] = "Send" => now[n] >= tAlloc[n][n - 1] + Guard

ArraysOrdered == \A n \in Forwarder : Ordered(tAlloc[n]) /\ Ordered(msg[n])

ClocksOnTime == \A n \in Forwarder : clean[n] => Settled /\ pc[n] # "Select" /\ OnTime(n)

WindowsKept ==
  \A m, n \in Forwarder : m # n /\ clean[n] => InWindow(n) /\ (clean[m] => SameStretch(m, n))

\* Types, order of the arrays, and where the clock readings of nodes that have
\* had the same windows since stand to the time and to each other. The epoch,
\* by which the main loop divides, is never 0.
IInv == TypeOK /\ ArraysOrdered /\ ClocksOnTime /\ WindowsKept

\* Two nodes that have had the same windows since each read its clock are
\* never on the air together, also where the epoch and the second wrap.
Exclusive ==
  \A m, n \in Forwarder :
    m # n /\ pc[m] = "Send" /\ pc[n] = "Send" => ~(clean[m] /\ clean[n])

\* Every node comes to hold the windows for the reducer the controller has
\* found last, if it found one, whatever was lost while connections were made
\* and whatever lay behind the first message.
Converges ==
  <>[](rNodeId # 0 => \A n \in Forwarder : /\ tAlloc[n] = Windows(rNodeId)
                                             /\ epoch[n] = Windows(rNodeId)[clusterSize])

\* In the end there is never more than one node on the air: when the controller found a
\* reducer, and when it found none and the forwarders hold the same windows all the same.
\* Where they hold different ones and it found none, nothing brings them together.
InTurns ==
  <>[](rNodeId # 0 \/ Settled => Cardinality({n \in Forwarder : pc[n] = "Send"}) <= 1)
=============================================================================
