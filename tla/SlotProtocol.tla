---------------------------- MODULE SlotProtocol ----------------------------
(***************************************************************************)
(* The transmission slots of the cluster: the master's scheduler thread    *)
(* (send_config) and report thread (process_report) of CreateLoopbackMS.c, *)
(* and on every slave the controller thread (main's handshake, then        *)
(* recv_config) of CreateLoopbackCS1Q.c, which talk over one ZeroMQ        *)
(* REQ/REP pair per slave.  Slaves may crash and be started again.         *)
(*                                                                         *)
(* A REQ socket sends, then must receive; a REP socket receives, then must *)
(* send, and its answer goes to the connection the request came from: it   *)
(* is dropped when that process is gone.  Each start of a slave is an      *)
(* incarnation, and a message is known by the incarnation that sent it.    *)
(***************************************************************************)
EXTENDS Integers

CONSTANTS
  LastNode,   \* slaves are nodes 2 .. LastNode (9 in the code); 1 is the master
  IdleSlot,   \* the slot of every node when nobody has data, in 100 us ticks
  BusySlot,   \* the slot of the node that is served, in 100 us ticks
  Sizes,      \* the data sizes a report may carry
  MaxInc      \* bound: how often one slave may crash

ASSUME LastNodeAssumption == LastNode \in Nat /\ LastNode >= 2
ASSUME SlotAssumption == IdleSlot \in Nat \ {0} /\ BusySlot \in Nat \ {0}
ASSUME SizesAssumption == Sizes \subseteq Int /\ 0 \in Sizes
ASSUME MaxIncAssumption == MaxInc \in Nat

Node == 2 .. LastNode

NoReply == -1     \* nothing on the way to the slave
Welcome == 0      \* the "1" that answers a hello; a positive number is a grant
NoPeer == -1      \* the REP socket has not received anything yet

VARIABLES
  mpc,      \* where send_config is
  k,        \* its loop index: k, and i in the scan of p
  pri,      \* the node it served last
  tAlloc,   \* the slot of each node in this cycle
  p,        \* data size each node reported last
  reqs,     \* reqs[n]: requests of n that wait in the master's REP socket
  peer,     \* peer[n]: the incarnation of n the REP socket answers next
  reply,    \* reply[n]: the answer on its way to n
  spc,      \* where the controller thread of n is
  inc,      \* the incarnation of n
  slot      \* ticks left in the transmission slot of n

masterVars == <<mpc, k, pri, tAlloc>>
vars == <<mpc, k, pri, tAlloc, p, reqs, peer, reply, spc, inc, slot>>

Loop == {"Beacon", "Check", "Search", "Serve", "AwaitAck"}
MasterPC == {"Hello", "Welcome", "Ready"} \cup Loop
SlavePC == {"Hello", "AwaitWelcome", "Ready", "AwaitGrant", "Run", "Down"}
Slots == {IdleSlot, BusySlot}

\* The loop indexes never leave their arrays.
SchedulerTypeOK ==
  /\ mpc \in MasterPC
  /\ k \in 1 .. LastNode /\ (mpc # "Check" => k # 1)
  /\ pri \in 0 .. LastNode /\ (mpc = "Search" => pri # 0)

DataTypeOK ==
  /\ tAlloc \in [Node -> Slots \cup {0}]
  /\ p \in [1 .. LastNode -> Sizes]
  /\ reqs \in [Node -> SUBSET Nat]
  /\ peer \in [Node -> Nat \cup {NoPeer}]
  /\ reply \in [Node -> Slots \cup {NoReply, Welcome}]
  /\ spc \in [Node -> SlavePC]
  /\ inc \in [Node -> Nat]
  /\ slot \in [Node -> Nat]

TypeOK == SchedulerTypeOK /\ DataTypeOK

Init ==
  /\ mpc = "Hello" /\ k = 2 /\ pri = 0
  /\ tAlloc = [n \in Node |-> IdleSlot]
  /\ p = [n \in 1 .. LastNode |-> 0]
  /\ reqs = [n \in Node |-> {}]
  /\ peer = [n \in Node |-> NoPeer]
  /\ reply = [n \in Node |-> NoReply]
  /\ spc = [n \in Node |-> "Hello"]
  /\ inc = [n \in Node |-> 0]
  /\ slot = [n \in Node |-> 0]

-----------------------------------------------------------------------------
(* The REQ/REP socket pair of a node.                                      *)

\* The slave sends: its REQ socket has no request under way.
SendReq(n) == reqs' = [reqs EXCEPT ![n] = @ \cup {inc[n]}]

\* The master receives the oldest request; a process has one at most, so the
\* oldest is the one of the lowest incarnation.
RecvFrom(n) ==
  /\ reqs[n] # {}
  /\ \E r \in reqs[n] :
       /\ \A q \in reqs[n] : r <= q
       /\ peer' = [peer EXCEPT ![n] = r]
       /\ reqs' = [reqs EXCEPT ![n] = @ \ {r}]

\* The master answers; the answer to a process that is gone is dropped.
ReplyTo(n, msg) ==
  reply' = IF peer[n] = inc[n] /\ spc[n] # "Down"
             THEN [reply EXCEPT ![n] = msg]
             ELSE reply

\* for each node in turn: stay at mpc for the next one, go on after the last.
Advance(there) ==
  IF k < LastNode
    THEN k' = k + 1 /\ mpc' = mpc
    ELSE k' = 2 /\ mpc' = there

-----------------------------------------------------------------------------
(* send_config: the handshake with every node, in order.                   *)

RecvHello ==
  /\ mpc = "Hello"
  /\ RecvFrom(k)
  /\ Advance("Welcome")
  /\ UNCHANGED <<pri, tAlloc, p, reply, spc, inc, slot>>

SendWelcome ==
  /\ mpc = "Welcome"
  /\ ReplyTo(k, Welcome)
  /\ Advance("Ready")
  /\ UNCHANGED <<pri, tAlloc, p, reqs, peer, spc, inc, slot>>

RecvReady ==
  /\ mpc = "Ready"
  /\ RecvFrom(k)
  /\ Advance("Beacon")
  /\ UNCHANGED <<pri, tAlloc, p, reply, spc, inc, slot>>

(* send_config: the cycle.                                                 *)

PublishBeacon ==
  /\ mpc = "Beacon"
  /\ mpc' = "Check" /\ k' = 1
  /\ UNCHANGED <<pri, tAlloc, p, reqs, peer, reply, spc, inc, slot>>

\* A mistake the checks must notice: the search leaves out the last node.
SuccOffByOne(x) == IF x + 1 >= LastNode THEN 2 ELSE x + 1

Succ(x) == IF x + 1 > LastNode THEN 2 ELSE x + 1

\* A mistake the checks must notice: the search always starts at node 2.
CheckFoundFromFirst ==
  /\ mpc = "Check"
  /\ p[k] # 0
  /\ mpc' = "Search" /\ k' = 2
  /\ pri' = 2
  /\ UNCHANGED <<tAlloc, p, reqs, peer, reply, spc, inc, slot>>

\* One step of the scan for a node with data; process_report runs meanwhile.
CheckFound ==
  /\ mpc = "Check"
  /\ p[k] # 0
  /\ mpc' = "Search" /\ k' = 2
  /\ pri' = Succ(pri)
  /\ UNCHANGED <<tAlloc, p, reqs, peer, reply, spc, inc, slot>>

\* A mistake the checks must notice: the allocation loop leaves out the last node.
CheckNothingOffByOne ==
  /\ mpc = "Check"
  /\ p[k] = 0
  /\ Advance("Serve")
  /\ tAlloc' = IF k < LastNode THEN tAlloc
               ELSE [n \in Node |-> IF n = LastNode THEN tAlloc[n] ELSE IdleSlot]
  /\ UNCHANGED <<pri, p, reqs, peer, reply, spc, inc, slot>>

\* Nobody has data: after the last node every node gets an idle slot.
CheckNothing ==
  /\ mpc = "Check"
  /\ p[k] = 0
  /\ Advance("Serve")
  /\ tAlloc' = IF k < LastNode THEN tAlloc ELSE [n \in Node |-> IdleSlot]
  /\ UNCHANGED <<pri, p, reqs, peer, reply, spc, inc, slot>>

\* while (p[pri] <= 0) pri++: nothing ends the search but a node with data.
SearchNext ==
  /\ mpc = "Search"
  /\ p[pri] <= 0
  /\ pri' = Succ(pri)
  /\ UNCHANGED <<mpc, k, tAlloc, p, reqs, peer, reply, spc, inc, slot>>

SearchHit ==
  /\ mpc = "Search"
  /\ p[pri] > 0
  /\ tAlloc' = [n \in Node |-> IF n = pri THEN BusySlot ELSE 0]
  /\ mpc' = "Serve" /\ k' = 2
  /\ UNCHANGED <<pri, p, reqs, peer, reply, spc, inc, slot>>

SkipNode ==
  /\ mpc = "Serve"
  /\ tAlloc[k] = 0
  /\ Advance("Beacon")
  /\ UNCHANGED <<pri, tAlloc, p, reqs, peer, reply, spc, inc, slot>>

\* A mistake the checks must notice: the grant is sent and not waited for.
SendGrantAndGoOn ==
  /\ mpc = "Serve"
  /\ tAlloc[k] # 0
  /\ ReplyTo(k, tAlloc[k])
  /\ Advance("Beacon")
  /\ UNCHANGED <<pri, tAlloc, p, reqs, peer, spc, inc, slot>>

SendGrant ==
  /\ mpc = "Serve"
  /\ tAlloc[k] # 0
  /\ ReplyTo(k, tAlloc[k])
  /\ mpc' = "AwaitAck"
  /\ UNCHANGED <<k, pri, tAlloc, p, reqs, peer, spc, inc, slot>>

\* A mistake the checks must notice: a receive that does not block.
RecvAckNoWait ==
  /\ mpc = "AwaitAck"
  /\ IF reqs[k] = {} THEN UNCHANGED <<reqs, peer>> ELSE RecvFrom(k)
  /\ IF k < LastNode
       THEN k' = k + 1 /\ mpc' = "Serve"
       ELSE k' = 2 /\ mpc' = "Beacon"
  /\ UNCHANGED <<pri, tAlloc, p, reply, spc, inc, slot>>

RecvAck ==
  /\ mpc = "AwaitAck"
  /\ RecvFrom(k)
  /\ IF k < LastNode
       THEN k' = k + 1 /\ mpc' = "Serve"
       ELSE k' = 2 /\ mpc' = "Beacon"
  /\ UNCHANGED <<pri, tAlloc, p, reply, spc, inc, slot>>

Master ==
  \/ RecvHello \/ SendWelcome \/ RecvReady
  \/ PublishBeacon \/ CheckFound \/ CheckNothing
  \/ SearchNext \/ SearchHit
  \/ SkipNode \/ SendGrant \/ RecvAck

(* process_report is started after the hellos; report_task of a node after *)
(* its handshake, and its last report may still arrive after a crash.      *)
Reporting(n) == inc[n] > 0 \/ spc[n] \notin {"Hello", "AwaitWelcome", "Ready"}

ProcessReport(n, size) ==
  /\ mpc # "Hello"
  /\ Reporting(n)
  /\ p' = [p EXCEPT ![n] = size]
  /\ UNCHANGED <<masterVars, reqs, peer, reply, spc, inc, slot>>

-----------------------------------------------------------------------------
(* A slave: main up to the start of recv_config, then recv_config.         *)

\* A mistake the checks must notice: recv_config is started without waiting for
\* the welcome.
SendHelloNoWelcome(n) ==
  /\ spc[n] = "Hello"
  /\ SendReq(n)
  /\ spc' = [spc EXCEPT ![n] = "AwaitGrant"]
  /\ UNCHANGED <<masterVars, p, peer, reply, inc, slot>>

SendHello(n) ==
  /\ spc[n] = "Hello"
  /\ SendReq(n)
  /\ spc' = [spc EXCEPT ![n] = "AwaitWelcome"]
  /\ UNCHANGED <<masterVars, p, peer, reply, inc, slot>>

\* A mistake the checks must notice: the handshake insists on the welcome.
RecvWelcomeStrict(n) ==
  /\ spc[n] = "AwaitWelcome"
  /\ reply[n] = Welcome
  /\ reply' = [reply EXCEPT ![n] = NoReply]
  /\ spc' = [spc EXCEPT ![n] = "Ready"]
  /\ UNCHANGED <<masterVars, p, reqs, peer, inc, slot>>

\* Whatever the answer says: main does not look at config2.
RecvWelcome(n) ==
  /\ spc[n] = "AwaitWelcome"
  /\ reply[n] # NoReply
  /\ reply' = [reply EXCEPT ![n] = NoReply]
  /\ spc' = [spc EXCEPT ![n] = "Ready"]
  /\ UNCHANGED <<masterVars, p, reqs, peer, inc, slot>>

\* A mistake the checks must notice: recv_config is started, the "ready" is not sent.
SendReadyNot(n) ==
  /\ spc[n] = "Ready"
  /\ spc' = [spc EXCEPT ![n] = "AwaitGrant"]
  /\ UNCHANGED <<masterVars, p, reqs, peer, reply, inc, slot>>

SendReady(n) ==
  /\ spc[n] = "Ready"
  /\ SendReq(n)
  /\ spc' = [spc EXCEPT ![n] = "AwaitGrant"]
  /\ UNCHANGED <<masterVars, p, peer, reply, inc, slot>>

RecvGrant(n) ==
  /\ spc[n] = "AwaitGrant"
  /\ reply[n] # NoReply
  /\ slot' = [slot EXCEPT ![n] = reply[n]]
  /\ reply' = [reply EXCEPT ![n] = NoReply]
  /\ spc' = [spc EXCEPT ![n] = "Run"]
  /\ UNCHANGED <<masterVars, p, reqs, peer, inc>>

Tick(n) ==
  /\ spc[n] = "Run"
  /\ slot[n] > 0
  /\ slot' = [slot EXCEPT ![n] = @ - 1]
  /\ UNCHANGED <<masterVars, p, reqs, peer, reply, spc, inc>>

\* A mistake the checks must notice: the acknowledgement is sent at once.
SendAckEarly(n) ==
  /\ spc[n] = "Run"
  /\ SendReq(n)
  /\ spc' = [spc EXCEPT ![n] = "AwaitGrant"]
  /\ UNCHANGED <<masterVars, p, peer, reply, inc, slot>>

SendAck(n) ==
  /\ spc[n] = "Run"
  /\ slot[n] <= 0
  /\ slot' = [slot EXCEPT ![n] = 0]
  /\ SendReq(n)
  /\ spc' = [spc EXCEPT ![n] = "AwaitGrant"]
  /\ UNCHANGED <<masterVars, p, peer, reply, inc>>

Slave(n) ==
  \/ SendHello(n) \/ RecvWelcome(n) \/ SendReady(n)
  \/ RecvGrant(n) \/ Tick(n) \/ SendAck(n)

\* report_task ends the slot when the transfer it announced is complete.
EarlyStop(n) ==
  /\ spc[n] \in {"AwaitGrant", "Run"}
  /\ slot[n] > 0
  /\ slot' = [slot EXCEPT ![n] = 0]
  /\ UNCHANGED <<masterVars, p, reqs, peer, reply, spc, inc>>

(* The process dies (it exits on any read or write error); a request that  *)
(* the network still carries may be lost with it.                          *)
Crash(n) ==
  /\ spc[n] # "Down"
  /\ inc[n] < MaxInc
  /\ spc' = [spc EXCEPT ![n] = "Down"]
  /\ \/ reqs' = [reqs EXCEPT ![n] = @ \ {inc[n]}]
     \/ reqs' = reqs
  /\ reply' = [reply EXCEPT ![n] = NoReply]
  /\ slot' = [slot EXCEPT ![n] = 0]
  /\ UNCHANGED <<masterVars, p, peer, inc>>

Restart(n) ==
  /\ spc[n] = "Down"
  /\ spc' = [spc EXCEPT ![n] = "Hello"]
  /\ inc' = [inc EXCEPT ![n] = @ + 1]
  /\ UNCHANGED <<masterVars, p, reqs, peer, reply, slot>>

Next ==
  \/ Master
  \/ \E n \in Node :
       \/ \E size \in Sizes : ProcessReport(n, size)
       \/ Slave(n) \/ EarlyStop(n)
       \/ Crash(n) \/ Restart(n)

Spec == Init /\ [][Next]_vars

\* The threads of the master and of the slaves are scheduled and ZeroMQ
\* delivers; an operator (or the start script) starts a dead slave again.
\* Nothing forces a report or an early stop.
FairSpec ==
  /\ Spec
  /\ WF_vars(Master)
  /\ \A n \in Node : WF_vars(Slave(n)) /\ WF_vars(Restart(n))

-----------------------------------------------------------------------------
(* What the protocol promises.                                             *)

\* At no time are the slots of two nodes open: the shared radio channel is
\* used by one node, through crashes, restarts and stale requests as well.
SlotExclusive ==
  \A m, n \in Node : slot[m] > 0 /\ slot[n] > 0 => m = n

\* recv_config splits what it receives at a comma and calls atoi on the second
\* part; the "1" of the handshake has none. It never reaches recv_config, also
\* when the hello of a restarted slave is taken for an answer.
GrantsParse ==
  \A n \in Node : reply[n] = Welcome => spc[n] = "AwaitWelcome"

\* The scheduler and a slave never wait for each other: while the scheduler waits
\* for a message of node k and none is there, k's controller is not waiting too,
\* unless its answer is on the way; neither receive of the code has a timeout.
NoMutualWait ==
  mpc \in {"Hello", "Ready", "AwaitAck"} /\ reqs[k] = {}
    /\ spc[k] \in {"AwaitWelcome", "AwaitGrant"} => reply[k] # NoReply

\* The REP socket of n has received and must send before it receives again.
Owes(n) ==
  \/ mpc = "Hello" /\ n < k
  \/ mpc = "Welcome" /\ n >= k
  \/ mpc = "Ready" /\ n < k
  \/ mpc \in Loop /\ ~(mpc = "AwaitAck" /\ k = n)

\* The master has sent n, or an earlier incarnation of n, its welcome.
Welcomed(n) ==
  \/ mpc \in Loop \cup {"Ready"}
  \/ mpc = "Welcome" /\ n < k

\* Where the one request of the living incarnation of n can be.
Pending(n) ==
  inc[n] \in reqs[n] /\ reply[n] = NoReply /\ (peer[n] = inc[n] => ~Owes(n))
Taken(n) ==
  inc[n] \notin reqs[n] /\ reply[n] = NoReply /\ peer[n] = inc[n] /\ Owes(n)
Replied(n) ==
  inc[n] \notin reqs[n] /\ reply[n] # NoReply /\ peer[n] = inc[n] /\ ~Owes(n)
Answered(n) ==
  inc[n] \notin reqs[n] /\ reply[n] = NoReply /\ peer[n] = inc[n] /\ ~Owes(n)

RequestInv(n) ==
  /\ peer[n] <= inc[n]
  /\ \A r \in reqs[n] : peer[n] <= r /\ r <= inc[n]
  /\ spc[n] = "Hello" => inc[n] \notin reqs[n] /\ peer[n] < inc[n]
  /\ spc[n] \in {"AwaitWelcome", "AwaitGrant"} =>
       Pending(n) \/ Taken(n) \/ Replied(n)
  /\ spc[n] \in {"Ready", "Run"} => Answered(n)

PhaseInv(n) ==
  /\ spc[n] \in {"Ready", "AwaitGrant", "Run"} \/ reply[n] # NoReply =>
       Welcomed(n)
  /\ reply[n] # NoReply => spc[n] \in {"AwaitWelcome", "AwaitGrant"}
  /\ reply[n] = Welcome => spc[n] = "AwaitWelcome"
  /\ reply[n] > 0 => mpc \in Loop
  /\ slot[n] > 0 => spc[n] = "Run"
  /\ spc[n] = "Run" => mpc \in Loop

\* The request of every living slave is in exactly one place, and the place
\* agrees with where the slave and the scheduler are: what makes the properties
\* above inductive.
RequestsInPlace == \A n \in Node : RequestInv(n) /\ PhaseInv(n)
IInv == TypeOK /\ RequestsInPlace

\* The scheduler and the slaves together are a token passed around: it is
\* granted only when free, and comes back only after the slot has closed.
Token == INSTANCE SlotToken WITH
  Nodes <- Node, NoNode <- 0,
  holder <- IF mpc = "AwaitAck" THEN k ELSE 0,
  active <- {n \in Node : slot[n] > 0}

TokenSpec == Token!Spec

\* Every slave does with its slot what the threads of Forwarder do with theirs.
Phase == [n \in Node |-> IF spc[n] = "Run" THEN "run" ELSE "idle"]

Clients == INSTANCE SlotClient WITH
  Client <- Node, Lengths <- Slots, phase <- Phase, left <- slot

ClientSpec == Clients!Spec

\* A node that keeps having data is served again and again: the search goes on
\* from the node that was served last, so nobody is passed over forever.
NoStarvation ==
  \A n \in Node : []<>(p[n] <= 0 \/ slot[n] > 0)

\* The scheduler waits without a timeout for the answer of the node it granted;
\* when the node dies, the hello of its next incarnation ends the wait.
AckArrives ==
  \A n \in Node : mpc = "AwaitAck" /\ k = n ~> ~(mpc = "AwaitAck" /\ k = n)

\* Once all nodes report that they have nothing left, either all of them keep
\* getting idle slots or the scheduler hangs in its search (the last size was
\* reported as 0 between its scan and its search).
IdleOrHung ==
  <>[](\A n \in Node : p[n] = 0) =>
    \/ <>[](mpc = "Search")
    \/ \A n \in Node : []<>(slot[n] > 0)
=============================================================================
