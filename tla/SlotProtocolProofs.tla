------------------------- MODULE SlotProtocolProofs -------------------------
(***************************************************************************)
(* Proofs about SlotProtocol for every number of slaves, every slot length *)
(* and every number of crashes: type correctness, the inductive invariant, *)
(* exclusive slots, and that the protocol implements SlotToken.            *)
(***************************************************************************)
EXTENDS SlotProtocol, TLAPS

\* Outside the scan of p, which starts at the master's own entry, the loop
\* index of send_config names a slave.
LEMMA IndexIsNode == ASSUME SchedulerTypeOK, mpc # "Check" PROVE k \in Node
BY LastNodeAssumption DEF SchedulerTypeOK, Node

\* One turn of a loop over the nodes leaves the index in the array.
LEMMA AdvanceType ==
  ASSUME NEW there \in {"Welcome", "Ready", "Beacon", "Serve"},
         SchedulerTypeOK, Advance(there), pri' = pri,
         mpc \in {"Hello", "Welcome", "Ready", "Check", "Serve"}
  PROVE  SchedulerTypeOK'
BY LastNodeAssumption DEF Advance, SchedulerTypeOK, MasterPC, Loop

LEMMA SuccType ==
  ASSUME NEW x \in 0 .. LastNode PROVE Succ(x) \in 1 .. LastNode
BY LastNodeAssumption DEF Succ

\* The sockets carry what their types say.
LEMMA RecvType ==
  ASSUME NEW n \in Node, DataTypeOK, RecvFrom(n)
  PROVE  /\ reqs' \in [Node -> SUBSET Nat]
         /\ peer' \in [Node -> Nat \cup {NoPeer}]
BY DEF RecvFrom, DataTypeOK

LEMMA ReplyType ==
  ASSUME NEW n \in Node, NEW msg \in Slots \cup {Welcome}, DataTypeOK,
         ReplyTo(n, msg)
  PROVE  reply' \in [Node -> Slots \cup {NoReply, Welcome}]
BY DEF ReplyTo, DataTypeOK

LEMMA SendType ==
  ASSUME NEW n \in Node, DataTypeOK, SendReq(n)
  PROVE  reqs' \in [Node -> SUBSET Nat]
BY DEF SendReq, DataTypeOK

LEMMA SlotIsNat == \A s \in Slots : s \in Nat /\ s > 0
BY SlotAssumption DEF Slots

LEMMA TypeInit == Init => TypeOK
<1> SUFFICES ASSUME Init PROVE TypeOK
  OBVIOUS
<1>1. SchedulerTypeOK
  BY LastNodeAssumption DEF Init, SchedulerTypeOK, MasterPC
<1>2. DataTypeOK
  BY SizesAssumption DEF Init, DataTypeOK, Slots, SlavePC
<1>3. QED
  BY <1>1, <1>2 DEF TypeOK

LEMMA TypeStep == TypeOK /\ [Next]_vars => TypeOK'
<1> SUFFICES ASSUME SchedulerTypeOK, DataTypeOK, [Next]_vars
             PROVE  SchedulerTypeOK' /\ DataTypeOK'
  BY DEF TypeOK
<1>1. CASE RecvHello
  BY <1>1, IndexIsNode, AdvanceType, RecvType DEF RecvHello, DataTypeOK
<1>2. CASE SendWelcome
  BY <1>2, IndexIsNode, AdvanceType, ReplyType DEF SendWelcome, DataTypeOK
<1>3. CASE RecvReady
  BY <1>3, IndexIsNode, AdvanceType, RecvType DEF RecvReady, DataTypeOK
<1>4. CASE PublishBeacon
  BY <1>4, LastNodeAssumption
     DEF PublishBeacon, DataTypeOK, SchedulerTypeOK, MasterPC, Loop
<1>5. CASE CheckFound
  <2>1. DataTypeOK'
    BY <1>5 DEF CheckFound, DataTypeOK
  <2>2. pri' \in 1 .. LastNode
    BY <1>5, SuccType DEF CheckFound, SchedulerTypeOK
  <2>3. QED
    BY <1>5, <2>1, <2>2, LastNodeAssumption
       DEF CheckFound, SchedulerTypeOK, MasterPC, Loop
<1>6. CASE CheckNothing
  <2>1. tAlloc' \in [Node -> Slots \cup {0}]
    BY <1>6 DEF CheckNothing, DataTypeOK, Slots
  <2>2. QED
    BY <1>6, <2>1, AdvanceType DEF CheckNothing, DataTypeOK
<1>7. CASE SearchNext
  <2>1. DataTypeOK'
    BY <1>7 DEF SearchNext, DataTypeOK
  <2>2. pri' \in 1 .. LastNode
    BY <1>7, SuccType DEF SearchNext, SchedulerTypeOK
  <2>3. QED
    BY <1>7, <2>1, <2>2, LastNodeAssumption DEF SearchNext, SchedulerTypeOK
<1>8. CASE SearchHit
  <2>1. tAlloc' \in [Node -> Slots \cup {0}]
    BY <1>8 DEF SearchHit, Slots
  <2>2. DataTypeOK'
    BY <1>8, <2>1 DEF SearchHit, DataTypeOK
  <2>3. QED
    BY <1>8, <2>2, LastNodeAssumption
       DEF SearchHit, SchedulerTypeOK, MasterPC, Loop
<1>9. CASE SkipNode
  BY <1>9, AdvanceType DEF SkipNode, DataTypeOK
<1>10. CASE SendGrant
  <2>1. k \in Node
    BY <1>10, IndexIsNode DEF SendGrant
  <2>2. tAlloc[k] \in Slots \cup {Welcome}
    BY <1>10, <2>1 DEF SendGrant, DataTypeOK
  <2>3. DataTypeOK'
    BY <1>10, <2>1, <2>2, ReplyType DEF SendGrant, DataTypeOK
  <2>4. QED
    BY <1>10, <2>3 DEF SendGrant, SchedulerTypeOK, MasterPC, Loop
<1>11. CASE RecvAck
  <2>1. DataTypeOK'
    BY <1>11, IndexIsNode, RecvType DEF RecvAck, DataTypeOK
  <2>2. QED
    BY <1>11, <2>1, LastNodeAssumption
       DEF RecvAck, SchedulerTypeOK, MasterPC, Loop
<1>12. ASSUME NEW n \in Node, NEW size \in Sizes, ProcessReport(n, size)
       PROVE  SchedulerTypeOK' /\ DataTypeOK'
  BY <1>12 DEF ProcessReport, masterVars, SchedulerTypeOK, DataTypeOK
<1>13. ASSUME NEW n \in Node, Slave(n)
       PROVE  SchedulerTypeOK' /\ DataTypeOK'
  <2>1. SchedulerTypeOK'
    BY <1>13 DEF Slave, SendHello, RecvWelcome, SendReady, RecvGrant, Tick,
                 SendAck, masterVars, SchedulerTypeOK
  <2>2. CASE SendHello(n)
    BY <2>2, <2>1, SendType DEF SendHello, masterVars, DataTypeOK, SlavePC
  <2>3. CASE RecvWelcome(n)
    BY <2>3, <2>1 DEF RecvWelcome, masterVars, DataTypeOK, SlavePC
  <2>4. CASE SendReady(n)
    BY <2>4, <2>1, SendType DEF SendReady, masterVars, DataTypeOK, SlavePC
  <2>5. CASE RecvGrant(n)
    <3>1. reply[n] \in Nat
      <4>1. reply[n] \in Slots \cup {NoReply, Welcome}
        BY DEF DataTypeOK
      <4>2. reply[n] # NoReply
        BY <2>5 DEF RecvGrant
      <4>3. reply[n] \in Slots \/ reply[n] = 0
        BY <4>1, <4>2 DEF Welcome
      <4>4. QED
        BY <4>3, SlotIsNat
    <3>2. slot' \in [Node -> Nat]
      BY <2>5, <3>1 DEF RecvGrant, DataTypeOK
    <3>3. QED
      BY <2>1, <2>5, <3>2 DEF RecvGrant, masterVars, DataTypeOK, SlavePC
  <2>6. CASE Tick(n)
    BY <2>6, <2>1 DEF Tick, masterVars, DataTypeOK
  <2>7. CASE SendAck(n)
    BY <2>7, <2>1, SendType DEF SendAck, masterVars, DataTypeOK, SlavePC
  <2>8. QED
    BY <1>13, <2>1, <2>2, <2>3, <2>4, <2>5, <2>6, <2>7 DEF Slave
<1>14. ASSUME NEW n \in Node, EarlyStop(n) \/ Crash(n) \/ Restart(n)
       PROVE  SchedulerTypeOK' /\ DataTypeOK'
  <2>1. SchedulerTypeOK'
    BY <1>14 DEF EarlyStop, Crash, Restart, masterVars, SchedulerTypeOK
  <2>2. CASE EarlyStop(n)
    BY <2>2, <2>1 DEF EarlyStop, masterVars, DataTypeOK
  <2>3. CASE Crash(n)
    BY <2>3, <2>1 DEF Crash, masterVars, DataTypeOK, SlavePC
  <2>4. CASE Restart(n)
    BY <2>4, <2>1 DEF Restart, masterVars, DataTypeOK, SlavePC
  <2>5. QED
    BY <1>14, <2>1, <2>2, <2>3, <2>4
<1>15. CASE UNCHANGED vars
  BY <1>15 DEF vars, SchedulerTypeOK, DataTypeOK
<1>16. QED
  BY <1>1, <1>2, <1>3, <1>4, <1>5, <1>6, <1>7, <1>8, <1>9, <1>10, <1>11,
     <1>12, <1>13, <1>14, <1>15 DEF Next, Master

\* The variables keep the types of the code's variables: no index of p, of
\* tAlloc or of a socket ever leaves its array, in the search loop above all.
THEOREM TypeCorrect == Spec => []TypeOK
BY TypeInit, TypeStep, PTL DEF Spec

-----------------------------------------------------------------------------
(* The inductive invariant.  What a node's part of it says depends on the  *)
(* node's own entries and on three facts about the scheduler: whether it   *)
(* owes the node an answer, whether it has welcomed it, and whether it is  *)
(* past the handshake.                                                     *)

\* A step that leaves all of this alone for n leaves n's part alone.
LEMMA Frame ==
  ASSUME NEW n \in Node, RequestInv(n), PhaseInv(n),
         reqs'[n] = reqs[n], peer'[n] = peer[n], reply'[n] = reply[n],
         spc'[n] = spc[n], inc'[n] = inc[n], slot'[n] = slot[n],
         Owes(n)' <=> Owes(n), Welcomed(n) => Welcomed(n)',
         mpc \in Loop => mpc' \in Loop
  PROVE  RequestInv(n)' /\ PhaseInv(n)'
<1>1. RequestInv(n)'
  BY DEF RequestInv, Pending, Taken, Replied, Answered
<1>2. PhaseInv(n)'
  BY DEF PhaseInv
<1>3. QED
  BY <1>1, <1>2

\* The scheduler receives from n: it takes the oldest request, and that is the
\* one of the living incarnation only when no older one is left.
LEMMA RecvStep ==
  ASSUME NEW n \in Node, DataTypeOK, RequestInv(n), PhaseInv(n),
         RecvFrom(n), ~Owes(n), Owes(n)',
         reply' = reply, spc' = spc, inc' = inc, slot' = slot,
         Welcomed(n) => Welcomed(n)', mpc \in Loop => mpc' \in Loop
  PROVE  RequestInv(n)' /\ PhaseInv(n)'
<1>1. PICK r \in reqs[n] :
        /\ \A q \in reqs[n] : r <= q
        /\ peer' = [peer EXCEPT ![n] = r]
        /\ reqs' = [reqs EXCEPT ![n] = @ \ {r}]
  BY DEF RecvFrom
<1>2. /\ r \in Nat /\ inc[n] \in Nat /\ peer[n] \in Int
      /\ reqs[n] \subseteq Nat
      /\ peer'[n] = r /\ reqs'[n] = reqs[n] \ {r}
  BY <1>1 DEF DataTypeOK, NoPeer
<1>3. peer[n] <= r /\ r <= inc[n]
  BY <1>1 DEF RequestInv
<1>4. \A q \in reqs[n] \ {r} : r <= q /\ q <= inc[n]
  BY <1>1 DEF RequestInv
<1>5. spc[n] = "Hello" => inc[n] \notin reqs'[n] /\ r < inc[n]
  BY <1>1, <1>2, <1>3 DEF RequestInv
<1>6. ~Answered(n) /\ ~Replied(n)
  BY <1>1, <1>2, <1>3 DEF Answered, Replied
<1>7. ASSUME spc[n] \in {"AwaitWelcome", "AwaitGrant"}
      PROVE  Pending(n)' \/ Taken(n)'
  <2>1. Pending(n)
    BY <1>6, <1>7 DEF RequestInv, Taken
  <2>2. QED
    BY <1>2, <2>1 DEF Pending, Taken
<1>8. RequestInv(n)'
  BY <1>2, <1>3, <1>4, <1>5, <1>6, <1>7 DEF RequestInv
<1>9. PhaseInv(n)'
  BY DEF PhaseInv
<1>10. QED
  BY <1>8, <1>9

\* The scheduler answers n: either the living incarnation waits for it, or the
\* answer is dropped.
LEMMA ReplyStep ==
  ASSUME NEW n \in Node, NEW msg \in Slots \cup {Welcome},
         DataTypeOK, RequestInv(n), PhaseInv(n),
         ReplyTo(n, msg), Owes(n), ~Owes(n)',
         reqs' = reqs, peer' = peer, spc' = spc, inc' = inc, slot' = slot,
         Welcomed(n)', mpc \in Loop => mpc' \in Loop,
         msg = Welcome => ~Welcomed(n), msg # Welcome => mpc' \in Loop
  PROVE  RequestInv(n)' /\ PhaseInv(n)'
<1>1. spc[n] \notin {"Ready", "Run"}
  BY DEF RequestInv, Answered
<1>2. CASE peer[n] = inc[n] /\ spc[n] # "Down"
  <2>1. reply'[n] = msg
    BY <1>2 DEF ReplyTo, DataTypeOK
  <2>2. spc[n] \in {"AwaitWelcome", "AwaitGrant"}
    <3>1. inc[n] \in Nat
      BY DEF DataTypeOK
    <3>2. spc[n] # "Hello"
      BY <1>2, <3>1 DEF RequestInv
    <3>3. spc[n] \in SlavePC
      BY DEF DataTypeOK
    <3>4. QED
      BY <1>1, <1>2, <3>2, <3>3 DEF SlavePC
  <2>3. Taken(n)
    BY <1>2, <2>2 DEF RequestInv, Pending, Replied
  <2>4. msg = Welcome => spc[n] = "AwaitWelcome"
    BY <2>2 DEF PhaseInv
  <2>5. msg # NoReply /\ (msg = Welcome \/ msg > 0)
    BY SlotIsNat DEF NoReply, Welcome
  <2>6. Replied(n)'
    BY <2>1, <2>3, <2>5 DEF Taken, Replied
  <2>7. RequestInv(n)'
    BY <2>2, <2>6 DEF RequestInv
  <2>8. PhaseInv(n)'
    BY <2>1, <2>2, <2>4, <2>5 DEF PhaseInv, Welcome
  <2>9. QED
    BY <2>7, <2>8
<1>3. CASE ~(peer[n] = inc[n] /\ spc[n] # "Down")
  <2>1. reply' = reply
    BY <1>3 DEF ReplyTo
  <2>2. spc[n] # "Down" => ~Taken(n)
    BY <1>3 DEF Taken
  <2>3. RequestInv(n)'
    BY <2>1, <2>2, <1>1 DEF RequestInv, Pending, Replied
  <2>4. PhaseInv(n)'
    BY <2>1 DEF PhaseInv
  <2>5. QED
    BY <2>3, <2>4
<1>4. QED
  BY <1>2, <1>3

\* What each turn of the scheduler's loops does to the nodes other than k.
LEMMA OthersKeep ==
  ASSUME SchedulerTypeOK, SchedulerTypeOK', NEW n \in Node, n # k,
         \/ mpc = "Hello" /\ Advance("Welcome")
         \/ mpc = "Welcome" /\ Advance("Ready")
         \/ mpc = "Ready" /\ Advance("Beacon")
  PROVE  /\ Owes(n)' <=> Owes(n)
         /\ Welcomed(n) => Welcomed(n)'
         /\ mpc \in Loop => mpc' \in Loop
BY LastNodeAssumption
   DEF Advance, Owes, Welcomed, Loop, SchedulerTypeOK, Node

LEMMA IInvMaster ==
  ASSUME TypeOK, TypeOK', RequestsInPlace, Master
  PROVE  RequestsInPlace'
<1> SUFFICES ASSUME NEW n \in Node PROVE RequestInv(n)' /\ PhaseInv(n)'
  BY DEF RequestsInPlace
<1> USE DEF TypeOK
<1>0. RequestInv(n) /\ PhaseInv(n)
  BY DEF RequestsInPlace
<1>1. ASSUME NEW m \in Node, RecvFrom(m), m # n
      PROVE  reqs'[n] = reqs[n] /\ peer'[n] = peer[n]
  BY <1>1 DEF RecvFrom, DataTypeOK
<1>2. ASSUME NEW m \in Node, NEW msg, ReplyTo(m, msg), m # n
      PROVE  reply'[n] = reply[n]
  BY <1>2 DEF ReplyTo, DataTypeOK
<1>3. CASE RecvHello
  <2>1. CASE n = k
    <3>1. ~Owes(n) /\ Owes(n)' /\ (Welcomed(n) => Welcomed(n)')
      BY <1>3, <2>1, LastNodeAssumption
         DEF RecvHello, Advance, Owes, Welcomed, Loop, SchedulerTypeOK, Node
    <3>2. QED
      BY <1>0, <1>3, <2>1, <3>1, RecvStep DEF RecvHello, Loop
  <2>2. CASE n # k
    <3>1. k \in Node
      BY <1>3, IndexIsNode DEF RecvHello
    <3>2. QED
      BY <1>0, <1>1, <1>3, <2>2, <3>1, OthersKeep, Frame DEF RecvHello
  <2>3. QED
    BY <2>1, <2>2
<1>4. CASE SendWelcome
  <2>1. CASE n = k
    <3>1. /\ Owes(n) /\ ~Owes(n)' /\ ~Welcomed(n) /\ Welcomed(n)'
      BY <1>4, <2>1, LastNodeAssumption
         DEF SendWelcome, Advance, Owes, Welcomed, Loop, SchedulerTypeOK, Node
    <3>2. QED
      BY <1>0, <1>4, <2>1, <3>1, ReplyStep DEF SendWelcome, Loop
  <2>2. CASE n # k
    <3>1. k \in Node
      BY <1>4, IndexIsNode DEF SendWelcome
    <3>2. QED
      BY <1>0, <1>2, <1>4, <2>2, <3>1, OthersKeep, Frame DEF SendWelcome
  <2>3. QED
    BY <2>1, <2>2
<1>5. CASE RecvReady
  <2>1. CASE n = k
    <3>1. ~Owes(n) /\ Owes(n)' /\ (Welcomed(n) => Welcomed(n)')
      BY <1>5, <2>1, LastNodeAssumption
         DEF RecvReady, Advance, Owes, Welcomed, Loop, SchedulerTypeOK, Node
    <3>2. QED
      BY <1>0, <1>5, <2>1, <3>1, RecvStep DEF RecvReady, Loop
  <2>2. CASE n # k
    <3>1. k \in Node
      BY <1>5, IndexIsNode DEF RecvReady
    <3>2. QED
      BY <1>0, <1>1, <1>5, <2>2, <3>1, OthersKeep, Frame DEF RecvReady
  <2>3. QED
    BY <2>1, <2>2
<1>6. CASE \/ PublishBeacon \/ CheckFound \/ CheckNothing
           \/ SearchNext \/ SearchHit \/ SkipNode
  <2>1. /\ Owes(n)' <=> Owes(n)
        /\ Welcomed(n) => Welcomed(n)'
        /\ mpc \in Loop => mpc' \in Loop
    BY <1>6 DEF PublishBeacon, CheckFound, CheckNothing, SearchNext, SearchHit,
                SkipNode, Advance, Owes, Welcomed, Loop
  <2>2. QED
    BY <1>0, <1>6, <2>1, Frame
       DEF PublishBeacon, CheckFound, CheckNothing, SearchNext, SearchHit,
           SkipNode
<1>7. CASE SendGrant
  <2>1. k \in Node
    BY <1>7, IndexIsNode DEF SendGrant
  <2>2. Welcomed(n)' /\ mpc' \in Loop
    BY <1>7 DEF SendGrant, Welcomed, Loop
  <2>3. CASE n = k
    <3>1. Owes(n) /\ ~Owes(n)'
      BY <1>7, <2>3 DEF SendGrant, Owes, Loop
    <3>2. tAlloc[k] \in Slots \cup {Welcome} /\ tAlloc[k] # Welcome
      BY <1>7, <2>1 DEF SendGrant, DataTypeOK, Welcome
    <3>3. QED
      BY <1>0, <1>7, <2>2, <2>3, <3>1, <3>2, ReplyStep DEF SendGrant
  <2>4. CASE n # k
    <3>1. Owes(n)' <=> Owes(n)
      BY <1>7, <2>4 DEF SendGrant, Owes, Loop
    <3>2. QED
      BY <1>0, <1>2, <1>7, <2>1, <2>2, <2>4, <3>1, Frame DEF SendGrant
  <2>5. QED
    BY <2>3, <2>4
<1>8. CASE RecvAck
  <2>1. k \in Node
    BY <1>8, IndexIsNode DEF RecvAck
  <2>2. Welcomed(n)' /\ mpc' \in Loop
    BY <1>8 DEF RecvAck, Welcomed, Loop
  <2>3. CASE n = k
    <3>1. ~Owes(n) /\ Owes(n)'
      BY <1>8, <2>3 DEF RecvAck, Owes, Loop
    <3>2. QED
      BY <1>0, <1>8, <2>2, <2>3, <3>1, RecvStep DEF RecvAck
  <2>4. CASE n # k
    <3>1. Owes(n)' <=> Owes(n)
      BY <1>8, <2>4 DEF RecvAck, Owes, Loop
    <3>2. QED
      BY <1>0, <1>1, <1>8, <2>1, <2>2, <2>4, <3>1, Frame DEF RecvAck
  <2>5. QED
    BY <2>3, <2>4
<1>9. QED
  BY <1>3, <1>4, <1>5, <1>6, <1>7, <1>8 DEF Master

\* A step of node m changes nothing of another node and nothing of the
\* scheduler; it preserves m's own part.
LEMMA IInvNode ==
  ASSUME TypeOK, TypeOK', RequestsInPlace, NEW m \in Node,
         Slave(m) \/ EarlyStop(m) \/ Crash(m) \/ Restart(m)
  PROVE  RequestsInPlace'
<1> USE DEF TypeOK
<1>1. masterVars' = masterVars
  BY DEF Slave, SendHello, RecvWelcome, SendReady, RecvGrant, Tick, SendAck,
         EarlyStop, Crash, Restart
<1>2. mpc' = mpc /\ \A n \in Node : /\ Owes(n)' <=> Owes(n)
                                    /\ Welcomed(n)' <=> Welcomed(n)
  BY <1>1 DEF masterVars, Owes, Welcomed
<1>3. ASSUME NEW n \in Node, n # m PROVE RequestInv(n)' /\ PhaseInv(n)'
  <2>1. /\ reqs'[n] = reqs[n] /\ peer'[n] = peer[n] /\ reply'[n] = reply[n]
        /\ spc'[n] = spc[n] /\ inc'[n] = inc[n] /\ slot'[n] = slot[n]
    BY <1>3 DEF Slave, SendHello, RecvWelcome, SendReady, RecvGrant, Tick,
                SendAck, SendReq, EarlyStop, Crash, Restart, DataTypeOK
  <2>2. QED
    BY <1>2, <2>1, Frame DEF RequestsInPlace
<1>4. RequestInv(m) /\ PhaseInv(m)
  BY DEF RequestsInPlace
<1>5. /\ inc[m] \in Nat /\ peer[m] \in Int /\ reqs[m] \subseteq Nat
      /\ slot[m] \in Nat
      /\ spc[m] \in SlavePC /\ reply[m] \in Slots \cup {NoReply, Welcome}
  BY DEF DataTypeOK, NoPeer
<1>6. CASE SendHello(m) \/ SendReady(m) \/ SendAck(m)
  <2>1. /\ reqs'[m] = reqs[m] \cup {inc[m]} /\ slot'[m] = slot[m]
        /\ peer' = peer /\ reply' = reply /\ inc' = inc
    BY <1>5, <1>6 DEF SendHello, SendReady, SendAck, SendReq, DataTypeOK
  <2>2. /\ spc'[m] = IF SendHello(m) THEN "AwaitWelcome" ELSE "AwaitGrant"
        /\ spc[m] \in IF SendHello(m) THEN {"Hello"} ELSE {"Ready", "Run"}
        /\ slot[m] = 0
    BY <1>4, <1>5, <1>6 DEF SendHello, SendReady, SendAck, DataTypeOK, PhaseInv
  <2>3. Pending(m)'
    BY <1>2, <1>4, <1>5, <2>1, <2>2
       DEF Pending, RequestInv, Answered, PhaseInv
  <2>4. RequestInv(m)'
    BY <1>4, <1>5, <2>1, <2>2, <2>3 DEF RequestInv
  <2>5. PhaseInv(m)'
    BY <1>2, <1>4, <2>1, <2>2, <2>3 DEF PhaseInv, Pending, Welcome, NoReply
  <2>6. QED
    BY <1>3, <2>4, <2>5 DEF RequestsInPlace
<1>7. CASE RecvWelcome(m) \/ RecvGrant(m)
  <2>1. /\ reqs' = reqs /\ peer' = peer /\ inc' = inc
        /\ reply[m] # NoReply /\ reply'[m] = NoReply
        /\ slot'[m] = IF RecvWelcome(m) THEN slot[m] ELSE reply[m]
        /\ spc[m] = IF RecvWelcome(m) THEN "AwaitWelcome" ELSE "AwaitGrant"
        /\ spc'[m] = IF RecvWelcome(m) THEN "Ready" ELSE "Run"
    BY <1>7 DEF RecvWelcome, RecvGrant, DataTypeOK
  <2>2. Replied(m)
    BY <1>4, <2>1 DEF RequestInv, Pending, Taken
  <2>3. Answered(m)'
    BY <1>2, <2>1, <2>2 DEF Replied, Answered
  <2>4. RequestInv(m)'
    BY <1>4, <2>1, <2>3 DEF RequestInv
  <2>5. reply[m] = Welcome \/ reply[m] > 0
    <3>1. reply[m] \in Slots \/ reply[m] = Welcome
      BY <1>5, <2>1
    <3>2. QED
      BY <3>1, SlotIsNat
  <2>6. PhaseInv(m)'
    BY <1>2, <1>4, <1>5, <2>1, <2>5 DEF PhaseInv, Welcome, NoReply
  <2>7. QED
    BY <1>3, <2>4, <2>6 DEF RequestsInPlace
<1>8. CASE Tick(m) \/ EarlyStop(m)
  <2>1. /\ reqs' = reqs /\ peer' = peer /\ inc' = inc /\ reply' = reply
        /\ spc' = spc /\ slot[m] > 0
    BY <1>8 DEF Tick, EarlyStop
  <2>2. RequestInv(m)'
    BY <1>2, <1>4, <2>1
       DEF RequestInv, Pending, Taken, Replied, Answered
  <2>3. PhaseInv(m)'
    BY <1>2, <1>4, <2>1 DEF PhaseInv
  <2>4. QED
    BY <1>3, <2>2, <2>3 DEF RequestsInPlace
<1>9. CASE Crash(m)
  <2>1. /\ reqs'[m] \subseteq reqs[m] /\ peer' = peer /\ inc' = inc
        /\ reply'[m] = NoReply /\ spc'[m] = "Down" /\ slot'[m] = 0
    BY <1>9 DEF Crash, DataTypeOK
  <2>2. RequestInv(m)' /\ PhaseInv(m)'
    BY <1>2, <1>4, <2>1 DEF RequestInv, PhaseInv, NoReply, Welcome
  <2>3. QED
    BY <1>3, <2>2 DEF RequestsInPlace
<1>10. CASE Restart(m)
  <2>1. /\ reqs' = reqs /\ peer' = peer /\ inc'[m] = inc[m] + 1
        /\ reply' = reply /\ spc'[m] = "Hello" /\ slot' = slot
        /\ spc[m] = "Down"
    BY <1>10 DEF Restart, DataTypeOK
  <2>2. RequestInv(m)' /\ PhaseInv(m)'
    BY <1>2, <1>4, <1>5, <2>1 DEF RequestInv, PhaseInv, Welcome, NoReply
  <2>3. QED
    BY <1>3, <2>2 DEF RequestsInPlace
<1>11. QED
  BY <1>6, <1>7, <1>8, <1>9, <1>10 DEF Slave

LEMMA IInvInit == Init => RequestsInPlace
BY LastNodeAssumption
   DEF Init, RequestsInPlace, RequestInv, PhaseInv, Node, NoReply, Welcome, NoPeer

LEMMA IInvStep == TypeOK /\ TypeOK' /\ RequestsInPlace /\ [Next]_vars => RequestsInPlace'
<1> SUFFICES ASSUME TypeOK, TypeOK', RequestsInPlace, [Next]_vars PROVE RequestsInPlace'
  OBVIOUS
<1>1. ASSUME NEW m \in Node, NEW size \in Sizes, ProcessReport(m, size)
      PROVE  RequestsInPlace'
  BY <1>1 DEF ProcessReport, masterVars, RequestsInPlace, RequestInv, PhaseInv, Pending,
              Taken, Replied, Answered, Owes, Welcomed
<1>2. CASE UNCHANGED vars
  BY <1>2 DEF vars, RequestsInPlace, RequestInv, PhaseInv, Pending, Taken, Replied,
              Answered, Owes, Welcomed
<1>3. QED
  BY <1>1, <1>2, IInvMaster, IInvNode DEF Next

\* Every request of a living slave is in exactly one place, and the place
\* agrees with the control state of the slave and of send_config.
THEOREM InductiveInvariant == Spec => []IInv
<1>1. Init => IInv
  BY TypeInit, IInvInit DEF IInv
<1>2. IInv /\ [Next]_vars => IInv'
  BY TypeStep, IInvStep DEF IInv
<1>3. QED
  BY <1>1, <1>2, PTL DEF Spec

-----------------------------------------------------------------------------
\* A slot is open only at the node whose answer the scheduler waits for.
LEMMA OpenIsAwaited ==
  ASSUME RequestsInPlace, NEW n \in Node, slot[n] > 0
  PROVE  mpc = "AwaitAck" /\ k = n /\ inc[n] \notin reqs[n] /\ peer[n] = inc[n]
BY DEF RequestsInPlace, RequestInv, PhaseInv, Answered, Owes

\* The radio channel is never used by two nodes at a time: for every number of
\* nodes and crashes, with the scheduler's send and receive order as it is.
THEOREM Exclusive == Spec => []SlotExclusive
<1>1. IInv => SlotExclusive
  BY OpenIsAwaited DEF SlotExclusive, IInv
<1>2. QED
  BY <1>1, InductiveInvariant, PTL

\* recv_config never gets a message without a second part to convert.
THEOREM GrantsAlwaysParse == Spec => []GrantsParse
<1>1. IInv => GrantsParse
  BY DEF IInv, RequestsInPlace, PhaseInv, GrantsParse
<1>2. QED
  BY <1>1, InductiveInvariant, PTL

\* The scheduler and a slave never wait for each other's message at the same time.
THEOREM NeverMutualWait == Spec => []NoMutualWait
<1>1. IInv => NoMutualWait
  <2> SUFFICES ASSUME IInv, mpc \in {"Hello", "Ready", "AwaitAck"}, reqs[k] = {},
                      spc[k] \in {"AwaitWelcome", "AwaitGrant"}
               PROVE  reply[k] # NoReply
    BY DEF NoMutualWait
  <2>1. k \in Node
    BY IndexIsNode DEF IInv, TypeOK
  <2>2. ~Owes(k)
    BY <2>1 DEF Owes, Node, Loop
  <2>3. Pending(k) \/ Taken(k) \/ Replied(k)
    BY <2>1 DEF IInv, RequestsInPlace, RequestInv
  <2>4. QED
    BY <2>2, <2>3 DEF Pending, Taken, Replied
<1>2. QED
  BY <1>1, InductiveInvariant, PTL

-----------------------------------------------------------------------------
(* The protocol implements the token.                                      *)

Holder == IF mpc = "AwaitAck" THEN k ELSE 0
Active == {n \in Node : slot[n] > 0}

LEMMA TokenStep ==
  ASSUME TypeOK, RequestsInPlace, [Next]_vars
  PROVE  [Token!Next]_<<Holder, Active>>
<1> USE DEF TypeOK
<1>1. CASE SendGrant
  <2>1. k \in Node /\ Holder = 0 /\ Holder' = k /\ Active' = Active
    BY <1>1, IndexIsNode DEF SendGrant, Holder, Active
  <2>2. Token!Grant(k)
    BY <2>1 DEF Token!Grant, Holder, Active
  <2>3. QED
    BY <2>1, <2>2 DEF Token!Next
<1>2. CASE RecvAck
  <2>1. k \in Node /\ Holder = k /\ Holder' = 0 /\ Active' = Active
    BY <1>2, IndexIsNode DEF RecvAck, Holder, Active
  <2>2. k # 0
    BY <2>1, LastNodeAssumption DEF Node
  <2>3. PICK r \in reqs[k] : r \in Nat /\ peer[k] <= r /\ r <= inc[k]
    BY <1>2, <2>1 DEF RecvAck, RecvFrom, RequestsInPlace, RequestInv, DataTypeOK
  <2>4. ASSUME NEW n \in Node, slot[n] > 0 PROVE FALSE
    <3>1. k = n /\ inc[n] \notin reqs[n] /\ peer[n] = inc[n]
      BY <2>4, OpenIsAwaited
    <3>2. inc[n] \in Nat
      BY DEF DataTypeOK
    <3>3. QED
      BY <2>3, <3>1, <3>2
  <2>5. Active = {}
    BY <2>4 DEF Active
  <2>6. Token!Release
    BY <2>1, <2>2, <2>5 DEF Token!Release, Holder, Active
  <2>7. QED
    BY <2>6 DEF Token!Next
<1>3. CASE Master /\ ~SendGrant /\ ~RecvAck
  <2>1. mpc # "AwaitAck" /\ mpc' # "AwaitAck" /\ slot' = slot
    BY <1>3 DEF Master, RecvHello, SendWelcome, RecvReady, PublishBeacon,
                CheckFound, CheckNothing, SearchNext, SearchHit, SkipNode,
                Advance
  <2>2. QED
    BY <2>1 DEF Holder, Active
<1>4. ASSUME NEW n \in Node, RecvGrant(n)
      PROVE  [Token!Next]_<<Holder, Active>>
  <2>1. Holder' = Holder
    BY <1>4 DEF RecvGrant, masterVars, Holder
  <2>2. ~Owes(n) /\ mpc \in Loop /\ reply[n] > 0 /\ ~(slot[n] > 0)
    <3>1. reply[n] # NoReply /\ spc[n] = "AwaitGrant" /\ slot[n] \in Nat
      BY <1>4 DEF RecvGrant, DataTypeOK
    <3>2. reply[n] \in Slots
      BY <3>1 DEF RequestsInPlace, PhaseInv, DataTypeOK
    <3>3. reply[n] > 0
      BY <3>2, SlotIsNat
    <3>4. QED
      BY <3>1, <3>3
         DEF RequestsInPlace, RequestInv, PhaseInv, Pending, Taken, Replied
  <2>3. mpc = "AwaitAck" /\ k = n
    BY <2>2 DEF Owes
  <2>4. Holder = n
    BY <2>3 DEF Holder
  <2>5. Active = {}
    BY <2>2, <2>3, OpenIsAwaited DEF Active
  <2>6. slot' = [slot EXCEPT ![n] = reply[n]]
    BY <1>4 DEF RecvGrant
  <2>7. \A m \in Node : slot'[m] > 0 <=> m = n
    BY <2>2, <2>5, <2>6 DEF Active, DataTypeOK
  <2>8. Active' = {n}
    BY <2>7 DEF Active
  <2>9. Token!Start(n)
    BY <2>1, <2>4, <2>5, <2>8 DEF Token!Start, Holder, Active
  <2>10. QED
    BY <2>9 DEF Token!Next
<1>5. ASSUME NEW n \in Node,
             \/ SendHello(n) \/ RecvWelcome(n) \/ SendReady(n)
             \/ Tick(n) \/ SendAck(n)
             \/ EarlyStop(n) \/ Crash(n) \/ Restart(n)
      PROVE  [Token!Next]_<<Holder, Active>>
  <2>1. Holder' = Holder
    BY <1>5 DEF SendHello, RecvWelcome, SendReady, Tick, SendAck, EarlyStop,
                Crash, Restart, masterVars, Holder
  <2>2. slot' = slot \/ \E x \in Nat : slot' = [slot EXCEPT ![n] = x]
                                       /\ (x > 0 => slot[n] > 0)
    BY <1>5 DEF SendHello, RecvWelcome, SendReady, Tick, SendAck, EarlyStop,
                Crash, Restart, DataTypeOK
  <2>3. \A m \in Node : m # n => slot'[m] = slot[m]
    BY <2>2 DEF DataTypeOK
  <2>4. slot'[n] > 0 => slot[n] > 0
    BY <2>2 DEF DataTypeOK
  <2>5. CASE slot[n] > 0 <=> slot'[n] > 0
    <3>1. Active' = Active
      BY <2>3, <2>5 DEF Active
    <3>2. QED
      BY <2>1, <3>1
  <2>6. CASE slot[n] > 0 /\ ~(slot'[n] > 0)
    <3>1. Active = {n}
      BY <2>6, OpenIsAwaited DEF Active
    <3>2. Active' = {}
      BY <2>3, <2>6, <3>1 DEF Active
    <3>3. Token!Stop(n)
      BY <2>1, <3>1, <3>2 DEF Token!Stop, Holder, Active
    <3>4. QED
      BY <3>3 DEF Token!Next
  <2>7. QED
    BY <2>4, <2>5, <2>6
<1>6. ASSUME NEW n \in Node, NEW size \in Sizes, ProcessReport(n, size)
      PROVE  [Token!Next]_<<Holder, Active>>
  BY <1>6 DEF ProcessReport, masterVars, Holder, Active
<1>7. CASE UNCHANGED vars
  BY <1>7 DEF vars, Holder, Active
<1>8. QED
  BY <1>1, <1>2, <1>3, <1>4, <1>5, <1>6, <1>7 DEF Next, Slave

\* The master and its slaves, messages, crashes and restarts included,
\* implement a token that is granted when free and returned when unused.
THEOREM ImplementsToken == Spec => TokenSpec
<1>1. Init => Token!Init
  BY DEF Init, Token!Init
<1>2. IInv /\ [Next]_vars => [Token!Next]_Token!vars
  BY TokenStep DEF Token!vars, Holder, Active, IInv
<1>3. QED
  BY <1>1, <1>2, InductiveInvariant, PTL
     DEF Spec, TokenSpec, Token!Spec

-----------------------------------------------------------------------------
(* The slaves implement SlotClient.                                        *)

LEMMA ClientStep ==
  ASSUME IInv, [Next]_vars
  PROVE  [Clients!Next]_<<Phase, slot>>
<1> USE DEF IInv, TypeOK
<1>1. /\ slot \in [Node -> Nat] /\ spc \in [Node -> SlavePC]
      /\ \A n \in Node : slot[n] > 0 => spc[n] = "Run"
  BY DEF DataTypeOK, RequestsInPlace, PhaseInv
<1>2. ASSUME UNCHANGED <<spc, slot>> PROVE UNCHANGED <<Phase, slot>>
  BY <1>2 DEF Phase
<1>3. CASE Master \/ UNCHANGED vars
  BY <1>2, <1>3 DEF Master, RecvHello, SendWelcome, RecvReady, PublishBeacon, CheckFound,
                    CheckNothing, SearchNext, SearchHit, SkipNode, SendGrant, RecvAck, vars
<1>4. ASSUME NEW n \in Node, NEW size \in Sizes, ProcessReport(n, size)
      PROVE  UNCHANGED <<Phase, slot>>
  BY <1>2, <1>4 DEF ProcessReport
<1>5. ASSUME NEW n \in Node, SendHello(n) \/ RecvWelcome(n) \/ SendReady(n) \/ Restart(n)
      PROVE  UNCHANGED <<Phase, slot>>
  BY <1>1, <1>5 DEF SendHello, RecvWelcome, SendReady, Restart, Phase
<1>6. ASSUME NEW n \in Node, RecvGrant(n) PROVE Clients!Next
  <2>1. reply[n] \in Slots
    BY <1>6 DEF RecvGrant, RequestsInPlace, PhaseInv, DataTypeOK
  <2>2. /\ Phase[n] = "idle" /\ Phase' = [Phase EXCEPT ![n] = "run"]
        /\ slot' = [slot EXCEPT ![n] = reply[n]]
    BY <1>1, <1>6 DEF RecvGrant, Phase
  <2>3. Clients!Receive(n, reply[n])
    BY <2>2 DEF Clients!Receive
  <2> QED BY <2>1, <2>3 DEF Clients!Next
<1>7. ASSUME NEW n \in Node, Tick(n) PROVE Clients!Next
  <2>1. Clients!Tick(n)
    BY <1>1, <1>7 DEF Tick, Clients!Tick, Phase
  <2> QED BY <2>1 DEF Clients!Next
<1>8. ASSUME NEW n \in Node, SendAck(n) PROVE Clients!Next
  <2>1. slot[n] = 0 /\ slot' = slot
    BY <1>1, <1>8 DEF SendAck
  <2>2. Phase[n] = "run" /\ Phase' = [Phase EXCEPT ![n] = "idle"]
    BY <1>1, <1>8 DEF SendAck, Phase
  <2>3. Clients!Acknowledge(n)
    BY <2>1, <2>2 DEF Clients!Acknowledge
  <2> QED BY <2>3 DEF Clients!Next
<1>9. ASSUME NEW n \in Node, EarlyStop(n) PROVE Clients!Next
  <2>1. spc[n] = "Run"
    BY <1>1, <1>9 DEF EarlyStop
  <2>2. Clients!Stop(n)
    BY <1>9, <2>1 DEF EarlyStop, Clients!Stop, Phase
  <2> QED BY <2>2 DEF Clients!Next
<1>10. ASSUME NEW n \in Node, Crash(n) PROVE Clients!Next
  <2>1. Phase' = [Phase EXCEPT ![n] = "idle"]
    BY <1>1, <1>10 DEF Crash, Phase
  <2>2. Clients!Die(n)
    BY <1>10, <2>1 DEF Crash, Clients!Die
  <2> QED BY <2>2 DEF Clients!Next
<1> QED
  BY <1>3, <1>4, <1>5, <1>6, <1>7, <1>8, <1>9, <1>10 DEF Next, Slave

\* A slave of this protocol does with its slot what the threads of Forwarder do.
THEOREM ImplementsClients == Spec => ClientSpec
<1>1. Init => Clients!Init
  BY DEF Init, Clients!Init, Phase
<1>2. IInv /\ [Next]_vars => [Clients!Next]_Clients!vars
  BY ClientStep DEF Clients!vars
<1>3. QED
  BY <1>1, <1>2, InductiveInvariant, PTL DEF Spec, ClientSpec, Clients!Spec
=============================================================================
