------------------------------ MODULE Forwarder ------------------------------
(***************************************************************************)
(* The forwarding process of a slave, CreateLoopbackCS1Q.c: four threads   *)
(* around nine queues and one slot counter.                                *)
(*   main         reads packets from one tunnel device, queues the bulk    *)
(*                map output and writes everything else to the other       *)
(*                device at once; it waits while the queues are full       *)
(*   write_tun    sends queued packets while the slot is open              *)
(*   recv_config  receives a grant, counts the slot down, acknowledges     *)
(*   report_task  (monitor.h) may set the slot to 0                        *)
(* main, write_tun and the countdown use qu_mutex; write_tun looks at the  *)
(* queue heads and at the slot without it, and report_task does not use it *)
(* either.  Stores become visible in program order.                        *)
(***************************************************************************)
EXTENDS Integers, Sequences

CONSTANTS
  Dest,       \* the destinations packets are for; the others stay empty
  Packet,     \* packet contents, told apart for the order they leave in
  Cap,        \* main waits while Cap packets are queued (500)
  LowWater,   \* below it write_tun wakes main (450)
  Grant,      \* length of a slot in 100 us ticks
  MaxStops    \* bound: how often report_task ends a slot

ASSUME DestAssumption == Dest \subseteq 1 .. 9
ASSUME CapAssumption == Cap \in Nat \ {0} /\ LowWater \in 1 .. Cap
ASSUME GrantAssumption == Grant \in Nat \ {0}
ASSUME MaxStopsAssumption == MaxStops \in Nat

Queue == 1 .. 9

VARIABLES
  q,          \* q[d]: the packets in the list of queue d
  count,      \* count[d]: its count field
  lock,       \* the holder of qu_mutex
  mpc, pkt,   \* main: where it is, and the packet it has read
  wpc, i,     \* write_tun: where it is, and the queue it looks at
  cpc, tmp,   \* recv_config: where it is, and the slot it has loaded
  slot,       \* ticks left; what all threads see
  budget,     \* ticks of the grant not yet counted down
  stops,      \* slots ended by report_task so far
  late,       \* packets write_tun has sent since the acknowledgement
  out         \* the packet written last

queueVars == <<q, count>>
mainVars == <<mpc, pkt>>
writerVars == <<wpc, i>>
configVars == <<cpc, tmp, budget>>
vars == <<q, count, lock, mpc, pkt, wpc, i, cpc, tmp, slot, budget, stops,
          late, out>>

Pkt == [d : Dest, x : Packet, bulk : BOOLEAN]

LockTypeOK ==
  /\ lock \in {"free", "main", "writer", "config"}
  /\ mpc \in {"Read", "Lock", "Wait", "Put"}
  /\ wpc \in {"Scan", "Poll", "Lock", "Write", "Deq", "Signal"}
  /\ cpc \in {"Await", "Test", "Lock", "Store", "Ack"}

DataTypeOK ==
  /\ q \in [Queue -> Seq(Packet)]
  /\ count \in [Queue -> Nat]
  /\ pkt \in Pkt \cup {<<>>} /\ (mpc # "Read" => pkt \in Pkt)
  /\ i \in Queue
  /\ tmp \in Int /\ slot \in Int /\ budget \in Int
  /\ stops \in Nat /\ late \in Nat
  /\ out \in (Queue \X Packet) \cup {<<>>}

TypeOK == LockTypeOK /\ DataTypeOK

Init ==
  /\ q = [d \in Queue |-> <<>>]
  /\ count = [d \in Queue |-> 0]
  /\ lock = "free"
  /\ mpc = "Read" /\ pkt = <<>>
  /\ wpc = "Scan" /\ i = 1
  /\ cpc = "Await" /\ tmp = 0
  /\ slot = 0 /\ budget = 0 /\ stops = 0
  /\ late = 0 /\ out = <<>>

\* is_empty(): the sum of the count fields, whatever its name says.
Total == count[1] + count[2] + count[3] + count[4] + count[5]
         + count[6] + count[7] + count[8] + count[9]

-----------------------------------------------------------------------------
(* The queues, under qu_mutex.                                             *)

\* A mistake the checks must notice: count++ only behind a packet.
EnqCountsLate(d, x) ==
  /\ q' = [q EXCEPT ![d] = Append(@, x)]
  /\ count' = [count EXCEPT ![d] = IF q[d] = <<>> THEN 0 ELSE @ + 1]

\* A queue that has no rear starts to count anew.
Enq(d, x) ==
  /\ q' = [q EXCEPT ![d] = Append(@, x)]
  /\ count' = [count EXCEPT ![d] = IF q[d] = <<>> THEN 1 ELSE @ + 1]

\* A mistake the checks must notice: the last packet is removed uncounted.
DeqLastUncounted(d) ==
  IF q[d] = <<>>
    THEN UNCHANGED queueVars
    ELSE /\ q' = [q EXCEPT ![d] = Tail(@)]
         /\ count' = [count EXCEPT ![d] = IF Len(q[d]) > 1 THEN @ - 1 ELSE @]

\* A mistake the checks must notice: the last packet stays in the list.
DeqKeepsLast(d) ==
  IF Len(q[d]) <= 1
    THEN UNCHANGED queueVars
    ELSE /\ q' = [q EXCEPT ![d] = Tail(@)]
         /\ count' = [count EXCEPT ![d] = IF @ > 0 THEN @ - 1 ELSE @]

\* Of an empty queue nothing is removed.
Deq(d) ==
  IF q[d] = <<>>
    THEN UNCHANGED queueVars
    ELSE /\ q' = [q EXCEPT ![d] = Tail(@)]
         /\ count' = [count EXCEPT ![d] = IF @ > 0 THEN @ - 1 ELSE @]

-----------------------------------------------------------------------------
(* main                                                                    *)

\* A packet for a node 1 .. 9; all other packets are dropped.  It is bulk when
\* it comes from the shuffle port and is longer than 700 bytes.
MainRead(d, x, bulk) ==
  /\ mpc = "Read"
  /\ pkt' = [d |-> d, x |-> x, bulk |-> bulk]
  /\ mpc' = "Lock"
  /\ UNCHANGED <<queueVars, lock, writerVars, configVars, slot, stops, late, out>>

\* A mistake the checks must notice: is_empty() > 500.
MainEnterOffByOne ==
  /\ mpc = "Lock"
  /\ lock = "free"
  /\ IF Total > Cap
       THEN mpc' = "Wait" /\ UNCHANGED lock
       ELSE mpc' = "Put" /\ lock' = "main"
  /\ UNCHANGED <<queueVars, pkt, writerVars, configVars, slot, stops, late, out>>

\* pthread_mutex_lock, also when cond_wait returns; then is_empty() > 499.
MainEnter ==
  /\ mpc = "Lock"
  /\ lock = "free"
  /\ IF Total > Cap - 1
       THEN mpc' = "Wait" /\ UNCHANGED lock
       ELSE mpc' = "Put" /\ lock' = "main"
  /\ UNCHANGED <<queueVars, pkt, writerVars, configVars, slot, stops, late, out>>

\* Queue the packet or write it; unlock.  Nobody waits for qu_empty_cond.
MainPut ==
  /\ mpc = "Put"
  /\ IF pkt.bulk
       THEN Enq(pkt.d, pkt.x) /\ UNCHANGED out
       ELSE out' = <<pkt.d, pkt.x>> /\ UNCHANGED queueVars
  /\ lock' = "free"
  /\ mpc' = "Read" /\ pkt' = <<>>
  /\ UNCHANGED <<writerVars, configVars, slot, stops, late>>

\* pthread_cond_wait may return without a signal.
MainSpurious ==
  /\ mpc = "Wait"
  /\ mpc' = "Lock"
  /\ UNCHANGED <<queueVars, lock, pkt, writerVars, configVars, slot, stops, late,
                 out>>

-----------------------------------------------------------------------------
(* write_tun                                                               *)

NextQueue == IF i < 9 THEN i + 1 ELSE 1

\* q[i].front != NULL, without the lock.
WriterScan ==
  /\ wpc = "Scan"
  /\ IF q[i] = <<>>
       THEN i' = NextQueue /\ UNCHANGED wpc
       ELSE wpc' = "Poll" /\ UNCHANGED i
  /\ UNCHANGED <<queueVars, lock, mainVars, configVars, slot, stops, late, out>>

\* while (slot <= 0) usleep(100), without the lock.
WriterPoll ==
  /\ wpc = "Poll"
  /\ slot > 0
  /\ wpc' = "Lock"
  /\ UNCHANGED <<queueVars, lock, mainVars, i, configVars, slot, stops, late, out>>

\* The slot is not looked at again.  When the counts say that nothing is queued
\* the mutex is unlocked here, and once more at the end of the loop body.
WriterLock ==
  /\ wpc = "Lock"
  /\ lock = "free"
  /\ IF Total <= 0
       THEN wpc' = "Signal" /\ UNCHANGED lock
       ELSE wpc' = "Write" /\ lock' = "writer"
  /\ UNCHANGED <<queueVars, mainVars, i, configVars, slot, stops, late, out>>

WriterWrite ==
  /\ wpc = "Write"
  /\ out' = <<i, Head(q[i])>>
  /\ late' = IF cpc = "Await" THEN late + 1 ELSE late
  /\ wpc' = "Deq"
  /\ UNCHANGED <<queueVars, lock, mainVars, i, configVars, slot, stops>>

WriterDeq ==
  /\ wpc = "Deq"
  /\ Deq(i)
  /\ wpc' = "Signal"
  /\ UNCHANGED <<lock, mainVars, i, configVars, slot, stops, late, out>>

\* A mistake the checks must notice: once the slot was open the queue is emptied.
WriterSignalDrains ==
  /\ wpc = "Signal"
  /\ mpc' = IF Total < LowWater /\ mpc = "Wait" THEN "Lock" ELSE mpc
  /\ lock' = "free"
  /\ IF q[i] = <<>>
       THEN wpc' = "Scan" /\ i' = NextQueue
       ELSE wpc' = "Lock" /\ UNCHANGED i
  /\ UNCHANGED <<queueVars, pkt, configVars, slot, stops, late, out>>

\* A mistake the checks must notice: nobody is woken.
WriterSignalNobody ==
  /\ wpc = "Signal"
  /\ lock' = "free"
  /\ wpc' = "Scan"
  /\ i' = NextQueue
  /\ UNCHANGED <<queueVars, mainVars, configVars, slot, stops, late, out>>

\* A mistake the checks must notice: the same queue again while it has packets.
WriterSignalStays ==
  /\ wpc = "Signal"
  /\ mpc' = IF Total < LowWater /\ mpc = "Wait" THEN "Lock" ELSE mpc
  /\ lock' = "free"
  /\ wpc' = "Scan"
  /\ UNCHANGED <<queueVars, pkt, i, configVars, slot, stops, late, out>>

\* Wake main when the queues are low again; unlock; go on with the next queue.
WriterSignal ==
  /\ wpc = "Signal"
  /\ mpc' = IF Total < LowWater /\ mpc = "Wait" THEN "Lock" ELSE mpc
  /\ lock' = "free"
  /\ wpc' = "Scan"
  /\ i' = NextQueue
  /\ UNCHANGED <<queueVars, pkt, configVars, slot, stops, late, out>>

-----------------------------------------------------------------------------
(* recv_config                                                             *)

\* A grant arrives; only after the last one was acknowledged.
ConfigGrant ==
  /\ cpc = "Await"
  /\ slot' = Grant
  /\ budget' = Grant
  /\ late' = 0
  /\ cpc' = "Test"
  /\ UNCHANGED <<queueVars, lock, mainVars, writerVars, tmp, stops, out>>

\* while (slot > 0), without the lock; after the loop slot = 0.
ConfigTest ==
  /\ cpc = "Test"
  /\ IF slot > 0
       THEN cpc' = "Lock" /\ UNCHANGED slot
       ELSE cpc' = "Ack" /\ slot' = 0
  /\ UNCHANGED <<queueVars, lock, mainVars, writerVars, tmp, budget, stops, late,
                 out>>

\* slot = slot - 100 under the lock: the load ...
ConfigLoad ==
  /\ cpc = "Lock"
  /\ lock = "free"
  /\ lock' = "config"
  /\ tmp' = slot
  /\ cpc' = "Store"
  /\ UNCHANGED <<queueVars, mainVars, writerVars, slot, budget, stops, late, out>>

\* A mistake the checks must notice: nothing is subtracted.
ConfigStoreSame ==
  /\ cpc = "Store"
  /\ slot' = tmp
  /\ tmp' = 0
  /\ budget' = budget - 1
  /\ lock' = "free"
  /\ cpc' = "Test"
  /\ UNCHANGED <<queueVars, mainVars, writerVars, stops, late, out>>

\* A mistake the checks must notice: the countdown makes no progress.
ConfigStoreNothing ==
  /\ cpc = "Store"
  /\ slot' = tmp
  /\ tmp' = 0
  /\ lock' = "free"
  /\ cpc' = "Test"
  /\ UNCHANGED <<queueVars, mainVars, writerVars, budget, stops, late, out>>

\* ... and the store; report_task may have written slot in between.
ConfigStore ==
  /\ cpc = "Store"
  /\ slot' = tmp - 1
  /\ tmp' = 0
  /\ budget' = budget - 1
  /\ lock' = "free"
  /\ cpc' = "Test"
  /\ UNCHANGED <<queueVars, mainVars, writerVars, stops, late, out>>

ConfigAck ==
  /\ cpc = "Ack"
  /\ cpc' = "Await"
  /\ budget' = 0
  /\ UNCHANGED <<queueVars, lock, mainVars, writerVars, tmp, slot, stops, late,
                 out>>

\* report_task: slot = 0 when a transfer is complete.
ReportStop ==
  /\ stops < MaxStops
  /\ slot' = 0
  /\ stops' = stops + 1
  /\ UNCHANGED <<queueVars, lock, mainVars, writerVars, configVars, late, out>>

-----------------------------------------------------------------------------
Main == MainEnter \/ MainPut
\* write_tun's loop.  What it does before, get_link_quality, touches nothing of this
\* module (see Reporter!WriterOpens, Tokens!WriterRates); the mean it takes of the rates
\* is used by nothing.
Writer ==
  \/ WriterScan \/ WriterPoll \/ WriterLock
  \/ WriterWrite \/ WriterDeq \/ WriterSignal
Config ==
  \/ ConfigGrant \/ ConfigTest \/ ConfigLoad \/ ConfigStore \/ ConfigAck

Next ==
  \/ \E d \in Dest, x \in Packet, bulk \in BOOLEAN : MainRead(d, x, bulk)
  \/ Main \/ MainSpurious
  \/ Writer
  \/ Config
  \/ ReportStop

Spec == Init /\ [][Next]_vars

\* Each thread runs on.  Strong fairness because a thread may find the mutex
\* taken, or the slot closed, whenever it looks: the mutex is held for one
\* packet or one subtraction at a time, a slot stays open for 500 looks or more,
\* and the scheduler grants slots again and again (NoStarvation of SlotProtocol).
FairSpec ==
  /\ Spec
  /\ SF_vars(Main)
  /\ SF_vars(Writer)
  /\ SF_vars(Config)

-----------------------------------------------------------------------------
(* What the threads together promise.                                      *)

\* The queues never hold more than Cap packets: the check and the enqueuing are
\* one critical section, and main checks again whenever it is woken.
QueuesBounded == Total <= Cap

\* Whoever unlocks qu_mutex holds it. The branch of write_tun that would unlock
\* it twice is never taken: a queue with a head is a queue that is counted, and
\* only write_tun removes packets.
UnlockOnce ==
  /\ mpc = "Put" => lock = "main"
  /\ wpc \in {"Write", "Deq", "Signal"} => lock = "writer"
  /\ cpc = "Store" => lock = "config"

\* write_tun looks at the slot before it has the lock and not again after: a
\* packet may leave after the acknowledgement has given the channel away, but
\* never a second one.
OneLatePacket == late <= 1

\* The signal is not lost: as long as main waits, enough packets are queued for
\* write_tun to come by again, or it has removed one and is about to look whether
\* main must be woken.
NoLostSignal == mpc = "Wait" => Total >= LowWater \/ wpc = "Signal"

\* report_task and the countdown write the slot without excluding each other,
\* so an early stop may be undone; but no interleaving of the two makes a slot
\* longer than what is left of the grant.
SlotBudget == slot <= budget

LockInv ==
  /\ mpc = "Put" <=> lock = "main"
  /\ wpc \in {"Write", "Deq", "Signal"} <=> lock = "writer"
  /\ cpc = "Store" <=> lock = "config"

CountInv ==
  /\ \A d \in Queue : count[d] = Len(q[d])
  /\ Total <= IF mpc = "Put" THEN Cap - 1 ELSE Cap

HeadInv == wpc \in {"Poll", "Lock", "Write", "Deq"} => q[i] # <<>>

SlotInv ==
  /\ cpc = "Await" => slot = 0
  /\ cpc = "Ack" => slot = 0
  /\ slot <= budget /\ budget >= 0
  /\ cpc \in {"Lock", "Store"} => budget >= 1
  /\ cpc = "Store" => tmp <= budget

LateInv ==
  \/ late = 0
  \/ late = 1 /\ cpc = "Await" /\ wpc \notin {"Lock", "Write"}

\* Types, who holds the mutex, what the counts say, what main waits for, and what
\* a late packet excludes: what makes the invariants above inductive.
IInv ==
  /\ TypeOK /\ LockInv /\ CountInv /\ HeadInv /\ SlotInv /\ LateInv
  /\ NoLostSignal

\* The threads together write each packet they have read exactly once, the queued
\* ones in the order in which they were read, for each destination.  A queued
\* packet is delivered when it is written, before it is removed from its list.
Queued == [d \in Queue |-> IF wpc = "Deq" /\ d = i THEN Tail(q[d]) ELSE q[d]]
InHand == IF mpc = "Read" THEN <<>> ELSE <<pkt.d, pkt.x>>

Box == INSTANCE Outbox WITH Dest <- Queue, hand <- InHand, pend <- Queued

OutboxSpec == Box!Spec

\* recv_config and report_task together run the slot down as SlotProtocol's slaves
\* do.  Between load and store the tick is still to come, and an early stop in
\* that moment is none: the store undoes it.
TicksLeft == IF cpc = "Store" THEN tmp ELSE slot

Phase == [n \in {1} |-> IF cpc = "Await" THEN "idle" ELSE "run"]
Left == [n \in {1} |-> IF TicksLeft > 0 THEN TicksLeft ELSE 0]

Slave == INSTANCE SlotClient WITH
  Client <- {1}, Lengths <- {Grant}, phase <- Phase, left <- Left

ClientSpec == Slave!Spec

\* recv_config comments the acknowledgement with "Inform Scheduller when
\* transmition ended": no packet leaves between it and the
\* next grant.
AckAfterTransmissionEnded == late = 0

\* main does not wait forever for room in the queues, so control packets do get
\* through; the signal is not lost, because main checks under the mutex.
MainUnblocks == mpc = "Wait" ~> mpc = "Read"

\* Every queue that holds packets is served again and again, although the scan
\* stops at the first queue with a head until the slot is open.
QueuesDrain ==
  \A d \in Dest : []<>(q[d] = <<>> \/ (wpc = "Deq" /\ i = d))

\* Every grant is acknowledged, whatever report_task does to the slot: what the
\* scheduler, which waits without a timeout, relies on.
GrantIsAcked == cpc # "Await" ~> cpc = "Await"
=============================================================================
