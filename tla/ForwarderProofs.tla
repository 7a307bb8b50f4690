--------------------------- MODULE ForwarderProofs ---------------------------
(***************************************************************************)
(* Proofs about Forwarder for every capacity, slot length and number of    *)
(* early stops, and for any packets: types, the inductive invariant with   *)
(* its consequences, and that it implements Outbox.                        *)
(***************************************************************************)
EXTENDS Forwarder, TLAPS

-----------------------------------------------------------------------------
(* The sum of the counts.                                                  *)

LEMMA TotalStep ==
  ASSUME NEW d \in Queue, NEW c \in Nat, count \in [Queue -> Nat],
         count' = [count EXCEPT ![d] = c]
  PROVE  Total' = Total - count[d] + c
BY SMTT(30) DEF Total, Queue

LEMMA TotalPositive ==
  ASSUME NEW d \in Queue, count \in [Queue -> Nat], count[d] > 0
  PROVE  Total > 0
BY SMTT(30) DEF Total, Queue

LEMMA TotalType == ASSUME count \in [Queue -> Nat] PROVE Total \in Nat
BY SMTT(30) DEF Total, Queue

-----------------------------------------------------------------------------
(* Types                                                                   *)

LEMMA EnqType ==
  ASSUME DataTypeOK, NEW d \in Queue, NEW x \in Packet, Enq(d, x)
  PROVE  q' \in [Queue -> Seq(Packet)] /\ count' \in [Queue -> Nat]
BY DEF Enq, DataTypeOK

LEMMA DeqType ==
  ASSUME DataTypeOK, NEW d \in Queue, Deq(d)
  PROVE  q' \in [Queue -> Seq(Packet)] /\ count' \in [Queue -> Nat]
<1>1. q[d] \in Seq(Packet) /\ count[d] \in Nat
  BY DEF DataTypeOK
<1>2. CASE q[d] = <<>>
  BY <1>2 DEF Deq, DataTypeOK, queueVars
<1>3. CASE q[d] # <<>>
  <2>1. Tail(q[d]) \in Seq(Packet)
    BY <1>1, <1>3
  <2>2. q' \in [Queue -> Seq(Packet)]
    BY <1>3, <2>1 DEF Deq, DataTypeOK
  <2>3. \E c \in Nat : count' = [count EXCEPT ![d] = c]
    BY <1>1, <1>3 DEF Deq
  <2>4. count' \in [Queue -> Nat]
    BY <2>3 DEF DataTypeOK
  <2>5. QED
    BY <2>2, <2>4
<1>4. QED
  BY <1>2, <1>3

LEMMA NextQueueType == ASSUME i \in Queue PROVE NextQueue \in Queue
BY DEF NextQueue, Queue

LEMMA TypeInit == Init => TypeOK
BY DEF Init, TypeOK, LockTypeOK, DataTypeOK, Queue

LEMMA TypeStep == TypeOK /\ HeadInv /\ [Next]_vars => TypeOK'
<1> SUFFICES ASSUME LockTypeOK, DataTypeOK, HeadInv, [Next]_vars
             PROVE  LockTypeOK' /\ DataTypeOK'
  BY DEF TypeOK
<1>1. ASSUME NEW d \in Dest, NEW x \in Packet, NEW bulk \in BOOLEAN,
             MainRead(d, x, bulk)
      PROVE  LockTypeOK' /\ DataTypeOK'
  BY <1>1 DEF MainRead, LockTypeOK, DataTypeOK, Pkt, queueVars, writerVars,
              configVars
<1>2. CASE MainEnter
  BY <1>2 DEF MainEnter, LockTypeOK, DataTypeOK, queueVars, writerVars,
              configVars
<1>3. CASE MainPut
  <2>1. pkt \in Pkt /\ pkt.d \in Queue /\ pkt.x \in Packet
    BY <1>3, DestAssumption DEF MainPut, DataTypeOK, Pkt, Queue
  <2>2. q' \in [Queue -> Seq(Packet)] /\ count' \in [Queue -> Nat]
    BY <1>3, <2>1, EnqType DEF MainPut, DataTypeOK, queueVars
  <2>3. out' \in (Queue \X Packet) \cup {<<>>}
    BY <1>3, <2>1 DEF MainPut, DataTypeOK
  <2>4. QED
    BY <1>3, <2>2, <2>3 DEF MainPut, LockTypeOK, DataTypeOK, writerVars,
                            configVars
<1>4. CASE MainSpurious
  BY <1>4 DEF MainSpurious, LockTypeOK, DataTypeOK, queueVars, writerVars,
              configVars
<1>5. CASE WriterScan \/ WriterPoll \/ WriterLock
  BY <1>5, NextQueueType
     DEF WriterScan, WriterPoll, WriterLock, LockTypeOK, DataTypeOK, queueVars,
         mainVars, configVars
<1>6. CASE WriterWrite
  <2>1. Head(q[i]) \in Packet /\ i \in Queue
    BY <1>6 DEF WriterWrite, HeadInv, DataTypeOK
  <2>2. QED
    BY <1>6, <2>1 DEF WriterWrite, LockTypeOK, DataTypeOK, queueVars, mainVars,
                      configVars
<1>7. CASE WriterDeq
  BY <1>7, DeqType DEF WriterDeq, LockTypeOK, DataTypeOK, mainVars, configVars
<1>8. CASE WriterSignal
  BY <1>8, NextQueueType
     DEF WriterSignal, LockTypeOK, DataTypeOK, queueVars, configVars
<1>9. CASE Config
  BY <1>9, GrantAssumption
     DEF Config, ConfigGrant, ConfigTest, ConfigLoad, ConfigStore, ConfigAck,
         LockTypeOK, DataTypeOK, queueVars, mainVars, writerVars
<1>10. CASE ReportStop
  BY <1>10 DEF ReportStop, LockTypeOK, DataTypeOK, queueVars, mainVars,
               writerVars, configVars
<1>11. CASE UNCHANGED vars
  BY <1>11 DEF vars, LockTypeOK, DataTypeOK
<1>12. QED
  BY <1>1, <1>2, <1>3, <1>4, <1>5, <1>6, <1>7, <1>8, <1>9, <1>10, <1>11
     DEF Next, Main, Writer

-----------------------------------------------------------------------------
(* The inductive invariant                                                 *)

LEMMA EnqCounts ==
  ASSUME DataTypeOK, NEW d \in Queue, NEW x \in Packet, Enq(d, x),
         \A e \in Queue : count[e] = Len(q[e])
  PROVE  /\ \A e \in Queue : count'[e] = Len(q'[e])
         /\ Total' = Total + 1
<1>1. q[d] \in Seq(Packet) /\ count[d] \in Nat /\ count[d] = Len(q[d])
  BY DEF DataTypeOK
<1>2. /\ q' = [q EXCEPT ![d] = Append(q[d], x)]
      /\ count' = [count EXCEPT ![d] = count[d] + 1]
  <2>1. q[d] = <<>> => count[d] = 0
    BY <1>1
  <2>2. (IF q[d] = <<>> THEN 1 ELSE count[d] + 1) = count[d] + 1
    BY <1>1, <2>1
  <2>3. QED
    BY <2>2 DEF Enq
<1>3. Len(Append(q[d], x)) = Len(q[d]) + 1
  BY <1>1
<1>4. \A e \in Queue : count'[e] = Len(q'[e])
  BY <1>1, <1>2, <1>3 DEF DataTypeOK
<1>5. Total' = Total - count[d] + (count[d] + 1)
  <2>1. count[d] + 1 \in Nat
    BY <1>1
  <2>2. QED
    BY <1>2, <2>1, TotalStep DEF DataTypeOK
<1>6. Total \in Nat
  BY TotalType DEF DataTypeOK
<1>7. Total' = Total + 1
  <2>1. count[d] \in Nat
    BY <1>1
  <2>2. QED
    BY <1>5, <1>6, <2>1
<1>8. QED
  BY <1>4, <1>7

LEMMA DeqCounts ==
  ASSUME DataTypeOK, NEW d \in Queue, q[d] # <<>>, Deq(d),
         \A e \in Queue : count[e] = Len(q[e])
  PROVE  /\ \A e \in Queue : count'[e] = Len(q'[e])
         /\ Total' = Total - 1
<1>1. q[d] \in Seq(Packet) /\ count[d] \in Nat /\ count[d] = Len(q[d])
  BY DEF DataTypeOK
<1>2. Len(q[d]) > 0 /\ Len(Tail(q[d])) = Len(q[d]) - 1
  BY <1>1
<1>3. /\ q' = [q EXCEPT ![d] = Tail(q[d])]
      /\ count' = [count EXCEPT ![d] = count[d] - 1]
  BY <1>1, <1>2 DEF Deq, DataTypeOK
<1>4. \A e \in Queue : count'[e] = Len(q'[e])
  BY <1>1, <1>2, <1>3 DEF DataTypeOK
<1>5. count[d] - 1 \in Nat
  BY <1>1, <1>2
<1>6. Total' = Total - count[d] + (count[d] - 1)
  BY <1>3, <1>5, TotalStep DEF DataTypeOK
<1>7. Total \in Nat
  BY TotalType DEF DataTypeOK
<1>8. QED
  BY <1>1, <1>4, <1>6, <1>7

LEMMA LockStep == IInv /\ [Next]_vars => LockInv'
<1> SUFFICES ASSUME LockTypeOK, DataTypeOK, IInv, [Next]_vars PROVE LockInv'
  BY DEF TypeOK, IInv
<1>1. CASE WriterLock
  <2>1. q[i] \in Seq(Packet) /\ q[i] # <<>> /\ i \in Queue
    BY <1>1 DEF WriterLock, IInv, HeadInv, DataTypeOK
  <2>2. count[i] > 0
    BY <2>1 DEF IInv, CountInv
  <2>3. Total > 0
    BY <2>1, <2>2, TotalPositive DEF DataTypeOK
  <2>4. QED
    BY <1>1, <2>3, TotalType
       DEF WriterLock, IInv, LockInv, LockTypeOK, DataTypeOK, mainVars,
           configVars
<1>2. CASE Main \/ MainSpurious \/ ReportStop \/ Config \/ UNCHANGED vars
  BY <1>2 DEF Main, MainEnter, MainPut, MainSpurious, ReportStop, Config,
              ConfigGrant, ConfigTest, ConfigLoad, ConfigStore, ConfigAck,
              IInv, LockInv, LockTypeOK, mainVars, writerVars, configVars, vars
<1>3. CASE Writer /\ ~WriterLock
  BY <1>3 DEF Writer, WriterScan, WriterPoll, WriterWrite, WriterDeq,
              WriterSignal, IInv, LockInv, LockTypeOK, mainVars, configVars
<1>4. ASSUME NEW d \in Dest, NEW x \in Packet, NEW bulk \in BOOLEAN,
             MainRead(d, x, bulk)
      PROVE  LockInv'
  BY <1>4 DEF MainRead, IInv, LockInv, writerVars, configVars
<1>5. QED
  BY <1>1, <1>2, <1>3, <1>4 DEF Next

LEMMA CountStep == IInv /\ [Next]_vars => CountInv'
<1> SUFFICES ASSUME LockTypeOK, DataTypeOK, IInv, [Next]_vars PROVE CountInv'
  BY DEF TypeOK, IInv
<1>1. Total \in Nat
  BY TotalType DEF DataTypeOK
<1>2. CASE MainEnter
  <2>1. count' = count /\ q' = q /\ Total' = Total
    BY <1>2 DEF MainEnter, queueVars, Total
  <2>2. QED
    BY <1>1, <1>2, <2>1, CapAssumption DEF MainEnter, IInv, CountInv
<1>3. CASE MainPut
  <2>1. CASE pkt.bulk
    <3>1. pkt.d \in Queue /\ pkt.x \in Packet
      BY <1>3, DestAssumption DEF MainPut, DataTypeOK, Pkt, Queue
    <3>2. Enq(pkt.d, pkt.x)
      BY <1>3, <2>1 DEF MainPut
    <3>3. /\ \A e \in Queue : count'[e] = Len(q'[e])
          /\ Total' = Total + 1
      BY <3>1, <3>2, EnqCounts DEF IInv, CountInv
    <3>4. QED
      BY <1>1, <1>3, <3>3, CapAssumption DEF MainPut, IInv, CountInv
  <2>2. CASE ~pkt.bulk
    <3>1. count' = count /\ q' = q /\ Total' = Total
      BY <1>3, <2>2 DEF MainPut, queueVars, Total
    <3>2. QED
      BY <1>1, <1>3, <3>1, CapAssumption DEF MainPut, IInv, CountInv
  <2>3. QED
    BY <2>1, <2>2
<1>4. CASE WriterDeq
  <2>1. i \in Queue /\ q[i] # <<>> /\ Deq(i) /\ mpc' = mpc /\ mpc # "Put"
    BY <1>4 DEF WriterDeq, DataTypeOK, IInv, HeadInv, LockInv, mainVars
  <2>2. /\ \A e \in Queue : count'[e] = Len(q'[e])
        /\ Total' = Total - 1
    BY <2>1, DeqCounts DEF IInv, CountInv
  <2>3. QED
    BY <1>1, <2>1, <2>2, CapAssumption DEF IInv, CountInv
<1>5. ASSUME queueVars' = queueVars, mpc' = "Put" => mpc = "Put",
             mpc = "Put" => mpc' = "Put"
      PROVE  CountInv'
  BY <1>5 DEF queueVars, Total, IInv, CountInv
<1>6. CASE MainSpurious \/ ReportStop \/ Config \/ UNCHANGED vars
  BY <1>5, <1>6
     DEF MainSpurious, ReportStop, Config, ConfigGrant, ConfigTest, ConfigLoad,
         ConfigStore, ConfigAck, mainVars, vars, queueVars
<1>7. CASE Writer /\ ~WriterDeq
  BY <1>5, <1>7
     DEF Writer, WriterScan, WriterPoll, WriterLock, WriterWrite, WriterSignal,
         mainVars
<1>8. ASSUME NEW d \in Dest, NEW x \in Packet, NEW bulk \in BOOLEAN,
             MainRead(d, x, bulk)
      PROVE  CountInv'
  BY <1>5, <1>8 DEF MainRead
<1>9. QED
  BY <1>2, <1>3, <1>4, <1>6, <1>7, <1>8 DEF Next, Main

\* Only write_tun removes packets, so a head it has seen stays.
LEMMA HeadStep == IInv /\ [Next]_vars => HeadInv'
<1> SUFFICES ASSUME LockTypeOK, DataTypeOK, IInv, [Next]_vars PROVE HeadInv'
  BY DEF TypeOK, IInv
<1>1. CASE MainPut
  <2>1. wpc' = wpc /\ i' = i /\ i \in Queue
    BY <1>1 DEF MainPut, writerVars, DataTypeOK
  <2>2. q[i] # <<>> => q'[i] # <<>>
    <3>1. CASE pkt.bulk
      <4>1. pkt.d \in Queue /\ pkt.x \in Packet
        BY <1>1, DestAssumption DEF MainPut, DataTypeOK, Pkt, Queue
      <4>2. Append(q[pkt.d], pkt.x) # <<>>
        <5>1. q[pkt.d] \in Seq(Packet)
          BY <4>1 DEF DataTypeOK
        <5>2. Len(Append(q[pkt.d], pkt.x)) = Len(q[pkt.d]) + 1
          BY <4>1, <5>1
        <5>3. Len(Append(q[pkt.d], pkt.x)) # 0
          BY <5>1, <5>2
        <5>4. Len(<<>>) = 0
          OBVIOUS
        <5>5. QED
          BY <5>3, <5>4, Zenon
      <4>3. q' = [q EXCEPT ![pkt.d] = Append(q[pkt.d], pkt.x)]
        BY <1>1, <3>1 DEF MainPut, Enq
      <4>4. QED
        BY <2>1, <4>1, <4>2, <4>3 DEF DataTypeOK
    <3>2. CASE ~pkt.bulk
      BY <1>1, <3>2 DEF MainPut, queueVars
    <3>3. QED
      BY <3>1, <3>2
  <2>3. QED
    BY <2>1, <2>2 DEF IInv, HeadInv
<1>2. CASE MainEnter \/ MainSpurious \/ ReportStop \/ Config \/ UNCHANGED vars
  BY <1>2 DEF MainEnter, MainSpurious, ReportStop, Config,
              ConfigGrant, ConfigTest, ConfigLoad, ConfigStore, ConfigAck,
              IInv, HeadInv, queueVars, writerVars, vars
<1>3. CASE Writer
  BY <1>3 DEF Writer, WriterScan, WriterPoll, WriterLock, WriterWrite,
              WriterDeq, WriterSignal, IInv, HeadInv, queueVars
<1>4. ASSUME NEW d \in Dest, NEW x \in Packet, NEW bulk \in BOOLEAN,
             MainRead(d, x, bulk)
      PROVE  HeadInv'
  BY <1>4 DEF MainRead, IInv, HeadInv, queueVars, writerVars
<1>5. QED
  BY <1>1, <1>2, <1>3, <1>4 DEF Next, Main

\* The slot is written by recv_config and, to 0, by report_task; the value that
\* recv_config loads is not larger than the rest of the grant.
LEMMA SlotStep == IInv /\ [Next]_vars => SlotInv'
<1> SUFFICES ASSUME LockTypeOK, DataTypeOK, IInv, [Next]_vars PROVE SlotInv'
  BY DEF TypeOK, IInv
<1>1. CASE Config
  BY <1>1, GrantAssumption
     DEF Config, ConfigGrant, ConfigTest, ConfigLoad, ConfigStore, ConfigAck,
         IInv, SlotInv, LockTypeOK, DataTypeOK
<1>2. CASE ReportStop
  BY <1>2 DEF ReportStop, IInv, SlotInv, DataTypeOK, configVars
<1>3. CASE Main \/ MainSpurious \/ Writer \/ UNCHANGED vars
  BY <1>3 DEF Main, MainEnter, MainPut, MainSpurious, Writer, WriterScan,
              WriterPoll, WriterLock, WriterWrite, WriterDeq, WriterSignal,
              IInv, SlotInv, configVars, vars
<1>4. ASSUME NEW d \in Dest, NEW x \in Packet, NEW bulk \in BOOLEAN,
             MainRead(d, x, bulk)
      PROVE  SlotInv'
  BY <1>4 DEF MainRead, IInv, SlotInv, configVars
<1>5. QED
  BY <1>1, <1>2, <1>3, <1>4 DEF Next

\* After the acknowledgement the slot is 0 and write_tun cannot pass the look at
\* it: at most the packet for which it had passed before is still to come.
LEMMA LateStep == IInv /\ [Next]_vars => LateInv'
<1> SUFFICES ASSUME LockTypeOK, DataTypeOK, IInv, [Next]_vars PROVE LateInv'
  BY DEF TypeOK, IInv
<1>1. CASE Writer
  BY <1>1 DEF Writer, WriterScan, WriterPoll, WriterLock, WriterWrite,
              WriterDeq, WriterSignal, IInv, LateInv, SlotInv, LockTypeOK,
              DataTypeOK, configVars
<1>2. CASE Config
  BY <1>2 DEF Config, ConfigGrant, ConfigTest, ConfigLoad, ConfigStore,
              ConfigAck, IInv, LateInv, LockTypeOK, writerVars
<1>3. CASE Main \/ MainSpurious \/ ReportStop \/ UNCHANGED vars
  BY <1>3 DEF Main, MainEnter, MainPut, MainSpurious, ReportStop, IInv,
              LateInv, writerVars, configVars, vars
<1>4. ASSUME NEW d \in Dest, NEW x \in Packet, NEW bulk \in BOOLEAN,
             MainRead(d, x, bulk)
      PROVE  LateInv'
  BY <1>4 DEF MainRead, IInv, LateInv, writerVars, configVars
<1>5. QED
  BY <1>1, <1>2, <1>3, <1>4 DEF Next

\* main starts to wait when more than LowWater packets are queued; only write_tun
\* makes them fewer, and then it signals before it does anything else.
LEMMA SignalStep == IInv /\ [Next]_vars => NoLostSignal'
<1> SUFFICES ASSUME LockTypeOK, DataTypeOK, IInv, [Next]_vars, mpc' = "Wait"
             PROVE  Total' >= LowWater \/ wpc' = "Signal"
  BY DEF TypeOK, IInv, NoLostSignal
<1>1. Total \in Nat
  BY TotalType DEF DataTypeOK
<1>2. CASE MainEnter
  <2>1. Total > Cap - 1 /\ Total' = Total
    BY <1>2 DEF MainEnter, queueVars, Total
  <2> QED BY <1>1, <2>1, CapAssumption
<1>3. CASE WriterDeq
  BY <1>3 DEF WriterDeq
<1>4. CASE WriterSignal
  <2>1. Total' = Total /\ ~(Total < LowWater)
    BY <1>4 DEF WriterSignal, queueVars, Total
  <2> QED BY <1>1, <2>1, CapAssumption
<1>5. ASSUME mpc = "Wait", count' = count, wpc' = wpc \/ wpc # "Signal"
      PROVE  Total' >= LowWater \/ wpc' = "Signal"
  BY <1>5 DEF IInv, NoLostSignal, Total
<1>6. ~MainPut /\ ~MainSpurious /\ \A d \in Dest, x \in Packet, bulk \in BOOLEAN : ~MainRead(d, x, bulk)
  BY DEF MainPut, MainSpurious, MainRead
<1>7. CASE WriterScan \/ WriterPoll \/ WriterLock \/ WriterWrite
  BY <1>5, <1>7 DEF WriterScan, WriterPoll, WriterLock, WriterWrite, mainVars, queueVars
<1>8. CASE Config \/ ReportStop \/ UNCHANGED vars
  BY <1>5, <1>8 DEF Config, ConfigGrant, ConfigTest, ConfigLoad, ConfigStore, ConfigAck,
                    ReportStop, mainVars, queueVars, writerVars, vars
<1> QED
  BY <1>2, <1>3, <1>4, <1>6, <1>7, <1>8, Zenon DEF Next, Main, Writer

LEMMA IInvInit == Init => IInv
BY TypeInit, CapAssumption
   DEF Init, IInv, LockInv, CountInv, HeadInv, SlotInv, LateInv, NoLostSignal, Total, Queue

\* Types, lock holder, counts, heads, slot and late packets, together.
THEOREM InductiveInvariant == Spec => []IInv
<1>1. Init => IInv
  BY IInvInit
<1>2. IInv /\ [Next]_vars => IInv'
  BY TypeStep, LockStep, CountStep, HeadStep, SlotStep, LateStep, SignalStep DEF IInv
<1>3. QED
  BY <1>1, <1>2, PTL DEF Spec

\* The variables keep their types; write_tun's index stays among the queues.
THEOREM TypeCorrect == Spec => []TypeOK
<1>1. IInv => TypeOK
  BY DEF IInv
<1>2. QED
  BY <1>1, InductiveInvariant, PTL

\* Never more than Cap packets wait.
THEOREM Bounded == Spec => []QueuesBounded
<1>1. IInv => QueuesBounded
  BY TotalType, CapAssumption
     DEF TypeOK, DataTypeOK, IInv, CountInv, QueuesBounded
<1>2. QED
  BY <1>1, InductiveInvariant, PTL

\* main is never left waiting while the queues are low.
THEOREM SignalNotLost == Spec => []NoLostSignal
<1>1. IInv => NoLostSignal
  BY DEF IInv
<1>2. QED
  BY <1>1, InductiveInvariant, PTL

\* qu_mutex is unlocked only by the thread that holds it.
THEOREM UnlockedOnce == Spec => []UnlockOnce
<1>1. IInv => UnlockOnce
  BY DEF IInv, LockInv, UnlockOnce
<1>2. QED
  BY <1>1, InductiveInvariant, PTL

\* At most one packet leaves after the slot was given back.
THEOREM AtMostOneLate == Spec => []OneLatePacket
<1>1. IInv => OneLatePacket
  BY DEF IInv, LateInv, OneLatePacket
<1>2. QED
  BY <1>1, InductiveInvariant, PTL

\* No race on the slot makes it longer than the grant.
THEOREM WithinBudget == Spec => []SlotBudget
<1>1. IInv => SlotBudget
  BY DEF IInv, SlotInv, SlotBudget
<1>2. QED
  BY <1>1, InductiveInvariant, PTL

-----------------------------------------------------------------------------
(* The threads implement Outbox.                                           *)

\* Steps that write no packet and touch no queue are steps of the Outbox only
\* when they read a packet; otherwise they stutter.
LEMMA BoxStutter ==
  ASSUME q' = q, out' = out, i' = i \/ (wpc # "Deq" /\ wpc' # "Deq"),
         wpc' = "Deq" <=> wpc = "Deq",
         pkt' = pkt \/ (mpc = "Read" /\ mpc' = "Read"),
         mpc' = "Read" <=> mpc = "Read"
  PROVE  UNCHANGED <<InHand, Queued, out>>
BY DEF InHand, Queued

LEMMA BoxStep ==
  ASSUME IInv, [Next]_vars
  PROVE  [Box!Next]_<<InHand, Queued, out>>
<1> USE DEF TypeOK, IInv
<1>1. ASSUME NEW d \in Dest, NEW x \in Packet, NEW bulk \in BOOLEAN,
             MainRead(d, x, bulk)
      PROVE  Box!Next
  <2>1. InHand = <<>> /\ InHand' = <<d, x>> /\ Queued' = Queued /\ out' = out
    BY <1>1 DEF MainRead, InHand, Queued, queueVars, writerVars
  <2>2. Box!Read(d, x)
    BY <2>1 DEF Box!Read, InHand, Queued
  <2>3. d \in Queue
    BY DestAssumption DEF Queue
  <2>4. QED
    BY <2>2, <2>3 DEF Box!Next
<1>2. CASE MainPut
  <2>1. /\ pkt.d \in Queue /\ pkt.x \in Packet
        /\ InHand = <<pkt.d, pkt.x>> /\ InHand' = <<>>
    BY <1>2, DestAssumption DEF MainPut, DataTypeOK, Pkt, Queue, InHand
  <2>2. wpc # "Deq" /\ wpc' # "Deq"
    BY <1>2 DEF MainPut, writerVars, IInv, LockInv
  <2>3. Queued = [d \in Queue |-> q[d]] /\ Queued' = [d \in Queue |-> q'[d]]
    BY <2>2 DEF Queued
  <2>4. CASE pkt.bulk
    <3>1. q' = [q EXCEPT ![pkt.d] = Append(q[pkt.d], pkt.x)] /\ out' = out
      BY <1>2, <2>4 DEF MainPut, Enq
    <3>2. Queued' = [Queued EXCEPT ![pkt.d] = Append(Queued[pkt.d], pkt.x)]
      BY <2>1, <2>3, <3>1 DEF DataTypeOK
    <3>3. Box!Accept(pkt.d, pkt.x)
      BY <2>1, <3>1, <3>2 DEF Box!Accept, InHand, Queued
    <3>4. QED
      BY <2>1, <3>3 DEF Box!Next
  <2>5. CASE ~pkt.bulk
    <3>1. out' = <<pkt.d, pkt.x>> /\ Queued' = Queued
      BY <1>2, <2>3, <2>5 DEF MainPut, queueVars
    <3>2. Box!Direct(pkt.d, pkt.x)
      BY <2>1, <3>1 DEF Box!Direct, InHand, Queued
    <3>3. QED
      BY <2>1, <3>2 DEF Box!Next
  <2>6. QED
    BY <2>4, <2>5
<1>3. CASE WriterWrite
  <2>1. /\ i \in Queue /\ q[i] # <<>> /\ q' = q /\ i' = i
        /\ wpc = "Write" /\ wpc' = "Deq" /\ out' = <<i, Head(q[i])>>
    BY <1>3 DEF WriterWrite, IInv, HeadInv, DataTypeOK, queueVars
  <2>2. Queued = [d \in Queue |-> q[d]]
    BY <2>1 DEF Queued
  <2>3. Queued' = [d \in Queue |-> IF d = i THEN Tail(q[d]) ELSE q[d]]
    BY <2>1 DEF Queued
  <2>4. Queued' = [Queued EXCEPT ![i] = Tail(Queued[i])]
    BY <2>1, <2>2, <2>3
  <2>5. Queued[i] = q[i]
    BY <2>1, <2>2
  <2>6. InHand' = InHand
    BY <1>3 DEF WriterWrite, mainVars, InHand
  <2>7. Box!Deliver(i)
    BY <2>1, <2>4, <2>5, <2>6 DEF Box!Deliver, InHand, Queued
  <2>8. QED
    BY <2>1, <2>7 DEF Box!Next
<1>4. CASE WriterDeq
  <2>1. /\ i \in Queue /\ q[i] # <<>> /\ i' = i /\ out' = out
        /\ wpc = "Deq" /\ wpc' = "Signal" /\ q' = [q EXCEPT ![i] = Tail(q[i])]
    BY <1>4 DEF WriterDeq, Deq, IInv, HeadInv, DataTypeOK
  <2>2. Queued = [d \in Queue |-> IF d = i THEN Tail(q[d]) ELSE q[d]]
    BY <2>1 DEF Queued
  <2>3. Queued' = [d \in Queue |-> q'[d]]
    BY <2>1 DEF Queued
  <2>4. Queued' = Queued
    BY <2>1, <2>2, <2>3 DEF DataTypeOK
  <2>5. InHand' = InHand
    BY <1>4 DEF WriterDeq, mainVars, InHand
  <2>6. QED
    BY <2>1, <2>4, <2>5
<1>5. CASE MainEnter \/ MainSpurious
  BY <1>5, BoxStutter
     DEF MainEnter, MainSpurious, queueVars, writerVars
<1>6. CASE WriterScan \/ WriterPoll \/ WriterLock \/ WriterSignal
  BY <1>6, BoxStutter
     DEF WriterScan, WriterPoll, WriterLock, WriterSignal, queueVars, mainVars
<1>7. CASE Config \/ ReportStop \/ UNCHANGED vars
  BY <1>7, BoxStutter
     DEF Config, ConfigGrant, ConfigTest, ConfigLoad, ConfigStore, ConfigAck,
         ReportStop, queueVars, mainVars, writerVars, vars
<1>8. QED
  BY <1>1, <1>2, <1>3, <1>4, <1>5, <1>6, <1>7 DEF Next, Main, Writer

\* Each packet the process has read is written exactly once, and the queued ones
\* in the order of their destination.
THEOREM ImplementsOutbox == Spec => OutboxSpec
<1>1. Init => Box!Init
  BY DEF Init, Box!Init, InHand, Queued
<1>2. IInv /\ [Next]_vars => [Box!Next]_Box!vars
  BY BoxStep DEF Box!vars, InHand, Queued
<1>3. QED
  BY <1>1, <1>2, InductiveInvariant, PTL DEF Spec, OutboxSpec, Box!Spec

-----------------------------------------------------------------------------
(* recv_config and report_task implement SlotClient.                       *)

LEMMA SlaveStep ==
  ASSUME IInv, [Next]_vars
  PROVE  [Slave!Next]_<<Phase, Left>>
<1>1. tmp \in Int /\ slot \in Int
  BY DEF IInv, TypeOK, DataTypeOK
<1>2. CASE ConfigGrant
  <2>1. Phase[1] = "idle" /\ Phase' = [Phase EXCEPT ![1] = "run"]
    BY <1>2 DEF ConfigGrant, Phase
  <2>2. Left' = [Left EXCEPT ![1] = Grant]
    BY <1>2, GrantAssumption DEF ConfigGrant, Left, TicksLeft
  <2>3. Slave!Receive(1, Grant)
    BY <2>1, <2>2 DEF Slave!Receive
  <2> QED BY <2>3 DEF Slave!Next
<1>3. CASE ConfigTest
  BY <1>1, <1>3 DEF ConfigTest, Phase, Left, TicksLeft
<1>4. CASE ConfigLoad
  BY <1>4 DEF ConfigLoad, Phase, Left, TicksLeft
<1>5. CASE ConfigStore
  <2>1. /\ cpc = "Store" /\ cpc' = "Test" /\ slot' = tmp - 1 /\ Phase' = Phase /\ Phase[1] = "run"
    BY <1>5 DEF ConfigStore, Phase
  <2>2. CASE tmp > 0
    <3>1. Left[1] = tmp /\ Left' = [Left EXCEPT ![1] = Left[1] - 1]
      BY <1>1, <2>1, <2>2 DEF Left, TicksLeft
    <3>2. Slave!Tick(1)
      BY <2>1, <2>2, <3>1 DEF Slave!Tick
    <3> QED BY <3>2 DEF Slave!Next
  <2>3. CASE ~(tmp > 0)
    BY <1>1, <2>1, <2>3 DEF Left, TicksLeft
  <2> QED BY <2>2, <2>3
<1>6. CASE ConfigAck
  <2>1. /\ Phase[1] = "run" /\ Left[1] = 0 /\ Left' = Left
        /\ Phase' = [Phase EXCEPT ![1] = "idle"]
    BY <1>6 DEF ConfigAck, Phase, Left, TicksLeft, IInv, SlotInv
  <2>2. Slave!Acknowledge(1)
    BY <2>1 DEF Slave!Acknowledge
  <2> QED BY <2>2 DEF Slave!Next
<1>7. CASE ReportStop
  <2>1. slot' = 0 /\ cpc' = cpc /\ tmp' = tmp /\ Phase' = Phase
    BY <1>7 DEF ReportStop, configVars, Phase
  <2>2. CASE cpc = "Store" \/ ~(slot > 0)
    BY <1>1, <2>1, <2>2 DEF Left, TicksLeft
  <2>3. CASE cpc # "Store" /\ slot > 0
    <3>1. Phase[1] = "run"
      BY <2>3 DEF Phase, IInv, SlotInv
    <3>2. Left[1] > 0 /\ Left' = [Left EXCEPT ![1] = 0]
      BY <1>1, <2>1, <2>3 DEF Left, TicksLeft
    <3>3. Slave!Stop(1)
      BY <2>1, <3>1, <3>2 DEF Slave!Stop
    <3> QED BY <3>3 DEF Slave!Next
  <2> QED BY <2>2, <2>3
<1>8. ASSUME UNCHANGED <<cpc, tmp, slot>> PROVE UNCHANGED <<Phase, Left>>
  BY <1>8 DEF Phase, Left, TicksLeft
<1>9. CASE Main \/ MainSpurious \/ Writer \/ UNCHANGED vars
  BY <1>8, <1>9 DEF Main, MainEnter, MainPut, MainSpurious, Writer, WriterScan, WriterPoll,
                    WriterLock, WriterWrite, WriterDeq, WriterSignal, configVars, vars
<1>10. ASSUME NEW d \in Dest, NEW x \in Packet, NEW bulk \in BOOLEAN, MainRead(d, x, bulk)
       PROVE  UNCHANGED <<Phase, Left>>
  BY <1>8, <1>10 DEF MainRead, configVars
<1> QED
  BY <1>2, <1>3, <1>4, <1>5, <1>6, <1>7, <1>9, <1>10 DEF Next, Config

\* The unlocked early stop and the countdown in two accesses are, seen from outside,
\* a slot that only runs down and is acknowledged when nothing of it is left.
THEOREM ImplementsClient == Spec => ClientSpec
<1>1. Init => Slave!Init
  BY DEF Init, Slave!Init, Phase, Left, TicksLeft
<1>2. IInv /\ [Next]_vars => [Slave!Next]_Slave!vars
  BY SlaveStep DEF Slave!vars
<1>3. QED
  BY <1>1, <1>2, InductiveInvariant, PTL DEF Spec, ClientSpec, Slave!Spec
=============================================================================
