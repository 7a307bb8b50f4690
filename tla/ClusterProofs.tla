---------------------------- MODULE ClusterProofs ----------------------------
(***************************************************************************)
(* Proofs about Cluster: the whole control loop implements SlotProtocol,   *)
(* whose theorems therefore hold of it, for every number of slaves, of     *)
(* outputs and of reports on their way.                                    *)
(***************************************************************************)
EXTENDS Cluster, SlotProtocolProofs

LEMMA ClusterInitInv == ClusterInit => ClusterIInv
<1> SUFFICES ASSUME ClusterInit PROVE ClusterIInv
  OBVIOUS
<1>1. TypeOK /\ RequestsInPlace
  BY TypeInit, IInvInit DEF ClusterInit
<1>2. ReportTypeOK /\ OutputsAddUp
  BY MaxWireAssumption DEF ClusterInit, ReportTypeOK, OutputsAddUp
<1> QED BY <1>1, <1>2 DEF ClusterIInv, ClusterTypeOK

-----------------------------------------------------------------------------
(* Every step of the cluster is one of SlotProtocol, or none.              *)

\* report_task stops a slot: it may be open only while its node waits for it to end.
LEMMA StopIsEarlyStop ==
  ASSUME TypeOK, RequestsInPlace, NEW n \in Node, slot' = [slot EXCEPT ![n] = 0],
         UNCHANGED <<masterVars, p, reqs, peer, reply, spc, inc>>
  PROVE  [Next]_vars
<1>1. slot \in [Node -> Nat] /\ slot[n] \in Nat
  BY DEF TypeOK, DataTypeOK
<1>2. CASE slot[n] = 0
  <2>1. slot' = slot
    BY <1>1, <1>2
  <2> QED BY <2>1 DEF vars, masterVars
<1>3. CASE slot[n] # 0
  <2>1. slot[n] > 0 /\ spc[n] = "Run"
    BY <1>1, <1>3 DEF RequestsInPlace, PhaseInv
  <2> QED BY <2>1 DEF EarlyStop, Next
<1> QED BY <1>2, <1>3

LEMMA StepsAreSlotSteps ==
  ASSUME ClusterIInv, [ClusterNext]_clusterVars
  PROVE  [Next]_vars
<1> USE DEF ClusterIInv, ClusterTypeOK
<1>1. CASE Publish \/ Schedule
  BY <1>1 DEF Publish, Schedule, Master, Next
<1>2. ASSUME NEW n \in Node, DeliverReport(n) PROVE [Next]_vars
  <2>1. Head(wire[n]) \in Sizes
    BY <1>2 DEF DeliverReport, ClusterTypeOK, ReportTypeOK
  <2> QED BY <1>2, <2>1 DEF DeliverReport, Next
<1>3. ASSUME NEW n \in Node, Control(n) PROVE [Next]_vars
  BY <1>3 DEF Control, Next
<1>4. ASSUME NEW n \in Node, Announce(n) \/ Transfer(n) \/ TestFast(n) \/ ResetFast(n)
      PROVE  [Next]_vars
  BY <1>4 DEF Announce, Transfer, TestFast, ResetFast
<1>5. ASSUME NEW n \in Node, ReadFile(n) PROVE [Next]_vars
  <2>1. CASE UNCHANGED slot
    BY <1>5, <2>1 DEF ReadFile, vars, masterVars
  <2>2. CASE slot' = [slot EXCEPT ![n] = 0]
    BY <1>5, <2>2, StopIsEarlyStop DEF ReadFile
  <2> QED BY <1>5, <2>1, <2>2 DEF ReadFile
<1>6. CASE UNCHANGED clusterVars
  BY <1>6 DEF clusterVars
<1> QED BY <1>1, <1>2, <1>3, <1>4, <1>5, <1>6 DEF ClusterNext, Report

-----------------------------------------------------------------------------
(* The reporters.                                                          *)

LEMMA SizeIsReported == ASSUME NEW outputs PROVE Size(outputs) \in Sizes
<1>1. \A x : Sign(x) \in {-1, 0, 1}
  BY DEF Sign
<1> QED BY <1>1, ReportSizesAssumption DEF Size

\* The types and sums of the nodes that do not report are those of before.
LEMMA ReportStep ==
  ASSUME ClusterIInv, [ClusterNext]_clusterVars
  PROVE  ReportTypeOK' /\ OutputsAddUp'
<1> USE DEF ClusterIInv, ClusterTypeOK
<1>1. CASE Publish
  BY <1>1 DEF Publish, ReportTypeOK, OutputsAddUp
<1>2. ASSUME UNCHANGED reportVars PROVE ReportTypeOK' /\ OutputsAddUp'
  BY <1>2 DEF reportVars, ReportTypeOK, OutputsAddUp
<1>3. ASSUME NEW n \in Node, DeliverReport(n) PROVE ReportTypeOK' /\ OutputsAddUp'
  <2>1. Tail(wire[n]) \in Seq(Sizes) /\ Len(Tail(wire[n])) <= MaxWire
    BY <1>3, MaxWireAssumption DEF DeliverReport, ReportTypeOK
  <2> QED BY <1>3, <2>1 DEF DeliverReport, ReportTypeOK, OutputsAddUp
<1>4. ASSUME NEW n \in Node, Announce(n) PROVE ReportTypeOK' /\ OutputsAddUp'
  BY <1>4 DEF Announce, ReportTypeOK, OutputsAddUp
<1>5. ASSUME NEW n \in Node, Transfer(n) PROVE ReportTypeOK' /\ OutputsAddUp'
  BY <1>5 DEF Transfer, ReportTypeOK, OutputsAddUp
<1>6. ASSUME NEW n \in Node, NEW size \in Sizes, Len(wire[n]) < MaxWire
      PROVE  Append(wire[n], size) \in Seq(Sizes) /\ Len(Append(wire[n], size)) <= MaxWire
  BY <1>6, MaxWireAssumption DEF ReportTypeOK
<1>7. ASSUME NEW n \in Node, ReadFile(n) PROVE ReportTypeOK' /\ OutputsAddUp'
  <2>1. /\ list' = [list EXCEPT ![n] = @ + todo[n] - done[n]]
        /\ todo' = [todo EXCEPT ![n] = 0] /\ done' = [done EXCEPT ![n] = 0]
        /\ rpc' = [rpc EXCEPT ![n] = "Test"] /\ UNCHANGED <<announced, fast>>
    BY <1>7 DEF ReadFile
  <2>2. /\ OutputsAddUp' /\ list' \in [Node -> Nat]
        /\ todo' \in [Node -> Nat] /\ done' \in [Node -> Nat]
    BY <2>1 DEF ReportTypeOK, OutputsAddUp
  <2>3. wire' \in [Node -> Seq(Sizes)] /\ \A m \in Node : Len(wire'[m]) <= MaxWire
    <3>1. CASE UNCHANGED wire
      BY <3>1 DEF ReportTypeOK
    <3>2. CASE Len(wire[n]) < MaxWire /\ wire' = [wire EXCEPT ![n] = Append(@, Size(list'[n]))]
      BY <1>6, <3>2, SizeIsReported DEF ReportTypeOK
    <3> QED BY <1>7, <3>1, <3>2 DEF ReadFile
  <2> QED BY <2>1, <2>2, <2>3 DEF ReportTypeOK
<1>8. ASSUME NEW n \in Node, TestFast(n) PROVE ReportTypeOK' /\ OutputsAddUp'
  <2>1. wire' \in [Node -> Seq(Sizes)] /\ \A m \in Node : Len(wire'[m]) <= MaxWire
    <3>1. CASE UNCHANGED wire
      BY <3>1 DEF ReportTypeOK
    <3>2. CASE Len(wire[n]) < MaxWire /\ wire' = [wire EXCEPT ![n] = Append(@, Size(list[n]))]
      BY <1>6, <3>2, SizeIsReported DEF ReportTypeOK
    <3> QED BY <1>8, <3>1, <3>2 DEF TestFast
  <2>2. rpc' \in [Node -> {"Read", "Test", "Reset"}]
    BY <1>8 DEF TestFast, ReportTypeOK
  <2> QED BY <1>8, <2>1, <2>2 DEF TestFast, ReportTypeOK, OutputsAddUp
<1>9. ASSUME NEW n \in Node, ResetFast(n) PROVE ReportTypeOK' /\ OutputsAddUp'
  BY <1>9 DEF ResetFast, ReportTypeOK, OutputsAddUp
<1> QED
  BY <1>1, <1>2, <1>3, <1>4, <1>5, <1>7, <1>8, <1>9
     DEF ClusterNext, Schedule, Control, Report, clusterVars

LEMMA ClusterStep == ClusterIInv /\ [ClusterNext]_clusterVars => ClusterIInv'
<1> SUFFICES ASSUME ClusterIInv, [ClusterNext]_clusterVars PROVE ClusterIInv'
  OBVIOUS
<1>1. TypeOK' /\ RequestsInPlace'
  BY StepsAreSlotSteps, TypeStep, IInvStep DEF ClusterIInv, ClusterTypeOK
<1> QED BY <1>1, ReportStep DEF ClusterIInv, ClusterTypeOK

-----------------------------------------------------------------------------
(* Theorems                                                                *)

\* The outputs on the list, in the file and done add up, and the invariant of the
\* slot protocol stays, with the reporters at work.
THEOREM OutputsAreKept == ClusterSpec => []ClusterIInv
  BY ClusterInitInv, ClusterStep, PTL DEF ClusterSpec

\* The control loop implements SlotProtocol: stopping a slot early is all that
\* the reporters do to it.
THEOREM ImplementsSlotProtocol == ClusterSpec => Spec
<1>1. ClusterInit => Init
  BY DEF ClusterInit
<1>2. ClusterIInv /\ [ClusterNext]_clusterVars => [Next]_vars
  BY StepsAreSlotSteps
<1> QED BY <1>1, <1>2, ClusterInitInv, ClusterStep, PTL DEF ClusterSpec, Spec

\* So two nodes are never given the channel together in the whole cluster.
THEOREM ExclusiveInCluster == ClusterSpec => []SlotExclusive
  BY ImplementsSlotProtocol, Exclusive, PTL

\* With the reporters running the scheduler is still a token, the controllers still do
\* with their slots what Forwarder does, and neither end waits for the other in vain.
THEOREM ProtocolInCluster == ClusterSpec => TokenSpec /\ ClientSpec /\ []NoMutualWait
  BY ImplementsSlotProtocol, ImplementsToken, ImplementsClients, NeverMutualWait, PTL

\* A scheduler that searches while no size it has is positive and nobody is about to report
\* never leaves the search of send_config again: what updates_go_on shows of one slave
\* is final, for any number of them and whatever is announced.
THEOREM HangIsFinal == ClusterSpec => StuckForGood
<1>1. ClusterIInv /\ [ClusterNext]_clusterVars => [Stuck => Stuck']_clusterVars
  <2> SUFFICES ASSUME ClusterIInv, ClusterNext, Stuck PROVE Stuck'
    OBVIOUS
  <2>1. \A n \in Node : ~(slot[n] > 0)
    BY OpenIsAwaited DEF Stuck, ClusterIInv, ClusterTypeOK, IInv
  <2>2. CASE Publish \/ Schedule
    <3>1. SearchNext /\ UNCHANGED reportVars
      <4>1. pri \in 1 .. LastNode
        BY DEF Stuck, ClusterIInv, ClusterTypeOK, TypeOK, SchedulerTypeOK
      <4>2. ~(p[pri] > 0)
        <5>1. p[pri] \in Int /\ p[pri] <= 0
          BY <4>1, SizesAssumption
             DEF Stuck, ClusterIInv, ClusterTypeOK, TypeOK, SchedulerTypeOK, DataTypeOK
        <5> QED BY <5>1
      <4> QED BY <2>2, <4>2 DEF Stuck, Publish, Schedule, PublishBeacon, RecvHello,
                  SendWelcome, RecvReady, CheckFound, CheckNothing, SearchHit, SkipNode,
                  SendGrant, RecvAck
    <3> QED BY <3>1 DEF Stuck, SearchNext, reportVars
  <2>3. ASSUME NEW n \in Node, DeliverReport(n) PROVE Stuck'
    BY <2>3 DEF DeliverReport, Stuck
  <2>4. ASSUME NEW n \in Node, Control(n) PROVE Stuck'
    <3>1. UNCHANGED <<masterVars, p, reportVars>>
      BY <2>4 DEF Control, Slave, SendHello, RecvWelcome, SendReady, RecvGrant, Tick, SendAck
    <3> QED BY <3>1 DEF Stuck, masterVars, reportVars
  <2>5. ASSUME NEW n \in Node, Announce(n) PROVE Stuck'
    BY <2>5 DEF Announce, Stuck, vars, masterVars
  <2>6. ASSUME NEW n \in Node, Transfer(n) PROVE Stuck'
    BY <2>1, <2>6 DEF Transfer
  <2>7. ASSUME NEW n \in Node, ReadFile(n) PROVE Stuck'
    <3>1. done[n] = 0 /\ rpc[n] = "Read" /\ done \in [Node -> Nat]
      BY <2>7 DEF ReadFile, Stuck, ClusterIInv, ClusterTypeOK, ReportTypeOK
    <3>2. UNCHANGED <<wire, masterVars, p, fast>> /\ done' = done
      BY <2>7, <3>1 DEF ReadFile
    <3>3. \A m \in Node : fast[m] => rpc'[m] = "Reset"
      BY <2>7, <3>1 DEF ReadFile, Stuck, ClusterIInv, ClusterTypeOK, ReportTypeOK
    <3> QED BY <3>2, <3>3 DEF Stuck, masterVars
  <2>8. ASSUME NEW n \in Node, TestFast(n) PROVE Stuck'
    <3>1. ~fast[n]
      BY <2>8 DEF TestFast, Stuck
    <3> QED BY <2>8, <3>1 DEF TestFast, Stuck, vars, masterVars, ClusterIInv,
                  ClusterTypeOK, ReportTypeOK
  <2>9. ASSUME NEW n \in Node, ResetFast(n) PROVE Stuck'
    BY <2>9 DEF ResetFast, Stuck, vars, masterVars, ClusterIInv, ClusterTypeOK, ReportTypeOK
  <2> QED BY <2>2, <2>3, <2>4, <2>5, <2>6, <2>7, <2>8, <2>9 DEF ClusterNext, Report
<1> QED BY <1>1, ClusterInitInv, ClusterStep, PTL DEF ClusterSpec, StuckForGood
=============================================================================
