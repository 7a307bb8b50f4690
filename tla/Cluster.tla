------------------------------- MODULE Cluster -------------------------------
(***************************************************************************)
(* The control loop of the whole cluster: SlotProtocol composed with the   *)
(* reporters of the slaves (report_task and recv_broadcast of monitor.h),  *)
(* the beacon the master publishes in every cycle, and the map output the  *)
(* slots are for.  Output is announced in a file by Hadoop on the node; it *)
(* leaves while the slot of the node is open.  A node reports what it has  *)
(* when it has heard a beacon, and when a transfer is complete.            *)
(***************************************************************************)
EXTENDS SlotProtocol, Sequences

LOCAL INSTANCE Functions

CONSTANTS
  Half,        \* the outputs whose sizes add up to half the range of an int
  MaxOutputs,  \* bound: map outputs announced in the whole cluster
  MaxWire      \* bound: reports of one node on their way (ZeroMQ queues 1000)

ASSUME HalfAssumption == Half \in Nat \ {0}
ASSUME MaxOutputsAssumption == MaxOutputs \in Nat
ASSUME MaxWireAssumption == MaxWire \in Nat \ {0}
ASSUME ReportSizesAssumption == {-1, 0, 1} \subseteq Sizes

VARIABLES
  announced,  \* announced[n]: outputs announced on n so far
  todo,       \* todo[n]: announcements report_task has not read
  done,       \* done[n]: completions report_task has not read
  list,       \* list[n]: outputs in pre_map_list
  fast,       \* fast[n]: fast_update
  rpc,        \* rpc[n]: where report_task is
  wire        \* wire[n]: reports on their way to process_report

reportVars == <<announced, todo, done, list, fast, rpc, wire>>
clusterVars == <<vars, reportVars>>

ReportTypeOK ==
  /\ announced \in [Node -> Nat] /\ list \in [Node -> Nat]
  /\ todo \in [Node -> Nat] /\ done \in [Node -> Nat]
  /\ fast \in [Node -> BOOLEAN]
  /\ rpc \in [Node -> {"Read", "Test", "Reset"}]
  /\ wire \in [Node -> Seq(Sizes)] /\ \A n \in Node : Len(wire[n]) <= MaxWire

ClusterTypeOK == TypeOK /\ ReportTypeOK

ClusterInit ==
  /\ Init
  /\ announced = [n \in Node |-> 0]
  /\ todo = [n \in Node |-> 0] /\ done = [n \in Node |-> 0]
  /\ list = [n \in Node |-> 0]
  /\ fast = [n \in Node |-> FALSE]
  /\ rpc = [n \in Node |-> "Read"]
  /\ wire = [n \in Node |-> <<>>]

-----------------------------------------------------------------------------
(* The master: send_config (its beacon apart) and process_report.          *)

\* The beacon reaches the reporters that run.
Publish ==
  /\ PublishBeacon
  /\ fast' = [n \in Node |-> fast[n] \/ Reporting(n)]
  /\ UNCHANGED <<announced, todo, done, list, rpc, wire>>

Schedule ==
  /\ \/ RecvHello \/ SendWelcome \/ RecvReady \/ CheckFound \/ CheckNothing
     \/ SearchNext \/ SearchHit \/ SkipNode \/ SendGrant \/ RecvAck
  /\ UNCHANGED reportVars

\* A mistake the checks must notice: the report is filed under the next node.
DeliverReportNextNode(n) ==
  /\ wire[n] # <<>>
  /\ ProcessReport(Succ(n), Head(wire[n]))
  /\ wire' = [wire EXCEPT ![n] = Tail(@)]
  /\ UNCHANGED <<announced, todo, done, list, fast, rpc>>

\* process_report takes a report from its queue.
DeliverReport(n) ==
  /\ wire[n] # <<>>
  /\ ProcessReport(n, Head(wire[n]))
  /\ wire' = [wire EXCEPT ![n] = Tail(@)]
  /\ UNCHANGED <<announced, todo, done, list, fast, rpc>>

-----------------------------------------------------------------------------
(* A slave                                                                 *)

Control(n) == Slave(n) /\ UNCHANGED reportVars

AnnouncedInAll == FoldFunction(+, 0, announced)

\* Hadoop announces a map output (a line of type 1).
Announce(n) ==
  /\ AnnouncedInAll < MaxOutputs
  /\ announced' = [announced EXCEPT ![n] = @ + 1]
  /\ todo' = [todo EXCEPT ![n] = @ + 1]
  /\ UNCHANGED <<vars, done, list, fast, rpc, wire>>

\* The writer sends an output the reporter knows of; Hadoop announces that it
\* has been fetched (a line of type 0 or 2).
Transfer(n) ==
  /\ slot[n] > 0
  /\ done[n] < list[n]
  /\ done' = [done EXCEPT ![n] = @ + 1]
  /\ UNCHANGED <<vars, announced, todo, list, fast, rpc, wire>>

Sign(x) == IF x > 0 THEN 1 ELSE IF x < 0 THEN -1 ELSE 0

\* get_data_size adds the sizes up in an int, without a check: from Half outputs on
\* the sum is negative.  Outputs are taken to be of one size.
Size(outputs) == Sign(((outputs + Half) % (2 * Half)) - Half)

\* A mistake the checks must notice: the place in the file is not remembered.
ReadFileAgain(n) ==
  /\ rpc[n] = "Read"
  /\ Reporting(n)
  /\ list' = [list EXCEPT ![n] = @ + todo[n] - done[n]]
  /\ \/ UNCHANGED <<slot, wire>>
     \/ /\ done[n] > 0
        /\ Len(wire[n]) < MaxWire
        /\ slot' = [slot EXCEPT ![n] = 0]
        /\ wire' = [wire EXCEPT ![n] = Append(@, Size(list'[n]))]
  /\ rpc' = [rpc EXCEPT ![n] = "Test"]
  /\ UNCHANGED <<masterVars, p, reqs, peer, reply, spc, inc, announced, fast, todo, done>>

\* One pass over the file, under qu_mutex2.  A completion stops the slot and is
\* reported at once, unless a reducer runs on the node (or, for a line of type 2,
\* outputs are left): both are possible here.
ReadFile(n) ==
  /\ rpc[n] = "Read"
  /\ Reporting(n)
  /\ list' = [list EXCEPT ![n] = @ + todo[n] - done[n]]
  /\ todo' = [todo EXCEPT ![n] = 0]
  /\ done' = [done EXCEPT ![n] = 0]
  /\ \/ UNCHANGED <<slot, wire>>
     \/ /\ done[n] > 0
        /\ Len(wire[n]) < MaxWire
        /\ slot' = [slot EXCEPT ![n] = 0]
        /\ wire' = [wire EXCEPT ![n] = Append(@, Size(list'[n]))]
  /\ rpc' = [rpc EXCEPT ![n] = "Test"]
  /\ UNCHANGED <<masterVars, p, reqs, peer, reply, spc, inc, announced, fast>>

\* fast_update is tested and the report sent without qu_mutex2 ...
TestFast(n) ==
  /\ rpc[n] = "Test"
  /\ IF fast[n]
       THEN /\ Len(wire[n]) < MaxWire
            /\ wire' = [wire EXCEPT ![n] = Append(@, Size(list[n]))]
            /\ rpc' = [rpc EXCEPT ![n] = "Reset"]
       ELSE /\ rpc' = [rpc EXCEPT ![n] = "Read"]
            /\ UNCHANGED wire
  /\ UNCHANGED <<vars, announced, todo, done, list, fast>>

\* ... and then reset under it; a beacon heard in between is forgotten.
ResetFast(n) ==
  /\ rpc[n] = "Reset"
  /\ fast' = [fast EXCEPT ![n] = FALSE]
  /\ rpc' = [rpc EXCEPT ![n] = "Read"]
  /\ UNCHANGED <<vars, announced, todo, done, list, wire>>

Report(n) == ReadFile(n) \/ TestFast(n) \/ ResetFast(n)

ClusterNext ==
  \/ Publish \/ Schedule
  \/ \E n \in Node :
       \/ DeliverReport(n)
       \/ Control(n) \/ Announce(n) \/ Transfer(n) \/ Report(n)

\* Every thread runs on and every message arrives; an output the node knows of is
\* fetched when slots keep being opened (reducers ask until they have it).
ClusterSpec ==
  /\ ClusterInit /\ [][ClusterNext]_clusterVars
  /\ WF_clusterVars(Publish) /\ WF_clusterVars(Schedule)
  /\ \A n \in Node :
       /\ WF_clusterVars(DeliverReport(n))
       /\ WF_clusterVars(Control(n))
       /\ WF_clusterVars(Report(n))
       /\ SF_clusterVars(Transfer(n))

-----------------------------------------------------------------------------
(* What the loop promises.                                                 *)

\* Nothing is listed twice or taken off twice on the way from the file to the
\* list and to the channel: a completion is of a listed output, what is listed or
\* unread was announced.
OutputsAddUp ==
  \A n \in Node : done[n] <= list[n] /\ list[n] + todo[n] <= announced[n]

\* The slots stay what SlotProtocol makes them although report_task, another
\* thread, sets them to 0 as well.
ClusterIInv == ClusterTypeOK /\ RequestsInPlace /\ OutputsAddUp

\* report_task says "Loop sends update every 2 seconds": every node goes on
\* sending updates.
UpdatesGoOn == \A n \in Node : []<>(rpc[n] = "Reset")

\* The scheduler stays in its search loop: no beacon, no grant, any more.
Hung == <>[](mpc = "Search")

\* Unless the scheduler hangs, every output that is announced is sent.
OutputIsSent ==
  \/ Hung
  \/ \A n \in Node : []<>(todo[n] = 0 /\ list[n] = 0)

\* The scheduler hangs for one reason only: no node's last report was positive (it was
\* 0, or the sum had overflowed) and no report is on its way, although outputs may wait.
HangsWithoutPositive ==
  Hung => <>[](\A n \in Node : p[n] <= 0 /\ wire[n] = <<>>)

\* The scheduler searches, no size it has is positive, and nobody is about to report:
\* no report is on its way, no completion is unread, and a beacon that was heard has
\* been answered.
Stuck ==
  /\ mpc = "Search" /\ \A n \in 1 .. LastNode : p[n] <= 0
  /\ \A n \in Node :
       /\ wire[n] = <<>> /\ done[n] = 0
       /\ fast[n] => rpc[n] = "Reset"

\* Nothing leads out of there, whatever Hadoop announces: the search sends no beacon,
\* without beacons nobody reports, and without reports the search goes on.
StuckForGood == [][Stuck => Stuck']_clusterVars
=============================================================================
