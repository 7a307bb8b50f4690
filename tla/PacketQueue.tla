----------------------------- MODULE PacketQueue -----------------------------
(***************************************************************************)
(* One of the nine queues of CreateLoopbackCS1Q.c as it lies in memory: a  *)
(* singly linked list with the pointers front, rear and temp.  enq runs in *)
(* main under qu_mutex; deq runs in write_tun under qu_mutex.  write_tun   *)
(* also reads front, and through it the head packet, without the mutex,    *)
(* while enq may be anywhere: enq is taken apart into its stores, which    *)
(* become visible in program order.  malloc returns any free address, also *)
(* one just freed, and never NULL.                                         *)
(***************************************************************************)
EXTENDS Integers, Sequences, FiniteSets

CONSTANTS
  Addr,       \* addresses of list nodes
  Packet,     \* packet contents
  NULL,
  Garbage     \* what fresh memory holds

ASSUME AddrAssumption == IsFiniteSet(Addr) /\ Addr # {} /\ NULL \notin Addr
ASSUME GarbageAssumption ==
  /\ Garbage \notin Packet /\ Garbage \notin Addr /\ Garbage # NULL
  /\ NULL \notin Packet

Node == [ptr : Addr \cup {NULL, Garbage}, data : Packet \cup {Garbage}]

VARIABLES
  heap,         \* the contents of the allocated nodes
  front, rear,  \* the ends of the list
  count,        \* the count field
  mpc,          \* where enq is; main holds qu_mutex unless it is "Idle"
  arg,          \* the packet given to enq
  cur,          \* the node enq fills: rear of an empty queue, temp otherwise
  wpc,          \* where write_tun is
  out           \* the packet written last

vars == <<heap, front, rear, count, mpc, arg, cur, wpc, out>>
mainVars == <<mpc, arg, cur>>
listVars == <<heap, front, rear, count>>

Allocated == DOMAIN heap

TypeOK ==
  /\ Allocated \subseteq Addr /\ heap \in [Allocated -> Node]
  /\ front \in Addr \cup {NULL} /\ rear \in Addr \cup {NULL}
  /\ count \in 0 .. Cardinality(Addr)
  /\ mpc \in {"Idle", "Alloc", "Ptr", "Data", "Front", "Link", "Rear", "Count"}
  /\ arg \in Packet \cup {NULL} /\ cur \in Addr \cup {NULL}
  /\ wpc \in {"Look", "Peek", "Lock"}
  /\ out \in Packet \cup {NULL}

\* create_queue.
Init ==
  /\ heap = << >>
  /\ front = NULL /\ rear = NULL /\ count = 0
  /\ mpc = "Idle" /\ arg = NULL /\ cur = NULL
  /\ wpc = "Look"
  /\ out = NULL

-----------------------------------------------------------------------------
(* enq                                                                     *)

\* main calls it only while fewer than the capacity are queued (is_empty() <= 499).
EnqCall(x) ==
  /\ mpc = "Idle"
  /\ Cardinality(Allocated) < Cardinality(Addr)
  /\ arg' = x
  /\ mpc' = "Alloc"
  /\ UNCHANGED <<listVars, cur, wpc, out>>

\* An empty queue gets its rear and a count of 0; otherwise temp is allocated.
EnqAlloc ==
  /\ mpc = "Alloc"
  /\ \E a \in Addr \ Allocated :
       /\ heap' = [b \in Allocated \cup {a} |->
                     IF b = a THEN [ptr |-> Garbage, data |-> Garbage]
                              ELSE heap[b]]
       /\ cur' = a
       /\ IF rear = NULL
            THEN rear' = a /\ count' = 0
            ELSE UNCHANGED <<rear, count>>
  /\ mpc' = "Ptr"
  /\ UNCHANGED <<front, arg, wpc, out>>

\* A mistake the checks must notice: the head is published before its contents.
EnqPtrAndFront ==
  /\ mpc = "Ptr"
  /\ heap' = [heap EXCEPT ![cur].ptr = NULL]
  /\ front' = IF rear = cur THEN rear ELSE front
  /\ mpc' = "Data"
  /\ UNCHANGED <<rear, count, arg, cur, wpc, out>>

EnqPtr ==
  /\ mpc = "Ptr"
  /\ heap' = [heap EXCEPT ![cur].ptr = NULL]
  /\ mpc' = "Data"
  /\ UNCHANGED <<front, rear, count, arg, cur, wpc, out>>

\* The copy of the packet and its size.
EnqData ==
  /\ mpc = "Data"
  /\ heap' = [heap EXCEPT ![cur].data = arg]
  /\ mpc' = IF rear = cur THEN "Front" ELSE "Link"
  /\ UNCHANGED <<front, rear, count, arg, cur, wpc, out>>

EnqFront ==
  /\ mpc = "Front"
  /\ front' = rear
  /\ mpc' = "Count"
  /\ UNCHANGED <<heap, rear, count, arg, cur, wpc, out>>

\* A mistake the checks must notice: the new node is linked behind the head.
EnqLinkAtFront ==
  /\ mpc = "Link"
  /\ heap' = [heap EXCEPT ![front].ptr = cur]
  /\ mpc' = "Rear"
  /\ UNCHANGED <<front, rear, count, arg, cur, wpc, out>>

EnqLink ==
  /\ mpc = "Link"
  /\ heap' = [heap EXCEPT ![rear].ptr = cur]
  /\ mpc' = "Rear"
  /\ UNCHANGED <<front, rear, count, arg, cur, wpc, out>>

EnqRear ==
  /\ mpc = "Rear"
  /\ rear' = cur
  /\ mpc' = "Count"
  /\ UNCHANGED <<heap, front, count, arg, cur, wpc, out>>

\* A mistake the checks must notice: the count of an empty queue starts at 0
\* and nothing is added.
EnqCountSkipsFirst ==
  /\ mpc = "Count"
  /\ count' = IF front = rear THEN count ELSE count + 1
  /\ mpc' = "Idle" /\ arg' = NULL /\ cur' = NULL
  /\ UNCHANGED <<heap, front, rear, wpc, out>>

\* The count, and then main unlocks qu_mutex.
EnqCount ==
  /\ mpc = "Count"
  /\ count' = count + 1
  /\ mpc' = "Idle" /\ arg' = NULL /\ cur' = NULL
  /\ UNCHANGED <<heap, front, rear, wpc, out>>

-----------------------------------------------------------------------------
(* write_tun                                                               *)

\* q[i].front != NULL, without the mutex.
WriterLook ==
  /\ wpc = "Look"
  /\ front # NULL
  /\ wpc' = "Peek"
  /\ UNCHANGED <<listVars, mainVars, out>>

\* It takes the ports from q[i].front->data, without the mutex.
WriterPeek ==
  /\ wpc = "Peek"
  /\ wpc' = "Lock"
  /\ UNCHANGED <<listVars, mainVars, out>>

\* A mistake the checks must notice: rear is left at the freed node.
DeqKeepsRear ==
  LET next == heap[front].ptr IN
  /\ heap' = [a \in Allocated \ {front} |-> heap[a]]
  /\ front' = next
  /\ rear' = rear
  /\ count' = IF count > 0 THEN count - 1 ELSE count

\* A mistake the checks must notice: a removed packet stays counted.
DeqUncounted ==
  LET next == heap[front].ptr IN
  /\ heap' = [a \in Allocated \ {front} |-> heap[a]]
  /\ front' = next
  /\ rear' = IF next = NULL THEN NULL ELSE rear
  /\ UNCHANGED count

\* deq: the head is freed and the next node, if any, becomes the head.
Deq ==
  LET next == heap[front].ptr IN
  /\ heap' = [a \in Allocated \ {front} |-> heap[a]]
  /\ front' = next
  /\ rear' = IF next = NULL THEN NULL ELSE rear
  /\ count' = IF count > 0 THEN count - 1 ELSE count

\* Under qu_mutex: cwrite of the head, then deq.
WriterTake ==
  /\ wpc = "Lock"
  /\ mpc = "Idle"
  /\ out' = heap[front].data
  /\ Deq
  /\ wpc' = "Look"
  /\ UNCHANGED mainVars

Next ==
  \/ \E x \in Packet : EnqCall(x)
  \/ EnqAlloc \/ EnqPtr \/ EnqData \/ EnqFront \/ EnqLink \/ EnqRear \/ EnqCount
  \/ WriterLook \/ WriterPeek \/ WriterTake

Spec == Init /\ [][Next]_vars

-----------------------------------------------------------------------------
(* What the list promises.                                                 *)

\* The k-th node of the list, from 0; after its end NULL.
NodeAt[k \in 0 .. Cardinality(Addr)] ==
  IF k = 0 THEN front
  ELSE IF NodeAt[k - 1] \in Allocated THEN heap[NodeAt[k - 1]].ptr
  ELSE NULL

Linked == {NodeAt[k] : k \in DOMAIN NodeAt} \ {NULL}

Order == [k \in 1 .. Cardinality(Linked) |-> NodeAt[k - 1]]
Contents == [k \in DOMAIN Order |-> heap[Order[k]].data]

\* Every time write_tun reads the head packet without the mutex, the head is an
\* allocated node whose packet has been copied, wherever enq is at that moment.
PeekSafe == wpc = "Peek" => front \in Allocated /\ heap[front].data \in Packet

\* The pointers of the list: two nodes never have the same successor, none has
\* the head for one, and none points to what is not allocated.  Only the node
\* that enq has just allocated holds garbage, and the head is never that node.
PointersOK ==
  /\ \A a, b \in Allocated : heap[a].ptr = heap[b].ptr /\ heap[a].ptr \in Addr => a = b
  /\ front # NULL => front \in Allocated /\ \A a \in Allocated : heap[a].ptr # front
  /\ \A a \in Allocated :
       /\ heap[a].ptr \in Allocated \cup {NULL} \/ (a = cur /\ mpc = "Ptr")
       /\ heap[a].data \in Packet \/ (a = cur /\ mpc \in {"Ptr", "Data"})

\* The ends of the list: only its last node, and the one enq fills, has no
\* successor; the list has a head as soon as it has a last node that is filled.
EndsOK ==
  /\ rear # NULL => rear \in Allocated
  /\ front = NULL <=> (rear = NULL \/ (rear = cur /\ mpc \in {"Ptr", "Data", "Front"}))
  /\ \A a \in Allocated :
       heap[a].ptr = NULL <=> \/ a = rear /\ mpc # "Rear" /\ ~(a = cur /\ mpc = "Ptr")
                              \/ a = cur /\ mpc \in {"Data", "Link", "Rear"}

\* The node enq fills is out of reach of the list until it is linked.
FillingOK ==
  /\ cur = NULL <=> mpc \in {"Idle", "Alloc"}
  /\ cur # NULL => cur \in Allocated /\ rear # NULL
  /\ mpc # "Idle" => arg \in Packet
  /\ mpc \in {"Ptr", "Data", "Link", "Front"} => front # cur /\ \A a \in Allocated : heap[a].ptr # cur
  /\ mpc \in {"Link", "Rear"} => rear # cur
  /\ mpc \in {"Front", "Count"} => rear = cur

\* The count runs behind the nodes, never ahead of them.
CountFits == count + (IF cur = NULL THEN 0 ELSE 1) <= Cardinality(Allocated)

\* What each store keeps of a node and its neighbours, and why the unlocked look
\* is safe: only write_tun itself empties the list.
LocalInv ==
  /\ TypeOK /\ PointersOK /\ EndsOK /\ FillingOK /\ CountFits
  /\ wpc \in {"Peek", "Lock"} => front # NULL

\* The nodes of s are linked from front in this order, each once.
LinkedAs(s) ==
  /\ s \in Seq(Allocated)
  /\ \A j, k \in DOMAIN s : s[j] = s[k] => j = k
  /\ front = IF s = <<>> THEN NULL ELSE s[1]
  /\ \A k \in DOMAIN s : heap[s[k]].ptr = IF k < Len(s) THEN s[k + 1] ELSE NULL

\* Nothing is allocated besides s and the node enq fills; a linked node is counted
\* by the last store of enq.
AccountedFor(s) ==
  /\ \A a \in Allocated : a = cur \/ \E k \in DOMAIN s : s[k] = a
  /\ mpc \in {"Rear", "Count"} => s # <<>> /\ s[Len(s)] = cur
  /\ Len(s) = IF mpc \in {"Rear", "Count"} THEN count + 1 ELSE count

\* A node is linked with the packet enq was called for.
Copied == mpc \in {"Front", "Link"} => heap[cur].data = arg

\* The whole list: what makes the properties below inductive.
IInv == LocalInv /\ LinkedAs(Order) /\ AccountedFor(Order) /\ Copied

\* No node is lost and none is used after it was freed: all that is allocated is
\* in the list, or is the node that enq is filling; all that is linked is
\* allocated; between calls rear is the last node.
NoLeakNoDangling ==
  /\ Linked \subseteq Allocated
  /\ Allocated \subseteq Linked \cup {cur}
  /\ mpc = "Idle" =>
       IF Linked = {} THEN rear = NULL
       ELSE rear \in Linked /\ heap[rear].ptr = NULL

\* Outside of enq the count field is the length of the list: is_empty(), the
\* sum of these fields, decides when main waits and when write_tun sends.
CountIsLength == mpc = "Idle" => count = Cardinality(Linked)

\* The list is the queue of packets that Forwarder speaks of, for one
\* destination (called 1): a packet is queued by the store that links it.
InHand == IF mpc \in {"Alloc", "Ptr", "Data", "Front", "Link"} THEN <<1, arg>> ELSE <<>>
Queued == [d \in {1} |-> Contents]
Written == IF out = NULL THEN <<>> ELSE <<1, out>>

List == INSTANCE Outbox WITH
  Dest <- {1}, hand <- InHand, pend <- Queued, out <- Written

ListSpec == List!Spec
=============================================================================
