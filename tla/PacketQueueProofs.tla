-------------------------- MODULE PacketQueueProofs --------------------------
(***************************************************************************)
(* Proofs about PacketQueue, for any memory and any packets: at every      *)
(* store of enq the pointers are a list, the unlocked look at its head is  *)
(* safe, and the list is a queue.                                          *)
(***************************************************************************)
EXTENDS PacketQueue, FiniteSetTheorems, WellFoundedInduction, TLAPS

LEMMA InitLocal == Init => LocalInv
<1> SUFFICES ASSUME Init PROVE LocalInv
  OBVIOUS
<1>1. Allocated = {} /\ heap \in [Allocated -> Node]
  BY DEF Init, Allocated
<1>2. Cardinality({}) = 0 /\ Cardinality(Addr) \in Nat
  BY AddrAssumption, FS_EmptySet, FS_CardinalityType
<1>3. TypeOK
  BY <1>1, <1>2 DEF Init, TypeOK
<1>4. PointersOK /\ EndsOK /\ FillingOK
  BY <1>1 DEF Init, PointersOK, EndsOK, FillingOK
<1>5. CountFits
  BY <1>1, <1>2 DEF Init, CountFits
<1> QED BY <1>3, <1>4, <1>5 DEF Init, LocalInv

\* The allocated nodes are finitely many, at most as many as there are addresses.
LEMMA AllocatedIsFinite ==
  ASSUME TypeOK
  PROVE  /\ IsFiniteSet(Allocated) /\ Cardinality(Allocated) \in Nat
         /\ Cardinality(Addr) \in Nat /\ Cardinality(Allocated) <= Cardinality(Addr)
  BY AddrAssumption, FS_Subset, FS_CardinalityType DEF TypeOK

-----------------------------------------------------------------------------
(* enq                                                                     *)

\* Steps that leave memory alone, and the nodes that are allocated.
LEMMA CountFitsKept ==
  ASSUME CountFits, UNCHANGED <<count, cur>>, Allocated' = Allocated
  PROVE  CountFits'
  BY DEF CountFits

LEMMA EnqCallKeeps ==
  ASSUME LocalInv, NEW x \in Packet, EnqCall(x)
  PROVE  LocalInv'
<1> USE DEF LocalInv, EnqCall, listVars
<1>1. Allocated' = Allocated
  BY DEF Allocated
<1>2. TypeOK'
  BY <1>1 DEF TypeOK
<1>3. PointersOK' /\ EndsOK' /\ FillingOK'
  BY <1>1 DEF PointersOK, EndsOK, FillingOK
<1> QED BY <1>1, <1>2, <1>3, CountFitsKept

LEMMA EnqAllocKeeps ==
  ASSUME LocalInv, EnqAlloc
  PROVE  LocalInv'
<1> USE DEF LocalInv
<1> PICK a \in Addr \ Allocated :
      /\ heap' = [b \in Allocated \cup {a} |->
                    IF b = a THEN [ptr |-> Garbage, data |-> Garbage] ELSE heap[b]]
      /\ cur' = a
      /\ IF rear = NULL THEN rear' = a /\ count' = 0 ELSE UNCHANGED <<rear, count>>
  BY DEF EnqAlloc
<1>1. Allocated' = Allocated \cup {a}
  BY DEF Allocated
<1>2. /\ mpc = "Alloc" /\ mpc' = "Ptr" /\ UNCHANGED <<front, arg, wpc, out>>
      /\ cur = NULL /\ a # NULL /\ heap'[a] = [ptr |-> Garbage, data |-> Garbage]
      /\ heap'[a] \in Node
      /\ \A b \in Allocated : b # a /\ heap'[b] = heap[b]
  BY AddrAssumption DEF EnqAlloc, FillingOK, Node
<1>3. /\ Cardinality(Allocated') = Cardinality(Allocated) + 1
      /\ Cardinality(Allocated) \in Nat /\ Cardinality(Allocated') \in Nat
      /\ Cardinality(Addr) \in Nat /\ Cardinality(Allocated') <= Cardinality(Addr)
  <2>1. Allocated' \subseteq Addr
    BY <1>1 DEF TypeOK
  <2> QED BY <1>1, <2>1, AllocatedIsFinite, AddrAssumption, FS_AddElement, FS_Subset, FS_CardinalityType
<1>4. CountFits'
  BY <1>2, <1>3 DEF CountFits, TypeOK
<1>5. TypeOK'
  <2>1. Allocated' \subseteq Addr /\ heap' \in [Allocated' -> Node]
    BY <1>1, <1>2 DEF TypeOK
  <2>2. count' \in 0 .. Cardinality(Addr)
    BY <1>3 DEF TypeOK
  <2> QED BY <1>2, <2>1, <2>2 DEF TypeOK
<1>6. PointersOK'
  BY <1>1, <1>2, GarbageAssumption, AddrAssumption DEF PointersOK, FillingOK, TypeOK
<1>7. EndsOK'
  BY <1>1, <1>2, GarbageAssumption, AddrAssumption DEF EndsOK, FillingOK, TypeOK
<1>8. FillingOK'
  BY <1>1, <1>2, GarbageAssumption, AddrAssumption DEF FillingOK, PointersOK, EndsOK, TypeOK
<1> QED BY <1>2, <1>4, <1>5, <1>6, <1>7, <1>8

\* A store into one field of an allocated node.
LEMMA StoreKeepsNodes ==
  ASSUME TypeOK, NEW a \in Allocated, NEW r \in Node, heap' = [heap EXCEPT ![a] = r]
  PROVE  /\ Allocated' = Allocated /\ heap' \in [Allocated -> Node]
         /\ heap'[a] = r /\ \A b \in Allocated \ {a} : heap'[b] = heap[b]
  BY DEF TypeOK, Allocated

LEMMA FieldOfNode ==
  ASSUME NEW node \in Node, NEW x
  PROVE  /\ [node EXCEPT !.ptr = x] = [ptr |-> x, data |-> node.data]
         /\ [node EXCEPT !.data = x] = [ptr |-> node.ptr, data |-> x]
  BY DEF Node

LEMMA EnqPtrKeeps ==
  ASSUME LocalInv, EnqPtr
  PROVE  LocalInv'
<1> USE DEF LocalInv
<1>1. /\ mpc = "Ptr" /\ mpc' = "Data" /\ cur \in Allocated
      /\ UNCHANGED <<front, rear, count, arg, cur, wpc, out>>
  BY DEF EnqPtr, FillingOK
<1> DEFINE r == [ptr |-> NULL, data |-> heap[cur].data]
<1>2. r \in Node /\ heap' = [heap EXCEPT ![cur] = r]
  <2>1. heap[cur] \in Node
    BY <1>1 DEF TypeOK
  <2>2. r \in Node /\ r = [heap[cur] EXCEPT !.ptr = NULL]
    BY <1>1, <2>1, FieldOfNode DEF Node, TypeOK
  <2>3. heap' = [heap EXCEPT ![cur] = [heap[cur] EXCEPT !.ptr = NULL]]
    BY DEF EnqPtr
  <2> QED BY <2>2, <2>3
<1>3. /\ Allocated' = Allocated /\ heap' \in [Allocated -> Node]
      /\ heap'[cur] = r /\ \A b \in Allocated \ {cur} : heap'[b] = heap[b]
  BY <1>1, <1>2, StoreKeepsNodes
<1>4. TypeOK' /\ CountFits'
  BY <1>1, <1>3, CountFitsKept DEF TypeOK
<1>5. PointersOK'
  BY <1>1, <1>3, AddrAssumption DEF PointersOK, TypeOK
<1>6. EndsOK'
  BY <1>1, <1>3, AddrAssumption DEF EndsOK, TypeOK
<1>7. FillingOK'
  BY <1>1, <1>3, AddrAssumption DEF FillingOK, TypeOK
<1> QED BY <1>1, <1>4, <1>5, <1>6, <1>7

LEMMA EnqDataKeeps ==
  ASSUME LocalInv, EnqData
  PROVE  LocalInv'
<1> USE DEF LocalInv
<1>1. /\ mpc = "Data" /\ mpc' = (IF rear = cur THEN "Front" ELSE "Link") /\ cur \in Allocated
      /\ arg \in Packet /\ UNCHANGED <<front, rear, count, arg, cur, wpc, out>>
  BY DEF EnqData, FillingOK
<1> DEFINE r == [ptr |-> heap[cur].ptr, data |-> arg]
<1>2. r \in Node /\ heap' = [heap EXCEPT ![cur] = r]
  <2>1. heap[cur] \in Node
    BY <1>1 DEF TypeOK
  <2>2. r \in Node /\ r = [heap[cur] EXCEPT !.data = arg]
    BY <1>1, <2>1, FieldOfNode DEF Node, TypeOK
  <2>3. heap' = [heap EXCEPT ![cur] = [heap[cur] EXCEPT !.data = arg]]
    BY DEF EnqData
  <2> QED BY <2>2, <2>3
<1>3. /\ Allocated' = Allocated /\ heap' \in [Allocated -> Node]
      /\ heap'[cur] = r /\ \A b \in Allocated \ {cur} : heap'[b] = heap[b]
  BY <1>1, <1>2, StoreKeepsNodes
<1>4. TypeOK' /\ CountFits'
  BY <1>1, <1>3, CountFitsKept DEF TypeOK
<1>5. PointersOK'
  BY <1>1, <1>3, AddrAssumption DEF PointersOK, TypeOK
<1>6. EndsOK'
  BY <1>1, <1>3, AddrAssumption DEF EndsOK, TypeOK
<1>7. FillingOK'
  BY <1>1, <1>3, AddrAssumption DEF FillingOK, PointersOK, EndsOK, TypeOK
<1> QED BY <1>1, <1>4, <1>5, <1>6, <1>7

LEMMA EnqFrontKeeps ==
  ASSUME LocalInv, EnqFront
  PROVE  LocalInv'
<1> USE DEF LocalInv
<1>1. /\ mpc = "Front" /\ mpc' = "Count" /\ front' = rear /\ rear = cur /\ cur \in Allocated
      /\ UNCHANGED <<heap, rear, count, arg, cur, wpc, out>> /\ Allocated' = Allocated
  BY DEF EnqFront, FillingOK, Allocated
<1>2. TypeOK' /\ CountFits'
  BY <1>1, CountFitsKept DEF TypeOK
<1>3. PointersOK' /\ EndsOK' /\ FillingOK'
  BY <1>1, AddrAssumption DEF PointersOK, EndsOK, FillingOK, TypeOK
<1> QED BY <1>1, <1>2, <1>3, AddrAssumption DEF TypeOK

LEMMA EnqLinkKeeps ==
  ASSUME LocalInv, EnqLink
  PROVE  LocalInv'
<1> USE DEF LocalInv
<1>1. /\ mpc = "Link" /\ mpc' = "Rear" /\ cur \in Allocated /\ rear \in Allocated /\ rear # cur
      /\ UNCHANGED <<front, rear, count, arg, cur, wpc, out>>
  BY DEF EnqLink, FillingOK, EndsOK
<1> DEFINE r == [ptr |-> cur, data |-> heap[rear].data]
<1>2. r \in Node /\ heap' = [heap EXCEPT ![rear] = r]
  <2>1. heap[rear] \in Node
    BY <1>1 DEF TypeOK
  <2>2. r \in Node /\ r = [heap[rear] EXCEPT !.ptr = cur]
    BY <1>1, <2>1, FieldOfNode DEF Node, TypeOK
  <2>3. heap' = [heap EXCEPT ![rear] = [heap[rear] EXCEPT !.ptr = cur]]
    BY DEF EnqLink
  <2> QED BY <2>2, <2>3
<1>3. /\ Allocated' = Allocated /\ heap' \in [Allocated -> Node]
      /\ heap'[rear] = r /\ \A b \in Allocated \ {rear} : heap'[b] = heap[b]
  BY <1>1, <1>2, StoreKeepsNodes
<1>4. TypeOK' /\ CountFits'
  BY <1>1, <1>3, CountFitsKept DEF TypeOK
<1>5. PointersOK'
  BY <1>1, <1>3, AddrAssumption DEF PointersOK, FillingOK, TypeOK
<1>6. EndsOK'
  BY <1>1, <1>3, AddrAssumption DEF EndsOK, TypeOK
<1>7. FillingOK'
  BY <1>1, <1>3, AddrAssumption DEF FillingOK, TypeOK
<1> QED BY <1>1, <1>4, <1>5, <1>6, <1>7

LEMMA EnqRearKeeps ==
  ASSUME LocalInv, EnqRear
  PROVE  LocalInv'
<1> USE DEF LocalInv
<1>1. /\ mpc = "Rear" /\ mpc' = "Count" /\ rear' = cur /\ cur \in Allocated
      /\ UNCHANGED <<heap, front, count, arg, cur, wpc, out>> /\ Allocated' = Allocated
  BY DEF EnqRear, FillingOK, Allocated
<1>2. TypeOK' /\ CountFits'
  BY <1>1, CountFitsKept DEF TypeOK
<1>3. PointersOK' /\ EndsOK' /\ FillingOK'
  BY <1>1, AddrAssumption DEF PointersOK, EndsOK, FillingOK, TypeOK
<1> QED BY <1>1, <1>2, <1>3

LEMMA EnqCountKeeps ==
  ASSUME LocalInv, EnqCount
  PROVE  LocalInv'
<1> USE DEF LocalInv
<1>1. /\ mpc = "Count" /\ mpc' = "Idle" /\ count' = count + 1 /\ arg' = NULL /\ cur' = NULL
      /\ cur # NULL /\ rear = cur
      /\ UNCHANGED <<heap, front, rear, wpc, out>> /\ Allocated' = Allocated
  BY DEF EnqCount, FillingOK, Allocated
<1>2. count' \in 0 .. Cardinality(Addr) /\ CountFits'
  BY <1>1, AllocatedIsFinite DEF CountFits, TypeOK
<1>3. TypeOK'
  BY <1>1, <1>2 DEF TypeOK
<1>4. PointersOK' /\ EndsOK' /\ FillingOK'
  BY <1>1, AddrAssumption DEF PointersOK, EndsOK, FillingOK, TypeOK
<1> QED BY <1>1, <1>2, <1>3, <1>4

-----------------------------------------------------------------------------
(* write_tun                                                               *)

LEMMA WriterLooksKeep ==
  ASSUME LocalInv, WriterLook \/ WriterPeek
  PROVE  LocalInv'
<1> USE DEF LocalInv, listVars, mainVars
<1>1. /\ UNCHANGED <<heap, front, rear, count, mpc, arg, cur, out>>
      /\ Allocated' = Allocated /\ wpc' \in {"Peek", "Lock"} /\ front # NULL
  BY DEF WriterLook, WriterPeek, Allocated
<1>2. TypeOK' /\ CountFits'
  BY <1>1, CountFitsKept DEF TypeOK
<1>3. PointersOK' /\ EndsOK' /\ FillingOK'
  BY <1>1 DEF PointersOK, EndsOK, FillingOK
<1> QED BY <1>1, <1>2, <1>3

\* deq frees the head: nothing points to it, and its successor becomes the head.
LEMMA WriterTakeKeeps ==
  ASSUME LocalInv, WriterTake
  PROVE  LocalInv'
<1> USE DEF LocalInv
<1> DEFINE next == heap[front].ptr
<1>1. /\ wpc = "Lock" /\ wpc' = "Look" /\ mpc = "Idle" /\ cur = NULL /\ front # NULL
      /\ out' = heap[front].data /\ front' = next
      /\ rear' = (IF next = NULL THEN NULL ELSE rear)
      /\ count' = (IF count > 0 THEN count - 1 ELSE count)
      /\ UNCHANGED <<mpc, arg, cur>>
  BY DEF WriterTake, Deq, mainVars, FillingOK
<1>2. /\ Allocated' = Allocated \ {front}
      /\ \A a \in Allocated \ {front} : heap'[a] = heap[a]
      /\ heap' \in [Allocated' -> Node]
  BY DEF WriterTake, Deq, Allocated, TypeOK
<1>3. /\ front \in Allocated /\ heap[front].data \in Packet
      /\ next \in (Allocated \ {front}) \cup {NULL}
  BY <1>1, AddrAssumption DEF PointersOK, TypeOK
<1>4. /\ Cardinality(Allocated') = Cardinality(Allocated) - 1
      /\ Cardinality(Allocated) \in Nat /\ Cardinality(Allocated') \in Nat
  BY <1>2, <1>3, AllocatedIsFinite, FS_RemoveElement, FS_CardinalityType
<1>5. count' \in 0 .. Cardinality(Addr) /\ CountFits'
  BY <1>1, <1>4, AllocatedIsFinite DEF CountFits, TypeOK
<1>6. TypeOK'
  BY <1>1, <1>2, <1>3, <1>5 DEF TypeOK
<1>7. PointersOK'
  BY <1>1, <1>2, <1>3, AddrAssumption DEF PointersOK, TypeOK
<1>8. EndsOK'
  BY <1>1, <1>2, <1>3, AddrAssumption DEF EndsOK, TypeOK
<1>9. FillingOK'
  BY <1>1 DEF FillingOK
<1> QED BY <1>1, <1>5, <1>6, <1>7, <1>8, <1>9

LEMMA NextLocal ==
  ASSUME LocalInv, [Next]_vars
  PROVE  LocalInv'
<1>1. ASSUME NEW x \in Packet, EnqCall(x) PROVE LocalInv'
  BY <1>1, EnqCallKeeps
<1>2. CASE UNCHANGED vars
  BY <1>2 DEF LocalInv, TypeOK, PointersOK, EndsOK, FillingOK, CountFits, Allocated, vars
<1> QED
  BY <1>1, <1>2, EnqAllocKeeps, EnqPtrKeeps, EnqDataKeeps, EnqFrontKeeps, EnqLinkKeeps,
     EnqRearKeeps, EnqCountKeeps, WriterLooksKeep, WriterTakeKeeps DEF Next

-----------------------------------------------------------------------------
(* What NodeAt computes.                                                   *)

\* Natural numbers are well ordered; with sets for predicates, this is induction.
LEMMA LeastExists ==
  ASSUME NEW S \in SUBSET Nat, S # {}
  PROVE  \E x \in S : \A y \in S : x <= y
<1> DEFINE R == OpToRel(<, Nat)
<1>1. \A x, y \in Nat : <<y, x>> \in R <=> y < x
  BY DEF OpToRel
<1>2. \E x \in S : \A y \in S : <<y, x>> \notin R
  BY NatLessThanWellFounded, WFMin
<1> HIDE DEF R
<1>3. PICK x \in S : \A y \in S : <<y, x>> \notin R
  BY <1>2
<1>4. ASSUME NEW y \in S PROVE x <= y
  <2>1. x \in Nat /\ y \in Nat
    OBVIOUS
  <2>2. ~(y < x)
    BY <2>1, <1>1, <1>3
  <2> QED BY <2>1, <2>2
<1> QED BY <1>4

\* The nodes of a list, counted: it has no more than there are addresses.
LEMMA ListIsShort ==
  ASSUME TypeOK, NEW s, LinkedAs(s)
  PROVE  /\ Len(s) \in Nat /\ DOMAIN s = 1 .. Len(s) /\ s \in [1 .. Len(s) -> Allocated]
         /\ Cardinality({s[k] : k \in DOMAIN s}) = Len(s)
         /\ Cardinality(Addr) \in Nat /\ Len(s) <= Cardinality(Addr)
<1> DEFINE R == {s[k] : k \in DOMAIN s}
<1>1. Len(s) \in Nat /\ DOMAIN s = 1 .. Len(s) /\ s \in [1 .. Len(s) -> Allocated]
  BY DEF LinkedAs
<1>2. s \in Bijection(1 .. Len(s), R)
  <2>1. s \in [1 .. Len(s) -> R] /\ \A a \in R : \E k \in 1 .. Len(s) : s[k] = a
    BY <1>1
  <2>2. \A j, k \in 1 .. Len(s) : s[j] = s[k] => j = k
    BY <1>1 DEF LinkedAs
  <2> HIDE DEF R
  <2> QED BY <2>1, <2>2 DEF Bijection, Injection, Surjection, IsInjective
<1>3. Cardinality(R) = Len(s)
  BY <1>1, <1>2, FS_CountingElements DEF ExistsBijection
<1>4. R \subseteq Addr
  BY <1>1 DEF TypeOK
<1> QED BY <1>1, <1>3, <1>4, AddrAssumption, FS_Subset, FS_CardinalityType

\* Following the pointers from front is reading s.
Walk(s) == [k \in 0 .. Cardinality(Addr) |-> IF k < Len(s) THEN s[k + 1] ELSE NULL]
Follow(f, k) ==
  IF k = 0 THEN front ELSE IF f[k - 1] \in Allocated THEN heap[f[k - 1]].ptr ELSE NULL

LEMMA WalkFollows ==
  ASSUME TypeOK, NEW s, LinkedAs(s)
  PROVE  Walk(s) = [k \in 0 .. Cardinality(Addr) |-> Follow(Walk(s), k)]
<1> DEFINE N == Cardinality(Addr)
<1>1. N \in Nat /\ Len(s) \in Nat /\ s \in [1 .. Len(s) -> Allocated] /\ DOMAIN s = 1 .. Len(s)
  BY ListIsShort
<1>2. NULL \notin Allocated
  BY AddrAssumption DEF TypeOK
<1> HIDE DEF N
<1>3. ASSUME NEW k \in 0 .. N PROVE Walk(s)[k] = Follow(Walk(s), k)
  <2>0. Walk(s) = [j \in 0 .. N |-> IF j < Len(s) THEN s[j + 1] ELSE NULL]
    BY DEF Walk, N
  <2>1. CASE k = 0
    <3>1. s = <<>> <=> Len(s) = 0
      BY <1>1 DEF LinkedAs
    <3>2. Walk(s)[0] = IF 0 < Len(s) THEN s[1] ELSE NULL
      BY <1>1, <2>0
    <3> QED BY <1>1, <2>1, <3>1, <3>2 DEF LinkedAs, Follow
  <2>2. CASE k # 0 /\ k - 1 < Len(s)
    <3>1. k \in DOMAIN s /\ k - 1 \in 0 .. N /\ s[k] \in Allocated
      BY <1>1, <2>2
    <3>2. Walk(s)[k - 1] = s[k]
      BY <1>1, <2>0, <2>2, <3>1
    <3>3. heap[s[k]].ptr = IF k < Len(s) THEN s[k + 1] ELSE NULL
      BY <3>1 DEF LinkedAs
    <3> QED BY <2>0, <2>2, <3>1, <3>2, <3>3 DEF Follow
  <2>3. CASE k # 0 /\ ~(k - 1 < Len(s))
    <3>1. Walk(s)[k - 1] = NULL /\ Walk(s)[k] = NULL
      BY <1>1, <2>0, <2>3
    <3> QED BY <1>2, <2>3, <3>1 DEF Follow
  <2> QED BY <2>1, <2>2, <2>3
<1> QED BY <1>3 DEF Walk, N

\* A recursive function is the one that satisfies its equation: by a least
\* counterexample.
LEMMA NodeAtIsWalk ==
  ASSUME TypeOK, NEW s, LinkedAs(s)
  PROVE  NodeAt = Walk(s)
<1> DEFINE N == Cardinality(Addr)
           w == Walk(s)
<1>1. N \in Nat
  BY ListIsShort
<1>2. w = [k \in 0 .. N |-> Follow(w, k)]
  BY WalkFollows
<1>3. NodeAt = [k \in 0 .. N |-> Follow(NodeAt, k)]
  <2>1. \E f : f = [k \in 0 .. N |-> Follow(f, k)]
    BY <1>2
  <2>2. NodeAt = CHOOSE f : f = [k \in 0 .. N |-> Follow(f, k)]
    BY DEF NodeAt, Follow
  <2> HIDE DEF N
  <2> QED BY <2>1, <2>2
<1> HIDE DEF N, w
<1> DEFINE Bad == {k \in 0 .. N : NodeAt[k] # w[k]}
<1>4. ASSUME Bad # {} PROVE FALSE
  <2>1. Bad \in SUBSET Nat
    BY <1>1
  <2>2. PICK k \in Bad : \A j \in Bad : k <= j
    BY <1>4, <2>1, LeastExists
  <2>3. CASE k = 0
    BY <1>2, <1>3, <2>2, <2>3 DEF Follow
  <2>4. CASE k # 0
    <3>1. k - 1 \in 0 .. N /\ k - 1 \notin Bad
      BY <1>1, <2>1, <2>2, <2>4
    <3>2. NodeAt[k - 1] = w[k - 1]
      BY <3>1
    <3>3. Follow(NodeAt, k) = Follow(w, k)
      BY <3>2 DEF Follow
    <3> QED BY <1>2, <1>3, <2>2, <3>3
  <2> QED BY <2>3, <2>4
<1>5. \A k \in 0 .. N : NodeAt[k] = w[k]
  BY <1>4
<1> QED BY <1>2, <1>3, <1>5 DEF w

\* So the list that is followed is the list as it is linked.
LEMMA OrderIs ==
  ASSUME TypeOK, NEW s, LinkedAs(s)
  PROVE  /\ Linked = {s[k] : k \in DOMAIN s} /\ Cardinality(Linked) = Len(s)
         /\ Order = s
<1> DEFINE N == Cardinality(Addr)
<1>1. /\ N \in Nat /\ Len(s) \in Nat /\ DOMAIN s = 1 .. Len(s) /\ Len(s) <= N
      /\ s \in [1 .. Len(s) -> Allocated] /\ Cardinality({s[k] : k \in DOMAIN s}) = Len(s)
  BY ListIsShort
<1>2. NULL \notin Allocated
  BY AddrAssumption DEF TypeOK
<1> HIDE DEF N
<1>3. NodeAt = [k \in 0 .. N |-> IF k < Len(s) THEN s[k + 1] ELSE NULL]
  BY NodeAtIsWalk DEF Walk, N
<1>4. Linked = {s[k] : k \in DOMAIN s}
  <2>1. ASSUME NEW k \in DOMAIN s PROVE s[k] \in Linked
    <3>1. k - 1 \in 0 .. N /\ k - 1 < Len(s) /\ (k - 1) + 1 = k
      BY <1>1
    <3>2. NodeAt[k - 1] = s[k] /\ s[k] # NULL
      BY <1>1, <1>2, <1>3, <3>1
    <3> QED BY <1>3, <3>1, <3>2 DEF Linked
  <2>2. ASSUME NEW a \in Linked PROVE \E k \in DOMAIN s : a = s[k]
    <3>1. PICK j \in 0 .. N : NodeAt[j] = a /\ a # NULL
      BY <1>3 DEF Linked
    <3>2. j < Len(s) /\ a = s[j + 1] /\ j + 1 \in DOMAIN s
      BY <1>1, <1>3, <3>1
    <3> QED BY <3>2
  <2> QED BY <2>1, <2>2
<1>5. Order = [k \in 1 .. Len(s) |-> NodeAt[k - 1]]
  BY <1>1, <1>4 DEF Order
<1>6. ASSUME NEW k \in 1 .. Len(s) PROVE NodeAt[k - 1] = s[k]
  BY <1>1, <1>3
<1> QED BY <1>1, <1>4, <1>5, <1>6

-----------------------------------------------------------------------------
(* How the stores change the list: s is its order before the step.         *)

LEMMA SeqFacts ==
  ASSUME NEW s, LinkedAs(s)
  PROVE  /\ Len(s) \in Nat /\ DOMAIN s = 1 .. Len(s) /\ s = <<>> <=> Len(s) = 0
         /\ \A k \in DOMAIN s : s[k] \in Allocated
         /\ front = NULL /\ NULL \notin Allocated => s = <<>>
  BY DEF LinkedAs

LEMMA SeqsAreFunctions ==
  \A S : /\ \A n \in Nat : \A t \in [1 .. n -> S] : t \in Seq(S)
         /\ \A t \in Seq(S) : t \in [1 .. Len(t) -> S]
  OBVIOUS

\* Nobody points to the node enq fills.
LEMMA FillingIsOutside ==
  ASSUME LocalInv, NEW s, LinkedAs(s), mpc \in {"Ptr", "Data", "Link", "Front"}
  PROVE  \A k \in DOMAIN s : s[k] # cur
<1> SUFFICES ASSUME NEW k \in DOMAIN s PROVE s[k] # cur
  OBVIOUS
<1>1. front # cur /\ \A a \in Allocated : heap[a].ptr # cur
  BY DEF LocalInv, FillingOK
<1>2. CASE k = 1
  BY <1>1, <1>2, SeqFacts DEF LinkedAs
<1>3. CASE k # 1
  <2>1. k - 1 \in DOMAIN s /\ k - 1 < Len(s) /\ (k - 1) + 1 = k
    BY <1>3, SeqFacts
  <2>2. heap[s[k - 1]].ptr = s[k] /\ s[k - 1] \in Allocated
    BY <2>1, SeqFacts DEF LinkedAs
  <2> QED BY <1>1, <2>2
<1> QED BY <1>2, <1>3

\* Stores elsewhere leave it alone.
LEMMA ListKept ==
  ASSUME NEW s, LinkedAs(s), UNCHANGED front, Allocated \subseteq Allocated',
         \A k \in DOMAIN s : heap'[s[k]].ptr = heap[s[k]].ptr
  PROVE  LinkedAs(s)'
<1>1. s \in Seq(Allocated')
  BY DEF LinkedAs
<1> QED BY <1>1 DEF LinkedAs

LEMMA EnqBeginKeepsList ==
  ASSUME LocalInv, NEW s, LinkedAs(s), AccountedFor(s), (\E x \in Packet : EnqCall(x)) \/ EnqAlloc
  PROVE  LinkedAs(s)' /\ AccountedFor(s)'
<1>1. CASE \E x \in Packet : EnqCall(x)
  <2>1. UNCHANGED <<heap, front, count, cur>> /\ mpc = "Idle" /\ mpc' = "Alloc"
    BY <1>1 DEF EnqCall, listVars
  <2> QED BY <2>1, ListKept DEF AccountedFor, Allocated
<1>2. CASE EnqAlloc
  <2>1. PICK a \in Addr \ Allocated :
          /\ heap' = [b \in Allocated \cup {a} |->
                        IF b = a THEN [ptr |-> Garbage, data |-> Garbage] ELSE heap[b]]
          /\ cur' = a
          /\ IF rear = NULL THEN rear' = a /\ count' = 0 ELSE UNCHANGED <<rear, count>>
    BY <1>2 DEF EnqAlloc
  <2>2. /\ Allocated' = Allocated \cup {a} /\ \A b \in Allocated : heap'[b] = heap[b]
        /\ UNCHANGED front /\ mpc = "Alloc" /\ mpc' = "Ptr" /\ cur = NULL /\ NULL \notin Allocated
    BY <1>2, <2>1, AddrAssumption DEF EnqAlloc, Allocated, LocalInv, TypeOK, FillingOK
  <2>3. LinkedAs(s)'
    BY <2>2, SeqFacts, ListKept
  <2>4. count' = count
    <3>1. CASE rear = NULL
      <4>1. front = NULL
        BY <3>1 DEF LocalInv, EndsOK
      <4> QED BY <2>1, <2>2, <3>1, <4>1, SeqFacts DEF AccountedFor
    <3> QED BY <2>1, <3>1
  <2>5. AccountedFor(s)'
    BY <2>1, <2>2, <2>4, SeqFacts DEF AccountedFor
  <2> QED BY <2>3, <2>5
<1> QED BY <1>1, <1>2

LEMMA EnqFillsElsewhere ==
  ASSUME LocalInv, NEW s, LinkedAs(s), AccountedFor(s), EnqPtr \/ EnqData
  PROVE  LinkedAs(s)' /\ AccountedFor(s)'
<1>1. cur \in Allocated /\ \A k \in DOMAIN s : s[k] # cur
  BY FillingIsOutside DEF EnqPtr, EnqData, LocalInv, FillingOK
<1>2. /\ Allocated' = Allocated /\ \A b \in Allocated \ {cur} : heap'[b] = heap[b]
      /\ UNCHANGED <<front, count, cur>> /\ mpc \in {"Ptr", "Data"} /\ mpc' \in {"Data", "Front", "Link"}
  BY <1>1 DEF EnqPtr, EnqData, Allocated, LocalInv, TypeOK
<1>3. LinkedAs(s)'
  BY <1>1, <1>2, SeqFacts, ListKept
<1> QED BY <1>2, <1>3 DEF AccountedFor

\* The first node becomes the list when it becomes the head.
LEMMA EnqFrontMakesList ==
  ASSUME LocalInv, NEW s, LinkedAs(s), AccountedFor(s), EnqFront,
         NEW t, t = Append(s, cur)
  PROVE  LinkedAs(t)' /\ AccountedFor(t)'
<1>1. /\ mpc = "Front" /\ mpc' = "Count" /\ rear = cur /\ front' = cur /\ cur \in Allocated
      /\ UNCHANGED <<heap, count, cur>> /\ Allocated' = Allocated /\ NULL \notin Allocated
      /\ front = NULL /\ heap[cur].ptr = NULL
  BY AddrAssumption DEF EnqFront, Allocated, LocalInv, TypeOK, FillingOK, EndsOK
<1>2. s = <<>> /\ s \in Seq(Allocated)
  BY <1>1, SeqFacts DEF LinkedAs
<1>3. t \in Seq(Allocated) /\ DOMAIN t = 1 .. 1 /\ Len(t) = 1 /\ t[1] = cur /\ t # <<>>
  BY <1>1, <1>2
<1>4. LinkedAs(t)'
  BY <1>1, <1>3 DEF LinkedAs
<1>5. count = 0 /\ \A a \in Allocated : a = cur
  BY <1>1, <1>2, SeqFacts DEF AccountedFor
<1> QED BY <1>1, <1>3, <1>4, <1>5 DEF AccountedFor

\* Any other is linked behind the last one, which is rear.
LEMMA EnqLinkAppends ==
  ASSUME LocalInv, NEW s, LinkedAs(s), AccountedFor(s), EnqLink,
         NEW t, t = Append(s, cur)
  PROVE  LinkedAs(t)' /\ AccountedFor(t)'
<1> DEFINE n == Len(s)
<1>1. /\ mpc = "Link" /\ mpc' = "Rear" /\ rear # NULL /\ rear # cur /\ cur \in Allocated
      /\ rear \in Allocated /\ UNCHANGED <<front, count, cur>> /\ NULL \notin Allocated
      /\ front # NULL /\ heap[cur].ptr = NULL
  BY AddrAssumption DEF EnqLink, LocalInv, TypeOK, FillingOK, EndsOK
<1>2. /\ n \in Nat /\ DOMAIN s = 1 .. n /\ s # <<>> /\ n > 0
      /\ \A k \in 1 .. n : s[k] \in Allocated /\ s[k] # cur
  BY <1>1, SeqFacts, FillingIsOutside DEF LinkedAs
<1>3. s[n] = rear
  <2>1. heap[s[n]].ptr = NULL
    BY <1>2 DEF LinkedAs
  <2> QED BY <1>1, <1>2, <2>1 DEF LocalInv, EndsOK
<1>4. /\ Allocated' = Allocated /\ heap'[rear].ptr = cur
      /\ \A b \in Allocated \ {rear} : heap'[b] = heap[b]
  <2>1. heap[rear] \in Node
    BY <1>1 DEF LocalInv, TypeOK
  <2> QED BY <1>1, <2>1 DEF EnqLink, Allocated, LocalInv, TypeOK, Node
<1>5. /\ t \in Seq(Allocated) /\ Len(t) = n + 1 /\ DOMAIN t = 1 .. n + 1 /\ t # <<>>
      /\ t[n + 1] = cur /\ \A k \in 1 .. n : t[k] = s[k]
  BY <1>1, <1>2 DEF LinkedAs
<1> HIDE DEF n
<1>6. \A j, k \in DOMAIN t : t[j] = t[k] => j = k
  <2>1. \A j, k \in 1 .. n : s[j] = s[k] => j = k
    BY <1>2 DEF LinkedAs
  <2> QED BY <1>2, <1>5, <2>1
<1>7. ASSUME NEW k \in 1 .. n + 1
      PROVE  heap'[t[k]].ptr = IF k < n + 1 THEN t[k + 1] ELSE NULL
  <2>1. CASE k = n + 1
    BY <1>1, <1>2, <1>4, <1>5, <2>1
  <2>2. CASE k = n
    BY <1>2, <1>3, <1>4, <1>5, <2>2
  <2>3. CASE k < n
    <3>1. k \in 1 .. n /\ k + 1 \in 1 .. n /\ k # n /\ n \in 1 .. n
      BY <1>2, <2>3
    <3>2. s[k] # rear /\ heap[s[k]].ptr = s[k + 1]
      BY <1>2, <1>3, <2>3, <3>1 DEF LinkedAs, n
    <3> QED BY <1>2, <1>4, <1>5, <2>3, <3>1, <3>2
  <2> QED BY <1>2, <2>1, <2>2, <2>3
<1>8. front' = t[1]
  BY <1>1, <1>2, <1>5 DEF LinkedAs
<1>9. LinkedAs(t)'
  BY <1>4, <1>5, <1>6, <1>7, <1>8 DEF LinkedAs
<1>10. AccountedFor(t)'
  <2>1. \A a \in Allocated : a = cur \/ \E k \in DOMAIN t : t[k] = a
    <3>1. \A a \in Allocated : a = cur \/ \E k \in 1 .. n : s[k] = a
      BY <1>2 DEF AccountedFor
    <3> QED BY <1>2, <1>5, <3>1
  <2>2. Len(t) = count + 1
    BY <1>1, <1>5 DEF AccountedFor, n
  <2> QED BY <1>1, <1>2, <1>4, <1>5, <2>1, <2>2 DEF AccountedFor
<1> QED BY <1>9, <1>10

LEMMA EnqEndKeepsList ==
  ASSUME LocalInv, NEW s, LinkedAs(s), AccountedFor(s), EnqRear \/ EnqCount
  PROVE  LinkedAs(s)' /\ AccountedFor(s)'
<1>1. /\ UNCHANGED <<heap, front>> /\ Allocated' = Allocated
      /\ mpc \in {"Rear", "Count"}
      /\ \/ mpc' = "Count" /\ UNCHANGED <<count, cur>>
         \/ mpc' = "Idle" /\ count' = count + 1 /\ cur' = NULL
  BY DEF EnqRear, EnqCount, Allocated
<1>2. LinkedAs(s)'
  BY <1>1, ListKept
<1>3. Len(s) \in DOMAIN s /\ s[Len(s)] = cur /\ count \in Nat
  BY <1>1, SeqFacts DEF AccountedFor, LocalInv, TypeOK
<1>4. AccountedFor(s)'
  BY <1>1, <1>3 DEF AccountedFor
<1> QED BY <1>2, <1>4

LEMMA WriterLooksKeepList ==
  ASSUME NEW s, LinkedAs(s), AccountedFor(s), WriterLook \/ WriterPeek
  PROVE  LinkedAs(s)' /\ AccountedFor(s)'
<1>1. UNCHANGED <<heap, front, count, mpc, cur>>
  BY DEF WriterLook, WriterPeek, listVars, mainVars
<1> QED BY <1>1, ListKept DEF AccountedFor, Allocated

\* deq takes the first node.
LEMMA WriterTakeTakesFirst ==
  ASSUME LocalInv, NEW s, LinkedAs(s), AccountedFor(s), WriterTake,
         NEW t, t = Tail(s)
  PROVE  s # <<>> /\ front = s[1] /\ LinkedAs(t)' /\ AccountedFor(t)'
<1> DEFINE n == Len(s)
<1>1. /\ mpc = "Idle" /\ mpc' = "Idle" /\ cur = NULL /\ cur' = NULL /\ NULL \notin Allocated
      /\ front # NULL /\ front' = heap[front].ptr /\ Allocated' = Allocated \ {front}
      /\ \A a \in Allocated \ {front} : heap'[a] = heap[a]
      /\ count' = (IF count > 0 THEN count - 1 ELSE count)
  BY AddrAssumption DEF WriterTake, Deq, mainVars, LocalInv, TypeOK, FillingOK, Allocated
<1>2. n \in Nat /\ n > 0 /\ DOMAIN s = 1 .. n /\ s # <<>> /\ front = s[1]
      /\ \A k \in 1 .. n : s[k] \in Allocated
  BY <1>1, SeqFacts DEF LinkedAs
<1>3. Len(t) = n - 1 /\ DOMAIN t = 1 .. n - 1 /\ \A k \in 1 .. n - 1 : t[k] = s[k + 1]
  BY <1>2 DEF LinkedAs
<1>4. \A j, k \in 1 .. n : s[j] = s[k] => j = k
  BY <1>2 DEF LinkedAs
<1>5. \A k \in 1 .. n : heap[s[k]].ptr = IF k < n THEN s[k + 1] ELSE NULL
  BY <1>2 DEF LinkedAs
<1>6. count = n
  BY <1>1 DEF AccountedFor
<1>7. \A a \in Allocated : \E k \in 1 .. n : s[k] = a
  BY <1>1, <1>2 DEF AccountedFor
<1> HIDE DEF n
<1>8. ASSUME NEW k \in 1 .. n - 1 PROVE k + 1 \in 1 .. n /\ t[k] = s[k + 1] /\ t[k] \in Allocated'
  <2>1. k + 1 \in 1 .. n /\ 1 \in 1 .. n /\ k + 1 # 1 /\ t[k] = s[k + 1]
    BY <1>2, <1>3
  <2> QED BY <1>1, <1>2, <1>4, <2>1
<1>9. t \in Seq(Allocated')
  <2>1. t \in Seq(Allocated)
    BY <1>2 DEF LinkedAs
  <2>2. t \in [1 .. n - 1 -> Allocated] /\ n - 1 \in Nat
    <3>1. t \in [1 .. Len(t) -> Allocated]
      BY <2>1, SeqsAreFunctions
    <3> QED BY <1>2, <1>3, <3>1
  <2>3. t \in [1 .. n - 1 -> Allocated']
    BY <1>8, <2>2
  <2> QED BY <2>2, <2>3, SeqsAreFunctions
<1>10. \A j, k \in DOMAIN t : t[j] = t[k] => j = k
  BY <1>2, <1>3, <1>4, <1>8
<1>11. front' = IF t = <<>> THEN NULL ELSE t[1]
  <2>1. t = <<>> <=> n = 1
    BY <1>2, <1>3, <1>9
  <2> QED BY <1>1, <1>2, <1>3, <1>5, <2>1
<1>12. ASSUME NEW k \in 1 .. n - 1
       PROVE  heap'[t[k]].ptr = IF k < n - 1 THEN t[k + 1] ELSE NULL
  <2>1. heap'[t[k]].ptr = heap[s[k + 1]].ptr /\ k + 1 \in 1 .. n
    BY <1>1, <1>8
  <2>2. CASE k < n - 1
    <3>1. k + 1 \in 1 .. n - 1 /\ k + 1 < n /\ t[k + 1] = s[(k + 1) + 1]
      BY <1>2, <1>3, <2>2
    <3> QED BY <1>5, <2>1, <2>2, <3>1
  <2>3. CASE ~(k < n - 1)
    <3>1. ~(k + 1 < n)
      BY <1>2, <2>3
    <3> QED BY <1>5, <2>1, <2>3, <3>1
  <2> QED BY <2>2, <2>3
<1>13. LinkedAs(t)'
  BY <1>3, <1>9, <1>10, <1>11, <1>12 DEF LinkedAs
<1>14. AccountedFor(t)'
  <2>1. ASSUME NEW a \in Allocated' PROVE \E k \in DOMAIN t : t[k] = a
    <3>1. PICK j \in 1 .. n : s[j] = a /\ j # 1
      BY <1>1, <1>2, <1>7
    <3>2. j - 1 \in 1 .. n - 1 /\ t[j - 1] = s[(j - 1) + 1] /\ (j - 1) + 1 = j
      BY <1>2, <1>3, <3>1
    <3> QED BY <1>3, <3>1, <3>2
  <2> QED BY <1>1, <1>2, <1>3, <1>6, <2>1 DEF AccountedFor
<1> QED BY <1>2, <1>13, <1>14

LEMMA NextCopied ==
  ASSUME LocalInv, LocalInv', Copied, [Next]_vars
  PROVE  Copied'
<1> SUFFICES ASSUME mpc' \in {"Front", "Link"} PROVE heap'[cur'].data = arg'
  BY DEF Copied
<1>1. CASE EnqData
  BY <1>1 DEF EnqData, LocalInv, TypeOK, FillingOK, Node
<1>2. CASE UNCHANGED <<heap, mpc, arg, cur>>
  BY <1>2 DEF Copied
<1> QED
  BY <1>1, <1>2 DEF Next, EnqCall, EnqAlloc, EnqPtr, EnqFront, EnqLink, EnqRear, EnqCount,
     WriterLook, WriterPeek, WriterTake, LocalInv, FillingOK, mainVars, listVars, vars

-----------------------------------------------------------------------------
(* Theorems                                                                *)

LEMMA OrderNow == \A s : LocalInv /\ LinkedAs(s) => Order = s
  BY OrderIs DEF LocalInv

LEMMA OrderNext == (\A s : LocalInv /\ LinkedAs(s) => Order = s)'
  BY OrderNow, PTL

LEMMA InitIInv == Init => IInv
<1> SUFFICES ASSUME Init PROVE IInv
  OBVIOUS
<1>1. LocalInv /\ Allocated = {} /\ cur = NULL
  BY InitLocal DEF Init, Allocated
<1>2. LinkedAs(<<>>) /\ AccountedFor(<<>>)
  BY <1>1 DEF Init, LinkedAs, AccountedFor
<1>3. Order = <<>>
  BY <1>1, <1>2, OrderIs DEF LocalInv
<1> QED BY <1>1, <1>2, <1>3 DEF IInv, Copied, Init

\* The order after a step, and the invariant.
LEMMA NextOrder ==
  ASSUME IInv, [Next]_vars
  PROVE  /\ IInv'
         /\ \/ Order' = Order /\ ~EnqFront /\ ~EnqLink /\ ~WriterTake
            \/ (EnqFront \/ EnqLink) /\ Order' = Append(Order, cur)
            \/ WriterTake /\ Order # <<>> /\ front = Order[1] /\ Order' = Tail(Order)
<1>1. PICK s : s = Order
  OBVIOUS
<1>2. LocalInv /\ LocalInv' /\ LinkedAs(s) /\ AccountedFor(s) /\ Copied'
  BY <1>1, NextLocal, NextCopied DEF IInv
<1>3. CASE EnqFront \/ EnqLink
  <2>1. PICK t : t = Append(s, cur)
    OBVIOUS
  <2>2. LinkedAs(t)' /\ AccountedFor(t)'
    BY <1>2, <1>3, <2>1, EnqFrontMakesList, EnqLinkAppends
  <2>3. Order' = t
    BY <1>2, <2>2, OrderNext
  <2> QED BY <1>1, <1>2, <1>3, <2>1, <2>2, <2>3 DEF IInv
<1>4. CASE WriterTake
  <2>1. PICK t : t = Tail(s)
    OBVIOUS
  <2>2. s # <<>> /\ front = s[1] /\ LinkedAs(t)' /\ AccountedFor(t)'
    BY <1>2, <1>4, <2>1, WriterTakeTakesFirst
  <2>3. Order' = t
    BY <1>2, <2>2, OrderNext
  <2> QED BY <1>1, <1>2, <1>4, <2>1, <2>2, <2>3 DEF IInv
<1>5. CASE ~EnqFront /\ ~EnqLink /\ ~WriterTake
  <2>1. LinkedAs(s)' /\ AccountedFor(s)'
    <3>1. CASE UNCHANGED vars
      BY <1>2, <3>1, ListKept DEF vars, AccountedFor, Allocated
    <3> QED
      BY <1>2, <1>5, <3>1, EnqBeginKeepsList, EnqFillsElsewhere, EnqEndKeepsList,
         WriterLooksKeepList DEF Next
  <2>2. Order' = s
    BY <1>2, <2>1, OrderNext
  <2> QED BY <1>1, <1>2, <1>5, <2>1, <2>2 DEF IInv
<1> QED BY <1>3, <1>4, <1>5

LEMMA NextIInv == IInv /\ [Next]_vars => IInv'
  BY NextOrder

\* The list keeps its shape at every store of enq and of deq.
THEOREM InductiveInvariant == Spec => []IInv
  BY InitIInv, NextIInv, PTL DEF Spec

\* write_tun reads the head without the mutex: it is an allocated node with a
\* packet in it, wherever enq is.
THEOREM UnlockedPeekIsSafe == Spec => []PeekSafe
<1>1. IInv => PeekSafe
  <2> SUFFICES ASSUME LocalInv, wpc = "Peek" PROVE front \in Allocated /\ heap[front].data \in Packet
    BY DEF PeekSafe, IInv
  <2> QED BY DEF LocalInv, PointersOK, FillingOK
<1> QED BY <1>1, InductiveInvariant, PTL

\* What is allocated is linked, or being filled; what is linked is allocated; rear
\* is the last node.
THEOREM NothingLeaksOrDangles == Spec => []NoLeakNoDangling
<1>1. IInv => NoLeakNoDangling
  <2> SUFFICES ASSUME IInv PROVE NoLeakNoDangling
    OBVIOUS
  <2>1. PICK s : s = Order
    OBVIOUS
  <2>2. /\ LocalInv /\ LinkedAs(s) /\ AccountedFor(s)
        /\ Linked = {s[k] : k \in DOMAIN s}
    BY <2>1, OrderIs DEF IInv, LocalInv
  <2>3. Linked \subseteq Allocated
    BY <2>2, SeqFacts
  <2>4. Allocated \subseteq Linked \cup {cur}
    BY <2>2 DEF AccountedFor
  <2>5. ASSUME mpc = "Idle"
        PROVE  IF Linked = {} THEN rear = NULL ELSE rear \in Linked /\ heap[rear].ptr = NULL
    <3>1. cur = NULL /\ NULL \notin Allocated /\ Linked = Allocated
      BY <2>2, <2>3, <2>4, <2>5, AddrAssumption DEF LocalInv, TypeOK, FillingOK
    <3>2. Linked # {} => rear # NULL
      BY <2>2, <3>1, SeqFacts DEF LocalInv, EndsOK
    <3>3. rear # NULL => rear \in Linked /\ heap[rear].ptr = NULL
      BY <2>2, <2>5, <3>1 DEF LocalInv, EndsOK
    <3>4. Linked = {} => rear = NULL
      BY <3>3
    <3> QED BY <3>2, <3>3, <3>4
  <2> QED BY <2>3, <2>4, <2>5 DEF NoLeakNoDangling
<1> QED BY <1>1, InductiveInvariant, PTL

\* Between two calls of enq the field counts the nodes of the list.
THEOREM CountIsTheLength == Spec => []CountIsLength
<1>1. IInv => CountIsLength
  <2> SUFFICES ASSUME IInv, mpc = "Idle" PROVE count = Cardinality(Linked)
    BY DEF CountIsLength
  <2>1. Len(Order) = count
    BY DEF IInv, AccountedFor
  <2> QED BY <2>1, OrderIs DEF IInv, LocalInv
<1> QED BY <1>1, InductiveInvariant, PTL

-----------------------------------------------------------------------------
(* The list is a queue.                                                    *)

LEMMA SeqsEqual ==
  \A S : \A s, t \in Seq(S) : Len(s) = Len(t) /\ (\A k \in 1 .. Len(s) : s[k] = t[k]) => s = t
  OBVIOUS

Contained == Packet \cup {Garbage}

\* The packets, by the nodes that hold them.
ContentsShape ==
  /\ Len(Order) \in Nat /\ Order \in Seq(Allocated)
  /\ \A k \in 1 .. Len(Order) : Order[k] \in Allocated
  /\ Contents \in Seq(Contained) /\ Len(Contents) = Len(Order)
  /\ \A k \in 1 .. Len(Order) : Contents[k] = heap[Order[k]].data

LEMMA ContentsNow == IInv => ContentsShape
<1> SUFFICES ASSUME IInv PROVE ContentsShape
  OBVIOUS
<1>1. PICK s : s = Order
  OBVIOUS
<1> DEFINE n == Len(s)
           c == [k \in 1 .. n |-> heap[s[k]].data]
<1>2. /\ s \in Seq(Allocated) /\ n \in Nat /\ DOMAIN s = 1 .. n
      /\ \A k \in 1 .. n : s[k] \in Allocated
  BY <1>1, SeqFacts DEF IInv, LinkedAs
<1>3. Contents = c
  BY <1>1, <1>2 DEF Contents
<1>4. \A a \in Allocated : heap[a].data \in Contained
  BY DEF IInv, LocalInv, TypeOK, Node, Contained
<1> HIDE DEF n
<1>5. c \in [1 .. n -> Contained] /\ \A k \in 1 .. n : c[k] = heap[s[k]].data
  BY <1>2, <1>4
<1> HIDE DEF c
<1>6. c \in Seq(Contained)
  BY <1>2, <1>5, SeqsAreFunctions
<1>7. Len(c) = n
  BY <1>2, <1>5, <1>6
<1> QED BY <1>1, <1>2, <1>3, <1>5, <1>6, <1>7 DEF ContentsShape, n

LEMMA ContentsNext == (IInv => ContentsShape)'
  BY ContentsNow, PTL

\* A step that leaves the linked nodes alone.
LEMMA ContentsKept ==
  ASSUME IInv, Order' = Order,
         \A k \in 1 .. Len(Order) : heap'[Order[k]].data = heap[Order[k]].data
  PROVE  Contents' = Contents
<1>1. DOMAIN Order = 1 .. Len(Order)
  BY ContentsNow DEF ContentsShape
<1> QED BY <1>1 DEF Contents

\* One store of enq queues the packet.
LEMMA LinkQueues ==
  ASSUME IInv, IInv', EnqFront \/ EnqLink, Order' = Append(Order, cur)
  PROVE  Contents' = Append(Contents, arg)
<1>1. ContentsShape /\ ContentsShape'
  BY ContentsNow, ContentsNext
<1>2. \A a \in Allocated : heap'[a].data = heap[a].data
  <2>1. CASE EnqFront
    BY <2>1 DEF EnqFront
  <2>2. CASE EnqLink
    <3>1. rear \in Allocated /\ heap \in [Allocated -> Node]
      BY <2>2 DEF EnqLink, IInv, LocalInv, TypeOK, FillingOK, EndsOK
    <3> QED BY <2>2, <3>1 DEF EnqLink, Node
  <2> QED BY <2>1, <2>2
<1>3. cur \in Allocated /\ heap[cur].data = arg /\ arg \in Contained
  BY DEF EnqFront, EnqLink, IInv, LocalInv, FillingOK, Copied, Contained
<1> DEFINE n == Len(Order)
<1>4. /\ n \in Nat /\ Len(Order') = n + 1 /\ Order'[n + 1] = cur
      /\ \A k \in 1 .. n : Order'[k] = Order[k]
  BY <1>1, <1>3 DEF ContentsShape
<1>5. PICK c : c = Contents
  OBVIOUS
<1>6. PICK e : e = Append(c, arg)
  OBVIOUS
<1>7. /\ c \in Seq(Contained) /\ Len(c) = n
      /\ \A k \in 1 .. n : c[k] = heap[Order[k]].data /\ Order[k] \in Allocated
  BY <1>1, <1>5 DEF ContentsShape
<1> HIDE DEF n
<1>8. /\ e \in Seq(Contained) /\ Len(e) = n + 1 /\ e[n + 1] = arg
      /\ \A k \in 1 .. n : e[k] = c[k]
  BY <1>3, <1>4, <1>6, <1>7
<1>9. PICK d : d = Contents'
  OBVIOUS
<1>10. /\ d \in Seq(Contained) /\ Len(d) = n + 1
       /\ \A k \in 1 .. n + 1 : d[k] = heap'[Order'[k]].data
  BY <1>1, <1>4, <1>9 DEF ContentsShape, Contained
<1>11. ASSUME NEW k \in 1 .. n + 1 PROVE d[k] = e[k]
  <2>1. CASE k = n + 1
    BY <1>2, <1>3, <1>4, <1>8, <1>10, <2>1
  <2>2. CASE k \in 1 .. n
    BY <1>2, <1>4, <1>7, <1>8, <1>10, <2>2
  <2> QED BY <1>4, <2>1, <2>2
<1>12. d = e
  BY <1>8, <1>10, <1>11, SeqsEqual
<1> QED BY <1>5, <1>6, <1>9, <1>12

\* deq takes the oldest.
LEMMA TakeDequeues ==
  ASSUME IInv, IInv', WriterTake, Order # <<>>, front = Order[1], Order' = Tail(Order)
  PROVE  Contents # <<>> /\ out' = Head(Contents) /\ out' \in Packet /\ Contents' = Tail(Contents)
<1>1. ContentsShape /\ ContentsShape'
  BY ContentsNow, ContentsNext
<1> DEFINE n == Len(Order)
<1>2. /\ n \in Nat /\ n > 0 /\ Len(Order') = n - 1
      /\ \A k \in 1 .. n - 1 : Order'[k] = Order[k + 1]
  BY <1>1 DEF ContentsShape
<1>3. PICK c : c = Contents
  OBVIOUS
<1>4. /\ c \in Seq(Contained) /\ Len(c) = n
      /\ \A k \in 1 .. n : c[k] = heap[Order[k]].data /\ Order[k] \in Allocated
  BY <1>1, <1>3 DEF ContentsShape
<1>5. PICK e : e = Tail(c)
  OBVIOUS
<1>6. PICK d : d = Contents'
  OBVIOUS
<1>7. /\ d \in Seq(Contained) /\ Len(d) = n - 1
      /\ \A k \in 1 .. n - 1 : d[k] = heap'[Order'[k]].data /\ Order'[k] \in Allocated'
  BY <1>1, <1>2, <1>6 DEF ContentsShape, Contained
<1>8. /\ \A a \in Allocated' : heap'[a] = heap[a]
      /\ out' = heap[front].data /\ heap[front].data \in Packet
  <2>1. front \in Allocated /\ heap[front].data \in Packet
    BY <1>1, <1>2 DEF ContentsShape, WriterTake, IInv, LocalInv, PointersOK, FillingOK
  <2> QED BY <2>1 DEF WriterTake, Deq, Allocated
<1> HIDE DEF n
<1>9. /\ c # <<>> /\ Head(c) = c[1] /\ e \in Seq(Contained) /\ Len(e) = n - 1
      /\ \A k \in 1 .. n - 1 : e[k] = c[k + 1]
  BY <1>2, <1>4, <1>5
<1>10. ASSUME NEW k \in 1 .. n - 1 PROVE d[k] = e[k]
  <2>1. k + 1 \in 1 .. n
    BY <1>2
  <2>2. e[k] = heap[Order[k + 1]].data
    BY <1>4, <1>9, <2>1
  <2>3. d[k] = heap'[Order[k + 1]].data /\ Order[k + 1] \in Allocated'
    BY <1>2, <1>7
  <2> QED BY <1>8, <2>2, <2>3
<1>11. d = e
  BY <1>7, <1>9, <1>10, SeqsEqual
<1>12. 1 \in 1 .. n /\ out' = c[1]
  BY <1>2, <1>4, <1>8
<1> QED BY <1>3, <1>5, <1>6, <1>8, <1>9, <1>11, <1>12

LEMMA ListStep ==
  ASSUME IInv, [Next]_vars
  PROVE  [List!Next]_<<InHand, Queued, Written>>
<1>1. /\ IInv'
      /\ \/ Order' = Order /\ ~EnqFront /\ ~EnqLink /\ ~WriterTake
         \/ (EnqFront \/ EnqLink) /\ Order' = Append(Order, cur)
         \/ WriterTake /\ Order # <<>> /\ front = Order[1] /\ Order' = Tail(Order)
  BY NextOrder
<1>2. CASE (EnqFront \/ EnqLink) /\ Order' = Append(Order, cur)
  <2>1. Contents' = Append(Contents, arg)
    BY <1>1, <1>2, LinkQueues
  <2>2. /\ InHand = <<1, arg>> /\ InHand' = <<>> /\ Written' = Written /\ arg \in Packet
    BY <1>2 DEF EnqFront, EnqLink, InHand, Written, IInv, LocalInv, FillingOK
  <2>3. Queued' = [Queued EXCEPT ![1] = Append(@, arg)]
    BY <2>1 DEF Queued
  <2>4. List!Accept(1, arg)
    BY <2>2, <2>3 DEF List!Accept
  <2> QED BY <2>2, <2>4 DEF List!Next
<1>3. CASE WriterTake /\ Order # <<>> /\ front = Order[1] /\ Order' = Tail(Order)
  <2>1. /\ Contents # <<>> /\ out' = Head(Contents) /\ out' \in Packet
        /\ Contents' = Tail(Contents)
    BY <1>1, <1>3, TakeDequeues
  <2>2. Written' = <<1, Head(Contents)>> /\ InHand' = InHand
    BY <1>3, <2>1, GarbageAssumption DEF Written, InHand, WriterTake, mainVars
  <2>3. Queued[1] = Contents /\ Queued' = [Queued EXCEPT ![1] = Tail(@)]
    BY <2>1 DEF Queued
  <2>4. List!Deliver(1)
    BY <2>1, <2>2, <2>3 DEF List!Deliver
  <2> QED BY <2>4 DEF List!Next
<1>4. CASE Order' = Order /\ ~EnqFront /\ ~EnqLink /\ ~WriterTake
  <2>1. Contents' = Contents
    <3>1. ASSUME NEW k \in 1 .. Len(Order) PROVE heap'[Order[k]].data = heap[Order[k]].data
      <4>1. Order[k] \in Allocated /\ k \in DOMAIN Order
        BY ContentsNow DEF ContentsShape
      <4>2. CASE EnqPtr \/ EnqData
        <5>1. cur # Order[k]
          BY <4>1, <4>2, FillingIsOutside DEF EnqPtr, EnqData, IInv
        <5> QED BY <4>1, <4>2, <5>1 DEF EnqPtr, EnqData, IInv, LocalInv, TypeOK
      <4>3. CASE EnqAlloc
        BY <4>1, <4>3 DEF EnqAlloc
      <4>4. CASE UNCHANGED heap
        BY <4>4
      <4> QED
        BY <1>4, <4>2, <4>3, <4>4 DEF Next, EnqCall, EnqRear, EnqCount, WriterLook,
           WriterPeek, listVars, vars
    <3> QED BY <1>4, <3>1, ContentsKept
  <2>2. Queued' = Queued
    BY <2>1 DEF Queued
  <2>3. CASE \E x \in Packet : EnqCall(x)
    <3>1. PICK x \in Packet : EnqCall(x)
      BY <2>3
    <3>2. InHand = <<>> /\ InHand' = <<1, x>> /\ Written' = Written
      BY <3>1 DEF EnqCall, InHand, Written
    <3>3. List!Read(1, x)
      BY <2>2, <3>2 DEF List!Read
    <3> QED BY <3>3 DEF List!Next
  <2>4. CASE ~\E x \in Packet : EnqCall(x)
    <3>1. InHand' = InHand /\ Written' = Written
      BY <1>4, <2>4 DEF Next, EnqAlloc, EnqPtr, EnqData, EnqRear, EnqCount, WriterLook,
         WriterPeek, mainVars, listVars, vars, InHand, Written
    <3> QED BY <2>2, <3>1
  <2> QED BY <2>3, <2>4
<1> QED BY <1>1, <1>2, <1>3, <1>4

\* The stores of enq and deq, seen from outside, are a queue: every packet given to
\* enq is written once, in the order of the calls.
THEOREM ImplementsQueue == Spec => ListSpec
<1>1. Init => List!Init
  <2> SUFFICES ASSUME Init PROVE List!Init
    OBVIOUS
  <2>1. Order = <<>>
    <3>1. IInv /\ front = NULL
      BY InitIInv DEF Init
    <3> QED BY <3>1, AddrAssumption, SeqFacts DEF IInv, LocalInv, TypeOK
  <2>2. Contents = <<>>
    <3>1. Contents \in Seq(Contained) /\ Len(Contents) = 0
      BY <2>1, InitIInv, ContentsNow DEF ContentsShape
    <3> QED BY <3>1
  <2> QED BY <2>2 DEF Init, List!Init, InHand, Queued, Written
<1>2. IInv /\ [Next]_vars => [List!Next]_List!vars
  BY ListStep DEF List!vars
<1> QED BY <1>1, <1>2, InductiveInvariant, PTL DEF Spec, ListSpec, List!Spec
=============================================================================
