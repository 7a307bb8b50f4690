-------------------------- MODULE TimeWindowsProofs --------------------------
(***************************************************************************)
(* Proofs about TimeWindows: with equal windows no two nodes are on the    *)
(* air together, for any number of nodes and any windows that are wider    *)
(* than what the controller takes off.                                     *)
(***************************************************************************)
EXTENDS TimeWindows, Integers, TLAPS

-----------------------------------------------------------------------------
(* The remainder.                                                          *)

LEMMA Division ==
  ASSUME NEW x \in Int, NEW d \in Int, d > 0
  PROVE  /\ x \div d \in Int /\ x % d \in 0 .. d - 1
         /\ x = d * (x \div d) + (x % d)
  BY SMT

LEMMA Multiples ==
  ASSUME NEW d \in Int, d > 0, NEW k \in Int
  PROVE  (k >= 2 => d * k >= 2 * d) /\ (k <= -1 => d * k <= -d)
  BY SMT

\* From one instant to the next the phase goes on by one or wraps.
LEMMA NextPhase ==
  ASSUME NEW x \in Nat, NEW d \in Nat \ {0}
  PROVE  (x + 1) % d = (x % d) + 1 \/ (x + 1) % d = 0
<1> DEFINE q == x \div d
           p == (x + 1) \div d
           r == x % d
           s == (x + 1) % d
<1>1. q \in Int /\ r \in 0 .. d - 1 /\ x = d * q + r
  BY Division
<1>2. p \in Int /\ s \in 0 .. d - 1 /\ x + 1 = d * p + s
  BY Division
<1> HIDE DEF p, q, r, s
<1>3. d * (p - q) = r - s + 1
  BY <1>1, <1>2, SMT
<1>4. p - q = 0 \/ p - q = 1
  <2>1. ~(p - q >= 2)
    BY <1>1, <1>2, <1>3, Multiples, SMT
  <2>2. ~(p - q <= -1)
    BY <1>1, <1>2, <1>3, Multiples, SMT
  <2> QED BY <2>1, <2>2, <1>1, <1>2, SMT
<1>5. s = r + 1 \/ s = 0
  BY <1>1, <1>2, <1>3, <1>4, SMT
<1> QED BY <1>5 DEF r, s

-----------------------------------------------------------------------------
(* The windows.                                                            *)

\* Every published array is ordered, and so are the defaults.
LEMMA BaseGrows ==
  ASSUME NEW j \in 0 .. clusterSize, NEW k \in 0 .. clusterSize, j < k
  PROVE  Base[j] \in Nat /\ Base[k] \in Nat /\ Base[j] + Shorten < Base[k]
  BY WindowAssumption, SMT

LEMMA BaseIsOrdered == Base \in [0 .. clusterSize -> Nat] /\ Ordered(Base)
  BY WindowAssumption, SMT DEF Ordered

LEMMA WindowsAreOrdered ==
  ASSUME NEW r \in Nat
  PROVE  Windows(r) \in [0 .. clusterSize -> Nat] /\ Ordered(Windows(r))
<1>1. \A k \in 1 .. clusterSize : Base[k] \in Nat /\ Base[k] - Shorten \in Nat
  BY WindowAssumption, SMT
<1>2. Windows(r) \in [0 .. clusterSize -> Nat]
  BY <1>1, WindowAssumption, SMT DEF Windows
<1>3. Windows(r)[0] = 0
  BY WindowAssumption, SMT DEF Windows
<1>4. \A k \in 1 .. clusterSize :
        Base[k] - Shorten <= Windows(r)[k] /\ Windows(r)[k] <= Base[k]
  BY <1>1, WindowAssumption, SMT DEF Windows
<1>5. Ordered(Windows(r))
  BY <1>3, <1>4, WindowAssumption, SMT DEF Ordered
<1> QED BY <1>2, <1>5

\* The end of an ordered array is never 0, and lies behind every guard.
LEMMA EndIsLate ==
  ASSUME NEW a \in [0 .. clusterSize -> Nat], Ordered(a)
  PROVE  a[clusterSize] \in Nat \ {0} /\ a[clusterSize] > Guard
<1>1. Base[1] \in Nat /\ Base[clusterSize] \in Nat /\ Base[1] <= Base[clusterSize]
  <2>1. CASE clusterSize = 1
    BY <2>1, WindowAssumption, SMT
  <2>2. CASE 1 < clusterSize
    BY <2>2, WindowAssumption, BaseGrows, SMT
  <2> QED BY <2>1, <2>2, WindowAssumption, SMT
<1>2. a[clusterSize] \in Nat /\ Base[clusterSize] - Shorten <= a[clusterSize]
  BY WindowAssumption, SMT DEF Ordered
<1> QED BY <1>1, <1>2, WindowAssumption, TimeAssumption, SMT

\* The windows of an ordered array do not overlap.
LEMMA WindowsMeet ==
  ASSUME NEW a \in [0 .. clusterSize -> Nat], Ordered(a),
         NEW m \in 1 .. clusterSize, NEW n \in 1 .. clusterSize, m < n
  PROVE  a[m] <= a[n - 1]
<1>1. CASE m = n - 1
  BY <1>1, WindowAssumption, SMT
<1>2. CASE m < n - 1
  <2>1. Base[m] \in Nat /\ Base[n - 1] \in Nat /\ Base[m] + Shorten < Base[n - 1]
    BY <1>2, BaseGrows, WindowAssumption, SMT
  <2>2. a[m] <= Base[m] /\ Base[n - 1] - Shorten <= a[n - 1]
    BY <1>2, WindowAssumption, SMT DEF Ordered
  <2> QED BY <2>1, <2>2, WindowAssumption, SMT
<1> QED BY <1>1, <1>2, SMT

-----------------------------------------------------------------------------
(* The inductive invariant.                                                *)

LEMMA InitIInv == Init => IInv
<1> SUFFICES ASSUME Init PROVE IInv
  OBVIOUS
<1>1. \A n \in Forwarder : tAlloc[n] \in [0 .. clusterSize -> Nat] /\ Ordered(tAlloc[n])
  <2>1. PICK r \in [Forwarder -> {0} \cup Earlier] : tAlloc = [n \in Forwarder |-> Kept(r[n])]
    BY DEF Init
  <2>2. \A n \in Forwarder : Kept(r[n]) \in [0 .. clusterSize -> Nat] /\ Ordered(Kept(r[n]))
    BY BaseIsOrdered, WindowsAreOrdered, ForwarderAssumption DEF Kept
  <2> QED BY <2>1, <2>2
<1>2. \A n \in Forwarder : tAlloc[n][clusterSize] \in Nat \ {0}
  BY <1>1, EndIsLate
<1>3. tAlloc \in [Forwarder -> [0 .. clusterSize -> Nat]]
  BY <1>1 DEF Init
<1>4. epoch \in [Forwarder -> Nat \ {0}]
  BY <1>2 DEF Init
<1>5. TypeOK
  <2>1. t \in 0 .. Second - 1 /\ age \in [Forwarder -> 0 .. Delay] /\ restarts \in 0 .. MaxRestarts
    BY TimeAssumption, SMT DEF Init
  <2>2. next \in [Forwarder -> 0 .. Idle]
    BY WindowAssumption, SMT DEF Init, Idle
  <2>3. dirty \in [Forwarder -> BOOLEAN] /\ ControllerTypeOK
    BY DEF Init, ControllerInit, ControllerTypeOK
  <2> QED BY <1>3, <1>4, <2>1, <2>2, <2>3, BaseIsOrdered DEF Init, TypeOK
<1>6. ArraysOrdered
  BY <1>1, BaseIsOrdered DEF Init, ArraysOrdered
<1>7. ClocksOnTime /\ WindowsKept
  BY DEF Init, ClocksOnTime, WindowsKept
<1> QED BY <1>5, <1>6, <1>7 DEF IInv

\* Steps that touch neither time nor arrays nor the main loops.
LEMMA ElsewhereKeeps ==
  ASSUME IInv, UNCHANGED <<t, tAlloc, epoch, clockVars>>
  PROVE  ClocksOnTime' /\ WindowsKept'
  BY DEF IInv, ClocksOnTime, WindowsKept, OnTime, SameStretch, InWindow, Settled, clockVars

LEMMA AskKeeps == IInv /\ Ask => IInv'
<1> SUFFICES ASSUME IInv, Ask PROVE IInv'
  OBVIOUS
<1> USE DEF IInv
<1>1. ControllerTypeOK'
  <2>1. \A k \in DOMAIN Attempts : Attempts[k] \in Nat
    BY AttemptsAssumption, SMT
  <2>2. CASE AskApps
    BY <2>2, Zenon DEF TypeOK, ControllerTypeOK, AskApps
  <2>3. CASE AskJobs
    BY <2>3, Zenon DEF TypeOK, ControllerTypeOK, AskJobs
  <2>4. CASE AskTasks
    <3>1. attempts' \subseteq DOMAIN Attempts /\ UNCHANGED <<appId, jobId, rNodeId>> /\ cpc' = "Pick"
      BY <2>4, Zenon DEF AskTasks
    <3> QED BY <3>1 DEF TypeOK, ControllerTypeOK
  <2>5. CASE PickReducer
    <3>1. /\ attempts' = {} /\ UNCHANGED <<appId, jobId>>
          /\ cpc' \in {"Threw", "Exited", "Publish"}
      BY <2>5, Zenon DEF PickReducer
    <3>2. rNodeId' = rNodeId \/ \E k \in attempts : rNodeId' = Attempts[k]
      BY <2>5, Zenon DEF PickReducer
    <3>3. rNodeId' \in Nat
      BY <2>1, <3>2, Zenon DEF TypeOK, ControllerTypeOK
    <3> QED BY <3>1, <3>3 DEF TypeOK, ControllerTypeOK
  <2> QED BY <2>2, <2>3, <2>4, <2>5 DEF Ask, Request
<1>2. UNCHANGED <<t, tAlloc, epoch, clockVars>>
  BY DEF Ask, storeVars
<1>3. TypeOK'
  BY <1>1 DEF TypeOK, Ask, storeVars, clockVars
<1>4. ArraysOrdered'
  BY DEF ArraysOrdered, Ask, storeVars
<1> QED BY <1>2, <1>3, <1>4, ElsewhereKeeps

LEMMA ConnectKeeps == ASSUME IInv, NEW n \in Forwarder, Connect(n) PROVE IInv'
<1> USE DEF IInv
<1>1. UNCHANGED <<t, tAlloc, epoch, clockVars>>
  BY DEF Connect, storeVars
<1>2. TypeOK'
  BY DEF TypeOK, ControllerTypeOK, Connect, storeVars, clockVars, controllerVars
<1>3. ArraysOrdered'
  BY DEF ArraysOrdered, Connect, storeVars
<1> QED BY <1>1, <1>2, <1>3, ElsewhereKeeps

LEMMA PublishKeeps == IInv /\ Publish => IInv'
<1> SUFFICES ASSUME IInv, Publish PROVE IInv'
  OBVIOUS
<1> USE DEF IInv
<1>1. UNCHANGED <<t, tAlloc, epoch, clockVars>>
  BY DEF Publish
<1>2. Windows(rNodeId) \in [0 .. clusterSize -> Nat] /\ Ordered(Windows(rNodeId))
  BY WindowsAreOrdered DEF TypeOK, ControllerTypeOK
<1>3. next' \in [Forwarder -> 0 .. Idle]
  BY WindowAssumption, SMT DEF Publish, Idle
<1>4. msg' \in [Forwarder -> [0 .. clusterSize -> Nat]]
  BY <1>2 DEF Publish, TypeOK
<1>5. TypeOK'
  BY <1>3, <1>4 DEF TypeOK, ControllerTypeOK, Publish, clockVars, controllerVars
<1>6. ArraysOrdered'
  BY <1>2 DEF ArraysOrdered, Publish
<1> QED BY <1>1, <1>5, <1>6, ElsewhereKeeps

\* A store into one node's memory: who stays clean has the windows he had.
LEMMA StoreKeepsClocks ==
  ASSUME IInv, NEW n \in Forwarder, StillClean,
         UNCHANGED <<t, pc, now, age>>,
         \A k \in Forwarder \ {n} : tAlloc'[k] = tAlloc[k],
         Settled => \A k \in Forwarder : epoch'[k] = epoch[k]
  PROVE  ClocksOnTime' /\ WindowsKept'
<1> USE DEF IInv
<1>1. ASSUME NEW k \in Forwarder, clean'[k]
      PROVE  clean[k] /\ Settled /\ Settled' /\ epoch'[k] = epoch[k]
  BY <1>1 DEF StillClean, ClocksOnTime
<1>2. ClocksOnTime'
  BY <1>1 DEF ClocksOnTime, OnTime
<1>3. ASSUME NEW m \in Forwarder, NEW k \in Forwarder, m # k, clean'[k]
      PROVE  tAlloc'[k] = tAlloc[k]
  <2>1. CASE k # n
    BY <2>1
  <2>2. CASE k = n
    BY <1>1, <1>3, <2>2 DEF Settled
  <2> QED BY <2>1, <2>2
<1>4. WindowsKept'
  BY <1>1, <1>3 DEF WindowsKept, InWindow, SameStretch
<1> QED BY <1>2, <1>4

LEMMA StoreKeeps == ASSUME IInv, NEW n \in Forwarder, Store(n) PROVE IInv'
<1> USE DEF IInv
<1> DEFINE k == next[n]
<1>1. PICK v \in Numbers(n) : tAlloc' = [tAlloc EXCEPT ![n][k] = v]
  BY DEF Store
<1>2. k \in 0 .. clusterSize /\ k + 1 \in 0 .. Idle
  <2>1. next[n] \in 0 .. Idle /\ next[n] <= clusterSize
    BY Zenon DEF TypeOK, Store
  <2> QED BY <2>1, WindowAssumption, SMT DEF Idle
<1>3. msg[n] \in [0 .. clusterSize -> Nat] /\ tAlloc[n] \in [0 .. clusterSize -> Nat]
  BY DEF TypeOK
<1>4. v = msg[n][k] \/ (k = clusterSize /\ v = 10 * msg[n][k])
  BY DEF Numbers, Junk
<1>5. v \in Nat /\ msg[n][k] \in Nat
  <2>1. msg[n][k] \in Nat
    BY <1>2, <1>3, Zenon
  <2> HIDE DEF k
  <2> QED BY <1>4, <2>1, SMT
<1> DEFINE a == [tAlloc[n] EXCEPT ![k] = v]
<1>6. a \in [0 .. clusterSize -> Nat]
  BY <1>3, <1>5
<1>7. Ordered(a)
  <2>1. Ordered(tAlloc[n]) /\ Ordered(msg[n])
    BY DEF ArraysOrdered
  <2>2. a[k] = v /\ \A j \in 0 .. clusterSize : j # k => a[j] = tAlloc[n][j]
    BY <1>2, <1>3
  <2>3. v >= msg[n][k]
    BY <1>4, <1>5, SMT
  <2> HIDE DEF a, k
  <2>4. a[0] = 0
    BY <1>2, <1>4, <2>1, <2>2, WindowAssumption, SMT DEF Ordered
  <2>5. \A j \in 1 .. clusterSize : Base[j] - Shorten <= a[j]
    <3> TAKE j \in 1 .. clusterSize
    <3>1. Base[j] \in Nat /\ j \in 0 .. clusterSize
      BY WindowAssumption, SMT
    <3>2. CASE j = k
      BY <3>1, <3>2, <1>5, <2>1, <2>2, <2>3, WindowAssumption, SMT DEF Ordered
    <3>3. CASE j # k
      BY <3>1, <3>3, <2>1, <2>2 DEF Ordered
    <3> QED BY <3>2, <3>3
  <2>6. \A j \in 1 .. clusterSize - 1 : a[j] <= Base[j]
    <3> TAKE j \in 1 .. clusterSize - 1
    <3>1. j \in 0 .. clusterSize /\ j # clusterSize
      BY WindowAssumption, SMT
    <3>2. CASE j = k
      BY <3>1, <3>2, <1>4, <2>1, <2>2 DEF Ordered
    <3>3. CASE j # k
      BY <3>1, <3>3, <2>1, <2>2 DEF Ordered
    <3> QED BY <3>2, <3>3
  <2> QED BY <2>4, <2>5, <2>6 DEF Ordered
<1>8. tAlloc' = [tAlloc EXCEPT ![n] = a]
  BY <1>1
<1>9. TypeOK'
  <2>1. tAlloc' \in [Forwarder -> [0 .. clusterSize -> Nat]]
    BY <1>6, <1>8 DEF TypeOK
  <2>2. next' \in [Forwarder -> 0 .. Idle]
    BY <1>2 DEF TypeOK, Store
  <2>3. clean' \in [Forwarder -> BOOLEAN]
    BY DEF Store, StillClean
  <2> QED BY <2>1, <2>2, <2>3 DEF TypeOK, ControllerTypeOK, Store, controllerVars
<1>10. ArraysOrdered'
  BY <1>7, <1>8 DEF ArraysOrdered, TypeOK, Store
<1>11. \A j \in Forwarder \ {n} : tAlloc'[j] = tAlloc[j]
  BY <1>8 DEF TypeOK
<1>12. ClocksOnTime' /\ WindowsKept'
  BY <1>11, StoreKeepsClocks DEF Store
<1> QED BY <1>9, <1>10, <1>12

LEMMA StoreEpochKeeps == ASSUME IInv, NEW n \in Forwarder, StoreEpoch(n) PROVE IInv'
<1> USE DEF IInv
<1>1. tAlloc[n][clusterSize] \in Nat \ {0}
  BY EndIsLate DEF TypeOK, ArraysOrdered
<1>2. TypeOK'
  <2>1. next' \in [Forwarder -> 0 .. Idle]
    BY WindowAssumption, SMT DEF TypeOK, StoreEpoch, Idle
  <2>2. clean' \in [Forwarder -> BOOLEAN] /\ dirty' \in [Forwarder -> BOOLEAN]
    BY DEF TypeOK, StoreEpoch, StillClean
  <2> QED BY <1>1, <2>1, <2>2 DEF TypeOK, ControllerTypeOK, StoreEpoch, controllerVars
<1>3. ArraysOrdered'
  BY DEF ArraysOrdered, StoreEpoch
<1>4. Settled => \A k \in Forwarder : epoch'[k] = epoch[k]
  BY DEF Settled, StoreEpoch, TypeOK
<1>5. ClocksOnTime' /\ WindowsKept'
  BY <1>4, StoreKeepsClocks DEF StoreEpoch
<1> QED BY <1>2, <1>3, <1>5

\* A reading of the clock with the same windows stands to another in the way
\* the other stands to the time.
LEMMA ReadClockKeeps == ASSUME IInv, NEW n \in Forwarder, ReadClock(n) PROVE IInv'
<1> USE DEF IInv
<1> DEFINE p == t % epoch[n]
<1>1. p \in Nat
  BY Division, SMT DEF TypeOK
<1>2. /\ now' = [now EXCEPT ![n] = p] /\ age' = [age EXCEPT ![n] = 0]
      /\ clean' = [clean EXCEPT ![n] = Settled] /\ pc' = [pc EXCEPT ![n] = "End"]
      /\ UNCHANGED <<t, tAlloc, epoch>>
  BY DEF ReadClock, storeVars
<1>3. TypeOK'
  <2>1. age' \in [Forwarder -> 0 .. Delay]
    BY <1>2, TimeAssumption, SMT DEF TypeOK
  <2>2. clean' \in [Forwarder -> BOOLEAN]
    BY <1>2 DEF TypeOK, Settled
  <2> QED BY <1>1, <1>2, <2>1, <2>2 DEF TypeOK, ControllerTypeOK, ReadClock, storeVars, controllerVars
<1>4. ArraysOrdered'
  BY DEF ArraysOrdered, ReadClock, storeVars
<1>5. /\ now'[n] = p /\ age'[n] = 0 /\ clean'[n] = Settled /\ pc'[n] = "End"
      /\ \A k \in Forwarder \ {n} :
           now'[k] = now[k] /\ age'[k] = age[k] /\ clean'[k] = clean[k] /\ pc'[k] = pc[k]
  BY <1>2 DEF TypeOK
<1>6. Settled' = Settled
  BY <1>2 DEF Settled
<1>7. OnTime(n)'
  BY <1>1, <1>2, <1>5, SMT DEF OnTime
<1>8. ClocksOnTime'
  <2> SUFFICES ASSUME NEW k \in Forwarder, clean'[k]
               PROVE  Settled' /\ pc'[k] # "Select" /\ OnTime(k)'
    BY DEF ClocksOnTime
  <2>1. CASE k = n
    BY <1>5, <1>6, <1>7, <2>1
  <2>2. CASE k # n
    BY <1>2, <1>5, <1>6, <2>2 DEF ClocksOnTime, OnTime
  <2> QED BY <2>1, <2>2
<1>9. ASSUME NEW m \in Forwarder, m # n, clean[m], Settled
      PROVE  SameStretch(m, n)' /\ SameStretch(n, m)'
  <2>1. OnTime(m) /\ epoch[m] = epoch[n]
    BY <1>9 DEF ClocksOnTime, Settled
  <2>2. p = now[m] + age[m] \/ p < age[m]
    BY <2>1 DEF OnTime
  <2>3. now'[m] = now[m] /\ age'[m] = age[m] /\ now'[n] = p /\ age'[n] = 0
    BY <1>5, <1>9
  <2>4. now[m] \in Nat /\ age[m] \in Nat
    BY SMT DEF TypeOK
  <2> HIDE DEF p
  <2> QED BY <1>1, <2>2, <2>3, <2>4, SMT DEF SameStretch
<1>10. WindowsKept'
  <2> SUFFICES ASSUME NEW m \in Forwarder, NEW k \in Forwarder, m # k, clean'[k]
               PROVE  InWindow(k)' /\ (clean'[m] => SameStretch(m, k)')
    BY DEF WindowsKept
  <2>1. CASE k = n
    BY <1>5, <1>9, <2>1 DEF InWindow
  <2>2. CASE k # n
    <3>1. clean[k] /\ InWindow(k)'
      BY <1>2, <1>5, <2>2 DEF WindowsKept, InWindow
    <3>2. CASE m = n
      BY <1>5, <1>9, <2>2, <3>1, <3>2
    <3>3. CASE m # n
      BY <1>5, <2>2, <3>1, <3>3 DEF WindowsKept, SameStretch
    <3> QED BY <3>1, <3>2, <3>3
  <2> QED BY <2>1, <2>2
<1> QED BY <1>3, <1>4, <1>8, <1>10

\* Whether n turns back or goes on, the others do not see it.
LEMMA BackKeeps ==
  ASSUME IInv, NEW n \in Forwarder, Back(n), UNCHANGED <<controllerVars, t, storeVars, connected, restarts>>
  PROVE  IInv'
<1> USE DEF IInv
<1>1. TypeOK'
  <2>1. age' \in [Forwarder -> 0 .. Delay]
    BY TimeAssumption, SMT DEF TypeOK, Back
  <2> QED BY <2>1 DEF TypeOK, ControllerTypeOK, Back, storeVars, controllerVars
<1>2. ArraysOrdered'
  BY DEF ArraysOrdered, storeVars
<1>3. /\ ~clean'[n]
      /\ \A k \in Forwarder \ {n} :
           now'[k] = now[k] /\ age'[k] = age[k] /\ clean'[k] = clean[k] /\ pc'[k] = pc[k]
  BY DEF TypeOK, Back
<1>4. UNCHANGED <<t, tAlloc, epoch>>
  BY DEF storeVars
<1>5. ClocksOnTime'
  BY <1>3, <1>4 DEF ClocksOnTime, Settled, OnTime
<1>6. WindowsKept'
  BY <1>3, <1>4 DEF WindowsKept, InWindow, SameStretch
<1> QED BY <1>1, <1>2, <1>5, <1>6

LEMMA GoKeeps ==
  ASSUME IInv, NEW n \in Forwarder, NEW to \in {"Start", "Send"}, Go(n, to),
         to = "Start" => now[n] < tAlloc[n][n],
         to = "Send" => pc[n] = "Start" /\ now[n] >= tAlloc[n][n - 1] + Guard,
         UNCHANGED <<controllerVars, t, storeVars, connected, restarts>>
  PROVE  IInv'
<1> USE DEF IInv
<1>1. TypeOK'
  BY DEF TypeOK, ControllerTypeOK, Go, storeVars, controllerVars
<1>2. ArraysOrdered'
  BY DEF ArraysOrdered, storeVars
<1>3. UNCHANGED <<t, tAlloc, epoch, now, age, clean>>
  BY DEF storeVars, Go
<1>4. pc'[n] = to /\ \A k \in Forwarder \ {n} : pc'[k] = pc[k]
  BY DEF TypeOK, Go
<1>5. ClocksOnTime'
  BY <1>3, <1>4 DEF ClocksOnTime, Settled, OnTime
<1>6. ASSUME NEW k \in Forwarder, InWindow(k) PROVE InWindow(k)'
  BY <1>3, <1>4, <1>6 DEF InWindow
<1>7. WindowsKept'
  BY <1>3, <1>6 DEF WindowsKept, SameStretch
<1> QED BY <1>1, <1>2, <1>5, <1>7

LEMMA MainLoopKeeps == ASSUME IInv, NEW n \in Forwarder, MainLoop(n) PROVE IInv'
<1>1. CASE ReadClock(n)
  BY <1>1, ReadClockKeeps
<1>2. CASE TestEnd(n)
  <2>1. UNCHANGED <<controllerVars, t, storeVars, connected, restarts>>
    BY <1>2 DEF TestEnd
  <2>2. CASE Back(n)
    BY <2>1, <2>2, BackKeeps
  <2>3. CASE now[n] < tAlloc[n][n] /\ Go(n, "Start")
    BY <2>1, <2>3, GoKeeps
  <2> QED BY <1>2, <2>2, <2>3 DEF TestEnd
<1>3. CASE TestStart(n)
  <2>1. UNCHANGED <<controllerVars, t, storeVars, connected, restarts>>
    BY <1>3 DEF TestStart
  <2>2. CASE Back(n)
    BY <2>1, <2>2, BackKeeps
  <2>3. CASE now[n] >= tAlloc[n][n - 1] + Guard /\ Go(n, "Send")
    BY <1>3, <2>1, <2>3, GoKeeps DEF TestStart
  <2> QED BY <1>3, <2>2, <2>3 DEF TestStart
<1>4. CASE Send(n)
  BY <1>4, BackKeeps DEF Send
<1> QED BY <1>1, <1>2, <1>3, <1>4 DEF MainLoop

\* Time goes on for every reading alike; at the end of the second, and of the
\* epoch, the phase starts from 0 again.
LEMMA TickKeeps == IInv /\ Tick => IInv'
<1> SUFFICES ASSUME IInv, Tick PROVE IInv'
  OBVIOUS
<1> USE DEF IInv
<1>1. UNCHANGED <<tAlloc, epoch, pc, now, clean>>
  BY DEF Tick, storeVars
<1>2. t \in Nat /\ t' \in 0 .. Second - 1 /\ (t' = t + 1 \/ t' = 0)
  <2>1. t \in 0 .. Second - 1 /\ t' = (t + 1) % Second
    BY DEF TypeOK, Tick
  <2>2. t' \in 0 .. Second - 1
    BY <2>1, Division, TimeAssumption, SMT
  <2>3. CASE t + 1 < Second
    BY <2>1, <2>3, TimeAssumption, SMT
  <2>4. CASE t + 1 = Second
    BY <2>1, <2>4, TimeAssumption, SMT
  <2> QED BY <2>1, <2>2, <2>3, <2>4, TimeAssumption, SMT
<1>3. \A k \in Forwarder : age[k] \in 0 .. Delay /\ now[k] \in Nat /\ epoch[k] \in Nat \ {0}
  BY DEF TypeOK
<1>4. \A k \in Forwarder : age'[k] = (IF k \in Busy THEN age[k] + 1 ELSE age[k])
  BY DEF Tick
<1>5. TypeOK'
  <2>1. \A k \in Busy : age[k] < Delay
    BY DEF Tick
  <2>2. \A k \in Forwarder : age'[k] \in 0 .. Delay
    BY <1>3, <1>4, <2>1, TimeAssumption, SMT
  <2>3. age' \in [Forwarder -> 0 .. Delay]
    BY <2>2 DEF Tick
  <2> QED BY <1>2, <2>3 DEF TypeOK, ControllerTypeOK, Tick, storeVars, controllerVars
<1>6. ArraysOrdered'
  BY DEF ArraysOrdered, Tick, storeVars
<1>7. \A k \in Forwarder : clean[k] => k \in Busy /\ age'[k] = age[k] + 1
  BY <1>4 DEF ClocksOnTime, Busy
<1>8. ASSUME NEW k \in Forwarder, clean[k] PROVE OnTime(k)'
  <2> DEFINE E == epoch[k]
  <2>1. t % E \in Nat /\ OnTime(k)
    BY <1>2, <1>3, <1>8, Division, SMT DEF ClocksOnTime
  <2>2. t' % E = (t % E) + 1 \/ t' % E = 0
    <3>1. CASE t' = t + 1
      BY <1>2, <1>3, <3>1, NextPhase
    <3>2. CASE t' = 0
      BY <1>3, <3>2, SMT
    <3> QED BY <1>2, <3>1, <3>2
  <2>3. age'[k] = age[k] + 1 /\ now'[k] = now[k] /\ epoch'[k] = E
    BY <1>1, <1>7, <1>8
  <2>4. now[k] \in Nat /\ age[k] \in Nat
    BY <1>3, SMT
  <2>5. t' % E = now[k] + (age[k] + 1) \/ t' % E < age[k] + 1
    <3> DEFINE p == t % E
               q == t' % E
    <3>1. (p = now[k] + age[k] \/ p < age[k]) /\ p \in Nat /\ (q = p + 1 \/ q = 0)
      BY <2>1, <2>2 DEF OnTime
    <3> HIDE DEF p, q
    <3>2. q = now[k] + (age[k] + 1) \/ q < age[k] + 1
      BY <2>4, <3>1, SMT
    <3> QED BY <3>2 DEF q
  <2> QED BY <2>3, <2>5 DEF OnTime
<1>9. ClocksOnTime'
  BY <1>1, <1>8 DEF ClocksOnTime, Settled
<1>10. ASSUME NEW m \in Forwarder, NEW k \in Forwarder, clean[m], clean[k], SameStretch(m, k)
       PROVE  SameStretch(m, k)'
  BY <1>1, <1>3, <1>7, <1>10, SMT DEF SameStretch
<1>11. WindowsKept'
  BY <1>1, <1>10 DEF WindowsKept, InWindow
<1> QED BY <1>5, <1>6, <1>9, <1>11

\* A forwarder that starts again is not clean, and who stays clean has its windows.
LEMMA RestartKeeps == ASSUME IInv, NEW n \in Forwarder, Restart(n) PROVE IInv'
<1> USE DEF IInv
<1>1. Base[clusterSize] \in Nat \ {0}
  BY BaseIsOrdered, EndIsLate
<1>2. /\ ~clean'[n]
      /\ \A k \in Forwarder \ {n} :
           /\ tAlloc'[k] = tAlloc[k] /\ epoch'[k] = epoch[k] /\ pc'[k] = pc[k]
           /\ now'[k] = now[k] /\ age'[k] = age[k]
           /\ clean'[k] = (clean[k] /\ Settled')
      /\ t' = t
  BY DEF TypeOK, Restart
<1>3. TypeOK'
  <2>1. next' \in [Forwarder -> 0 .. Idle]
    BY WindowAssumption, SMT DEF TypeOK, Restart, Idle
  <2>2. age' \in [Forwarder -> 0 .. Delay] /\ restarts' \in 0 .. MaxRestarts
    BY TimeAssumption, SMT DEF TypeOK, Restart
  <2>3. clean' \in [Forwarder -> BOOLEAN]
    <3>1. \A k \in Forwarder : (k # n /\ clean[k] /\ Settled') \in BOOLEAN
      OBVIOUS
    <3> QED BY <3>1 DEF Restart
  <2>4. epoch' \in [Forwarder -> Nat \ {0}]
    BY <1>1 DEF TypeOK, Restart
  <2> QED BY <2>1, <2>2, <2>3, <2>4, BaseIsOrdered DEF TypeOK, ControllerTypeOK, Restart, controllerVars
<1>4. ArraysOrdered'
  BY BaseIsOrdered DEF TypeOK, ArraysOrdered, Restart
<1>5. ClocksOnTime'
  BY <1>2 DEF ClocksOnTime, OnTime
<1>6. WindowsKept'
  <2> SUFFICES ASSUME NEW j \in Forwarder, NEW k \in Forwarder, j # k, clean'[k]
               PROVE  InWindow(k)' /\ (clean'[j] => SameStretch(j, k)')
    BY DEF WindowsKept
  <2>1. k # n /\ clean[k] /\ tAlloc'[k] = tAlloc[k] /\ pc'[k] = pc[k]
        /\ now'[k] = now[k] /\ age'[k] = age[k]
    BY <1>2, Zenon
  <2>2. InWindow(k) /\ (clean[j] => SameStretch(j, k))
    BY <2>1 DEF WindowsKept
  <2>3. InWindow(k)'
    BY <2>1, <2>2 DEF InWindow
  <2>4. ASSUME clean'[j] PROVE SameStretch(j, k)'
    <3>1. clean[j] /\ now'[j] = now[j] /\ age'[j] = age[j]
      BY <1>2, <2>4, Zenon
    <3> QED BY <2>1, <2>2, <3>1 DEF SameStretch
  <2> QED BY <2>3, <2>4
<1> QED BY <1>3, <1>4, <1>5, <1>6

LEMMA NextKeeps == IInv /\ [Next]_vars => IInv'
<1> SUFFICES ASSUME IInv, [Next]_vars PROVE IInv'
  OBVIOUS
<1>1. CASE Ask
  BY <1>1, AskKeeps
<1>2. CASE Publish
  BY <1>2, PublishKeeps
<1>3. CASE Tick
  BY <1>3, TickKeeps
<1>4. ASSUME NEW n \in Forwarder, Connect(n) PROVE IInv'
  BY <1>4, ConnectKeeps
<1>5. ASSUME NEW n \in Forwarder, RecvConfig(n) PROVE IInv'
  BY <1>5, StoreKeeps, StoreEpochKeeps DEF RecvConfig
<1>6. ASSUME NEW n \in Forwarder, MainLoop(n) PROVE IInv'
  BY <1>6, MainLoopKeeps
<1>7. ASSUME NEW n \in Forwarder, Restart(n) PROVE IInv'
  BY <1>7, RestartKeeps
<1>8. CASE UNCHANGED vars
  <2>1. UNCHANGED <<controllerVars, t, storeVars, connected, clockVars, restarts>>
    BY <1>8 DEF vars
  <2>2. TypeOK' /\ ArraysOrdered'
    BY <2>1 DEF IInv, TypeOK, ControllerTypeOK, ArraysOrdered, controllerVars, storeVars, clockVars
  <2>3. UNCHANGED <<t, tAlloc, epoch, clockVars>>
    BY <2>1 DEF storeVars
  <2> QED BY <2>2, <2>3, ElsewhereKeeps DEF IInv
<1> QED BY <1>1, <1>2, <1>3, <1>4, <1>5, <1>6, <1>7, <1>8 DEF Next

\* In every state of every execution, whatever the number of nodes and the
\* windows: the invariant that carries the proof. The epoch is never 0.
THEOREM InductiveInvariant == Spec => []IInv
<1> QED BY InitIInv, NextKeeps, PTL DEF Spec

-----------------------------------------------------------------------------
(* No two nodes on the air.                                                *)

\* Seen from the node with the lower number: its packet would have to be out
\* later than the guard of the other one's window allows.
LEMMA NotBoth ==
  ASSUME IInv, NEW m \in Forwarder, NEW n \in Forwarder, m < n,
         pc[m] = "Send", pc[n] = "Send", clean[m], clean[n]
  PROVE  FALSE
<1> DEFINE a == tAlloc[n]
<1>1. /\ m \in 1 .. clusterSize /\ n \in 1 .. clusterSize
      /\ a \in [0 .. clusterSize -> Nat] /\ Ordered(a) /\ tAlloc[m] = a
  BY ForwarderAssumption DEF IInv, TypeOK, ArraysOrdered, ClocksOnTime, Settled
<1>2. /\ now[m] \in Nat /\ now[n] \in Nat
      /\ age[m] \in 0 .. Delay /\ age[n] \in 0 .. Delay
  BY DEF IInv, TypeOK
<1>3. m # n
  BY <1>1, SMT
<1>4. InWindow(m) /\ InWindow(n) /\ SameStretch(m, n)
  BY <1>3 DEF IInv, WindowsKept
<1>5. now[m] < a[m] /\ now[m] >= a[m - 1] + Guard /\ now[n] >= a[n - 1] + Guard
  BY <1>1, <1>4 DEF InWindow
<1>6. a[m] \in Nat /\ a[m - 1] \in Nat /\ a[n - 1] \in Nat
  <2>1. m \in 0 .. clusterSize /\ m - 1 \in 0 .. clusterSize /\ n - 1 \in 0 .. clusterSize
    BY <1>1, WindowAssumption, SMT
  <2> QED BY <1>1, <2>1, Zenon
<1>7. a[m] <= a[n - 1]
  BY <1>1, WindowsMeet
<1> HIDE DEF a
<1> QED BY <1>2, <1>4, <1>5, <1>6, <1>7, TimeAssumption, SMT DEF SameStretch

\* TDMA works: of the nodes that have read the clock since they have had the
\* same windows, at most one is on the air.
THEOREM NeverTwo == Spec => []Exclusive
<1>1. IInv => Exclusive
  <2> SUFFICES ASSUME IInv, NEW m \in Forwarder, NEW n \in Forwarder, m # n,
                      pc[m] = "Send", pc[n] = "Send", clean[m], clean[n]
               PROVE  FALSE
    BY DEF Exclusive
  <2>1. m < n \/ n < m
    <3>1. m \in 1 .. clusterSize /\ n \in 1 .. clusterSize
      BY ForwarderAssumption
    <3>2. m \in Int /\ n \in Int
      BY <3>1, WindowAssumption, SMT
    <3> HIDE DEF IInv
    <3> QED BY <3>2, SMT
  <2> QED BY <2>1, NotBoth
<1> QED BY <1>1, InductiveInvariant, PTL
=============================================================================
