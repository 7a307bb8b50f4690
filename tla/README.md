# Models and proofs for RPi-Hadoop

The repository runs Hadoop on a cluster of Raspberry Pis that share one ad-hoc
radio channel. Its programs replace contention on that channel by *transmission
slots*: a master grants one node at a time the right to send its map output, and
on every node a process between two tunnel devices holds the bulk packets back
until the node has its slot. This directory holds TLA+ models of those programs,
the configurations TLC checks them with, and proofs for TLAPS.

    tlc -config slot_safety.cfg MCSlotProtocol.tla
    tlapm SlotProtocolProofs.tla

`PROJECT.json` lists the runs, the mutants that show that each property can fail,
the source lines behind each definition, the hazards and the theorems.

## 1. Inventory of the system

| part | source | state | operations |
|---|---|---|---|
| scheduler | `CreateLoopbackMS.c` `send_config` 255-530 | `tAlloc`, `p`, `pri`, the loop index, 8 REP sockets | handshake with nodes 2..9 in order; per cycle: beacon, scan of `p`, search for the next node with data, allocation, one grant and one awaited acknowledgement per allotted node |
| report server | `CreateLoopbackMS.c` `process_report` 184-237 | `p`, `sp`, `reducer` | stores the size a node reports, at any time, without a lock |
| slot client | `CreateLoopbackCS1Q.c` `recv_config` 385-422, handshake 558-576 | `slot`, one REQ socket | receive a grant, count `slot` down by 100 every 100 us under `qu_mutex`, acknowledge |
| packet intake | `CreateLoopbackCS1Q.c` `main` 602-649 | queues, `qu_mutex`, `qu_full_cond` | read a packet; wait while 500 are queued; queue bulk map output, write all else at once |
| packet writer | `CreateLoopbackCS1Q.c` `write_tun` 176-298 | queues, `slot` | scan the nine queues; with a head in hand wait for the slot, lock, write, remove, signal |
| queue | `CreateLoopbackCS1Q.c` `create_queue`, `enq`, `deq`, `is_empty` 78-173 | linked list, `count` | append, remove, sum of the counts |
| reporter | `monitor.h` `report_task` 168-382 | `pre_map_list`, `read`, `reduce`, `fast_update`, `slot` | read new lines of `mapsToSend.txt`, stop the slot and report at a completion, report after a beacon |
| beacon listener | `monitor.h` `recv_broadcast` 151-164 | `fast_update` | set it at each beacon |
| link rates | `packet_rate.c` | `b_data`, `from_others`, `speed_log.txt` | count captured packets, publish once a second, write what others publish to the file |
| TDMA forwarder | `CreateLoopback.c` | `tAlloc`, `epoch` | forward a packet only inside a time window; receive new windows |
| task monitor | `Http/src/QuickStart.java` | ids found so far | ask Hadoop's REST API for application, job, tasks and attempts; publish windows for the TDMA forwarder |
| beans and parser | `Http/src/*.java` | none | field by field conversion |
| start-up, scripts | `main` functions, `start-*`, `stop-*` | devices, routes | interfaces, options, processes |

Interactions. The scheduler and each slot client talk over one ZeroMQ REQ/REP
pair; both ends block. The beacon is a UDP broadcast heard by every reporter. A
report goes over a DEALER/ROUTER pair, one way. Inside the slave process `slot`
is shared by three threads under two different mutexes or none, and the queues
by two threads under `qu_mutex`, apart from the reads of the queue heads, which
use none. Inside the master `p` is shared by two threads without a mutex. Hadoop
writes `mapsToSend.txt` and `packet_rate` writes `speed_log.txt`, which
`report_task` reads.

What is hard, and what makes each part correct:

- **Scheduling.** Blocking protocol without timeouts, processes that exit on any
  I/O error and are started again, stale requests, a decision taken in two reads
  of data another thread writes. Correct if no two slots are ever open at once,
  a dead slave delays the cycle only until it is started again, nobody with data
  is passed over for ever, and the cycle itself goes on.
- **Forwarding.** Four threads, a condition variable, a slot that is tested
  outside of the lock. Correct if queues are bounded, every packet is written
  exactly once and in order for its destination, packets leave only in a slot
  (with what exception?), nobody blocks for ever, and each grant is acknowledged.
- **Queue.** The head is read without the lock while the tail is being built, and
  memory is freed and allocated again. Correct if that read never meets a node
  that is not complete, nothing leaks and nothing dangles.
- **Control loop.** Beacon, report, allocation and transfer feed one another.
  Correct if an announced output is sent in the end.
- **Reports.** A file that is read while it is written, by lines or halves of
  lines, with lines that end a pass; a list of outputs that decides about the
  slot; files that are not closed or not there; a pointer of the C library shared by
  three threads. Correct if each line is acted on once and in order, none is left out,
  and what is reported is what the lines say.
- **Rates.** A lossy broadcast that repeats itself, a timer looked at only when a
  packet comes, a file that another process reads while it is rewritten, a line that is
  appended to memory nobody cleared. Correct if a reported rate can have been measured, does not get worse, and arrives.
- **TDMA, monitor.** Arrays that are tested while they are stored, an epoch and
  windows from two programs that have to fit, clocks that wrap, requests each of
  which may fail, nodes that start with different windows. Correct if no two nodes are on the air at once.

`PROJECT.json` "hazards" places these at their lines.

## 2. Modules

| module | is about | uses |
|---|---|---|
| `SlotToken` | abstract: the air is a token | |
| `SlotClient` | abstract: what a slave does with the slots it is granted | |
| `SlotProtocol` | scheduler, report server, slot clients, crashes | instances of `SlotToken`, `SlotClient` |
| `SlotProtocolProofs` | theorems | `SlotProtocol`, TLAPS |
| `Outbox` | abstract: what the forwarder does with packets | |
| `Forwarder` | the four threads of the slave process | instances of `Outbox`, `SlotClient` |
| `ForwarderProofs` | theorems | `Forwarder`, TLAPS |
| `PacketQueue` | one queue in memory, store by store | instance of `Outbox` |
| `PacketQueueProofs` | theorems | `PacketQueue`, TLAPS |
| `Cluster` | scheduler and slot clients with the reporters | extends `SlotProtocol` |
| `ClusterProofs` | theorems | `Cluster`, `SlotProtocolProofs` |
| `Reporter` | `report_task` line by line, with the life of its process | |
| `ReporterProofs` | theorems | `Reporter`, TLAPS |
| `Tokens` | `strtok` under three threads of a slave | |
| `TokensProofs` | theorems | `Tokens`, TLAPS |
| `PacketRate` | `packet_rate.c` and the file it shares with the slave | |
| `PacketRateProofs` | theorems | `PacketRate`, TLAPS |
| `Controller` | the task monitor: requests, choice of the reducer, windows | |
| `TimeWindows` | the TDMA forwarders under the windows of `Controller` | extends `Controller` |
| `TimeWindowsProofs` | theorems | `TimeWindows`, TLAPS |
| `MC*` | values of constants for TLC | |

Definitions whose comment begins "A mistake the checks must notice" are not part
of any specification: they are the mutated forms of the definition below them.

### SlotProtocol

`mpc` and `k` are the place in `send_config` and its loop index, so that a
statement that blocks on node `k` is one action: `RecvHello`, `SendWelcome`,
`RecvReady` (the handshake, for all nodes in order), then per cycle
`PublishBeacon`; `CheckFound`/`CheckNothing`, one element of the scan per step;
`SearchNext`/`SearchHit`, one element of the search per step; `SkipNode`,
`SendGrant`, `RecvAck`. `ProcessReport` may write `p` between any two of them.
`k = 1` of the scan is the master's own entry, which is always 0. The slot
client is `SendHello`, `RecvWelcome`, `SendReady`, `RecvGrant`, `Tick`,
`SendAck`; `EarlyStop` is the reporter's store of 0. `Crash` is any exit, with or
without the loss of a request under way, and `Restart` begins a new incarnation.
`Tick` and `EarlyStop` are one step each although the code loads and stores `slot`
under two different mutexes: that this is right is the point of `SlotClient`, which
`Forwarder` implements with the loads and stores (`Slave`) and `SlotProtocol` with these
steps (`Clients`).

The sockets are modelled from how the code uses them. A REP socket receives the
oldest request and answers the connection it came from (`peer`); an answer to a
connection that is gone is dropped. Requests wait in `reqs[n]` by the incarnation
that sent them. Requests of one node are taken in the order of its incarnations;
ZeroMQ takes turns between connections; that a request of the dead process is
taken before one of its successor is an assumption (between the two lies the start
of the process with its tunnel devices and TCP connect). A slave whose connection breaks without its process dying, whose
REQ socket would not send again, is not modelled.

Abstracted: slots count ticks of 100 us, with two lengths (`IdleSlot` for 50000
us, `BusySlot` for 2 s); a report is its size; `sp`, `reducer` and `pri_reducer`
are left out because nothing that decides reads them (the uses in `write_tun`
are commented out).

### Forwarder

Each thread has a place (`mpc`, `wpc`, `cpc`); `lock` is the holder of
`qu_mutex`. A step is what happens between two points at which another thread's
step matters: the unlocked test of the head (`WriterScan`), the unlocked test of
the slot (`WriterPoll`), the locked section in three steps (`WriterLock`,
`WriterWrite`, `WriterDeq`) and the signal with the unlock (`WriterSignal`); the
countdown as load and store (`ConfigLoad`, `ConfigStore`), since `report_task`
writes `slot` without `qu_mutex`. `pthread_cond_wait` releases the mutex, may
wake spuriously and takes the mutex again. The branch in which `write_tun`
unlocks twice is there: it goes to `WriterSignal` without the lock, and
`UnlockOnce` says it is never taken. `Total` is `is_empty()`, the sum of nine
counters.

`budget` (what is left of the grant), `late` (packets written since the
acknowledgement) and `out` (the packet written last) are history: no guard reads
them. `MaxStops` bounds the early stops.

Packets for nodes outside 1..9 are dropped by the code and do not appear. The
classification by port and length is an input of `MainRead`. `Writer` is the loop of
`write_tun`; before it the thread asks `get_link_quality` for the rates and takes a mean
that nothing uses. What that call does to the process is in `Reporter` (`WriterOpens`: the
file it leaves open, the NULL it may read through) and in `Tokens` (`WriterRates`). A write that fails
ends the process; that is `Crash` of `SlotProtocol`.

### PacketQueue

`enq` is taken apart into its stores because `write_tun` reads `front` and the
packet behind it without the mutex. The stores become visible in program order:
the code has no barrier, so this is the assumption under which `PeekSafe` holds
(on a processor that reorders the stores it need not). `malloc` returns any free
address, also one just freed, and never NULL. `ListSpec` refines the same
`Outbox` as `Forwarder`, for one destination, which is what allows `Forwarder` to
treat the list as a sequence.

### Cluster

Adds to `SlotProtocol` what feeds it. `Announce` is Hadoop's line of type 1,
`Transfer` is an output leaving in an open slot and Hadoop's line of type 0 or 2
about it. `ReadFile` is one pass over the file: new outputs join the list,
completed ones leave it, and the first completion may stop the slot and send a
report (it does unless a reducer runs on the node; the models take both).
`TestFast` and `ResetFast` are the test of `fast_update` with the report, and the
reset after it, between which a beacon may be forgotten. Reports travel in
`wire[n]`, in order, and `DeliverReport` is `process_report`. Outputs are counted,
not identified; slaves do not crash here. `get_data_size` adds their sizes in an `int`
without a check: outputs are taken to be of one size, `Half` of which reach half the
range, and `Size` is the sign of the sum, all that the scheduler's comparisons tell apart.
A node whose sum is negative counts as data for the scan and not for the search: it is
passed over while another node has a positive size, and when none has the search spins.

### Reporter

What `Cluster` takes for one step. `file` is what Hadoop has written of
`mapsToSend.txt`, its last line perhaps half (`partial`); a pass is `Open`, one
action per line and kind of line, `EndPass` or the line of type 4 that ends it,
and then `TestFast`, `ReportNow`, `ResetFast`. `i` counts what `fgets` returned
in the pass and `read` what counts as read; half a line counts as one line and
its rest as another. `Init` allows any file, which is also what a process finds that is
started again. That an early report also ends the slot is `Forwarder!ReportStop`.
`handled`, `torn`, `sent` are history.

A line met in two parts is parsed twice. Of its beginning the type is known and the rest
is what `Parsed` says: whole, its size cut to 0, or its identity cut. Its rest is parsed
from wherever it begins (`ReadRest`): digits that happen to stand there may make it a line
of any type, so that it may list an output, take one off and end the slot, set the reducer
or none, or end the pass; most often `atoi` finds no number, which is type 0, and no such
output is listed. A number behind two tokens that are not there is read through NULL
(`AnyReducer`). `Phantoms` are the identities that parts of lines may show; that a part
reads as exactly the identity of an output of the node is left out, as are a line met in
three parts and a size other than 0 and 1; the size behind a cut is taken for 0, as no
property speaks of sizes after one.

The process also dies of its files. `fds` are those `get_link_quality` has left open: one
per report, and one by `write_tun` when it starts (`opened`, `WriterOpens`). Where it
cannot open another one, or where `packet_rate` has not written `speed_log.txt` yet
(`speeds`, `SpeedsAppear`), `fgets` reads through NULL (`Die`). The sockets of the process
and the `mapsToSend.txt` that `report_task` opens before its loop and leaves open are taken
off `MaxFds`. `Open` fails only for want of descriptors: before its loop `report_task`
creates the file if it is not there (`monitor.h:169-175`), and
`stop-loopbackAdhoc` removes it only after it has killed the process.

### Tokens

Only the calls of `strtok`, in order, each one step: those of `recv_config`, of
`report_task` with its `get_link_quality`, and of the `get_link_quality` that `write_tun`
calls once when it starts (`WriterRates`, `WriterRate`, `WriterLoops`). `save` is the
pointer the C library keeps. A call with the other separator takes all that is left of the
text; a call behind the end returns NULL. `write_tun` has the separator of `report_task`:
if it comes between two calls for one line, the pointer may have left the line and come
back to it at another field, so what is claimed of `report_task` is claimed of lines it
began before or after (`Undisturbed`, from the history `begun`). A pointer into a buffer
that has been filled again is taken to stand at the same field. The other modules treat
taking a message apart as one step: what they show holds as far as this race does not
strike. `packet_rate` and the master have the same race between their threads.

### PacketRate

`Count` and `Overhear` are `process_packet` for a packet that is counted and any
other one; both look at the timer (`Due`). A beacon in `air` may be received any
number of times and at any later time, or be lost (`Lose`): the speaker repeats it
until the next packet silences it. `Receive` keeps the best count, then the file is
rewritten in two steps, `Truncate` (fopen) and `Write` (fclose), between which
`get_link_quality` finds it empty. `Restart` ends `packet_rate` of a node anywhere,
also with the file empty, and starts it again. Time is counted in ticks with a
capacity of packets each; `Period` ticks are the second.

The line is appended, number by number and dot by dot, to 200 bytes from `malloc` that
are never cleared (`packet_rate.c:238-249`; line 252 clears as many bytes as a pointer has,
after the use, and nothing frees them). `Leftover` is what may stand there, as the numbers
between its dots. Without a dot it comes before the first number only, which is node 1's
and which `get_link_quality` skips (`monitor.h:92`). With dots, as an earlier line has
them, it moves every rate to another node and its last number runs into the first rate
(`Appended`): such a line is "shifted". `Write` takes any text of `Leftover`, and so does
the line an earlier run left (`Init`). What is claimed of rates is claimed of lines that
are not shifted; of a shifted line there is nothing right to say, and `seen` tells which
kind the slave has read. Left out: a line break in the left-over text, text that is no
number, and the overrun of the 200 bytes.

Nodes publish and listen; `Publisher`, `Listener` and `Source` are all nodes in the code
and smaller in the run. `Node` is all of them in any case: the line has a number for each.
Since the first number is skipped, the rate node 1 tells never reaches a slave:
`RateArrives` is about the others.
A count above 999 and its terminator need one byte more than `digit[4]` has; the
model takes the number as it is.

### Controller and TimeWindows

`Controller` is `QuickStart.java`: `AskApps`, `AskJobs`, `AskTasks`, each of which
may fail and is then only reported, `PickReducer`, and `Windows`, what it publishes
for a reducer's node. `TimeWindows` adds the forwarders of `CreateLoopback.c`: the
subscription (`Connect`), `Store` of one number after the other and `StoreEpoch`,
and the main loop as `ReadClock`, `TestEnd`, `TestStart`, `Send`, since the receiver
stores between any two of these reads. `Junk` is what the last number becomes when
digits lie behind it in the buffer, which is cleared only after the first message.
`t` is `tv_usec`, which wraps at the second; `age` is the time since a node read it.

Assumed, as the program does: the clocks of the nodes agree, and from reading the
clock to the end of the packet no more than the guard passes (`Delay <= Guard`); a
message is stored (2 ms) before the next one comes (2 s). `clean` is history: all
arrays have been equal since the node read its clock.

Forwarders need not start alike: each has its defaults or what the last earlier run of the
publisher that reached it has published (`Init`), and one that ends and is started again
(`Restart`) has its defaults, an uncleared buffer and a subscription to make. If the
controller then finds a reducer, all come to hold its windows. If it finds none it throws
and publishes nothing, nothing repairs the difference, and two nodes may be on the air for
good: no property says otherwise (`InTurns` excludes that case by name, `Converges` says
nothing in it).

## 3. What the runs check

| run | instance | shows |
|---|---|---|
| `slot_safety` | 2 slaves, 2 crashes each, sizes -1, 0, 1 | `SlotExclusive`, `GrantsParse`, `NoMutualWait`, the inductive invariant `IInv`, `TokenSpec` |
| `slot_recovery` | 3 slaves, 1 crash each | `AckArrives`, `IdleOrHung`, `NoStarvation` |
| `forwarder_safety` | 2 destinations, 2 contents, capacity 2, slots of 2 ticks | `QueuesBounded`, `UnlockOnce`, `NoLostSignal`, `OneLatePacket`, `SlotBudget`, `IInv`, `OutboxSpec` |
| `forwarder_live` | 2 destinations, capacity 2 | `MainUnblocks`, `QueuesDrain`, `GrantIsAcked` |
| `ack_after_transmission` | as small as possible | a violation, see below |
| `packet_queue` | 4 addresses, 2 contents | `IInv`, `PeekSafe`, `NoLeakNoDangling`, `CountIsLength`, `ListSpec` |
| `cluster_live` | 2 slaves, 2 outputs in the cluster, the sum of 2 is negative | `ClusterIInv`, `OutputIsSent`, `HangsWithoutPositive` |
| `updates_go_on` | 1 slave, 1 output | a violation, see below |
| `reporter` | every file of up to 3 lines about 2 outputs, all but the first perhaps in halves, 2 descriptors | `IInv`, `LinesInOrder`, `KnowsOutstanding`, `LivesLong`, `CutShort`, `LinesAreRead` |
| `token_race` | one slot, one size, 3 rates | a violation, see below |
| `packet_rate` | 1 node measures another, counts up to 4, 2 beacons at a time, memory for the line clear or with one dot | `IInv`, `RatesArePossible`, `RatesNeverDrop`, `RateArrives` |
| `time_windows` | 2 forwarders with any windows of before, 1 restart, epochs of 6 and 5, a second of 12 | `IInv`, `Exclusive`, `Converges`, `InTurns` |

Each module's type invariant is checked in its safety run as a part of `IInv`
(`ClusterIInv`), which the proofs use.

- **`SlotExclusive`**: no two slots are open. It survives crashes because the
  scheduler waits without a timeout: a granted node's slot has closed, or its
  process is gone, before anything arrives that ends the wait. A hello of the
  next incarnation is taken for the acknowledgement; `GrantsParse` says that the
  reverse confusion, a welcome read by `recv_config`, does not happen, and
  `AckArrives` that the wait does end. **`NoMutualWait`** is the half of it that needs no
  fairness: when the scheduler receives and nothing is there, that node's slave is not
  waiting too, unless its answer is on the way.
- **`NoStarvation`**: a node with a positive size is served again and again, because the
  search starts behind the node served last. A node whose size is negative is not: it is
  passed over (hazards).
- **`IdleOrHung`, `HangsWithoutPositive`**: when no data is left the idle slots go
  on, or the scheduler spins in its search; the latter only where no size it has is
  positive, because all are 0 or because a sum overflowed, and no report is on its way.
- **`OneLatePacket`, `SlotBudget`**: what the unlocked accesses to `slot` can
  do: one packet per acknowledgement may leave late, and an early stop may be
  undone, but a slot never gets longer than its grant.
- **`MainUnblocks`, `QueuesDrain`, `GrantIsAcked`**: what would stop a node: a
  lost wake-up, a queue that hides the others, a countdown that does not end.
  **`NoLostSignal`** is the half of the first that needs no fairness: main never waits
  below the low-water mark without `write_tun` being about to signal. The first two hold
  as long as grants keep coming (see Fairness).
- **`OutputIsSent`**: the purpose of the whole, unless the scheduler hangs.
- **`LinesInOrder`, `LinesAreRead`**: no line is acted on out of order or more often than
  it has parts, through lines that end a pass and lines met in two parts; and a process
  that has met no half-written line acts on each once and reaches all. After a half-written
  line the counter has gone ahead and lines may be left out: `torn` excludes that.
- **`KnowsOutstanding`, `CutShort`**: list and reports are what the lines say, and a
  slot ends early only for a line that takes an output off the list while no reducer
  is known; again of processes that have met no half-written line.
- **`LivesLong`**: two things end a process that has met no half-written line, a
  `speed_log.txt` that is not there yet and descriptors that run out; the second not
  before all but one of them are left open by reports and by the start of `write_tun`.
- **`RatesArePossible`, `RatesNeverDrop`, `RateArrives`**: what the master is told of
  a link was measured within one period and is neither lost nor worsened by late
  beacons or by reading the file while it is rewritten, as long as the lines read are not
  shifted by left-over text, and apart from node 1's rate, which nobody reads. After a
  restart of `packet_rate` rates may drop: it starts from nothing and overwrites the file.
- **`Exclusive`**: two nodes that have had the same windows since they read the clock
  are never on the air together. While windows are being stored, or differ, they may be:
  that is why `InTurns` says "in the end", by `Converges`, which needs the publisher to
  repeat itself, and says it of controllers that found a reducer or of forwarders that
  agree without one.

### Findings

- `ack_after_transmission`: `CreateLoopbackCS1Q.c:415` calls the acknowledgement
  "Inform Scheduller when transmition ended". The slot is tested at line 239
  before the mutex is taken at line 244 and not again, so one packet may be
  written after the acknowledgement.
- `updates_go_on`: `monitor.h:211` says "Loop sends update every 2 seconds". The
  test of the time is commented out (line 354), so updates follow the beacons;
  and the beacons stop when a report of 0 arrives between the scan at
  `CreateLoopbackMS.c:382-387` and the search at lines 402-407, which then has no
  end (`HangIsFinal` proves that nothing leads out of it, for any number of slaves).

- `token_race`: `monitor.h:266` calls the token "data size". With a grant taken apart
  by `recv_config` between two calls of `report_task`, the token is a number of the
  grant or NULL, because both threads go on from the one pointer of `strtok`. The trace
  has the start of `write_tun`, a third user of it, behind it.

### Bounds, and why they are enough

- Two slaves are the fewest that can violate `SlotExclusive`; three let an unfair
  order pass somebody over. The scheduler treats all nodes alike, and the proofs
  are for any number.
- Two crashes per slave put requests of two dead incarnations before the one of
  the living, with all mixtures of hello, ready and acknowledgement.
- A slot of two ticks has a middle; the protocol makes no other difference between
  lengths. Sizes -1, 0 and 1 are the three the comparisons tell apart.
- Capacity 2 over two destinations has full queues of either shape and an empty
  one beside them; `LowWater` below and at the capacity covers both sides of the
  signal. Destinations 2 and 9 include the wrap-around of the scan. Two contents
  show the order.
- One early stop per run of `Forwarder` hits every place of the countdown; the
  proofs do not bound it.
- Four addresses let a freed node be reused while two others are linked and one
  is filled.
- Two outputs in the whole cluster (`MaxOutputs` counts those of all nodes) put one on each
  node, so that p goes up and down with the other node in each phase, or both on one, which
  with `Half` = 2 makes its sum negative. One output, in `updates_go_on`, is enough for
  the race of the hang. `MaxWire = 1` makes a
  second report wait for the first; ZeroMQ queues a thousand, and a reporter that
  waits there is a reporter that has not sent yet.

- Three lines in `Reporter` are an output, a line that ends its pass or is met half,
  and one behind it; the first is always
  written at once (`Halves`), which still lets a rest be skipped: the second line was met in
  parts and the third is met half twice. The proofs bound neither. Two descriptors tell an open that is closed from one that is not.
- In `PacketRate` a period has room for three packets, so that counts are below, at and
  above the threshold and may be one too many, and a better count may follow a good one.
  Two beacons in the air can be received in the other order, any number of times and with
  any delay. One publisher is enough for liveness, since the file is written as a whole;
  the safety properties are proved for any number of publishers and listeners. `Leftover`
  is clear memory, which is 0, and the text "2.7", which shifts the line by one node and
  joins a 7 with the first rate; the proofs are for any.
- In `TimeWindows` the windows end at 3 and 6 (5 when shortened), guard and delay are 1;
  12 is a multiple of the first epoch only, so that the second wraps at phase 0 and
  elsewhere. One restart makes windows differ in each phase of the controller; the proofs
  are for any windows and any number of restarts.

No run uses a state constraint; symmetry is used only in `packet_queue`, which
checks no liveness.

### Fairness

- `SlotProtocol!FairSpec`: weak fairness of the scheduler, of each slot client,
  and of restarts (by an operator or the start script; needed for `AckArrives`
  only, and only because the wait has no timeout). Nothing forces a report, an
  early stop or a crash.
- `Forwarder!FairSpec`: strong fairness of each of the three threads, because a
  thread may find the mutex taken or the slot closed each time it looks, though
  not always: the mutex is held for one packet or one subtraction, a slot stays
  open for 500 ticks or more, and slots come again. That slots come again is a condition on
  the rest of the cluster and not always so: `NoStarvation` and `IdleOrHung` give it, the
  hang of `updates_go_on`, a negative sum and a dead peer that nobody starts again take it
  away. `MainUnblocks` and `QueuesDrain` therefore say that the process does its part, not
  that the cluster does. Nothing forces packets, early stops or spurious wake-ups.
- `Cluster!ClusterSpec`: weak fairness of all threads and of delivery; strong
  fairness of `Transfer`: reducers go on asking for an output, so with slots being
  opened again and again it is fetched in one of them. Nothing forces
  announcements.

- `Reporter!FairSpec`: weak fairness of `report_task`; nothing forces Hadoop or beacons.
- `PacketRate!FairSpec`: weak fairness of the file's writer; strong fairness of reading a
  line: the file is empty for microseconds and the slave reads it several times a second,
  so it does not find it empty each time.
- `TimeWindows!FairSpec`: weak fairness of each thread, of the clock, of connecting, and of
  the publisher, which repeats itself for ever. `Converges` and `InTurns` need all of them.

## 4. What is proved

For all values of the constants that satisfy the named assumptions of the modules
(`LastNode >= 2`, slots of at least one tick, sizes that include 0, in `Cluster` also -1 and 1;
`Dest` within 1..9, `0 < LowWater <= Cap`, `Grant > 0`; more at the proofs that need it).

**`SlotProtocolProofs`.** `SlotExclusive` is not inductive: it needs to know that while
a node's slot is open the scheduler waits for that very node, and that nothing in the
node's inbox can end the wait. `IInv` is the types and `RequestsInPlace`, which says
where the one request of each living slave is: `Pending` in the inbox, `Taken` by the
scheduler that owes an answer (`Owes`), `Replied`, or `Answered`; requests of dead
incarnations are older and the scheduler's `peer` is older than all that wait. The proof
that a step keeps it treats the sockets in three lemmas (`RecvStep`, `ReplyStep`,
`SendType` and its users) and the actions of the scheduler and of a slave apart
(`IInvMaster`, `IInvNode`). `OpenIsAwaited` draws the conclusion: an open slot belongs
to the node waited for. Hence `Exclusive`, `GrantsAlwaysParse` and, with `holder` the
node waited for and `active` the nodes with open slots, `ImplementsToken`.
`NeverMutualWait` follows as well: a slave that waits has its request in the inbox the
scheduler waits at, in the scheduler's hands, or answered. `ImplementsClients` maps each
slave to `SlotClient`.

**`ForwarderProofs`.** `IInv` has, besides the types, six named parts: who holds the
mutex (`LockInv`), that the counts are the lengths and leave room while main is about to
enqueue (`CountInv`), that a queue whose head `write_tun` has seen stays non-empty
(`HeadInv`, as nobody else removes), the slot and the loaded value against the budget
(`SlotInv`), that after a late packet `write_tun` is not past its test (`LateInv`), and
that the signal main waits for is not lost (`NoLostSignal`). They are proved to be kept
one by one, each from all. The consequences are `Bounded`, `SignalNotLost`,
`UnlockedOnce`, `AtMostOneLate`, `WithinBudget`, and `ImplementsOutbox`, where a queued
packet is delivered at the write and not at the removal from the list.
`ImplementsClient` maps the threads to `SlotClient`: between load and store of the
countdown the tick is still to come (`TicksLeft`), and an early stop stored there is no
step at all, since the store undoes it. With `ImplementsClients` this is what allows
`SlotProtocol` to speak of a slave's slot in whole steps.

**`TimeWindowsProofs`** (windows wider than what is taken off them, `Delay <= Guard`, a
guard shorter than the first window). Any mixture of the arrays that are ever published
is ordered (`Ordered`), so that the epoch is never 0 whatever has been stored so far.
`OnTime` says where a node's reading stands to the time (its age behind, or before a
wrap), `SameStretch` where two readings stand to each other; a tick keeps both because
the phase goes on by one or starts from 0 (`NextPhase`, from the facts of division). Two
nodes on the air would be apart by more than the guard (`WindowsMeet`), and readings of
the same stretch are not: `NeverTwo`.

**`PacketRateProofs`** (every node's own packets among the sources, rates of an earlier run
possible ones; any left-over text). `CountsFit` bounds a count by the ticks since the timer
was set, and a line that is not shifted has the rates collected in their places, apart from
the first (`LinePossible`); hence `OnlyPossibleRates`. `NotAhead` and `NoOldLine` order what
was read, what is in the file and what was collected, of lines that are not shifted; hence
`NeverWorse`.

**`PacketQueueProofs`** (finitely many addresses, of which `NULL` is none; what `malloc`
leaves in memory is neither). `IInv` has two halves. `LocalInv` holds facts about a node
and its neighbour only: `PointersOK` (who points where: successors are distinct, nobody
points to the head), `EndsOK` (only the last node has no successor, at each store of
`enq` in its own way), `FillingOK` (the node being filled is reached from nowhere) and
`CountFits`. Since `deq` frees a node nobody points to, these are kept store by store,
and `UnlockedPeekIsSafe` follows.

The other half is about the whole list: `LinkedAs(Order)`, the nodes linked from `front`
are `Order`, each once; `AccountedFor(Order)`, nothing else is allocated but the node
being filled, and the counter is the length but for the last store of `enq`; `Copied`.
`Order` follows the pointers by a recursive function. What it computes for the next memory
is not proved by induction: the steps give a sequence that is linked (the old one, with a
node more at the end, or one less at the front), and `OrderIs` says that a linked sequence
is what the function finds: the sequence satisfies the function's equation (`WalkFollows`),
and nothing else does (`NodeAtIsWalk`), since before the least place where two solutions
differ (`LeastExists`, from the well-foundedness of `<` on `Nat`) they agree.
Hence `NothingLeaksOrDangles`, `CountIsTheLength` and, with `InHand`, `Queued`, `Written` as mapping, `ImplementsQueue`:
the link to the last node is what appends, the unlocked look changes nothing.

**`ClusterProofs`.** A step of the reporters either leaves the slot protocol alone, or
stores 0 to the slot, or hands a report to `process_report`. The store is `EarlyStop` or
no change: by `IInv` of `SlotProtocol` an open slot belongs to a client that counts it
down. So `Cluster` implements `SlotProtocol` (`ImplementsSlotProtocol`), and what is
proved there holds in the whole loop (`ExclusiveInCluster`, `ProtocolInCluster`).
`OutputsAreKept` adds the outputs: done, listed and unread ones. `HangIsFinal` is about the
scheduler that hangs: a state in the search with no size positive and nobody about to report
(`Stuck`) is never left, since no slot is open there, a completion needs a slot, a report
a completion or a beacon, and a beacon the scheduler. TLC reaches such states, also with
outputs waiting; that a hang ends in one with no size positive is `HangsWithoutPositive`, which TLC checks.

**`ReporterProofs`.** `read` counts what `fgets` returned, `pos` is where the pass is, and
only without halves of lines do they count lines. `BehindUs` says that what was acted on
is behind one of the two in any case: half a line is met only at the end of the file,
behind everything acted on. `WholeLines` says that before the first half both are exact
and list and reducer are those of the lines handled, by two lemmas on what one more line
does to what is outstanding and to the reducer. A line acted on twice has been met in two
parts and has no part left, so it is not acted on a third time. The descriptors left open
are counted by the reports and `write_tun`'s start (`Leaks`). Hence `ActedInOrder`,
`ListIsOutstanding`, `NoEarlyDeath` and, as a property of steps, `SlotsCutForGoneOutputs`.
Files of any length, any of their lines in parts, and any number of descriptors.

**`TokensProofs`** (no assumption). The race of `token_race` has a limit: `IInv` says
that as long as the pointer is in a thread's own text it is at the token the thread
wants, or at the end, where calls with the other separator put it (`PointerOK`); of
`report_task` it says so only where `write_tun`, which has the same separator, did not
start in the middle of the line (`Undisturbed`). So `OwnTextIsRead`: but for that one
moment in the life of the process a wrong number means that the pointer was taken to
another text, and never only that another thread's calls fell between two of one's own.

**Only model-checked:** the liveness properties. Their safety cores are proved where they
have one: `NoMutualWait` for `AckArrives`, `NoLostSignal` for `MainUnblocks`, `SlotBudget`
for `GrantIsAcked`, `StuckForGood` for `HangsWithoutPositive`, `LinesInOrder` for
`LinesAreRead`. `ClientSpec`, `StuckForGood` and `RightInOwnText` belong to no run: they
were tried with TLC on the instances of `slot_safety`, `forwarder_safety`, `cluster_live`
and `token_race` before they were proved, and hold there.

## 5. Not modelled

- Option parsing and device set-up, the pass-through loop of the master, scripts, JSON
  beans, vendored headers, functions nothing calls: no state the programs share.
- A restart of the master: no code recovers from it, and with slaves that wait for grants
  it deadlocks (`CreateLoopbackMS.c:302`); there is nothing to hold the code against.
- Packets that wait on a node that reports 0 (`CreateLoopbackMS.c:411`): the queues of
  `Forwarder` under the scheduler of `Cluster` are too large a product for TLC.
- The order of small against large packets of one connection (`CreateLoopbackCS1Q.c:636`):
  only queued packets keep an order, and nothing in the repository promises more.
- The port test at `CreateLoopbackCS1Q.c:633` with a signed `char`: on the ARM systems the
  program is written for char is unsigned.
- Memory layout: `sub_token[5]` (`monitor.h:242`), `digit[4]` (`packet_rate.c:265`),
  `p[9]` of an array of nine (`CreateLoopbackCS1Q.c:186`), the 200 bytes of a line that
  is appended to left-over text (`packet_rate.c:238`).
- What becomes of forwarders with different windows when no reducer is found
  (`QuickStart.java:176`): `TimeWindows` has it, and the code does nothing about it.
- The loss of the master's beacon: `Cluster` delivers it to every slave; a lost one is a
  cycle without a report of that slave, which `TestFast` has as well.
