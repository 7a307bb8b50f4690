----------------------------- MODULE PacketRate ------------------------------
(***************************************************************************)
(* How a slave learns the quality of its links: packet_rate.c on every     *)
(* node counts the large packets it overhears from each other node and     *)
(* broadcasts the counts about once a second; the receiving thread of a    *)
(* node keeps the best count each other node has told of its packets and   *)
(* rewrites speed_log.txt, which get_link_quality of monitor.h reads in    *)
(* another process.  Beacons are lost, repeated, late and reordered.  The  *)
(* line is appended to memory nobody cleared: text in it with dots shifts  *)
(* every number to another node.                                           *)
(***************************************************************************)
EXTENDS Naturals, FiniteSets, Sequences

CONSTANTS
  Last,      \* the last node's number (9)
  Source,    \* nodes whose packets are overheard
  Publisher, \* nodes that count packets
  Listener,  \* nodes that collect what is told of them
  Period,    \* ticks until counts are due (1000 ms)
  Capacity,  \* packets the channel carries in a tick
  Threshold, \* counts up to here say nothing (100)
  Earlier,   \* what an earlier run may have left in the file
  Leftover,  \* the numbers, dot by dot, of what the memory for the line held
  MaxAir     \* bound: beacons that can be received at a time

\* The last packet of a count is the first one after the period.
Possible == {0} \cup (Threshold + 1 .. Capacity * Period + 1)
Node == 1 .. Last
Rates == [Node -> Possible]

ASSUME NodeAssumption ==
  /\ Last \in Nat \ {0}
  /\ Publisher \subseteq Node /\ Listener \subseteq Source
ASSUME RateAssumption ==
  /\ Period \in Nat \ {0} /\ Capacity \in Nat /\ Threshold \in Nat /\ MaxAir \in Nat
  /\ Earlier \subseteq Rates
\* Clear memory reads as the number 0 before the first one.
ASSUME LeftoverAssumption == Leftover \subseteq Seq(Nat) \ {<<>>} /\ <<0>> \in Leftover

VARIABLES
  b_data,      \* b_data[p][s]: packets of s counted at p since the last beacon
  clock,       \* clock[p]: ticks since expiry was set, as far as they matter
  counted,     \* counted[p]: packets p has counted in this tick
  air,         \* beacons that may still be received, once more or for the first time
  from_others, \* from_others[l][p]: the best count p has told l
  wpc,         \* wpc[l]: where recv_broadcast is
  text,        \* text[l]: whether speed_log.txt exists, and what line is in it
  line,        \* line[l]: the numbers in that line, from the first to the last node's
  running,     \* running[l]: the slave process has not crashed
  speed,       \* speed[l]: what its get_link_quality returned last
  seen         \* history: the line that came from

countVars == <<b_data, clock, counted>>
writeVars == <<from_others, wpc, text, line>>
readVars == <<running, speed, seen>>
vars == <<countVars, air, writeVars, readVars>>

Silence == [s \in Source |-> 0]
NoRate == [k \in Node |-> 0]

\* Decimal numbers side by side; a rate has at most four digits (c_num).
Joined(a, b) ==
  a * (IF b < 10 THEN 10 ELSE IF b < 100 THEN 100 ELSE IF b < 1000 THEN 1000 ELSE 10000) + b

\* strcat of the rates onto memory that is not clear: what comes before its last dot
\* pushes the rates back, what comes behind runs into the first one.
Appended(before, rates) ==
  LET n == Len(before) IN
  [k \in Node |-> IF k < n THEN before[k]
                  ELSE IF k = n THEN Joined(before[n], rates[1])
                  ELSE rates[k - n + 1]]
Kind(before, kept) == IF Len(before) = 1 THEN kept ELSE "shifted"

Init ==
  /\ b_data = [p \in Publisher |-> Silence]
  /\ clock = [p \in Publisher |-> 0] /\ counted = [p \in Publisher |-> 0]
  /\ air = {}
  /\ from_others = [l \in Listener |-> NoRate]
  /\ wpc = [l \in Listener |-> "Recv"]
  /\ \/ text = [l \in Listener |-> "missing"] /\ line = [l \in Listener |-> NoRate]
     \/ \E before \in [Listener -> Leftover], rates \in [Listener -> Earlier] :
          /\ text = [l \in Listener |-> Kind(before[l], "old")]
          /\ line = [l \in Listener |-> Appended(before[l], rates[l])]
  /\ running = [l \in Listener |-> TRUE]
  /\ speed = [l \in Listener |-> NoRate]
  /\ seen = [l \in Listener |-> "none"]

-----------------------------------------------------------------------------
(* process_packet of node p: the timer is looked at when a packet comes.   *)

\* A mistake the checks must notice: the counts are not set back.
DueKeepsCounts(p, counts) ==
  /\ clock' = [clock EXCEPT ![p] = IF @ < Period THEN @ ELSE 0]
  /\ b_data' = [b_data EXCEPT ![p] = counts]
  /\ \/ UNCHANGED air
     \/ /\ clock[p] = Period /\ counts # Silence /\ Cardinality(air) < MaxAir
        /\ air' = air \cup {[from |-> p, counts |-> counts]}

\* The beacon may be lost at once: the next packet silences the speaker.
Due(p, counts) ==
  /\ clock' = [clock EXCEPT ![p] = IF @ < Period THEN @ ELSE 0]
  /\ b_data' = [b_data EXCEPT ![p] = IF clock[p] < Period THEN counts ELSE Silence]
  /\ \/ UNCHANGED air
     \/ /\ clock[p] = Period /\ counts # Silence /\ Cardinality(air) < MaxAir
        /\ air' = air \cup {[from |-> p, counts |-> counts]}

\* A large packet of another node to the measured port.
Count(p, s) ==
  /\ s # p
  /\ counted[p] < Capacity
  /\ counted' = [counted EXCEPT ![p] = @ + 1]
  /\ Due(p, [b_data[p] EXCEPT ![s] = @ + 1])
  /\ UNCHANGED <<writeVars, readVars>>

\* Any other packet.
Overhear(p) ==
  /\ Due(p, b_data[p])
  /\ UNCHANGED <<counted, writeVars, readVars>>

Tick ==
  /\ clock' = [p \in Publisher |-> IF clock[p] < Period THEN clock[p] + 1 ELSE Period]
  /\ counted' = [p \in Publisher |-> 0]
  /\ UNCHANGED <<b_data, air, writeVars, readVars>>

Lose(m) ==
  /\ air' = air \ {m}
  /\ UNCHANGED <<countVars, writeVars, readVars>>

-----------------------------------------------------------------------------
(* recv_broadcast of node l.                                               *)

\* A mistake the checks must notice: no threshold.
ReceiveNoise(l, m) ==
  /\ wpc[l] = "Recv" /\ m.from # l
  /\ from_others' = [from_others EXCEPT ![l][m.from] = IF m.counts[l] > @ THEN m.counts[l] ELSE @]
  /\ wpc' = [wpc EXCEPT ![l] = IF from_others'[l] = NoRate THEN "Recv" ELSE "Open"]
  /\ UNCHANGED <<countVars, air, text, line, readVars>>

Receive(l, m) ==
  /\ wpc[l] = "Recv" /\ m.from # l
  /\ from_others' = [from_others EXCEPT ![l][m.from] =
                       IF m.counts[l] > @ /\ m.counts[l] > Threshold THEN m.counts[l] ELSE @]
  /\ wpc' = [wpc EXCEPT ![l] = IF from_others'[l] = NoRate THEN "Recv" ELSE "Open"]
  /\ UNCHANGED <<countVars, air, text, line, readVars>>

\* fopen for writing: the old line is gone.
Truncate(l) ==
  /\ wpc[l] = "Open"
  /\ wpc' = [wpc EXCEPT ![l] = "Write"]
  /\ text' = [text EXCEPT ![l] = "empty"]
  /\ line' = [line EXCEPT ![l] = NoRate]
  /\ UNCHANGED <<countVars, air, from_others, readVars>>

\* fclose writes what fprintf has put into the buffer.
Write(l) ==
  /\ wpc[l] = "Write"
  /\ wpc' = [wpc EXCEPT ![l] = "Recv"]
  /\ \E before \in Leftover :
       /\ text' = [text EXCEPT ![l] = Kind(before, "current")]
       /\ line' = [line EXCEPT ![l] = Appended(before, from_others[l])]
  /\ UNCHANGED <<countVars, air, from_others, readVars>>

-----------------------------------------------------------------------------
(* get_link_quality in the slave process of node l.                        *)

\* A mistake the checks must notice: the file is read once.
ReadLineOnce(l) ==
  /\ running[l] /\ text[l] \notin {"missing", "empty"} /\ speed[l] = NoRate
  /\ speed' = [speed EXCEPT ![l] = [line[l] EXCEPT ![1] = 0]]
  /\ seen' = [seen EXCEPT ![l] = text[l]]
  /\ UNCHANGED <<countVars, air, writeVars, running>>

\* The first number, node 1's, is skipped.
ReadLine(l) ==
  /\ running[l] /\ text[l] \notin {"missing", "empty"}
  /\ speed' = [speed EXCEPT ![l] = [line[l] EXCEPT ![1] = 0]]
  /\ seen' = [seen EXCEPT ![l] = text[l]]
  /\ UNCHANGED <<countVars, air, writeVars, running>>

\* A mistake the checks must notice: speed is not static.
ReadNothingForgets(l) ==
  /\ running[l] /\ text[l] = "empty"
  /\ speed' = [speed EXCEPT ![l] = NoRate]
  /\ UNCHANGED <<countVars, air, writeVars, running, seen>>

\* speed is static: it stays what it was.
ReadNothing(l) ==
  /\ running[l] /\ text[l] = "empty"
  /\ UNCHANGED vars

\* No file: fgets is given NULL.
ReadMissing(l) ==
  /\ running[l] /\ text[l] = "missing"
  /\ running' = [running EXCEPT ![l] = FALSE]
  /\ UNCHANGED <<countVars, air, writeVars, speed, seen>>

Read(l) == ReadLine(l) \/ ReadNothing(l) \/ ReadMissing(l)

\* SIGINT ends packet_rate of node n at any point; it is started again.
Restart(n) ==
  /\ b_data' = [p \in Publisher |-> IF p = n THEN Silence ELSE b_data[p]]
  /\ clock' = [p \in Publisher |-> IF p = n THEN 0 ELSE clock[p]]
  /\ from_others' = [l \in Listener |-> IF l = n THEN NoRate ELSE from_others[l]]
  /\ wpc' = [l \in Listener |-> IF l = n THEN "Recv" ELSE wpc[l]]
  /\ text' = [l \in Listener |-> IF l = n /\ text[l] = "current" THEN "old" ELSE text[l]]
  /\ seen' = [l \in Listener |-> IF l = n /\ seen[l] = "current" THEN "old" ELSE seen[l]]
  /\ UNCHANGED <<counted, air, line, running, speed>>

Next ==
  \/ Tick
  \/ \E p \in Publisher : Overhear(p) \/ \E s \in Source : Count(p, s)
  \/ \E m \in air : Lose(m) \/ \E l \in Listener : Receive(l, m)
  \/ \E l \in Listener : Truncate(l) \/ Write(l) \/ Read(l)
  \/ \E n \in Publisher \cup Listener : Restart(n)

Spec == Init /\ [][Next]_vars

FairSpec ==
  /\ Spec
  /\ \A l \in Listener : WF_vars(Truncate(l)) /\ WF_vars(Write(l)) /\ SF_vars(ReadLine(l))

-----------------------------------------------------------------------------
(* Properties.                                                             *)

Counts == [Source -> 0 .. Capacity * Period + 1]
Line == {"old", "current", "shifted"}

TypeOK ==
  /\ b_data \in [Publisher -> [Source -> Nat]]
  /\ clock \in [Publisher -> 0 .. Period]
  /\ counted \in [Publisher -> 0 .. Capacity]
  /\ air \subseteq [from : Publisher, counts : Counts]
  /\ from_others \in [Listener -> Rates]
  /\ wpc \in [Listener -> {"Recv", "Open", "Write"}]
  /\ text \in [Listener -> {"missing", "empty"} \cup Line]
  /\ line \in [Listener -> [Node -> Nat]]
  /\ running \in [Listener -> BOOLEAN]
  /\ speed \in [Listener -> [Node -> Nat]] /\ \A l \in Listener : speed[l][1] = 0
  /\ seen \in [Listener -> {"none"} \cup Line]

\* However late the timer is looked at, a count is never of more packets than
\* the period has room for: what has been counted fits into the ticks that
\* have passed.
CountsFit ==
  \A p \in Publisher :
    /\ clock[p] = Period => counted[p] = 0
    /\ \A s \in Source : b_data[p][s] <= Capacity * clock[p] + counted[p]

\* The rates in a line that is not shifted, but for the first, can have been measured.
LinePossible ==
  \A l \in Listener : text[l] # "shifted" => \A k \in Node \ {1} : line[l][k] \in Possible

\* What is in a line of this run that is not shifted, and what was read from one, are
\* rates packet_rate has collected, and perhaps bettered since.
NotAhead ==
  \A l \in Listener : \A k \in Node \ {1} :
    /\ text[l] = "current" => line[l][k] <= from_others[l][k]
    /\ seen[l] = "current" => /\ speed[l][k] <= from_others[l][k]
                              /\ text[l] = "current" => speed[l][k] <= line[l][k]

\* Who has read a line of this run finds no older one any more, but perhaps a shifted one.
NoOldLine == \A l \in Listener : seen[l] = "current" => text[l] \in {"empty", "current", "shifted"}

\* The rate the slave reports of a link is none, or one that can have been measured,
\* neither noise nor the packets of more than a period, unless the line it was read
\* from is one that was appended to left-over text with a dot in it.
RatesArePossible == \A l \in Listener : seen[l] # "shifted" => speed[l] \in Rates

IInv == TypeOK /\ CountsFit /\ LinePossible /\ NotAhead /\ NoOldLine /\ RatesArePossible

\* From one line of this run of packet_rate that is not shifted to the next one, the
\* rates a slave knows of never get worse: not by late beacons, and not by reading the
\* file while it is rewritten.
RatesNeverDrop ==
  [][\A l \in Listener : seen[l] = "current" /\ seen'[l] = "current" =>
       \A k \in Node : speed'[l][k] >= speed[l][k]]_vars

\* A rate that was collected comes to be known to the slave, unless it is node 1's, the
\* slave has crashed, it has read a shifted line, or packet_rate has been started again.
RateArrives ==
  \A l \in Listener : \A p \in Publisher \ {1} : \A v \in Possible \ {0} :
    from_others[l][p] = v ~>
      speed[l][p] >= v \/ from_others[l][p] < v \/ seen[l] = "shifted" \/ ~running[l]
=============================================================================
