-------------------------- MODULE PacketRateProofs ---------------------------
(***************************************************************************)
(* Proofs about PacketRate: which rates can be reported, and that they do  *)
(* not get worse, for any number of nodes and any capacity of the channel. *)
(***************************************************************************)
EXTENDS PacketRate, Integers, TLAPS

-----------------------------------------------------------------------------
(* Counting.                                                               *)

LEMMA OneMoreTick ==
  ASSUME NEW c \in Nat, NEW j \in Nat
  PROVE  c * j \in Nat /\ c * (j + 1) = c * j + c
  BY SMT

LEMMA ZeroTicks == ASSUME NEW c \in Nat PROVE c * 0 = 0
  BY SMT

LEMMA NoRateIsPossible == NoRate \in Rates
  BY DEF NoRate, Rates, Possible

LEMMA PossibleIsNat == Possible \subseteq Nat
<1>1. Capacity * Period + 1 \in Nat /\ Threshold + 1 \in Nat
  BY RateAssumption, OneMoreTick, SMT
<1> QED BY <1>1, SMT DEF Possible

-----------------------------------------------------------------------------
(* The line.                                                               *)

LEMMA JoinedIsNat == ASSUME NEW a \in Nat, NEW b \in Nat PROVE Joined(a, b) \in Nat
  BY SMT DEF Joined

\* Whatever the memory held, the line is of numbers; and if it held no dot, the rates
\* stand where they should, but for the first.
LEMMA AppendedIs ==
  ASSUME NEW before \in Leftover, NEW rates \in Rates
  PROVE  /\ Appended(before, rates) \in [Node -> Nat]
         /\ Len(before) = 1 =>
              \A k \in Node \ {1} : Appended(before, rates)[k] = rates[k]
<1>1. /\ before \in Seq(Nat) /\ before # <<>> /\ Len(before) \in Nat \ {0}
      /\ \A k \in 1 .. Len(before) : before[k] \in Nat
  BY LeftoverAssumption
<1>2. \A k \in Node : rates[k] \in Nat
  BY PossibleIsNat DEF Rates
<1>3. ASSUME NEW k \in Node
      PROVE  (IF k < Len(before) THEN before[k]
              ELSE IF k = Len(before) THEN Joined(before[Len(before)], rates[1])
              ELSE rates[k - Len(before) + 1]) \in Nat
  <2>1. k \in Nat /\ 1 <= k /\ k <= Last /\ Last \in Nat /\ 1 \in Node
    BY NodeAssumption, SMT DEF Node
  <2>2. CASE k < Len(before)
    <3>1. k \in 1 .. Len(before)
      BY <1>1, <2>1, <2>2, SMT
    <3> QED BY <1>1, <2>2, <3>1
  <2>3. CASE k = Len(before)
    <3>1. before[Len(before)] \in Nat /\ ~(k < Len(before))
      BY <1>1, <2>3, SMT
    <3> QED BY <1>2, <2>1, <2>3, <3>1, JoinedIsNat
  <2>4. CASE ~(k < Len(before)) /\ k # Len(before)
    <3>1. k - Len(before) + 1 \in Node
      BY <1>1, <2>1, <2>4, SMT DEF Node
    <3> QED BY <1>2, <2>4, <3>1
  <2> QED BY <2>2, <2>3, <2>4
<1>4. Appended(before, rates) \in [Node -> Nat]
  BY <1>3 DEF Appended
<1>5. ASSUME Len(before) = 1, NEW k \in Node \ {1} PROVE Appended(before, rates)[k] = rates[k]
  <2>1. ~(k < 1) /\ k - 1 + 1 = k
    BY <1>5, SMT DEF Node
  <2> QED BY <1>5, <2>1 DEF Appended
<1> QED BY <1>4, <1>5

\* What becomes of the first number of a line does not matter to who reads it.
LEMMA WithoutFirst ==
  ASSUME NEW f \in [Node -> Nat]
  PROVE  /\ [f EXCEPT ![1] = 0] \in [Node -> Nat]
         /\ [f EXCEPT ![1] = 0][1] = 0
         /\ \A k \in Node \ {1} : [f EXCEPT ![1] = 0][k] = f[k]
<1>1. 1 \in Node
  BY NodeAssumption, SMT DEF Node
<1> QED BY <1>1

LEMMA InitIInv == Init => IInv
<1> SUFFICES ASSUME Init PROVE IInv
  OBVIOUS
<1>1. /\ line \in [Listener -> [Node -> Nat]]
      /\ text \in [Listener -> {"missing", "old", "shifted"}]
      /\ LinePossible
  <2>1. CASE text = [l \in Listener |-> "missing"] /\ line = [l \in Listener |-> NoRate]
    BY <2>1, NoRateIsPossible, PossibleIsNat DEF LinePossible, NoRate, Rates
  <2>2. ASSUME NEW before \in [Listener -> Leftover], NEW rates \in [Listener -> Earlier],
               text = [l \in Listener |-> Kind(before[l], "old")],
               line = [l \in Listener |-> Appended(before[l], rates[l])]
        PROVE  /\ line \in [Listener -> [Node -> Nat]]
               /\ text \in [Listener -> {"missing", "old", "shifted"}]
               /\ LinePossible
    <3>1. ASSUME NEW l \in Listener
          PROVE  /\ line[l] \in [Node -> Nat]
                 /\ text[l] = Kind(before[l], "old")
                 /\ text[l] # "shifted" => \A k \in Node \ {1} : line[l][k] \in Possible
      <4>1. before[l] \in Leftover /\ rates[l] \in Rates
        BY RateAssumption
      <4>2. line[l] = Appended(before[l], rates[l]) /\ text[l] = Kind(before[l], "old")
        BY <2>2
      <4> QED BY <4>1, <4>2, AppendedIs DEF Kind, Rates
    <3> QED BY <2>2, <3>1 DEF LinePossible, Kind
  <2> QED BY <2>1, <2>2 DEF Init
<1>2. TypeOK
  <2>1. Silence \in [Source -> Nat]
    BY DEF Silence
  <2>2. NoRate \in [Node -> Nat] /\ NoRate[1] = 0
    <3>1. 1 \in Node
      BY NodeAssumption, SMT DEF Node
    <3> QED BY <3>1 DEF NoRate
  <2>3. clock \in [Publisher -> 0 .. Period] /\ counted \in [Publisher -> 0 .. Capacity]
    BY RateAssumption, SMT DEF Init
  <2>4. text \in [Listener -> {"missing", "empty"} \cup Line]
    BY <1>1 DEF Line
  <2> QED BY <1>1, <2>1, <2>2, <2>3, <2>4, NoRateIsPossible DEF Init, TypeOK
<1>3. CountsFit
  BY RateAssumption, ZeroTicks, SMT DEF Init, CountsFit, Silence
<1>4. NotAhead /\ NoOldLine
  BY <1>1 DEF Init, NotAhead, NoOldLine
<1>5. RatesArePossible
  BY NoRateIsPossible DEF Init, RatesArePossible
<1> QED BY <1>1, <1>2, <1>3, <1>4, <1>5 DEF IInv

\* What the file and its reader make true.
FileOK == LinePossible /\ NotAhead /\ NoOldLine /\ RatesArePossible

\* Steps that touch neither the file nor what was read.
LEMMA ElsewhereKeeps ==
  ASSUME IInv, UNCHANGED <<from_others, text, line, speed, seen>>
  PROVE  FileOK'
  BY DEF IInv, FileOK, LinePossible, NotAhead, NoOldLine, RatesArePossible

\* What fits when a packet comes still fits when the timer has been looked at;
\* what is broadcast is at most one more than the period has room for.
LEMMA DueKeeps ==
  ASSUME IInv, NEW p \in Publisher, NEW counts \in [Source -> Nat], NEW more \in {0, 1},
         Due(p, counts),
         \A s \in Source : counts[s] <= b_data[p][s] + more,
         counted' = [counted EXCEPT ![p] = @ + more], counted'[p] <= Capacity,
         UNCHANGED <<writeVars, readVars>>
  PROVE  IInv'
<1> USE DEF IInv, FileOK
<1>1. /\ clock[p] \in 0 .. Period /\ counted[p] \in 0 .. Capacity
      /\ \A s \in Source : b_data[p][s] \in Nat
      /\ Period \in Nat \ {0} /\ Capacity \in Nat
  BY RateAssumption DEF TypeOK
<1>2. Capacity * clock[p] \in Nat /\ Capacity * Period \in Nat
  BY <1>1, OneMoreTick, SMT
<1>3. \A s \in Source : counts[s] <= Capacity * clock[p] + (counted[p] + more)
  BY <1>1, <1>2, SMT DEF CountsFit
<1>4. counted'[p] = counted[p] + more /\ \A q \in Publisher \ {p} : counted'[q] = counted[q]
  BY DEF TypeOK
<1>5. /\ clock'[p] = (IF clock[p] < Period THEN clock[p] ELSE 0)
      /\ b_data'[p] = (IF clock[p] < Period THEN counts ELSE Silence)
      /\ \A q \in Publisher \ {p} : clock'[q] = clock[q] /\ b_data'[q] = b_data[q]
  BY DEF Due, TypeOK
<1>6. air' \subseteq [from : Publisher, counts : Counts]
  <2>1. CASE UNCHANGED air
    BY <2>1 DEF TypeOK
  <2>2. CASE clock[p] = Period /\ air' = air \cup {[from |-> p, counts |-> counts]}
    <3>1. counted[p] = 0
      BY <2>2 DEF CountsFit
    <3>2. \A s \in Source : counts[s] \in Nat /\ counts[s] <= Capacity * Period + 1
      BY <1>2, <1>3, <2>2, <3>1, SMT
    <3>3. counts \in Counts
      BY <1>2, <3>2, SMT DEF Counts
    <3> QED BY <2>2, <3>3 DEF TypeOK
  <2> QED BY <2>1, <2>2 DEF Due
<1>7. TypeOK'
  <2>1. Silence \in [Source -> Nat]
    BY DEF Silence
  <2>2. b_data' \in [Publisher -> [Source -> Nat]]
    BY <2>1 DEF Due, TypeOK
  <2>3. clock' \in [Publisher -> 0 .. Period]
    BY <1>1, SMT DEF Due, TypeOK
  <2>4. counted'[p] \in 0 .. Capacity
    BY <1>1, <1>4, SMT
  <2>5. counted' \in [Publisher -> 0 .. Capacity]
    BY <1>4, <2>4 DEF TypeOK
  <2> QED BY <1>6, <2>2, <2>3, <2>5 DEF TypeOK, writeVars, readVars
<1>8. CountsFit'
  <2> SUFFICES ASSUME NEW q \in Publisher
               PROVE  /\ clock'[q] = Period => counted'[q] = 0
                      /\ \A s \in Source : b_data'[q][s] <= Capacity * clock'[q] + counted'[q]
    BY DEF CountsFit
  <2>1. CASE q # p
    BY <1>4, <1>5, <2>1 DEF CountsFit
  <2>2. CASE q = p /\ clock[p] < Period
    <3>1. clock'[q] = clock[p] /\ clock[p] # Period
      BY <1>1, <1>5, <2>2, SMT
    <3>2. b_data'[q] = counts /\ counted'[q] = counted[p] + more
      BY <1>4, <1>5, <2>2
    <3> QED BY <1>3, <3>1, <3>2
  <2>3. CASE q = p /\ ~(clock[p] < Period)
    <3>1. clock'[q] = 0 /\ b_data'[q] = Silence
      BY <1>5, <2>3
    <3>2. counted'[q] \in Nat
      BY <1>1, <1>4, <2>3, SMT
    <3> QED BY <1>1, <3>1, <3>2, ZeroTicks, SMT DEF Silence
  <2> QED BY <2>1, <2>2, <2>3
<1>9. FileOK'
  BY ElsewhereKeeps DEF writeVars, readVars
<1> QED BY <1>7, <1>8, <1>9

LEMMA CountKeeps ==
  ASSUME IInv, NEW p \in Publisher, NEW s \in Source, Count(p, s) PROVE IInv'
<1> DEFINE counts == [b_data[p] EXCEPT ![s] = @ + 1]
<1>1. b_data[p] \in [Source -> Nat] /\ counted \in [Publisher -> 0 .. Capacity]
  BY DEF IInv, TypeOK
<1>2. counts \in [Source -> Nat]
  BY <1>1, SMT
<1>3. \A r \in Source : counts[r] <= b_data[p][r] + 1
  BY <1>1, SMT
<1>4. counted' = [counted EXCEPT ![p] = @ + 1] /\ Due(p, counts) /\ UNCHANGED <<writeVars, readVars>>
  BY DEF Count
<1>5. counted'[p] <= Capacity
  BY <1>1, <1>4, RateAssumption, SMT DEF Count
<1> HIDE DEF counts
<1> QED BY <1>2, <1>3, <1>4, <1>5, DueKeeps

LEMMA OverhearKeeps == ASSUME IInv, NEW p \in Publisher, Overhear(p) PROVE IInv'
<1>1. b_data[p] \in [Source -> Nat] /\ counted \in [Publisher -> 0 .. Capacity]
  BY DEF IInv, TypeOK
<1>2. Due(p, b_data[p]) /\ UNCHANGED <<counted, writeVars, readVars>>
  BY DEF Overhear
<1>3. \A s \in Source : b_data[p][s] <= b_data[p][s] + 0
  BY <1>1, SMT
<1>4. counted' = [counted EXCEPT ![p] = @ + 0] /\ counted'[p] <= Capacity
  BY <1>1, <1>2, RateAssumption, SMT
<1> QED BY <1>1, <1>2, <1>3, <1>4, DueKeeps

LEMMA TickKeeps == IInv /\ Tick => IInv'
<1> SUFFICES ASSUME IInv, Tick PROVE IInv'
  OBVIOUS
<1> USE DEF IInv, FileOK
<1>1. TypeOK'
  <2>1. clock' \in [Publisher -> 0 .. Period] /\ counted' \in [Publisher -> 0 .. Capacity]
    BY RateAssumption, SMT DEF TypeOK, Tick
  <2> QED BY <2>1 DEF TypeOK, Tick, writeVars, readVars
<1>2. CountsFit'
  <2> SUFFICES ASSUME NEW p \in Publisher, NEW s \in Source
               PROVE  b_data'[p][s] <= Capacity * clock'[p] + counted'[p]
    BY DEF CountsFit, Tick
  <2>1. /\ clock[p] \in 0 .. Period /\ counted[p] \in 0 .. Capacity
        /\ b_data[p][s] \in Nat /\ Period \in Nat /\ Capacity \in Nat
    BY RateAssumption DEF TypeOK
  <2>2. b_data[p][s] <= Capacity * clock[p] + counted[p]
    BY DEF CountsFit
  <2>3. b_data'[p][s] = b_data[p][s] /\ counted'[p] = 0
    BY DEF Tick
  <2>4. CASE clock[p] < Period
    <3>1. clock'[p] = clock[p] + 1
      BY <2>4 DEF Tick
    <3>2. Capacity * clock[p] \in Nat /\ Capacity * (clock[p] + 1) = Capacity * clock[p] + Capacity
      BY <2>1, OneMoreTick, SMT
    <3> QED BY <2>1, <2>2, <2>3, <3>1, <3>2, SMT
  <2>5. CASE clock[p] = Period
    <3>1. clock'[p] = clock[p] /\ counted[p] = 0
      BY <2>1, <2>5, SMT DEF Tick, CountsFit
    <3> QED BY <2>2, <2>3, <3>1
  <2> QED BY <2>1, <2>4, <2>5, SMT
<1>3. FileOK'
  BY ElsewhereKeeps DEF Tick, writeVars, readVars
<1> QED BY <1>1, <1>2, <1>3

-----------------------------------------------------------------------------
(* Collecting.                                                             *)

LEMMA LoseKeeps == ASSUME IInv, NEW m \in air, Lose(m) PROVE IInv'
<1> USE DEF IInv, FileOK
<1>1. TypeOK' /\ CountsFit'
  BY DEF TypeOK, CountsFit, Lose, countVars, writeVars, readVars
<1>2. FileOK'
  BY ElsewhereKeeps DEF Lose, writeVars, readVars
<1> QED BY <1>1, <1>2

\* The best count only gets better.
LEMMA ReceiveKeeps ==
  ASSUME IInv, NEW l \in Listener, NEW m \in air, Receive(l, m) PROVE IInv'
<1> USE DEF IInv, FileOK
<1> DEFINE old == from_others[l][m.from]
           new == IF m.counts[l] > old /\ m.counts[l] > Threshold THEN m.counts[l] ELSE old
<1>1. m.from \in Node /\ m.counts[l] \in 0 .. Capacity * Period + 1
  BY NodeAssumption DEF TypeOK, Counts
<1>2. old \in Possible /\ from_others[l] \in Rates
  BY <1>1 DEF TypeOK, Rates
<1>3. from_others' = [from_others EXCEPT ![l][m.from] = new]
  BY DEF Receive
<1>4. old \in Nat /\ m.counts[l] \in Nat /\ Capacity * Period \in Nat
  BY <1>1, <1>2, RateAssumption, OneMoreTick, SMT DEF Possible
<1>5. new \in Possible /\ new >= old
  BY <1>1, <1>2, <1>4, RateAssumption, SMT DEF Possible
<1> HIDE DEF new
<1>6. from_others' \in [Listener -> Rates]
  BY <1>3, <1>5 DEF TypeOK, Rates
<1>7. \A j \in Listener : \A k \in Node :
        from_others'[j][k] = from_others[j][k]
        \/ (from_others[j][k] = old /\ from_others'[j][k] = new)
  BY <1>1, <1>3 DEF TypeOK, Rates
<1>8. TypeOK' /\ CountsFit'
  BY <1>6 DEF TypeOK, CountsFit, Receive, countVars, readVars
<1>9. \A j \in Listener : \A k \in Node :
        line[j][k] \in Nat /\ speed[j][k] \in Nat /\ from_others[j][k] \in Nat
  BY PossibleIsNat DEF TypeOK, Rates
<1>10. \A j \in Listener : \A k \in Node :
         from_others'[j][k] \in Nat /\ from_others'[j][k] >= from_others[j][k]
  <2> HIDE DEF old
  <2>1. new \in Nat
    BY <1>5, PossibleIsNat
  <2> QED BY <1>5, <1>7, <1>9, <2>1, SMT
<1>11. UNCHANGED <<text, line, speed, seen>>
  BY DEF Receive, readVars
<1>12. NotAhead'
  <2> SUFFICES ASSUME NEW j \in Listener, NEW k \in Node \ {1}
               PROVE  /\ text[j] = "current" => line[j][k] <= from_others'[j][k]
                      /\ seen[j] = "current" => /\ speed[j][k] <= from_others'[j][k]
                                                /\ text[j] = "current" => speed[j][k] <= line[j][k]
    BY <1>11 DEF NotAhead
  <2>1. /\ text[j] = "current" => line[j][k] <= from_others[j][k]
        /\ seen[j] = "current" => /\ speed[j][k] <= from_others[j][k]
                                  /\ text[j] = "current" => speed[j][k] <= line[j][k]
    BY DEF NotAhead
  <2> QED BY <1>9, <1>10, <2>1, SMT
<1>13. LinePossible' /\ NoOldLine' /\ RatesArePossible'
  BY <1>11 DEF LinePossible, NoOldLine, RatesArePossible
<1> QED BY <1>8, <1>12, <1>13

LEMMA TruncateKeeps == ASSUME IInv, NEW l \in Listener, Truncate(l) PROVE IInv'
<1> USE DEF IInv
<1>1. NoRate \in [Node -> Nat] /\ \A k \in Node : NoRate[k] \in Possible
  BY DEF NoRate, Possible
<1>2. /\ text' = [text EXCEPT ![l] = "empty"] /\ line' = [line EXCEPT ![l] = NoRate]
      /\ UNCHANGED <<from_others, speed, seen>>
  BY DEF Truncate, readVars
<1>3. TypeOK' /\ CountsFit'
  BY <1>1 DEF TypeOK, CountsFit, Truncate, countVars, readVars
<1>4. LinePossible' /\ NotAhead'
  BY <1>1, <1>2 DEF TypeOK, LinePossible, NotAhead
<1>5. NoOldLine' /\ RatesArePossible'
  BY <1>2 DEF TypeOK, NoOldLine, RatesArePossible
<1> QED BY <1>3, <1>4, <1>5

LEMMA WriteKeeps == ASSUME IInv, NEW l \in Listener, Write(l) PROVE IInv'
<1> USE DEF IInv
<1>1. PICK before \in Leftover :
        /\ text' = [text EXCEPT ![l] = Kind(before, "current")]
        /\ line' = [line EXCEPT ![l] = Appended(before, from_others[l])]
  BY DEF Write
<1>2. from_others[l] \in Rates
  BY DEF TypeOK
<1>3. /\ text'[l] \in {"current", "shifted"}
      /\ text'[l] = "current" => Len(before) = 1
      /\ \A j \in Listener \ {l} : text'[j] = text[j] /\ line'[j] = line[j]
      /\ UNCHANGED <<from_others, speed, seen>>
  BY <1>1 DEF TypeOK, Write, readVars, Kind
<1>4. /\ line'[l] \in [Node -> Nat]
      /\ text'[l] = "current" => \A k \in Node \ {1} : line'[l][k] = from_others[l][k]
  BY <1>1, <1>2, <1>3, AppendedIs DEF TypeOK
<1>5. TypeOK' /\ CountsFit'
  <2>1. line' \in [Listener -> [Node -> Nat]]
    BY <1>1, <1>3, <1>4 DEF TypeOK
  <2>2. text' \in [Listener -> {"missing", "empty"} \cup Line]
    BY <1>1, <1>3 DEF TypeOK, Line
  <2>3. wpc' \in [Listener -> {"Recv", "Open", "Write"}]
    BY DEF TypeOK, Write
  <2> QED BY <2>1, <2>2, <2>3 DEF TypeOK, CountsFit, Write, countVars, readVars
<1>6. \A j \in Listener : \A k \in Node : from_others[j][k] \in Possible /\ from_others[j][k] \in Nat
  BY PossibleIsNat DEF TypeOK, Rates
<1>7. LinePossible' /\ NoOldLine' /\ RatesArePossible'
  BY <1>3, <1>4, <1>6 DEF LinePossible, NoOldLine, RatesArePossible
<1>8. ASSUME NEW j \in Listener, NEW k \in Node \ {1}
      PROVE  /\ text'[j] = "current" => line'[j][k] <= from_others[j][k]
             /\ seen[j] = "current" => /\ speed[j][k] <= from_others[j][k]
                                       /\ text'[j] = "current" => speed[j][k] <= line'[j][k]
  <2>1. from_others[j][k] <= from_others[j][k]
    BY <1>6, SMT
  <2>2. CASE j = l
    BY <1>3, <1>4, <2>1, <2>2 DEF NotAhead
  <2>3. CASE j # l
    BY <1>3, <2>3 DEF NotAhead
  <2> QED BY <2>2, <2>3
<1>9. NotAhead'
  BY <1>3, <1>8 DEF NotAhead
<1> QED BY <1>5, <1>7, <1>9

-----------------------------------------------------------------------------
(* Reading.                                                                *)

LEMMA ReadKeeps == ASSUME IInv, NEW l \in Listener, Read(l) PROVE IInv'
<1> USE DEF IInv, FileOK
<1>1. CASE ReadLine(l)
  <2>1. line[l] \in [Node -> Nat] /\ \A k \in Node : line[l][k] <= line[l][k]
    BY SMT DEF TypeOK
  <2>2. /\ speed'[l] = [line[l] EXCEPT ![1] = 0] /\ seen'[l] = text[l] /\ text[l] \in Line
        /\ \A j \in Listener \ {l} : speed'[j] = speed[j] /\ seen'[j] = seen[j]
        /\ UNCHANGED <<from_others, text, line>>
    BY <1>1 DEF TypeOK, ReadLine, writeVars
  <2>3. /\ speed'[l] \in [Node -> Nat] /\ speed'[l][1] = 0
        /\ \A k \in Node \ {1} : speed'[l][k] = line[l][k]
    BY <2>1, <2>2, WithoutFirst
  <2>4. TypeOK' /\ CountsFit'
    <3>1. speed' \in [Listener -> [Node -> Nat]]
      BY <1>1, <2>2, <2>3 DEF TypeOK, ReadLine
    <3>2. seen' \in [Listener -> {"none"} \cup Line]
      BY <1>1, <2>2 DEF TypeOK, ReadLine
    <3>3. \A j \in Listener : speed'[j][1] = 0
      BY <2>2, <2>3 DEF TypeOK
    <3> QED BY <1>1, <3>1, <3>2, <3>3 DEF TypeOK, CountsFit, ReadLine, countVars, writeVars
  <2>5. NotAhead'
    BY <2>1, <2>2, <2>3 DEF NotAhead
  <2>6. LinePossible' /\ NoOldLine'
    BY <2>2 DEF LinePossible, NoOldLine
  <2>7. ASSUME text[l] # "shifted" PROVE speed'[l] \in Rates
    <3>1. 0 \in Possible /\ \A k \in Node : speed'[l][k] \in Possible
      BY <2>2, <2>3, <2>7 DEF LinePossible, Possible
    <3> QED BY <2>3, <3>1 DEF Rates
  <2>8. RatesArePossible'
    BY <2>2, <2>7 DEF RatesArePossible
  <2> QED BY <2>4, <2>5, <2>6, <2>8
<1>2. CASE ReadNothing(l)
  <2>1. UNCHANGED <<countVars, air, writeVars, readVars>>
    BY <1>2 DEF ReadNothing, vars
  <2> QED BY <2>1 DEF TypeOK, CountsFit, LinePossible, NotAhead, NoOldLine, RatesArePossible,
                      countVars, writeVars, readVars
<1>3. CASE ReadMissing(l)
  <2>1. TypeOK' /\ CountsFit'
    BY <1>3 DEF TypeOK, CountsFit, ReadMissing, countVars, writeVars
  <2>2. FileOK'
    BY <1>3, ElsewhereKeeps DEF ReadMissing, writeVars
  <2> QED BY <2>1, <2>2
<1> QED BY <1>1, <1>2, <1>3 DEF Read

LEMMA RestartKeeps ==
  ASSUME IInv, NEW n \in Publisher \cup Listener, Restart(n) PROVE IInv'
<1> USE DEF IInv, FileOK
<1>1. TypeOK'
  <2>1. b_data' \in [Publisher -> [Source -> Nat]]
    BY DEF TypeOK, Restart, Silence
  <2>2. clock' \in [Publisher -> 0 .. Period]
    BY RateAssumption, SMT DEF TypeOK, Restart
  <2>3. text' \in [Listener -> {"missing", "empty"} \cup Line]
    BY DEF TypeOK, Restart, Line
  <2>4. wpc' \in [Listener -> {"Recv", "Open", "Write"}] /\ from_others' \in [Listener -> Rates]
    BY NoRateIsPossible DEF TypeOK, Restart
  <2>5. seen' \in [Listener -> {"none"} \cup Line]
    BY DEF TypeOK, Restart, Line
  <2> QED BY <2>1, <2>2, <2>3, <2>4, <2>5 DEF TypeOK, Restart
<1>2. CountsFit'
  <2> SUFFICES ASSUME NEW p \in Publisher
               PROVE  /\ clock'[p] = Period => counted[p] = 0
                      /\ \A s \in Source : b_data'[p][s] <= Capacity * clock'[p] + counted[p]
    BY DEF CountsFit, Restart
  <2>1. CASE p = n
    <3>1. clock'[p] = 0 /\ b_data'[p] = Silence /\ counted[p] \in Nat
      BY <2>1, RateAssumption, SMT DEF Restart, TypeOK
    <3> QED BY <3>1, ZeroTicks, RateAssumption, SMT DEF Silence
  <2>2. CASE p # n
    BY <2>2 DEF Restart, CountsFit
  <2> QED BY <2>1, <2>2
<1>3. /\ \A l \in Listener : /\ text'[l] = "current" => text[l] = "current" /\ l # n
                             /\ seen'[l] = "current" => seen[l] = "current" /\ l # n
                             /\ (text'[l] = "shifted" <=> text[l] = "shifted")
                             /\ (seen'[l] = "shifted" <=> seen[l] = "shifted")
                             /\ l # n => text'[l] = text[l] /\ from_others'[l] = from_others[l]
      /\ UNCHANGED <<line, speed>>
  BY DEF TypeOK, Restart
<1>4. LinePossible' /\ NotAhead'
  BY <1>3 DEF LinePossible, NotAhead
<1>5. NoOldLine' /\ RatesArePossible'
  BY <1>3 DEF NoOldLine, RatesArePossible
<1> QED BY <1>1, <1>2, <1>4, <1>5

LEMMA NextKeeps == IInv /\ [Next]_vars => IInv'
<1> SUFFICES ASSUME IInv, [Next]_vars PROVE IInv'
  OBVIOUS
<1>1. CASE Tick
  BY <1>1, TickKeeps
<1>2. ASSUME NEW p \in Publisher, Overhear(p) \/ \E s \in Source : Count(p, s) PROVE IInv'
  BY <1>2, OverhearKeeps, CountKeeps
<1>3. ASSUME NEW m \in air, Lose(m) \/ \E l \in Listener : Receive(l, m) PROVE IInv'
  BY <1>3, LoseKeeps, ReceiveKeeps
<1>4. ASSUME NEW l \in Listener, Truncate(l) \/ Write(l) \/ Read(l) PROVE IInv'
  BY <1>4, TruncateKeeps, WriteKeeps, ReadKeeps
<1>5. ASSUME NEW n \in Publisher \cup Listener, Restart(n) PROVE IInv'
  BY <1>5, RestartKeeps
<1>6. CASE UNCHANGED vars
  <2>1. UNCHANGED <<countVars, air, writeVars, readVars>>
    BY <1>6 DEF vars
  <2> QED BY <2>1 DEF IInv, TypeOK, CountsFit, LinePossible, NotAhead, NoOldLine, RatesArePossible, countVars, writeVars, readVars
<1> QED BY <1>1, <1>2, <1>3, <1>4, <1>5, <1>6 DEF Next

\* Types, the bound on the counts, and, for lines that are not shifted, where the file
\* and its reader stand to what was collected, whatever is lost, late, repeated or started
\* again and whatever the memory for a line held.
THEOREM InductiveInvariant == Spec => []IInv
<1> QED BY InitIInv, NextKeeps, PTL DEF Spec

\* A rate that is reported is none, or one that can have been measured, or was read from
\* a line appended to left-over text with a dot.
THEOREM OnlyPossibleRates == Spec => []RatesArePossible
<1>1. IInv => RatesArePossible
  BY DEF IInv
<1> QED BY <1>1, InductiveInvariant, PTL

\* Reading the file at any moment of its rewriting makes no rate worse, as long as the
\* lines that are read are not shifted.
THEOREM NeverWorse == Spec => RatesNeverDrop
<1> DEFINE Kept == \A l \in Listener : seen[l] = "current" /\ seen'[l] = "current" =>
                     \A k \in Node : speed'[l][k] >= speed[l][k]
<1>1. IInv /\ [Next]_vars => [Kept]_vars
  <2> SUFFICES ASSUME IInv, [Next]_vars, NEW l \in Listener, NEW k \in Node,
                      seen[l] = "current", seen'[l] = "current"
               PROVE  speed'[l][k] >= speed[l][k]
    OBVIOUS
  <2>1. speed[l][k] \in Nat /\ line[l] \in [Node -> Nat] /\ line[l][k] \in Nat
    BY DEF IInv, TypeOK
  <2>2. CASE speed'[l] = speed[l]
    BY <2>1, <2>2, SMT
  <2>3. ASSUME NEW j \in Listener, ReadLine(j) PROVE speed'[l][k] >= speed[l][k]
    <3>1. CASE j = l
      <4>1. text[l] = "current" /\ speed'[l] = [line[l] EXCEPT ![1] = 0]
        BY <2>3, <3>1 DEF ReadLine, IInv, TypeOK
      <4>2. CASE k = 1
        <5>1. speed[l][k] = 0 /\ speed'[l][k] = 0
          BY <2>1, <4>1, <4>2, WithoutFirst DEF IInv, TypeOK
        <5> QED BY <5>1, SMT
      <4>3. CASE k # 1
        <5>1. speed'[l][k] = line[l][k]
          BY <2>1, <4>1, <4>3, WithoutFirst
        <5>2. speed[l][k] <= line[l][k]
          BY <4>1, <4>3 DEF IInv, NotAhead
        <5> QED BY <2>1, <5>1, <5>2, SMT
      <4> QED BY <4>2, <4>3
    <3>2. CASE j # l
      BY <2>2, <2>3, <3>2 DEF ReadLine, IInv, TypeOK
    <3> QED BY <3>1, <3>2
  <2>4. speed' = speed \/ \E j \in Listener : ReadLine(j)
    BY DEF Next, vars, Tick, Overhear, Count, Lose, Receive, Truncate, Write,
           Read, ReadNothing, ReadMissing, Restart, readVars
  <2> QED BY <2>2, <2>3, <2>4
<1> QED BY <1>1, InductiveInvariant, PTL DEF Spec, RatesNeverDrop
=============================================================================
