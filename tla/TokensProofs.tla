---------------------------- MODULE TokensProofs ----------------------------
(***************************************************************************)
(* What the race for the pointer of strtok leaves alone.                   *)
(***************************************************************************)
EXTENDS Tokens, TLAPS

\* A call that goes on stays in its text: it moves one field on, to the end, or,
\* being there already, not at all.
LEMMA GoesOn ==
  ASSUME Shape, NEW separator, StrtokNext(separator)
  PROVE  /\ save' = [buffer |-> save.buffer, at |-> save'.at]
         /\ \/ Here(save) = NoToken /\ save'.at = save.at
            \/ /\ Here(save) # NoToken
               /\ save'.at = IF separator = Separator(save.buffer) THEN save.at + 1
                             ELSE Len(text[save.buffer]) + 1
  BY DEF Shape, StrtokNext, Past

\* A call that starts leaves the pointer behind the first field of its own text.
LEMMA Starts ==
  ASSUME NEW b, Strtok(b, Separator(b))
  PROVE  save' = [buffer |-> b, at |-> 2]
  BY DEF Strtok, Past

LEMMA InitIInv == Init => IInv
<1> SUFFICES ASSUME Init PROVE IInv
  OBVIOUS
<1>1. Shape
  BY DEF Init, Shape, Buffer, NoEntry
<1>2. TextsOK /\ PointerOK /\ RightInOwnText
  BY DEF Init, TextsOK, PointerOK, RightInOwnText
<1> QED BY <1>1, <1>2 DEF IInv

LEMMA StutterIInv == IInv /\ UNCHANGED vars => IInv'
  BY DEF IInv, Shape, TextsOK, PointerOK, RightInOwnText, Undisturbed, vars, configVars, reportVars, rateVars, writerVars

\* The steps that fill a text; their thread has not called strtok on it yet.
LEMMA FillStep ==
  ASSUME IInv, ConfigRecv \/ ReportLine
  PROVE  IInv'
<1> USE DEF IInv, Shape, TextsOK, PointerOK, RightInOwnText, Undisturbed, Buffer,
           configVars, reportVars, rateVars, writerVars
<1>1. CASE ConfigRecv
  <2>1. PICK s \in Slots : text' = [text EXCEPT !["config1"] = GrantText(s)]
    BY <1>1 DEF ConfigRecv
  <2>2. text'["config1"] = GrantText(s) /\ text'["line"] = text["line"] /\ DOMAIN text' = Buffer
    BY <2>1
  <2> QED BY <1>1, <2>2 DEF ConfigRecv
<1>2. CASE ReportLine
  <2>1. PICK n \in Sizes : text' = [text EXCEPT !["line"] = LineText(n)]
    BY <1>2 DEF ReportLine
  <2>2. text'["line"] = LineText(n) /\ text'["config1"] = text["config1"] /\ DOMAIN text' = Buffer
    BY <2>1
  <2> QED BY <1>2, <2>2 DEF ReportLine, NoEntry
<1> QED BY <1>1, <1>2

\* The steps that start on a text; the pointer leaves the other thread's.
LEMMA StartStep ==
  ASSUME IInv, ConfigNode \/ ReportType \/ ReportRates \/ WriterRates
  PROVE  IInv'
<1> USE DEF IInv, Shape, TextsOK, PointerOK, RightInOwnText, Undisturbed, Buffer,
           configVars, reportVars, rateVars, writerVars
<1>1. CASE ConfigNode
  <2>1. save' = [buffer |-> "config1", at |-> 2]
    BY <1>1, Starts DEF ConfigNode, Separator
  <2> QED BY <1>1, <2>1 DEF ConfigNode
<1>2. CASE ReportType
  <2>1. save' = [buffer |-> "line", at |-> 2]
    BY <1>2, Starts DEF ReportType, Separator
  <2> QED BY <1>2, <2>1 DEF ReportType
<1>3. CASE ReportRates
  <2>1. save' = [buffer |-> "speeds", at |-> 2]
    BY <1>3 DEF ReportRates, Past, Separator
  <2>2. text'["line"] = text["line"] /\ text'["config1"] = text["config1"] /\ DOMAIN text' = Buffer
    BY <1>3 DEF ReportRates
  <2> QED BY <1>3, <2>1, <2>2 DEF ReportRates
<1>4. CASE WriterRates
  <2>1. save' = [buffer |-> "wspeeds", at |-> 2]
    BY <1>4 DEF WriterRates, Past, Separator
  <2>2. text'["line"] = text["line"] /\ text'["config1"] = text["config1"] /\ DOMAIN text' = Buffer
    BY <1>4 DEF WriterRates
  <2> QED BY <1>4, <2>1, <2>2 DEF WriterRates
<1> QED BY <1>1, <1>2, <1>3, <1>4

\* What a step of one thread that goes on does to the other one's text: it leaves
\* the pointer outside of it, where it was, or at its end.
LEMMA OthersText ==
  ASSUME IInv, NEW separator, StrtokNext(separator), UNCHANGED text
  PROVE  /\ save'.buffer = save.buffer
         /\ separator = "." /\ save.buffer = "config1" /\ gpc = "Slot" => save'.at \in {2, 4}
         /\ separator = "," /\ Undisturbed /\ save.buffer = "line" /\ rpc = "Id" =>
              save'.at \in {2, 5}
         /\ separator = "," /\ Undisturbed /\ save.buffer = "line" /\ rpc = "Size" =>
              save'.at \in {3, 5}
<1>1. Shape
  BY DEF IInv
<1>2. \/ save'.at = save.at
      \/ save'.at = IF separator = Separator(save.buffer) THEN save.at + 1
                    ELSE Len(text[save.buffer]) + 1
  BY <1>1, GoesOn
<1>3. ASSUME separator = ".", save.buffer = "config1", gpc = "Slot"
      PROVE  save'.at \in {2, 4}
  <2>1. PICK s \in Slots : text["config1"] = GrantText(s)
    BY <1>3 DEF IInv, TextsOK
  <2>2. Len(text[save.buffer]) + 1 = 4 /\ separator # Separator(save.buffer)
    BY <1>3, <2>1 DEF Separator, GrantText
  <2>3. save.at \in {2, 4}
    BY <1>3 DEF IInv, PointerOK
  <2> QED BY <1>2, <2>2, <2>3
<1>4. ASSUME separator = ",", save.buffer = "line", rpc \in {"Id", "Size"}
      PROVE  save'.at \in {save.at, 5}
  <2>1. PICK n \in Sizes : text["line"] = LineText(n)
    BY <1>4 DEF IInv, TextsOK
  <2>2. Len(text["line"]) = 4
    BY <2>1 DEF LineText
  <2>3. Len(text["line"]) + 1 = 5
    BY <2>2
  <2>4. separator # Separator("line")
    BY <1>4 DEF Separator
  <2> QED BY <1>2, <1>4, <2>3, <2>4
<1>5. save'.buffer = save.buffer
  BY <1>1, GoesOn
<1> QED BY <1>3, <1>4, <1>5 DEF IInv, PointerOK

\* The steps of recv_config that go on.
LEMMA ConfigStep ==
  ASSUME IInv, ConfigSlot \/ ConfigPriority
  PROVE  IInv'
<1>1. StrtokNext(",") /\ UNCHANGED <<text, rpc, entry, begun, wpc>> /\ (Undisturbed' <=> Undisturbed)
  <2>1. StrtokNext(",") /\ UNCHANGED <<text, rpc, entry, begun, wpc>>
    BY DEF ConfigSlot, ConfigPriority, reportVars, writerVars
  <2> QED BY <2>1 DEF Undisturbed
<1>2. save'.buffer = save.buffer
  BY <1>1, OthersText
<1>3. save' = [buffer |-> save.buffer, at |-> save'.at]
  BY <1>1, GoesOn DEF IInv
<1>4. Shape'
  BY <1>1, <1>2, <1>3 DEF IInv, Shape
<1>5. TextsOK'
  BY <1>1 DEF IInv, TextsOK, ConfigSlot, ConfigPriority
<1>6. Undisturbed /\ rpc = "Id" /\ save.buffer = "line" => save'.at \in {2, 5}
  BY <1>1, OthersText
<1>7. Undisturbed /\ rpc = "Size" /\ save.buffer = "line" => save'.at \in {3, 5}
  BY <1>1, OthersText
<1>8. PointerOK'
  BY <1>1, <1>2, <1>6, <1>7 DEF IInv, PointerOK, ConfigSlot, ConfigPriority
<1>9. gpc' = "Priority" /\ save'.buffer = "config1" => slot' = text["config1"][2].num
  <2> SUFFICES ASSUME gpc' = "Priority", save.buffer = "config1"
               PROVE  slot' = text["config1"][2].num
    BY <1>1, OthersText
  <2>1. ConfigSlot /\ Here(save) # NoToken
    BY DEF ConfigSlot, ConfigPriority
  <2>2. PICK s \in Slots : text["config1"] = GrantText(s)
    BY <2>1 DEF IInv, TextsOK, ConfigSlot
  <2>3. save.at \in {2, 4}
    BY <2>1 DEF IInv, PointerOK, ConfigSlot
  <2>4. save.at = 2
    BY <2>1, <2>2, <2>3 DEF Here, GrantText, Name, NoToken
  <2> QED BY <2>1, <2>4 DEF ConfigSlot, Here
<1>10. RightInOwnText'
  BY <1>1, <1>9, OthersText DEF IInv, RightInOwnText
<1> QED BY <1>4, <1>5, <1>8, <1>10 DEF IInv

\* The steps of report_task that go on.
LEMMA ReportStep ==
  ASSUME IInv, ReportId \/ ReportSize \/ ReportTime \/ ReportRest
  PROVE  IInv'
<1>1. StrtokNext(".") /\ UNCHANGED <<text, gpc, slot, begun, wpc>> /\ (Undisturbed' <=> Undisturbed)
  BY DEF ReportId, ReportSize, ReportTime, ReportRest, configVars, writerVars, Undisturbed
<1>2. Shape'
  BY <1>1, GoesOn DEF IInv, Shape, ReportId, ReportSize, ReportTime, ReportRest
<1>3. TextsOK'
  BY <1>1 DEF IInv, TextsOK, ReportId, ReportSize, ReportTime, ReportRest
<1>4. gpc = "Slot" /\ save'.buffer = "config1" => save'.at \in {2, 4}
  BY <1>1, OthersText
<1>5. gpc = "Priority" /\ save'.buffer = "config1" => slot' = text["config1"][2].num
  BY <1>1, OthersText DEF IInv, RightInOwnText
<1>6. ASSUME ReportId, Undisturbed, Here(save) # NoToken, save.buffer = "line"
      PROVE  save'.at = 3 /\ entry'.id = text["line"][2]
  <2>1. PICK n \in Sizes : text["line"] = LineText(n)
    BY <1>6 DEF IInv, TextsOK, ReportId
  <2>2. save.at = 2
    <3>1. save.at \in {2, 5}
      BY <1>6 DEF IInv, PointerOK, ReportId
    <3> QED BY <1>6, <2>1, <3>1 DEF Here, LineText, Name, NoToken
  <2>3. save'.at = 3
    BY <1>1, <1>6, <2>2, GoesOn DEF IInv, Separator
  <2> QED BY <1>6, <2>2, <2>3 DEF ReportId, Here, IInv, Shape
<1>7. ASSUME ReportSize, Undisturbed, Here(save) # NoToken, save.buffer = "line"
      PROVE  entry'.id = text["line"][2] /\ entry'.size = text["line"][3]
  <2>1. PICK n \in Sizes : text["line"] = LineText(n)
    BY <1>7 DEF IInv, TextsOK, ReportSize
  <2>2. save.at = 3 /\ entry.id = text["line"][2]
    <3>1. save.at \in {3, 5} /\ entry.id = text["line"][2]
      BY <1>7 DEF IInv, PointerOK, ReportSize
    <3> QED BY <1>7, <2>1, <3>1 DEF Here, LineText, Name, NoToken
  <2> QED BY <1>7, <2>2 DEF ReportSize, Here, IInv, Shape
<1>8. save'.buffer = save.buffer
  BY <1>1, OthersText
<1>9. PointerOK'
  BY <1>1, <1>4, <1>6, <1>8 DEF PointerOK, ReportId, ReportSize, ReportTime, ReportRest
<1>10. RightInOwnText'
  BY <1>1, <1>5, <1>7, <1>8 DEF RightInOwnText, ReportId, ReportSize, ReportTime, ReportRest
<1> QED BY <1>2, <1>3, <1>9, <1>10 DEF IInv

\* The rates of a report are taken from a text none of the invariant's claims is about.
LEMMA RateStep ==
  ASSUME IInv, ReportRate \/ ReportSent
  PROVE  IInv'
<1>1. UNCHANGED <<text, gpc, slot, entry, begun, wpc>> /\ rpc' \in {"Rate", "Pass"}
  BY DEF ReportRate, ReportSent, configVars, writerVars
<1>2. StrtokNext(".") \/ UNCHANGED save
  BY DEF ReportRate, ReportSent
<1>3. Shape' /\ save'.buffer = save.buffer
  BY <1>1, <1>2, GoesOn DEF IInv, Shape
<1>4. gpc = "Slot" /\ save'.buffer = "config1" => save'.at \in {2, 4}
  BY <1>1, <1>2, OthersText DEF IInv, PointerOK
<1> QED BY <1>1, <1>3, <1>4 DEF IInv, TextsOK, PointerOK, RightInOwnText, Undisturbed

\* While write_tun takes its rates no line of report_task is undisturbed, and for a
\* grant its calls are like those of report_task.
LEMMA WriterStep ==
  ASSUME IInv, WriterRate \/ WriterLoops
  PROVE  IInv'
<1>1. UNCHANGED <<text, gpc, slot, rpc, entry, begun>> /\ wpc = "Rate" /\ wpc' \in {"Rate", "Done"}
  BY DEF WriterRate, WriterLoops, configVars, reportVars
<1>2. StrtokNext(".") \/ UNCHANGED save
  BY DEF WriterRate, WriterLoops
<1>3. ~begun /\ ~Undisturbed'
  BY <1>1 DEF IInv, Shape, Undisturbed
<1>4. Shape' /\ save'.buffer = save.buffer
  BY <1>1, <1>2, <1>3, GoesOn DEF IInv, Shape
<1>5. gpc = "Slot" /\ save'.buffer = "config1" => save'.at \in {2, 4}
  BY <1>1, <1>2, OthersText DEF IInv, PointerOK
<1> QED BY <1>1, <1>3, <1>4, <1>5 DEF IInv, TextsOK, PointerOK, RightInOwnText

\* Each thread's pointer is at the token it wants, or used up, as long as it is in the
\* thread's own text and no call with the thread's separator came between: recv_config,
\* report_task with get_link_quality and write_tun with its own, any slots, any sizes,
\* any number of rates.
THEOREM InductiveInvariant == Spec => []IInv
<1>1. IInv /\ [Next]_vars => IInv'
  BY FillStep, StartStep, ConfigStep, ReportStep, RateStep, WriterStep, StutterIInv DEF Next
<1> QED BY InitIInv, <1>1, PTL DEF Spec

\* A slot that recv_config reads from the grant it has is the slot in it, whatever the
\* two threads that cut at dots do in between; and an output report_task reads from the
\* line it has is that line's output, unless write_tun, which asks for its rates once,
\* did so in the middle of the line.
THEOREM OwnTextIsRead == Spec => []RightInOwnText
  BY InductiveInvariant, PTL DEF IInv
=============================================================================
