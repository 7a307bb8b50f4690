------------------------------- MODULE Tokens --------------------------------
(***************************************************************************)
(* strtok keeps one pointer for the whole process, and three threads of a  *)
(* slave use it with no lock in common: recv_config takes a grant apart at *)
(* commas, report_task lines of mapsToSend.txt and of speed_log.txt at     *)
(* dots, and so does write_tun with speed_log.txt, once, when it starts.   *)
(* A call goes on wherever the last call of any thread stopped.            *)
(***************************************************************************)
EXTENDS Naturals, Sequences

CONSTANTS
  Slots, \* slots the master grants
  Sizes, \* sizes of outputs
  Rates  \* numbers in the line of speed_log.txt (9 in the code)

VARIABLES
  text,  \* text[b]: the fields in buffer b
  save,  \* the pointer strtok keeps: a buffer and the field to go on with
  gpc,   \* where recv_config is
  slot,  \* its slot
  rpc,   \* where report_task is
  entry, \* the output it reads: identity and size
  i,     \* the rate get_link_quality reads next
  token, \* its last token was one
  wpc,   \* where write_tun is in its own get_link_quality
  w,     \* the rate that one reads next, and whether its last token was one
  begun  \* history: report_task began its line after write_tun had its rates

configVars == <<gpc, slot>>
rateVars == <<i, token>>
reportVars == <<rpc, entry, begun, rateVars>>
writerVars == <<wpc, w>>
vars == <<text, save, configVars, reportVars, writerVars>>

\* Each call of get_link_quality has its line on the stack of its thread.
Buffer == {"config1", "line", "speeds", "wspeeds"}
Separator(b) == IF b = "config1" THEN "," ELSE "."

\* Names are read as the number 0, and what is no field as none.
Name(field) == [what |-> field, num |-> 0]
NoToken == Name("none")
NoEntry == [id |-> NoToken, size |-> NoToken]
GrantText(s) == <<Name("node"), [what |-> "slot", num |-> s], Name("priority")>>
LineText(n) == <<Name("type"), Name("id"), [what |-> "size", num |-> n], Name("time")>>
RateText == [j \in 1 .. Rates |-> Name("rate")]

-----------------------------------------------------------------------------
(* strtok.                                                                 *)

\* The token where the pointer stands: its first field, which is what atoi reads.
Here(sv) == IF sv.at > Len(text[sv.buffer]) THEN NoToken ELSE text[sv.buffer][sv.at]

\* With the other separator the token is all that is left of the text.
Past(sv, separator) ==
  IF separator = Separator(sv.buffer) THEN [sv EXCEPT !.at = @ + 1]
  ELSE [sv EXCEPT !.at = Len(text[sv.buffer]) + 1]

Strtok(b, separator) == save' = Past([buffer |-> b, at |-> 1], separator)
StrtokNext(separator) == save' = IF Here(save) = NoToken THEN save ELSE Past(save, separator)

Init ==
  /\ text = [b \in Buffer |-> <<>>]
  /\ save = [buffer |-> "config1", at |-> 1]
  /\ gpc = "Recv" /\ slot = 0
  /\ rpc = "Pass" /\ entry = NoEntry
  /\ i = 1 /\ token = TRUE /\ begun = FALSE
  /\ wpc = "Start" /\ w = [i |-> 1, token |-> TRUE]

-----------------------------------------------------------------------------
(* recv_config.                                                            *)

ConfigRecv ==
  /\ gpc = "Recv" /\ gpc' = "Node"
  /\ \E s \in Slots : text' = [text EXCEPT !["config1"] = GrantText(s)]
  /\ UNCHANGED <<save, slot, reportVars, writerVars>>

ConfigNode ==
  /\ gpc = "Node" /\ gpc' = "Slot"
  /\ Strtok("config1", ",")
  /\ UNCHANGED <<text, slot, reportVars, writerVars>>

\* atoi of no token ends the process.
ConfigSlot ==
  /\ gpc = "Slot"
  /\ gpc' = IF Here(save) = NoToken THEN "Dead" ELSE "Priority"
  /\ slot' = Here(save).num
  /\ StrtokNext(",")
  /\ UNCHANGED <<text, reportVars, writerVars>>

\* The countdown and the acknowledgement follow.
ConfigPriority ==
  /\ gpc = "Priority" /\ gpc' = "Recv"
  /\ slot' = 0
  /\ StrtokNext(",")
  /\ UNCHANGED <<text, reportVars, writerVars>>

-----------------------------------------------------------------------------
(* report_task: lines that name an output, then the rates for the report.   *)

ReportLine ==
  /\ rpc = "Pass" /\ rpc' = "Type"
  /\ \E n \in Sizes : text' = [text EXCEPT !["line"] = LineText(n)]
  /\ entry' = NoEntry
  /\ UNCHANGED <<save, configVars, writerVars, begun, rateVars>>

ReportType ==
  /\ rpc = "Type" /\ rpc' = "Id"
  /\ begun' = (wpc = "Done")
  /\ Strtok("line", ".")
  /\ UNCHANGED <<text, configVars, writerVars, entry, rateVars>>

ReportId ==
  /\ rpc = "Id"
  /\ rpc' = IF Here(save) = NoToken THEN "Dead" ELSE "Size"
  /\ entry' = [entry EXCEPT !.id = Here(save)]
  /\ StrtokNext(".")
  /\ UNCHANGED <<text, configVars, writerVars, begun, rateVars>>

ReportSize ==
  /\ rpc = "Size"
  /\ rpc' = IF Here(save) = NoToken THEN "Dead" ELSE "Time"
  /\ entry' = [entry EXCEPT !.size = Here(save)]
  /\ StrtokNext(".")
  /\ UNCHANGED <<text, configVars, writerVars, begun, rateVars>>

\* The time, and the field behind it, are not used.
ReportTime ==
  /\ rpc = "Time" /\ rpc' = "Rest"
  /\ StrtokNext(".")
  /\ UNCHANGED <<text, configVars, writerVars, begun, entry, rateVars>>

ReportRest ==
  /\ rpc = "Rest" /\ rpc' \in {"Pass", "Rates"}
  /\ StrtokNext(".")
  /\ UNCHANGED <<text, configVars, writerVars, begun, entry, rateVars>>

\* get_link_quality: the first rate is skipped.
ReportRates ==
  /\ rpc = "Rates" /\ rpc' = "Rate"
  /\ text' = [text EXCEPT !["speeds"] = RateText]
  /\ save' = Past([buffer |-> "speeds", at |-> 1], ".")
  /\ i' = 1 /\ token' = TRUE
  /\ UNCHANGED <<configVars, writerVars, begun, entry>>

\* After a token that was none the rates stay what they were.
ReportRate ==
  /\ rpc = "Rate" /\ i < Rates
  /\ i' = i + 1
  /\ token' = (token /\ Here(save) # NoToken)
  /\ IF token THEN StrtokNext(".") ELSE UNCHANGED save
  /\ UNCHANGED <<text, configVars, writerVars, begun, rpc, entry>>

ReportSent ==
  /\ rpc = "Rate" /\ i = Rates /\ rpc' = "Pass"
  /\ UNCHANGED <<text, save, configVars, writerVars, begun, entry, rateVars>>

-----------------------------------------------------------------------------
(* write_tun: the rates it asks for before its loop, and makes no use of.   *)

WriterRates ==
  /\ wpc = "Start" /\ wpc' = "Rate"
  /\ text' = [text EXCEPT !["wspeeds"] = RateText]
  /\ save' = Past([buffer |-> "wspeeds", at |-> 1], ".")
  /\ UNCHANGED <<configVars, reportVars, w>>

WriterRate ==
  /\ wpc = "Rate" /\ w.i < Rates
  /\ w' = [i |-> w.i + 1, token |-> w.token /\ Here(save) # NoToken]
  /\ IF w.token THEN StrtokNext(".") ELSE UNCHANGED save
  /\ UNCHANGED <<text, configVars, reportVars, wpc>>

WriterLoops ==
  /\ wpc = "Rate" /\ w.i = Rates /\ wpc' = "Done"
  /\ UNCHANGED <<text, save, configVars, reportVars, w>>

Alive == gpc # "Dead" /\ rpc # "Dead"

Next ==
  /\ Alive
  /\ \/ ConfigRecv \/ ConfigNode \/ ConfigSlot \/ ConfigPriority
     \/ ReportLine \/ ReportType \/ ReportId \/ ReportSize \/ ReportTime
     \/ ReportRest \/ ReportRates \/ ReportRate \/ ReportSent
     \/ WriterRates \/ WriterRate \/ WriterLoops

Spec == Init /\ [][Next]_vars

-----------------------------------------------------------------------------

\* The comments of report_task say which token is which: an output that is
\* listed has the identity and the size that stand in its line, whatever grant
\* arrives meanwhile, also when write_tun is through with its rates.
TokensAreFields ==
  begun /\ rpc = "Time" => entry.id = text["line"][2] /\ entry.size = text["line"][3]

\* No call of write_tun has come between report_task's calls for this line.
Undisturbed == wpc = "Start" \/ begun

\* Against a thread with the other separator the pointer's text tells: recv_config has
\* its slot right if its last call found the pointer in the grant, and report_task its
\* output if it found it in the line and write_tun, which cuts at dots as well, did not
\* come between.  So but for the start of write_tun, a number goes wrong only because
\* the pointer was taken to another text.
RightInOwnText ==
  /\ Undisturbed /\ rpc = "Time" /\ save.buffer = "line" =>
       entry.id = text["line"][2] /\ entry.size = text["line"][3]
  /\ gpc = "Priority" /\ save.buffer = "config1" => slot = text["config1"][2].num

\* The texts the threads are taking apart.
TextsOK ==
  /\ rpc \in {"Type", "Id", "Size", "Time"} => \E n \in Sizes : text["line"] = LineText(n)
  /\ gpc \in {"Node", "Slot", "Priority"} => \E s \in Slots : text["config1"] = GrantText(s)

\* The pointer is at the token its thread wants, or the other one used it up.
PointerOK ==
  /\ Undisturbed /\ rpc = "Id" /\ save.buffer = "line" => save.at \in {2, 5}
  /\ Undisturbed /\ rpc = "Size" /\ save.buffer = "line" =>
       save.at \in {3, 5} /\ entry.id = text["line"][2]
  /\ gpc = "Slot" /\ save.buffer = "config1" => save.at \in {2, 4}

\* What the variables are made of.
Shape ==
  /\ DOMAIN text = Buffer
  /\ save = [buffer |-> save.buffer, at |-> save.at] /\ save.buffer \in Buffer
  /\ entry = [id |-> entry.id, size |-> entry.size]
  /\ begun \in BOOLEAN /\ (begun => wpc = "Done")

\* What makes RightInOwnText inductive.
IInv == Shape /\ TextsOK /\ PointerOK /\ RightInOwnText
=============================================================================
