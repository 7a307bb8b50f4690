------------------------------ MODULE Reporter ------------------------------
(***************************************************************************)
(* report_task of monitor.h line by line: the passes over mapsToSend.txt,  *)
(* which Hadoop appends to meanwhile, the list of the outputs that wait,   *)
(* the reports, and the life of the process around them.  Cluster takes a  *)
(* pass for one step and an output for a number; here the lines have       *)
(* identities and an order, may be met in two parts, and files may fail to *)
(* open: get_link_quality closes none of those it opens, for a report or   *)
(* at the start of write_tun, and reads through the NULL of one that is    *)
(* missing.  A pass holds qu_mutex2 from the first line to the last.       *)
(***************************************************************************)
EXTENDS Naturals, Sequences, FiniteSets

CONSTANTS
  Outputs,    \* bound: map outputs of the node
  Phantoms,   \* what is taken for the identity of an output in a part of a line
  MaxLines,   \* bound: lines Hadoop writes
  Halves,     \* bound: which of them it may write in two parts
  MaxFds      \* descriptors that get_link_quality can leak before fopen fails

\* Outputs have the numbers in which order the file first names them.
Output == 1 .. Outputs

ASSUME PhantomsAssumption == Phantoms \cap Output = {}
ASSUME BoundsAssumption == Outputs \in Nat /\ MaxLines \in Nat /\ MaxFds \in Nat \ {0}

VARIABLES
  file,     \* the lines of mapsToSend.txt, the last one perhaps not complete
  partial,  \* the last line is not complete
  speeds,   \* speed_log.txt exists
  opened,   \* write_tun has opened it
  pc,       \* where report_task is
  read, i,  \* lines that count as read; lines returned in this pass
  pos,      \* lines of the file this pass has begun
  midline,  \* fgets returned the beginning of a line last
  list,     \* pre_map_list
  reduce,   \* 1 when a reducer is known
  fast,     \* fast_update
  fds,      \* files get_link_quality has left open
  handled,  \* history: the lines this process has acted on, whole or in part
  torn,     \* history: this process has acted on a part of a line
  sent,     \* history: reports of this process
  told      \* the report that report_task has just sent

fileVars == <<file, partial, speeds, opened>>
passVars == <<read, i, pos, midline>>
listVars == <<list, reduce>>
reportVars == <<fds, sent, told>>
histVars == <<handled, torn>>
vars == <<fileVars, pc, passVars, listVars, fast, reportVars, histVars>>

Line == [type : {"announced", "fetched", "cleared"}, id : Output]
          \cup [type : {"reducer", "job done"}]
Entry == [id : Output \cup Phantoms, size : {0, 1}]
Named(f) == {f[k].id : k \in {j \in DOMAIN f : "id" \in DOMAIN f[j]}}
Orderly(f) == \A k \in DOMAIN f : \A o \in Named(<<f[k]>>) : o - 1 \in Named(SubSeq(f, 1, k - 1)) \cup {0}
Files == {f \in UNION {[1 .. len -> Line] : len \in 0 .. MaxLines} : Orderly(f)}
NoReport == [size |-> 0, reduce |-> 2]

TypeOK ==
  /\ file \in Seq(Line) /\ Len(file) <= MaxLines /\ Orderly(file)
  /\ partial \in BOOLEAN /\ (partial => file # <<>>)
  /\ speeds \in BOOLEAN /\ opened \in BOOLEAN
  /\ pc \in {"Open", "Read", "Test", "Report", "Reset", "Dead"}
  /\ pos \in 0 .. Len(file) /\ i \in pos .. 2 * pos /\ read \in 0 .. 2 * Len(file)
  /\ midline \in BOOLEAN /\ torn \in BOOLEAN
  /\ list \subseteq Entry /\ reduce \in {0, 1}
  /\ \A d, e \in list : d.id = e.id => d = e
  /\ fast \in BOOLEAN
  /\ fds \in 0 .. MaxFds /\ sent \in 0 .. MaxFds
  /\ handled \in Seq(1 .. Len(file))
  /\ told \in [size : Nat, reduce : {0, 1}] \cup {NoReport}

\* The files outlive the process: a process that is started again finds all
\* lines, and has read none.
Init ==
  /\ file \in Files
  /\ partial \in BOOLEAN /\ (partial => file # <<>> /\ Len(file) \in Halves)
  /\ speeds \in BOOLEAN /\ opened = FALSE
  /\ pc = "Open" /\ read = 0 /\ i = 0 /\ pos = 0 /\ midline = FALSE
  /\ list = {} /\ reduce = 0 /\ fast = FALSE
  /\ fds = 0 /\ handled = <<>> /\ torn = FALSE /\ sent = 0
  /\ told = NoReport

-----------------------------------------------------------------------------
(* Hadoop writes a line at once or in two parts.                           *)

Write(l) ==
  /\ ~partial /\ Len(file) < MaxLines
  /\ file' = Append(file, l) /\ Orderly(file')
  /\ partial' \in BOOLEAN /\ (partial' => Len(file') \in Halves)
  /\ UNCHANGED <<speeds, opened, pc, passVars, listVars, fast, reportVars, histVars>>

WriteRest ==
  /\ partial
  /\ partial' = FALSE
  /\ UNCHANGED <<file, speeds, opened, pc, passVars, listVars, fast, reportVars, histVars>>

Hadoop == (\E l \in Line : Write(l)) \/ WriteRest

-----------------------------------------------------------------------------
(* A report opens speed_log.txt; a pass has a file open besides.           *)

Size(l) == Cardinality({e \in l : e.size = 1})

\* A step without a report: the last one is on its way.
Quiet == told' = NoReport /\ UNCHANGED <<fds, sent>>

CanOpen(other) == fds + other < MaxFds

HasSpeeds(other) == speeds /\ CanOpen(other)

\* get_link_quality reads through the NULL of a failing fopen.
Die == pc' = "Dead" /\ Quiet

SendReport(l, r) ==
  /\ fds' = fds + 1
  /\ sent' = sent + 1
  /\ told' = [size |-> Size(l), reduce |-> r]

-----------------------------------------------------------------------------
(* A pass over the file.                                                   *)

Open ==
  /\ pc = "Open"
  /\ pc' = IF CanOpen(0) THEN "Read" ELSE "Dead"
  /\ Quiet
  /\ UNCHANGED <<fileVars, passVars, listVars, fast, histVars>>

\* The locals of a pass start from 0 in the next one.
Leave(n) ==
  /\ read' = n
  /\ i' = 0 /\ pos' = 0 /\ midline' = FALSE
  /\ pc' = "Test"

\* fgets returns the next line, or as much of it as has been written.
Fgets == pc = "Read" /\ ~midline /\ pos < Len(file)

Cut == partial /\ pos + 1 = Len(file)

Go == pos' = pos + 1 /\ i' = i + 1 /\ midline' = Cut /\ UNCHANGED read

\* Acting on a line that does not count as read.
Act(type) ==
  /\ Fgets /\ i + 1 > read /\ file[pos + 1].type = type
  /\ handled' = Append(handled, pos + 1)
  /\ torn' = (torn \/ Cut)
  /\ UNCHANGED <<fileVars, fast>>

\* What the tokens of the line may be, whole or cut; those of a rest say anything
\* but the identity of an output.  A size behind a cut is taken for 0.
Parsed ==
  LET whole == [id |-> file[pos + 1].id, size |-> 1]
  IN  IF Cut THEN {whole, [whole EXCEPT !.size = 0]} \cup [id : Phantoms, size : {0}]
                  ELSE {whole}

ParsedRest == [id : Phantoms, size : {0}]

Listed(id) == {e \in list : e.id = id}

SkipLine ==
  /\ Fgets /\ i + 1 <= read
  /\ Go
  /\ Quiet
  /\ UNCHANGED <<fileVars, pc, listVars, fast, histVars>>

\* A mistake the checks must notice: the list is not searched before
\* the output is appended.
ReadAnnouncedTwice ==
  /\ Act("announced") /\ Go
  /\ \E e \in Parsed : list' = list \cup {e}
  /\ Quiet
  /\ UNCHANGED <<pc, reduce>>

Announced(e) ==
  /\ list' = IF Listed(e.id) = {} THEN list \cup {e} ELSE list
  /\ Quiet
  /\ UNCHANGED <<pc, reduce>>

ReadAnnounced ==
  /\ Act("announced") /\ Go
  /\ \E e \in Parsed : Announced(e)

\* Whether the slot ends (slot = 0, see Forwarder!ReportStop) and a report is
\* due when an output has gone, for each kind of line.
Due(type, l) == reduce = 0 /\ (type = "fetched" \/ l = {})

\* A mistake the checks must notice: the report is sent before the output is
\* removed; and a line about an output that is not listed ends the slot as well.
ReadGoneReportsFirst(type) ==
  /\ Act(type) /\ Go
  /\ \E e \in Parsed :
       LET rest == list \ Listed(e.id)
       IN  /\ list' = rest
           /\ IF rest # list /\ Due(type, rest)
              THEN IF HasSpeeds(1) THEN SendReport(list, reduce) /\ UNCHANGED pc ELSE Die
              ELSE Quiet /\ UNCHANGED pc
  /\ UNCHANGED reduce

ReadGoneAnyway(type) ==
  /\ Act(type) /\ Go
  /\ \E e \in Parsed :
       LET rest == list \ Listed(e.id)
       IN  /\ list' = rest
           /\ IF Due(type, rest)
              THEN IF HasSpeeds(1) THEN SendReport(rest, reduce) /\ UNCHANGED pc ELSE Die
              ELSE Quiet /\ UNCHANGED pc
  /\ UNCHANGED reduce

Gone(type, e) ==
  LET rest == list \ Listed(e.id)
  IN  /\ list' = rest
      /\ IF rest # list /\ Due(type, rest)
         THEN IF HasSpeeds(1) THEN SendReport(rest, reduce) /\ UNCHANGED pc ELSE Die
         ELSE Quiet /\ UNCHANGED pc
      /\ UNCHANGED reduce

ReadGone(type) ==
  /\ Act(type) /\ Go
  /\ \E e \in Parsed : Gone(type, e)

\* The number is taken from a fixed place behind the second token: a part of a
\* line leads through NULL or to whatever the buffer holds there.
AnyReducer ==
  \/ reduce' \in {0, 1} /\ UNCHANGED pc
  \/ pc' = "Dead" /\ UNCHANGED reduce

ReadReducer ==
  /\ Act("reducer") /\ Go
  /\ IF Cut THEN AnyReducer ELSE reduce' = 1 /\ UNCHANGED pc
  /\ Quiet
  /\ UNCHANGED list

\* A mistake the checks must notice: what lies behind the line counts as read.
ReadJobDoneDropsRest ==
  /\ Act("job done") /\ Leave(Len(file))
  /\ reduce' = 0
  /\ Quiet
  /\ UNCHANGED list

\* This line ends the pass.
ReadJobDone ==
  /\ Act("job done") /\ Leave(i + 1)
  /\ reduce' = 0
  /\ Quiet
  /\ UNCHANGED list

\* The rest of a line, written since: it counts as a line more ...
Rest == pc = "Read" /\ midline /\ ~(partial /\ pos = Len(file))

GoRest == i' = i + 1 /\ midline' = FALSE /\ UNCHANGED <<read, pos>>

SkipRest ==
  /\ Rest /\ i + 1 <= read
  /\ GoRest
  /\ Quiet
  /\ UNCHANGED <<fileVars, pc, listVars, fast, histVars>>

\* ... and is parsed as one, from the middle: it may pass for any type of line, most
\* often for one about an output that is not listed.
ReadRest ==
  /\ Rest /\ i + 1 > read
  /\ handled' = Append(handled, pos) /\ torn' = TRUE
  /\ \/ GoRest /\ Quiet /\ UNCHANGED <<pc, listVars>>
     \/ GoRest /\ \E e \in ParsedRest :
          Announced(e) \/ Gone("fetched", e) \/ Gone("cleared", e)
     \/ GoRest /\ AnyReducer /\ Quiet /\ UNCHANGED list
     \/ Leave(i + 1) /\ reduce' = 0 /\ Quiet /\ UNCHANGED list
  /\ UNCHANGED <<fileVars, fast>>

\* A mistake the checks must notice: the file is not closed.
EndPassNoClose ==
  /\ pc = "Read" /\ (midline \/ pos = Len(file))
  /\ Leave(i)
  /\ fds' = fds + 1 /\ told' = NoReport
  /\ UNCHANGED <<fileVars, listVars, fast, sent, histVars>>

\* fgets returns NULL; after half a line it may do so for good (the end of
\* the file is remembered by newer C libraries).
EndPass ==
  /\ pc = "Read" /\ (midline \/ pos = Len(file))
  /\ Leave(i)
  /\ Quiet
  /\ UNCHANGED <<fileVars, listVars, fast, histVars>>

Pass ==
  \/ Open \/ SkipLine \/ ReadAnnounced \/ ReadGone("fetched") \/ ReadGone("cleared")
  \/ ReadReducer \/ ReadJobDone \/ SkipRest \/ ReadRest \/ EndPass

-----------------------------------------------------------------------------
(* The report after a beacon.                                              *)

\* A mistake the checks must notice: the next pass waits for a beacon.
TestFastWaits ==
  /\ pc = "Test" /\ fast
  /\ pc' = "Report"
  /\ Quiet
  /\ UNCHANGED <<fileVars, passVars, listVars, fast, histVars>>

TestFast ==
  /\ pc = "Test"
  /\ pc' = IF fast THEN "Report" ELSE "Open"
  /\ Quiet
  /\ UNCHANGED <<fileVars, passVars, listVars, fast, histVars>>

ReportNow ==
  /\ pc = "Report"
  /\ IF HasSpeeds(0) THEN SendReport(list, reduce) /\ pc' = "Reset" ELSE Die
  /\ UNCHANGED <<fileVars, passVars, listVars, fast, histVars>>

ResetFast ==
  /\ pc = "Reset"
  /\ fast' = FALSE
  /\ pc' = "Open"
  /\ Quiet
  /\ UNCHANGED <<fileVars, passVars, listVars, histVars>>

ReportTask == Pass \/ TestFast \/ ReportNow \/ ResetFast

-----------------------------------------------------------------------------
(* What else happens: a beacon (not during a pass); packet_rate writes     *)
(* speed_log.txt for the first time (what it does later matters to nobody  *)
(* here); write_tun starts, and asks for the rates once.                   *)

Beacon ==
  /\ pc \notin {"Read", "Dead"} /\ ~fast
  /\ fast' = TRUE
  /\ UNCHANGED <<fileVars, pc, passVars, listVars, reportVars, histVars>>

SpeedsAppear ==
  /\ ~speeds /\ pc # "Dead"
  /\ speeds' = TRUE
  /\ UNCHANGED <<file, partial, opened, pc, passVars, listVars, fast, reportVars, histVars>>

WriterOpens ==
  /\ ~opened /\ pc # "Dead"
  /\ IF HasSpeeds(IF pc = "Read" THEN 1 ELSE 0)
       THEN fds' = fds + 1 /\ opened' = TRUE /\ UNCHANGED pc
       ELSE pc' = "Dead" /\ UNCHANGED <<fds, opened>>
  /\ UNCHANGED <<file, partial, speeds, passVars, listVars, fast, sent, told, histVars>>

Next == Hadoop \/ ReportTask \/ Beacon \/ SpeedsAppear \/ WriterOpens

Spec == Init /\ [][Next]_vars
FairSpec == Spec /\ WF_vars(ReportTask)

-----------------------------------------------------------------------------
(* Properties.                                                             *)

Ids(l) == {e.id : e \in l}

\* What waits after the first n lines, from the lines alone.
Outstanding(n) ==
  {o \in Output : \E a \in 1 .. n :
     /\ file[a] = [type |-> "announced", id |-> o]
     /\ \A k \in a + 1 .. n : file[k] \notin [type : {"fetched", "cleared"}, id : {o}]}

\* The reducer after the first n lines, from the lines alone.
ReducerKnown(n) ==
  \E a \in 1 .. n : /\ file[a].type = "reducer"
                    /\ \A k \in a + 1 .. n : file[k].type # "job done"

\* No line of the file is acted on out of order, however passes and writes
\* interleave, through lines that end a pass and lines met in two parts; none is acted
\* on more often than it has parts; and a process that has met no half-written line acts
\* on each once and leaves none out.
LinesInOrder ==
  /\ \A k \in 2 .. Len(handled) : handled[k - 1] <= handled[k]
  /\ \A k \in 3 .. Len(handled) : handled[k - 2] < handled[k]
  /\ ~torn => \A k \in DOMAIN handled : handled[k] = k

\* While no line was met half-written, the list of report_task is what the
\* lines it has acted on leave outstanding, and what it reports is the number
\* of these and the reducer in force; also for a process that was started again
\* on a file that is not empty.
KnowsOutstanding ==
  ~torn /\ pc # "Dead" =>
    /\ Ids(list) = Outstanding(Len(handled))
    /\ told # NoReport =>
         /\ told.size = Cardinality(Outstanding(Len(handled)))
         /\ told.reduce = IF ReducerKnown(Len(handled)) THEN 1 ELSE 0

\* A process that has met no half-written line dies of its own only while packet_rate
\* has not written speed_log.txt yet, or when all the descriptors but one are gone, each
\* to a report or to write_tun.
Leaks == sent + (IF opened THEN 1 ELSE 0)

LivesLong == pc = "Dead" /\ ~torn => ~speeds \/ Leaks >= MaxFds - 1

\* A line acted on is behind the pass or behind the mark: the mark counts parts of
\* lines, but a part is met only at the end of the file, behind all of these.  A line
\* acted on twice has no part left.
BehindUs ==
  /\ \A k \in DOMAIN handled : handled[k] <= read \/ handled[k] <= pos
  /\ i > pos \/ midline => \A k \in DOMAIN handled : handled[k] <= pos
  /\ midline => i + 1 <= 2 * pos
  /\ pc \notin {"Read", "Dead"} => pos = 0
  /\ \A k \in 2 .. Len(handled) : handled[k - 1] = handled[k] =>
       ~(partial /\ handled[k] = Len(file)) /\ ~(midline /\ handled[k] = pos)

\* While no half was met the mark counts lines, and the list is as exact.
WholeLines ==
  ~torn =>
    /\ ~midline /\ i = pos
    /\ partial => Len(handled) < Len(file)
    /\ Len(handled) = IF read >= pos THEN read ELSE pos
    /\ \A e \in list : e.size = 1
    /\ Ids(list) = Outstanding(Len(handled))
    /\ reduce = IF ReducerKnown(Len(handled)) THEN 1 ELSE 0

\* What makes the properties above inductive.
IInv ==
  /\ TypeOK /\ BehindUs /\ WholeLines
  /\ LinesInOrder /\ KnowsOutstanding /\ LivesLong
  /\ IsFiniteSet(list)
  /\ fds = Leaks

\* A slot is cut short (and the early report sent) only by a line that takes
\* an output off what is outstanding while no reducer is known: a line that is
\* repeated, or about an output this node never had, costs no slot.
CutShort ==
  [][pc = "Read" /\ sent' # sent /\ ~torn' =>
       /\ Outstanding(Len(handled')) # Outstanding(Len(handled))
       /\ ~ReducerKnown(Len(handled))]_vars

\* report_task catches up with Hadoop, also with the lines behind one that ends the
\* pass, unless half a line was met or the process died.  Hadoop stops after MaxLines, so
\* this says that every line is acted on.
LinesAreRead == []<>(Len(handled) = Len(file) \/ torn \/ pc = "Dead")
=============================================================================
