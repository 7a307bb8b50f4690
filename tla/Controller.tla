----------------------------- MODULE Controller -----------------------------
(***************************************************************************)
(* The task monitor, QuickStart.java: three requests to Hadoop, each of    *)
(* which may fail and is then only reported, the choice of the reducer's   *)
(* node, and the time windows that are published for it again and again.   *)
(* An operator runs it once for each job, and ends its last loop.          *)
(***************************************************************************)
EXTENDS Naturals, Sequences

CONSTANTS
  clusterSize, \* nodes have the numbers 1 .. clusterSize (5 in the code)
  Base,      \* tAlloc: ends of the windows, Base[0] = 0
  Shorten,   \* what is taken off from the reducer's node on (800)
  Attempts   \* where the reduce attempts of the job run, as Hadoop lists them

\* An attempt that has no node yet; such attempts come without the field.
NoNode == 0

\* The windows are wider than what is taken off.
ASSUME WindowAssumption ==
  /\ clusterSize \in Nat \ {0} /\ Shorten \in Nat
  /\ Base \in [0 .. clusterSize -> Nat] /\ Base[0] = 0
  /\ \A j, k \in 0 .. clusterSize : j < k => Base[j] + Shorten < Base[k]

ASSUME AttemptsAssumption == Attempts \in Seq(Nat)

VARIABLES
  cpc,      \* where the program is
  appId,    \* an application that runs was found
  jobId,    \* a job of it was found
  attempts, \* which of the reduce attempts were received
  rNodeId   \* the node of the reducer

controllerVars == <<cpc, appId, jobId, attempts, rNodeId>>

ControllerTypeOK ==
  /\ cpc \in {"Apps", "Jobs", "Tasks", "Pick", "Publish", "Exited", "Threw"}
  /\ appId \in BOOLEAN /\ jobId \in BOOLEAN
  /\ attempts \subseteq DOMAIN Attempts
  /\ rNodeId \in Nat

ControllerInit ==
  /\ cpc = "Apps" /\ appId = FALSE /\ jobId = FALSE
  /\ attempts = {} /\ rNodeId = 0

-----------------------------------------------------------------------------

\* The answer may be missing, not JSON, or name nothing that runs.
AskApps ==
  /\ cpc = "Apps"
  /\ appId' \in BOOLEAN
  /\ cpc' = "Jobs"
  /\ UNCHANGED <<jobId, attempts, rNodeId>>

\* The URL has no application in it when none was found.
AskJobs ==
  /\ cpc = "Jobs"
  /\ jobId' \in {FALSE, appId}
  /\ cpc' = "Tasks"
  /\ UNCHANGED <<appId, attempts, rNodeId>>

\* One request per task: one may be answered by something that is not JSON
\* and one that throws ends the loop; what was received before stays.
AskTasks ==
  /\ cpc = "Tasks"
  /\ attempts' \in IF jobId THEN SUBSET DOMAIN Attempts ELSE {{}}
  /\ cpc' = "Pick"
  /\ UNCHANGED <<appId, jobId, rNodeId>>

\* The last reduce attempt counts. Without any, nodeId is an empty string and
\* not null, and taking the number out of it throws. Nothing reads the list
\* any more.
PickReducer ==
  /\ cpc = "Pick"
  /\ \/ attempts = {} /\ cpc' = "Threw" /\ UNCHANGED rNodeId
     \/ \E k \in attempts :
          /\ \A j \in attempts : j <= k
          /\ IF Attempts[k] = NoNode
             THEN cpc' = "Exited" /\ UNCHANGED rNodeId
             ELSE cpc' = "Publish" /\ rNodeId' = Attempts[k]
  /\ attempts' = {}
  /\ UNCHANGED <<appId, jobId>>

\* arrToSend: its first element is never assigned.
Windows(r) ==
  [k \in 0 .. clusterSize |-> IF k = 0 THEN 0 ELSE IF k >= r THEN Base[k] - Shorten ELSE Base[k]]

Request == AskApps \/ AskJobs \/ AskTasks \/ PickReducer
=============================================================================
