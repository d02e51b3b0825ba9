----------------------------- MODULE MCOperation -----------------------------
(* An instance for TLC of three components that start, stop and change what     *)
(* runs: removing contacts from the radio, the daemon's processes and their      *)
(* socket, and updates of the program.  They share no variable, so a behaviour   *)
(* is about one of them, its part, and the others keep their initial values: one *)
(* run checks each as a run of its own would.                                   *)
EXTENDS NodeRemoval, Daemons, Installations

CONSTANTS
  Client, Overlap, StopAtOnce, MaxRequests,                   \* DaemonLifecycle
  Version, Channel, Stable, SchemaOf, Damaged, Partial        \* Updating

\* No version brings another schema.
OneSchema == [v \in Version |-> 5]

VARIABLES
  part,
  listening, found, identity, stopping, asking, serving, shut, client,
  requests

processVars == <<path, proc, listening, found, identity, stopping, asking, serving, shut, client,
                 requests>>
updateVars == <<site, link, release, settings, schema, daemon, up, before>>
everything == <<part, vars, processVars, updateVars>>

D == INSTANCE DaemonLifecycle
U == INSTANCE Updating

InitPart == part \in {"removal", "processes", "updates"} /\ Init /\ D!Init /\ U!Init

OnlyRemoval == UNCHANGED <<part, processVars, updateVars>>
OnlyProcesses == UNCHANGED <<part, vars, updateVars>>
OnlyUpdates == UNCHANGED <<part, vars, processVars>>

NextPart ==
  \/ part = "removal" /\ Next /\ OnlyRemoval
  \/ part = "processes" /\ D!Next /\ OnlyProcesses
  \/ part = "updates" /\ U!Next /\ OnlyUpdates

\* What the three modules assume in their FairSpec.
Fairness ==
  /\ \A b \in Batch : WF_everything(part = "removal" /\ Worker(b) /\ OnlyRemoval)
  /\ \A d \in Daemon :
       /\ WF_everything(part = "processes" /\ D!Process(d) /\ OnlyProcesses)
       /\ WF_everything(part = "processes" /\ D!Shutdown(d) /\ OnlyProcesses)
  /\ WF_everything(part = "updates" /\ (U!Install \/ U!Undo \/ U!Update) /\ OnlyUpdates)

SpecPart == InitPart /\ [][NextPart]_everything /\ Fairness

-----------------------------------------------------------------------------
(* The components' properties, where they are stated and explained;           *)
(* RemovalIsOrderly is that of Removals, OneDaemon that of Daemons, and       *)
(* InstallationIsWhole that of Installations.                                 *)

TypesOK ==
  /\ part = "removal" => TypeOK
  /\ part = "processes" => D!TypeOK
  /\ part = "updates" => U!TypeOK

\* A contact is reported as removed only if the radio has lacked it since, and only the version
\* the user confirmed is installed (_remove_nodes_worker, apply_update).
ReportsAreTrue == RemovedWasAbsent /\ U!OnlyWhatWasConfirmed

\* Batches and stops end, and an update leaves the service running.
OperationsEnd == BatchesEnd /\ D!StopIsObeyed /\ U!ServiceComesBack
=============================================================================
