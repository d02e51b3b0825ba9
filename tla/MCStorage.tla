------------------------------ MODULE MCStorage ------------------------------
(* An instance for TLC of three components that keep the database: the split    *)
(* into a file for each gateway, the migrations of one file's schema, and the   *)
(* messages with their conversations.  They share no variable, so a behaviour   *)
(* is about one of them, its part, and the others keep their initial values: one *)
(* run checks each as a run of its own would.                                   *)
EXTENDS Naturals, GatewayFiles, LegacyRows, Conversations

CONSTANTS
  Direct, Alike, MaxFailures,                                             \* SchemaMigration
  ChannelOf, Transport, MaxHears, MaxCloses, MaxClears, MaxReconnects,    \* MessageStore
  Received,             \* the message of every observation
  Public, Second, Node  \* a public packet, one on a second channel, the sender of the others

\* A message sent in a direct conversation, and one received twice.
TwoReceptions == [x \in Observation |-> Received]
OneRequest == [x \in Action |-> Out]
\* Two direct messages of one peer, on two channels, and a public one.
Parties == [x \in Packet |-> IF x = Public THEN "public" ELSE Node]
TwoChannels == [x \in Packet |-> IF x = Second THEN 1 ELSE 0]

VARIABLES
  part,
  pc, failures,                            \* SchemaMigration
  bound, active, sync, received, budget    \* MessageStore

fileVars == <<legacy, tooNew, snapshot, upgraded, file, at, databases, written, cleared,
              confirmed, late, crashes>>
schemaVars == <<db, tx, pc, found, failures>>
messageVars == <<rows, closed, bound, active, sync, received, heard, quiet, budget>>
everything == <<part, fileVars, schemaVars, messageVars>>

S == INSTANCE SchemaMigration
M == INSTANCE MessageStore

InitPart ==
  /\ part \in {"files", "schema", "messages"}
  /\ Init /\ S!Init /\ M!Init
  /\ part # "files" => legacy = NoFile
  /\ part # "schema" =>
       /\ db.version = 6 /\ db.live = <<>>
       /\ (\A x \in Direct : found.sender[x] = None) /\ found.alike = {} /\ found.keyed = Direct
  /\ part # "messages" => rows = {}

OnlyFiles == UNCHANGED <<part, schemaVars, messageVars>>
OnlySchema == UNCHANGED <<part, fileVars, messageVars>>
OnlyMessages == UNCHANGED <<part, fileVars, schemaVars>>

NextPart ==
  \/ part = "files" /\ Next /\ OnlyFiles
  \/ part = "schema" /\ S!Next /\ OnlySchema
  \/ part = "messages" /\ M!Next /\ OnlyMessages

\* What the three modules assume in their FairSpec.
Fairness ==
  /\ WF_everything(
       \/ part = "files" /\ Initialize /\ OnlyFiles
       \/ part = "schema" /\ S!Open /\ OnlySchema
       \/ part = "messages" /\ M!Sync /\ OnlyMessages)
  /\ WF_everything(part = "messages" /\ M!Bind /\ OnlyMessages)
  /\ WF_everything(part = "messages" /\ M!Insert /\ OnlyMessages)

SpecPart == InitPart /\ [][NextPart]_everything /\ Fairness

-----------------------------------------------------------------------------
(* The components' properties, where they are stated and explained.           *)

TypesOK ==
  /\ part = "files" => TypeOK
  /\ part = "schema" => S!TypeOK
  /\ part = "messages" => M!TypeOK

\* Splitting, migrating and binding all end.
StorageSettles ==
  /\ []<>(part = "files" => SplitEnded)
  /\ []<>(part = "schema" => S!Opened)
  /\ M!ProvisionalEnds
=============================================================================
