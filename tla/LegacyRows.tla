------------------------------ MODULE LegacyRows ------------------------------
(* The rows of a database file that was written by an older release, and what    *)
(* opening it promises of them (Database.initialize).  The steps are in          *)
(* SchemaMigration, which says what a row is abstracted to.                      *)
EXTENDS Naturals

CONSTANTS
  None,
  Message, Out,               \* messages; those that were sent
  Observation, MessageOf,     \* message_observations and the message of each
  Sample,                     \* telemetry_samples and positions
  Action, PacketsOf,          \* node_actions, and the messages with their packet id
  ConversationMark,           \* archived_conversation_ids
  Nameless                    \* nodes, archived_conversations

\* Each row is of one table; observations have a message, and actions packets of messages.
ASSUME TablesAssumption ==
  /\ Out \subseteq Message
  /\ MessageOf \in [Observation -> Message] /\ PacketsOf \in [Action -> SUBSET Message]
  /\ Message \cap (Observation \cup Sample \cup Action \cup ConversationMark \cup Nameless) = {}
  /\ Observation \cap (Sample \cup Action \cup ConversationMark \cup Nameless) = {}
  /\ Sample \cap (Action \cup ConversationMark \cup Nameless) = {}
  /\ Action \cap (ConversationMark \cup Nameless) = {}
  /\ ConversationMark \cap Nameless = {}

VARIABLES
  db,      \* what is committed: version, live rows with their gateway, legacy records
  tx,      \* the uncommitted copy inside the transaction
  found    \* (constant) the file as it was found, with what is not in its live rows

Current == 5
AnyRow == Message \cup Observation \cup Sample \cup Action \cup ConversationMark \cup Nameless
Live(d) == DOMAIN d.live

----------------------------------------------------------------------------
\* Every row of the file is live or kept aside, and never both, in every step of the
\* migration and whatever was interrupted:
\* DEVELOPMENT.md:230-232 (initialize, _migrate_scope_schema).
EveryRowOnce ==
  \A d \in {db, tx} : Live(d) \cup d.legacy = AnyRow /\ Live(d) \cap d.legacy = {}

\* Until the new version is on disk the file is the one that was found; a file of a newer
\* release is never changed (initialize, tests/test_security_regressions.py:28).
OldUntilDone == db.version # Current => db = found.db

\* What a row and its relatives in the file as found say of its gateway.
Witness(m) == {found.db.live[o] : o \in {p \in Observation : MessageOf[p] = m}} \ {None}
Named(m) ==
  IF found.db.live[m] # None THEN {found.db.live[m]}
  ELSE IF found.db.version < 3 /\ m \in Out /\ found.sender[m] # None THEN {found.sender[m]}
  ELSE Witness(m)

\* A message, sample or action is only given to a gateway that was the only one it could
\* belong to: "Historikk som ikkje trygt kan bindast til ein lokal node, blir bevart som
\* leseorienterte legacy-rader", DEVELOPMENT.md:230-232.
OnlyProved ==
  found.db.version < 4 /\ db.version = Current =>
    \A r \in Live(db) :
      /\ r \in Message => Named(r) = {db.live[r]}
      /\ r \in Sample \cup ConversationMark => found.db.live[r] = db.live[r] /\ db.live[r] # None
      /\ r \in Action => UNION {Named(m) : m \in PacketsOf[r] \cap Out \cap Live(db)} = {db.live[r]}

\* What initialize promises of the file, whichever version it finds and whatever interrupts it.
MigrationIsSafe == EveryRowOnce /\ OldUntilDone /\ OnlyProved
==============================================================================
