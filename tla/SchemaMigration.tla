--------------------------- MODULE SchemaMigration ---------------------------
(* Opening a database file of an older release (Database.initialize): its rows   *)
(* are bound to the local node they provably belong to, or kept aside as legacy  *)
(* records, in one transaction that ends with the new schema version.            *)
(*                                                                              *)
(* A row is abstracted to what it says of its gateway: messages and their        *)
(* observations have a column, samples (telemetry, positions) the gateway that   *)
(* received them, closed conversation ids name it, node actions have a packet    *)
(* id, nodes and closed peers say nothing.  Retention and indexes are left out.  *)
EXTENDS FiniteSets, LegacyRows

CONSTANTS
  Gateway,
  Direct,         \* direct messages
  Alike,          \* observations that may differ in nothing but their gateway
  MaxFailures     \* bound on interruptions

VARIABLES
  pc,      \* the step of initialize
  failures

vars == <<db, tx, pc, found, failures>>

Table == {Message, Observation, Sample, Action, ConversationMark, Nameless}
Owner == Gateway \cup {None}

TypeOK ==
  /\ \A d \in {db, tx} :
       /\ d.version \in {1, 2, 3, 4, Current, 6}
       /\ Live(d) \subseteq AnyRow /\ \A r \in Live(d) : d.live[r] \in Owner
       /\ d.legacy \subseteq AnyRow
       /\ \A o, q \in Live(d) \cap found.alike :         \* message_observation_identity
            o # q /\ MessageOf[o] = MessageOf[q] => d.live[o] # d.live[q]
  /\ pc \in {"closed", "schema", "messages", "nodes", "owners", "unowned", "observations",
             "samples", "actions", "marks", "reconcile", "commit", "open", "refused", "failed"}
  /\ failures \in 0..MaxFailures

Silent == Action \cup Nameless

\* A release that knows the scopes (version 4) has bound or kept aside every row.
Init ==
  /\ \E version \in {1, 2, 3, 4, 6}, says \in [AnyRow \ Silent -> Owner],
        sender \in [Out -> Owner], keyed \in SUBSET (Message \ Direct), alike \in {{}, Alike} :
       /\ \A o, q \in alike : o # q /\ MessageOf[o] = MessageOf[q] => says[o] # says[q]
       /\ version = 1 => keyed = {} /\ \A r \in Message \cup Observation : says[r] = None
       /\ LET known == {r \in AnyRow \ Silent : says[r] # None}
                         \ {o \in Observation : says[o] # says[MessageOf[o]]}
          IN db = IF version < 4
                  THEN [version |-> version, legacy |-> {},
                        live |-> [r \in AnyRow |-> IF r \in Silent THEN None ELSE says[r]]]
                  ELSE [version |-> version, legacy |-> AnyRow \ known,
                        live |-> [r \in known |-> says[r]]]
       /\ found = [db |-> db, sender |-> sender, alike |-> alike,
                  keyed |-> keyed \cup Direct]
  /\ tx = db /\ pc = "closed" /\ failures = 0

----------------------------------------------------------------------------
(* initialize before its transaction.                                        *)

\* The version is read before the file is touched.
Check ==
  /\ pc \in {"closed", "failed"}
  /\ pc' = IF db.version > Current THEN "refused" ELSE "schema"
  /\ UNCHANGED <<db, tx, found, failures>>

\* executescript(SCHEMA) creates what is missing; BEGIN IMMEDIATE.
Begin ==
  /\ pc = "schema" /\ tx' = db
  /\ pc' = IF db.version < Current THEN "messages" ELSE "commit"
  /\ UNCHANGED <<db, found, failures>>

----------------------------------------------------------------------------
(* The steps of the transaction, each a function of the uncommitted copy.     *)

Bound(d, S, owner) == [d EXCEPT !.live = [r \in Live(d) |-> IF r \in S THEN owner[r] ELSE @[r]]]
Kept(d, S) == [d EXCEPT !.legacy = @ \cup S]               \* _preserve_unscoped_rows
Deleted(d, S) == [d EXCEPT !.live = [r \in Live(d) \ S |-> @[r]]]
Moved(d, S) == Deleted(Kept(d, S), S)
Unowned(d, S) == {r \in Live(d) \cap S : d.live[r] = None}

\* _migrate_message_schema: sent messages name their gateway.
Senders(d) ==
  IF d.version >= 3 THEN d
  ELSE Bound(d, Unowned(d, Out), found.sender)

\* A public message of version 1 gets a channel key.
Keyed(m) == m \in found.keyed \/ tx.version < 2

\* Mutant: the least of several gateways is taken.
SingleOrAny(S) == IF S \ {None} # {} THEN CHOOSE g \in S : g # None ELSE None
\* The only gateway that S names, if it names only one.
Single(S) == IF \E g \in S : S \ {None} = {g} THEN CHOOSE g \in S : g # None ELSE None
ObservationsOf(d, m) == {o \in Live(d) \cap Observation : MessageOf[o] = m}

Owners(d) ==
  LET unowned == Unowned(d, Message)
  IN Bound(d, unowned, [m \in unowned |-> Single({d.live[o] : o \in ObservationsOf(d, m)})])

Doubtful(d) == {m \in Live(d) \cap Message : d.live[m] = None \/ ~Keyed(m)}

\* Mutant: the observations go with their message, and nobody keeps them.
UnscopedMessagesAlone(d) ==
  LET gone == Doubtful(d)
  IN Deleted(Kept(d, gone), gone \cup UNION {ObservationsOf(d, m) : m \in gone})
\* A message that cannot be bound is kept aside with its observations.
UnscopedMessages(d) ==
  LET gone == Doubtful(d) IN Moved(d, gone \cup UNION {ObservationsOf(d, m) : m \in gone})

\* An observation belongs to the gateway of its message.
Observations(d) ==
  LET live == Live(d) \cap Observation IN Bound(d, live, [o \in live |-> d.live[MessageOf[o]]])
Collide(d) ==
  \E o, q \in Live(d) \cap found.alike : o # q /\ MessageOf[o] = MessageOf[q]

Samples(d) == Moved(d, Unowned(d, Sample))

Actions(d) ==
  LET live == Live(d) \cap Action
      bound == Bound(d, live,
                 [x \in live |-> Single({d.live[m] : m \in PacketsOf[x] \cap Out \cap Live(d)})])
  IN Moved(bound, Unowned(bound, Action))

Marks(d) == Moved(d, Unowned(d, ConversationMark) \cup (Live(d) \cap Nameless))

Step(at, next, d) ==
  /\ pc = at /\ pc' = next /\ tx' = d
  /\ UNCHANGED <<db, found, failures>>

MigrateMessages ==
  Step("messages", IF tx.version < 4 THEN "nodes" ELSE "commit", Senders(tx))
MigrateNodes == Step("nodes", "owners", Moved(tx, Live(tx) \cap Nameless))
MigrateOwners == Step("owners", "unowned", Owners(tx))
MigrateUnowned == Step("unowned", "observations", UnscopedMessages(tx))
MigrateObservations == ~Collide(tx) /\ Step("observations", "samples", Observations(tx))
MigrateSamples == Step("samples", "actions", Samples(tx))
MigrateActions == Step("actions", "marks", Actions(tx))
MigrateMarks == Step("marks", "reconcile", Marks(tx))

\* Every table has as many rows as before, live or kept aside.
Agrees ==
  \A T \in Table : Cardinality(T \cap Live(db)) =
                   Cardinality(T \cap Live(tx)) + Cardinality(T \cap tx.legacy)
Reconcile == Agrees /\ Step("reconcile", "commit", tx)

Commit ==
  /\ pc = "commit" /\ pc' = "open"
  /\ db' = [tx EXCEPT !.version = Current] /\ tx' = db'
  /\ UNCHANGED <<found, failures>>

\* Mutant: what was done before the error is committed.
RollbackNothing == tx
\* The connection rolls back what was not committed.
Rollback == db

\* A row is refused by the unique index, or the counts differ: the transaction is rolled
\* back, and the same happens at the next start.
Refuse ==
  /\ (pc = "observations" /\ Collide(tx)) \/ (pc = "reconcile" /\ ~Agrees)
  /\ pc' = "failed" /\ db' = Rollback /\ tx' = db'
  /\ UNCHANGED <<found, failures>>

\* Another error, or the process dies, anywhere; then it is started again.
Interrupt ==
  /\ pc \notin {"closed", "open", "refused", "failed"} /\ failures < MaxFailures
  /\ pc' = "closed" /\ db' = Rollback /\ tx' = db' /\ failures' = failures + 1
  /\ UNCHANGED found

\* The next start of a program that has opened the file.
Reopen ==
  /\ pc = "open" /\ failures < MaxFailures /\ pc' = "closed" /\ failures' = failures + 1
  /\ UNCHANGED <<db, tx, found>>

Migrate ==
  \/ MigrateMessages \/ MigrateNodes \/ MigrateOwners \/ MigrateUnowned
  \/ MigrateObservations \/ MigrateSamples \/ MigrateActions \/ MigrateMarks
Open == Check \/ Begin \/ Migrate \/ Reconcile \/ Commit \/ Refuse
Next == Open \/ Interrupt \/ Reopen

Spec == Init /\ [][Next]_vars
\* The program opens its file whenever it starts.
FairSpec == Spec /\ WF_vars(Open)

----------------------------------------------------------------------------
\* A file that no unique index refuses is opened in the end, with the new version.
Opened == found.db.version > Current \/ pc = "open" \/ (pc = "observations" /\ Collide(tx))
OpensInTheEnd == []<>Opened

\* Each gateway keeps the receptions its own record names: DEVELOPMENT.md:230-232, 372-373.
ReceptionsKeepTheirGateway ==
  found.db.version < 4 /\ db.version = Current =>
    \A o \in Live(db) \cap Observation :
      found.db.live[o] # None => db.live[o] = found.db.live[o]
==============================================================================
