----------------------------- MODULE GatewayFiles -----------------------------
(***************************************************************************)
(* The files of GatewayDatabase: how the single legacy database of older   *)
(* versions is split into one database for each gateway, by a daemon that  *)
(* may be killed between any two of its steps and by older programs that   *)
(* may still write to the legacy file while this daemon is down.           *)
(*                                                                         *)
(* Abstractions.  A file is the set of rows in it; a row is a number and   *)
(* the gateway it names.  A file appears under its name by os.replace, so  *)
(* whole or not at all; the private temporary file it is built in is       *)
(* deleted or, after a crash, never read again, and is left out.  The      *)
(* schema upgrade of the work copy keeps every row (SchemaMigration).      *)
(***************************************************************************)
EXTENDS FiniteSets, Naturals

CONSTANTS
  Gateway,    \* gateways: local node ids
  Unscoped,   \* a row that names no gateway
  NoFile,     \* the file does not exist
  MaxRows,    \* bound: rows ever written
  MaxCrashes, \* bound: crashes of the daemon and failures of its initialization
  LateLegacy  \* bound: whether an older program may create the legacy file
              \* after this one has run without any

VARIABLES
  legacy,      \* durable: the rows of the old database file, or NoFile
  tooNew,      \* durable: whether that file is of a later schema version
  snapshot,    \* durable: legacy.sqlite3
  upgraded,    \* durable: legacy-upgraded.sqlite3
  file,        \* durable: Gateway -> the gateway's own file
  at,          \* where initialize() is; "down" when no daemon runs
  databases,   \* _databases: the gateways that are open
  written,     \* observed: rows ever written by anyone
  cleared,     \* observed: rows the retention policy deleted
  confirmed,   \* observed: gateways whose retention the user has confirmed
  late,        \* observed: rows of older programs written after the split
  crashes

disk == <<legacy, tooNew, snapshot, upgraded, file>>
observed == <<written, cleared, confirmed, late, crashes>>
vars == <<disk, at, databases, observed>>

Row == [number : 1..MaxRows, gateway : Gateway \cup {Unscoped}]
File == SUBSET Row
Settings == [days : {0, 30}, review : BOOLEAN]

\* Mutant: the rows of a file are taken whoever they belong to.
OfAnyone(rows, g) == rows

Of(rows, g) == {r \in rows : r.gateway = g}

TypeOK ==
  /\ legacy \in File \cup {NoFile} /\ tooNew \in BOOLEAN
  /\ snapshot \in File \cup {NoFile} /\ upgraded \in File \cup {NoFile}
  /\ file \in [Gateway -> [rows : File, settings : Settings] \cup {NoFile}]
  /\ at \in {"down", "check", "snapshot", "digest", "upgrade", "open", "ready"}
  /\ databases \subseteq {g \in Gateway : file[g] # NoFile} /\ written \subseteq Row /\ cleared \subseteq Row
  /\ confirmed \subseteq Gateway /\ late \subseteq Row
  /\ crashes \in 0..MaxCrashes

Init ==
  /\ legacy \in {NoFile, {}} /\ tooNew = FALSE
  /\ snapshot = NoFile /\ upgraded = NoFile
  /\ file = [g \in Gateway |-> NoFile]
  /\ at = "down" /\ databases = {} /\ written = {} /\ cleared = {}
  /\ confirmed = {} /\ late = {} /\ crashes = 0

Fresh(g) == [number |-> Cardinality(written) + 1, gateway |-> g]

(* A program of an older version uses the legacy file while this daemon    *)
(* does not run; the endpoint has room for one of them.                    *)
Split == \E g \in Gateway : file[g] # NoFile
OldProgram ==
  /\ at = "down" /\ Cardinality(written) < MaxRows
  /\ legacy # NoFile \/ LateLegacy
  /\ \E g \in Gateway \cup {Unscoped} :
       /\ legacy' = (IF legacy = NoFile THEN {} ELSE legacy) \cup {Fresh(g)}
       /\ written' = written \cup {Fresh(g)}
       /\ late' = IF Split THEN late \cup {Fresh(g)} ELSE late
  /\ UNCHANGED <<tooNew, snapshot, upgraded, file, at, databases, cleared, confirmed, crashes>>

(* A program of a later version upgrades the legacy file in place.         *)
LaterProgram ==
  /\ at = "down" /\ legacy # NoFile /\ tooNew' = TRUE
  /\ UNCHANGED <<legacy, snapshot, upgraded, file, at, databases, observed>>

\* Mutant: without a legacy file there is nothing to open.
StartWithLegacy ==
  /\ at = "down" /\ legacy # NoFile /\ at' = "check" /\ databases' = {}
  /\ UNCHANGED <<disk, observed>>

Start ==
  /\ at = "down" /\ at' = "check" /\ databases' = {}
  /\ UNCHANGED <<disk, observed>>

(* initialize() refuses a future schema before it touches anything.        *)
Check ==
  /\ at = "check"
  /\ at' = IF legacy # NoFile /\ tooNew THEN "down" ELSE "snapshot"
  /\ UNCHANGED <<disk, databases, observed>>

(* _snapshot publishes a copy of the legacy file, once.                    *)
TakeSnapshot ==
  /\ at = "snapshot" /\ at' = "digest"
  /\ snapshot' = IF legacy # NoFile /\ snapshot = NoFile THEN legacy ELSE snapshot
  /\ UNCHANGED <<legacy, tooNew, upgraded, file, databases, observed>>

\* Mutant: the files are compared only until the upgraded copy is made.
CompareDigestsOnce ==
  /\ at = "digest" /\ at' = IF legacy # NoFile /\ snapshot # legacy /\ upgraded = NoFile
                           THEN "down" ELSE "upgrade"
  /\ UNCHANGED <<disk, databases, observed>>

(* A legacy file that an older program has changed since is refused.       *)
CompareDigests ==
  /\ at = "digest"
  /\ at' = IF legacy # NoFile /\ snapshot # NoFile /\ legacy # snapshot
           THEN "down" ELSE "upgrade"
  /\ UNCHANGED <<disk, databases, observed>>

(* The work copy is upgraded and published, once.                          *)
Upgrade ==
  /\ at = "upgrade" /\ at' = "open"
  /\ upgraded' = IF snapshot # NoFile /\ upgraded = NoFile THEN snapshot ELSE upgraded
  /\ UNCHANGED <<legacy, tooNew, snapshot, file, databases, observed>>

\* Mutant: a file with old history gets a new gateway's retention.
ImportedPruned(g) ==
  [rows |-> IF upgraded = NoFile THEN {} ELSE Of(upgraded, g),
   settings |-> [days |-> 30, review |-> FALSE]]

(* What _create_gateway copies: the rows that name the gateway.  A file    *)
(* with history in it waits for the user before anything is pruned by age. *)
Imported(g) ==
  LET rows == IF upgraded = NoFile THEN {} ELSE Of(upgraded, g)
  IN  [rows |-> rows,
       settings |-> IF rows = {} THEN [days |-> 30, review |-> FALSE]
                                 ELSE [days |-> 0, review |-> TRUE]]

\* Mutant: only gateways that have a file are opened.
KnownFiles == {g \in Gateway : file[g] # NoFile}

(* The gateways initialize() opens: those of the old rows and of the files *)
(* in the directory.                                                       *)
Known ==
  {g \in Gateway : file[g] # NoFile
     \/ (upgraded # NoFile /\ Of(upgraded, g) # {})}

\* Mutant: each start builds a gateway's file from the old copy.
CreateGatewayAgain(g) ==
  /\ at = "open" /\ g \in Known \ databases
  /\ file' = [file EXCEPT ![g] = Imported(g)]
  /\ UNCHANGED <<legacy, tooNew, snapshot, upgraded, at, databases, observed>>

(* _create_gateway ends with the rename of its private file.               *)
CreateGateway(g) ==
  /\ file[g] = NoFile
  /\ \/ at = "open" /\ g \in Known
     \/ at = "ready" /\ g \notin databases
  /\ file' = [file EXCEPT ![g] = Imported(g)]
  /\ UNCHANGED <<legacy, tooNew, snapshot, upgraded, at, databases, observed>>

\* Mutant: a gateway is open before its file is published.
OpenGatewayUnmade(g) ==
  /\ at \in {"open", "ready"} /\ g \notin databases
  /\ databases' = databases \cup {g}
  /\ UNCHANGED <<disk, at, observed>>

(* _open_gateway, also for the gateway of a radio met for the first time.  *)
OpenGateway(g) ==
  /\ at \in {"open", "ready"} /\ g \notin databases /\ file[g] # NoFile
  /\ databases' = databases \cup {g}
  /\ UNCHANGED <<disk, at, observed>>

Ready ==
  /\ at = "open" /\ Known \subseteq databases /\ at' = "ready"
  /\ UNCHANGED <<disk, databases, observed>>

(* Messages and nodes are stored in the open gateway's file.               *)
(* What max_messages pushes out of it there, and what the user clears, is  *)
(* GatewayHistory's part and left out.                                     *)
Store(g) ==
  /\ at = "ready" /\ g \in databases /\ Cardinality(written) < MaxRows
  /\ file' = [file EXCEPT ![g].rows = @ \cup {Fresh(g)}]
  /\ written' = written \cup {Fresh(g)}
  /\ UNCHANGED <<legacy, tooNew, snapshot, upgraded, at, databases, cleared, confirmed, late, crashes>>

(* set_history_policy: the user settles the retention of the gateway.      *)
SetPolicy(g, days) ==
  /\ at = "ready" /\ g \in databases
  /\ file' = [file EXCEPT ![g].settings = [days |-> days, review |-> FALSE]]
  /\ confirmed' = confirmed \cup {g}
  /\ UNCHANGED <<legacy, tooNew, snapshot, upgraded, at, databases, written, cleared, late, crashes>>

(* maintain_history prunes by age where the policy says so.                *)
Prunes(s) == s.days > 0 /\ ~s.review
Maintain(g, r) ==
  /\ at = "ready" /\ g \in databases /\ r \in file[g].rows
  /\ Prunes(file[g].settings)
  /\ file' = [file EXCEPT ![g].rows = @ \ {r}]
  /\ cleared' = cleared \cup {r}
  /\ UNCHANGED <<legacy, tooNew, snapshot, upgraded, at, databases, written, confirmed, late, crashes>>

(* The daemon is killed, or initialize() raises; nothing but the published *)
(* files survives.                                                         *)
Crash ==
  /\ at # "down" /\ crashes < MaxCrashes
  /\ at' = "down" /\ databases' = {} /\ crashes' = crashes + 1
  /\ UNCHANGED <<disk, written, cleared, confirmed, late>>

Initialize ==
  \/ Start \/ Check \/ TakeSnapshot \/ CompareDigests \/ Upgrade \/ Ready
  \/ \E g \in Gateway : CreateGateway(g) \/ OpenGateway(g)

Next ==
  \/ OldProgram \/ LaterProgram \/ Initialize \/ Crash
  \/ \E g \in Gateway :
       \/ Store(g)
       \/ \E days \in {0, 30} : SetPolicy(g, days)
       \/ \E r \in Row : Maintain(g, r)

Spec == Init /\ [][Next]_vars
FairSpec == Spec /\ WF_vars(Initialize)

-----------------------------------------------------------------------------

(* Every row that was ever stored is still in a file, unless the user or   *)
(* the policy deleted it, whatever crash interrupts the split.             *)
Served(r) == r.gateway \in Gateway /\ file[r.gateway] # NoFile
             /\ r \in file[r.gateway].rows
NothingLost ==
  \A r \in written \ cleared : Served(r) \/ (legacy # NoFile /\ r \in legacy)

(* A daemon that is ready beside a legacy file serves each of those rows   *)
(* to the gateway it names, provided the file was there before the         *)
(* gateways' own were made: not with LateLegacy.                           *)
EachIsServed ==
  at = "ready" /\ legacy # NoFile =>
    \A r \in (written \ cleared) : r.gateway \in Gateway => Served(r)

(* What has been deleted from a gateway's file is never imported again     *)
(* from the upgraded copy, which still holds it.                           *)
DeletedStaysDeleted ==
  \A g \in Gateway : file[g] # NoFile => file[g].rows \cap cleared = {}

(* No gateway is shown another gateway's rows, nor rows that name none.    *)
OwnRowsOnly ==
  \A g \in Gateway : file[g] # NoFile => \A r \in file[g].rows : r.gateway = g

(* A row that was imported is pruned by age only after the user has seen   *)
(* the gateway's retention and confirmed it.                               *)
ConfirmedFirst ==
  \A r \in cleared : upgraded # NoFile /\ r \in upgraded => r.gateway \in confirmed

(* The history of a legacy file that goes on being written beside the      *)
(* gateways' own is never served as if it were complete.                   *)
DivergenceIsRefused ==
  at = "ready" /\ legacy # NoFile => legacy = snapshot

(* README.md: if an older program later writes to the original database,   *)
(* this version stops.  It does not where there was no original database   *)
(* when the gateways' files were made.                                     *)
RollbackIsRefused == at = "ready" => late = {}

(* Splitting ends: without further crashes, the daemon becomes ready or    *)
(* refuses the legacy file, from wherever a crash left it.                 *)
Refused == at = "down" /\ legacy # NoFile /\ (tooNew \/ legacy # snapshot)
SplitEnded == at = "ready" \/ (Refused /\ (tooNew \/ snapshot # NoFile))
SplitEnds == []<>SplitEnded

(* What the split promises of every file it leaves behind, whenever an     *)
(* older program makes one too, and what it promises without that.         *)
FilesAreSafe ==
  /\ NothingLost /\ DeletedStaysDeleted /\ OwnRowsOnly
  /\ ConfirmedFirst /\ DivergenceIsRefused
SplitIsSafe == FilesAreSafe /\ EachIsServed
=============================================================================
