---------------------------- MODULE StorageProofs ----------------------------
(* What is proved of the components that keep the database: the split into a     *)
(* file for each gateway (GatewayFiles), the migration of an older file's schema *)
(* (SchemaMigration), and conversations (MessageStore).                           *)
EXTENDS MCStorage, FiniteSetTheorems, TLAPS

-----------------------------------------------------------------------------
(* The split of the legacy database *)

Contents == [rows : File, settings : Settings]

\* What stands for the lack of a file is none, and no gateway is that of a row without one.
SplitBounds ==
  /\ MaxRows \in Nat /\ MaxCrashes \in Nat
  /\ NoFile \notin File /\ NoFile \notin Contents /\ Unscoped \notin Gateway

\* A new row's number is free.
Numbered ==
  /\ IsFiniteSet(written)
  /\ \A r \in written : r.number <= Cardinality(written)

\* Where rows may be: the copies lag behind the legacy file, and the work copy is the snapshot.
Copies ==
  /\ legacy # NoFile => legacy \subseteq written
  /\ snapshot # NoFile => legacy # NoFile /\ snapshot \subseteq legacy
  /\ upgraded # NoFile => upgraded = snapshot
  /\ at = "digest" /\ legacy # NoFile => snapshot # NoFile
  /\ at = "upgrade" /\ legacy # NoFile => snapshot = legacy
  /\ at \in {"open", "ready"} /\ legacy # NoFile => snapshot = legacy /\ upgraded = legacy

\* A gateway's file has its own rows, and what it has of the work copy is neither lost nor
\* imported again, and pruned by age only if the user agreed.  It was made from that copy,
\* unless an older program has made a legacy file only later, and then shares no row with it.
FileFits(g) ==
  file[g] # NoFile =>
    /\ file[g].rows \subseteq written \ cleared
    /\ \A r \in file[g].rows : r.gateway = g
    /\ legacy # NoFile /\ upgraded = NoFile => (file[g].rows \cup cleared) \cap legacy = {}
    /\ legacy # NoFile /\ ~LateLegacy => upgraded # NoFile /\ Of(upgraded, g) \subseteq file[g].rows \cup cleared
    /\ upgraded # NoFile /\ file[g].rows \cap upgraded # {} /\ Prunes(file[g].settings) =>
         g \in confirmed

Deleted ==
  /\ cleared \subseteq written
  /\ \A r \in cleared : r.gateway \in Gateway /\ file[r.gateway] # NoFile

SplitInv ==
  /\ TypeOK /\ Numbered /\ Copies /\ (\A g \in Gateway : FileFits(g)) /\ Deleted
  /\ NothingLost /\ ConfirmedFirst /\ (~LateLegacy => EachIsServed)

\* The number of a new row is free, and stays the greatest.
LEMMA FreshIsNew ==
  ASSUME SplitBounds, SplitInv, Cardinality(written) < MaxRows, NEW g \in Gateway \cup {Unscoped}
  PROVE  /\ Fresh(g) \in Row /\ Fresh(g) \notin written /\ Fresh(g).gateway = g
         /\ (written' = written \cup {Fresh(g)}) => Numbered'
<1>1. IsFiniteSet(written) /\ \A r \in written : r.number <= Cardinality(written)
  BY DEF SplitInv, Numbered
<1>2. Cardinality(written) \in Nat
  BY <1>1, FS_CardinalityType
<1>3. Fresh(g) \in Row
  BY <1>2 DEF Fresh, Row, SplitBounds
<1>4. Fresh(g) \notin written
  BY <1>1, <1>2 DEF Fresh
<1>5. /\ IsFiniteSet(written \cup {Fresh(g)})
      /\ Cardinality(written \cup {Fresh(g)}) = Cardinality(written) + 1
  BY <1>1, <1>4, FS_AddElement
<1>6. written \subseteq Row
  BY DEF SplitInv, TypeOK
<1>7. ASSUME written' = written \cup {Fresh(g)} PROVE Numbered'
  <2>1. Cardinality(written') = Cardinality(written) + 1 /\ IsFiniteSet(written')
    BY <1>5, <1>7
  <2>2. ASSUME NEW r \in written' PROVE r.number <= Cardinality(written')
    <3>1. CASE r \in written
      <4>1. r.number <= Cardinality(written) /\ r.number \in Int
        BY <1>1, <1>6, <3>1 DEF Row
      <4> QED BY <1>2, <2>1, <4>1
    <3>2. CASE r = Fresh(g)
      BY <1>2, <2>1, <3>2 DEF Fresh
    <3> QED BY <1>7, <3>1, <3>2
  <2> QED BY <2>1, <2>2 DEF Numbered
<1> QED BY <1>3, <1>4, <1>7 DEF Fresh

\* Older and later programs.
LEMMA OthersSplit ==
  ASSUME SplitBounds, SplitInv, OldProgram \/ LaterProgram
  PROVE  SplitInv'
<1>1. CASE LaterProgram
  <2>1. UNCHANGED <<legacy, snapshot, upgraded, file, at, databases, written, cleared, confirmed,
                    late, crashes>> /\ tooNew' \in BOOLEAN
    BY <1>1 DEF LaterProgram, observed
  <2>2. TypeOK' /\ Numbered' /\ Copies' /\ Deleted' /\ ConfirmedFirst'
    BY <2>1 DEF SplitInv, TypeOK, Numbered, Copies, Deleted, ConfirmedFirst
  <2>3. \A g \in Gateway : FileFits(g)'
    BY <2>1 DEF SplitInv, FileFits
  <2>4. NothingLost' /\ (~LateLegacy => EachIsServed')
    BY <2>1 DEF SplitInv, NothingLost, EachIsServed, Served
  <2> QED BY <2>2, <2>3, <2>4 DEF SplitInv
<1>2. CASE OldProgram
  <2> DEFINE before == IF legacy = NoFile THEN {} ELSE legacy
  <2>1. PICK g \in Gateway \cup {Unscoped} :
          /\ legacy' = before \cup {Fresh(g)} /\ (legacy # NoFile \/ LateLegacy)
          /\ written' = written \cup {Fresh(g)}
          /\ late' = IF Split THEN late \cup {Fresh(g)} ELSE late
    BY <1>2 DEF OldProgram
  <2>2. /\ UNCHANGED <<tooNew, snapshot, upgraded, file, at, databases, cleared, confirmed,
                        crashes>>
        /\ at = "down" /\ Cardinality(written) < MaxRows
    BY <1>2 DEF OldProgram
  <2>3. /\ Fresh(g) \in Row /\ Fresh(g) \notin written /\ Numbered'
    BY <2>1, <2>2, FreshIsNew
  <2>4. before \in File /\ before \subseteq written /\ (legacy # NoFile => before = legacy)
    BY DEF SplitInv, TypeOK, Copies, File
  <2> HIDE DEF before
  <2>5. legacy' \in File /\ legacy' # NoFile /\ written' \subseteq Row /\ late' \subseteq Row
    BY <2>1, <2>3, <2>4 DEF SplitInv, TypeOK, File, SplitBounds
  <2>6. TypeOK'
    BY <2>2, <2>5 DEF SplitInv, TypeOK
  <2>7. Copies'
    BY <2>1, <2>2, <2>4, <2>5 DEF SplitInv, Copies
  <2>8. ASSUME NEW e \in Gateway PROVE FileFits(e)'
    <3>1. FileFits(e) /\ cleared \subseteq written
      BY DEF SplitInv, Deleted
    <3>2. file[e] # NoFile /\ upgraded = NoFile =>
            (file[e].rows \cup cleared) \cap legacy' = {}
      <4>1. CASE legacy = NoFile
        BY <2>1, <2>3, <3>1, <4>1 DEF FileFits, before
      <4>2. CASE legacy # NoFile
        BY <2>1, <2>3, <2>4, <3>1, <4>2 DEF FileFits
      <4> QED BY <4>1, <4>2
    <3>3. ~LateLegacy => legacy # NoFile
      BY <2>1
    <3> QED BY <2>1, <2>2, <3>1, <3>2, <3>3 DEF FileFits
  <2>9. Deleted' /\ ConfirmedFirst'
    BY <2>1, <2>2 DEF SplitInv, Deleted, ConfirmedFirst
  <2>10. NothingLost' /\ EachIsServed'
    BY <2>1, <2>2, <2>4, <2>5 DEF SplitInv, NothingLost, EachIsServed, Served
  <2> QED BY <2>3, <2>6, <2>7, <2>8, <2>9, <2>10 DEF SplitInv
<1> QED BY <1>1, <1>2

\* Starting: nothing but the copies and the step change.
LEMMA StartSplit ==
  ASSUME SplitBounds, SplitInv,
         Start \/ Check \/ TakeSnapshot \/ CompareDigests \/ Upgrade \/ Ready \/ Crash
  PROVE  SplitInv'
<1>1. /\ UNCHANGED <<legacy, tooNew, file, written, cleared, confirmed, late>>
      /\ databases' \in {databases, {}}
      /\ at' \in {"down", "check", "snapshot", "digest", "upgrade", "open", "ready"}
      /\ crashes' \in 0..MaxCrashes
  BY DEF SplitBounds, SplitInv, TypeOK, Start, Check, TakeSnapshot, CompareDigests, Upgrade, Ready,
     Crash, disk, observed
<1>2. snapshot' \in {snapshot, legacy} /\ upgraded' \in {upgraded, snapshot}
  BY DEF Start, Check, TakeSnapshot, CompareDigests, Upgrade, Ready, Crash, disk, observed
<1>3. TypeOK'
  BY <1>1, <1>2 DEF SplitInv, TypeOK
<1>4. Numbered' /\ Deleted'
  BY <1>1 DEF SplitInv, Numbered, Deleted
<1>5. Copies'
  <2>1. CASE Start \/ Check \/ Crash
    <3>1. UNCHANGED <<snapshot, upgraded>> /\ at' \in {"check", "snapshot", "down"}
      BY <2>1 DEF Start, Check, Crash, disk, observed
    <3> QED BY <1>1, <3>1 DEF SplitInv, Copies
  <2>2. CASE TakeSnapshot
    BY <1>1, <2>2 DEF TakeSnapshot, SplitInv, Copies
  <2>3. CASE CompareDigests
    BY <1>1, <2>3 DEF CompareDigests, disk, SplitInv, Copies
  <2>4. CASE Upgrade
    BY <1>1, <2>4 DEF Upgrade, SplitInv, Copies
  <2>5. CASE Ready
    BY <1>1, <2>5 DEF Ready, disk, SplitInv, Copies
  <2> QED BY <2>1, <2>2, <2>3, <2>4, <2>5
\* A new work copy shares no row with what the gateways' files have had; without a late
\* legacy file no gateway has a file before it.
<1>6. ASSUME upgraded' # upgraded
      PROVE  /\ legacy # NoFile /\ upgraded = NoFile /\ upgraded' \subseteq legacy
             /\ \A g \in Gateway : file[g] # NoFile =>
                  (file[g].rows \cup cleared) \cap upgraded' = {}
             /\ ~LateLegacy => \A g \in Gateway : file[g] = NoFile
  <2>1. upgraded = NoFile /\ snapshot # NoFile /\ upgraded' = snapshot
    BY <1>6 DEF Start, Check, TakeSnapshot, CompareDigests, Upgrade, Ready, Crash, disk, observed
  <2>2. legacy # NoFile /\ snapshot \subseteq legacy
    BY <2>1 DEF SplitInv, Copies
  <2> QED BY <2>1, <2>2 DEF SplitInv, FileFits
<1>7. ASSUME NEW g \in Gateway PROVE FileFits(g)'
  <2>1. CASE upgraded' = upgraded
    BY <1>1, <2>1 DEF SplitInv, FileFits
  <2>2. CASE upgraded' # upgraded
    <3>1. upgraded' # NoFile
      BY <1>6, <2>2
    <3> QED BY <1>1, <1>6, <2>2, <3>1 DEF SplitInv, FileFits
  <2> QED BY <2>1, <2>2
<1>8. ConfirmedFirst'
  <2>1. CASE upgraded' = upgraded
    BY <1>1, <2>1 DEF SplitInv, ConfirmedFirst
  <2>2. CASE upgraded' # upgraded
    <3>1. \A r \in cleared : r \notin upgraded'
      BY <1>6, <2>2 DEF SplitInv, Deleted
    <3> QED BY <1>1, <3>1 DEF ConfirmedFirst
  <2> QED BY <2>1, <2>2
<1>9. NothingLost'
  BY <1>1 DEF SplitInv, NothingLost, Served
<1>10. ASSUME ~LateLegacy PROVE EachIsServed'
  <2> SUFFICES ASSUME at' = "ready", legacy # NoFile, NEW r \in written \ cleared,
                      r.gateway \in Gateway
               PROVE  Served(r)
    BY <1>1 DEF EachIsServed, Served
  <2>1. CASE Ready
    <3>1. at = "open" /\ Known \subseteq databases
      BY <2>1 DEF Ready
    <3>2. snapshot = legacy /\ upgraded = legacy
      BY <3>1 DEF SplitInv, Copies
    <3> SUFFICES ASSUME r \in legacy PROVE Served(r)
      BY DEF SplitInv, NothingLost
    <3>3. r \in Of(upgraded, r.gateway)
      BY <3>2 DEF Of
    <3>4. r.gateway \in Known
      BY <3>2, <3>3 DEF Known
    <3>5. file[r.gateway] # NoFile
      BY <3>1, <3>4 DEF SplitInv, TypeOK
    <3>6. r \in file[r.gateway].rows \cup cleared
      BY <1>10, <3>3, <3>5 DEF SplitInv, FileFits
    <3> QED BY <3>5, <3>6 DEF Served
  <2>2. CASE ~ Ready
    BY <1>10, <2>2 DEF Start, Check, TakeSnapshot, CompareDigests, Upgrade, Crash, SplitInv,
       EachIsServed
  <2> QED BY <2>1, <2>2
<1> QED BY <1>3, <1>4, <1>5, <1>7, <1>8, <1>9, <1>10 DEF SplitInv

\* A gateway's file is made, and opened.
LEMMA OpenSplit ==
  ASSUME SplitBounds, SplitInv, NEW g \in Gateway, CreateGateway(g) \/ OpenGateway(g)
  PROVE  SplitInv'
<1>1. UNCHANGED <<legacy, tooNew, snapshot, upgraded, at, written, cleared, confirmed, late,
                 crashes>>
  BY DEF CreateGateway, OpenGateway, disk, observed
<1>2. Numbered' /\ Copies' /\ ConfirmedFirst'
  BY <1>1 DEF SplitInv, Numbered, Copies, ConfirmedFirst
<1>3. CASE OpenGateway(g)
  <2>1. file' = file /\ databases' = databases \cup {g} /\ file[g] # NoFile
    BY <1>3 DEF OpenGateway, disk
  <2>2. TypeOK' /\ Deleted'
    BY <1>1, <2>1 DEF SplitInv, TypeOK, Deleted
  <2>3. \A e \in Gateway : FileFits(e)'
    BY <1>1, <2>1 DEF SplitInv, FileFits
  <2>4. NothingLost' /\ (~LateLegacy => EachIsServed')
    BY <1>1, <2>1 DEF SplitInv, NothingLost, EachIsServed, Served
  <2> QED BY <1>2, <2>2, <2>3, <2>4 DEF SplitInv
<1>4. CASE CreateGateway(g)
  <2>1. /\ file[g] = NoFile /\ file' = [file EXCEPT ![g] = Imported(g)] /\ databases' = databases
        /\ at \in {"open", "ready"}
    BY <1>4 DEF CreateGateway
  <2>2. file \in [Gateway -> Contents \cup {NoFile}] /\ written \subseteq Row
    BY DEF SplitInv, TypeOK, Contents
  <2> DEFINE theirs == IF upgraded = NoFile THEN {} ELSE Of(upgraded, g)
  <2>3. Imported(g).rows = theirs /\ (theirs # {} => ~ Prunes(Imported(g).settings))
    BY DEF Imported, Prunes
  <2>4. legacy # NoFile => upgraded = legacy /\ legacy \subseteq written
    BY <2>1 DEF SplitInv, Copies
  <2>5. legacy = NoFile => upgraded = NoFile
    BY DEF SplitInv, Copies
  <2>6. theirs \subseteq written /\ (\A r \in theirs : r.gateway = g)
    BY <2>4, <2>5 DEF Of
  <2>7. theirs \in File
    BY <2>2, <2>6 DEF File
  <2>8. Imported(g) \in Contents
    BY <2>7 DEF Imported, Contents, Settings
  <2>9. /\ file' \in [Gateway -> Contents \cup {NoFile}] /\ file'[g] = Imported(g)
        /\ Imported(g) # NoFile /\ \A e \in Gateway \ {g} : file'[e] = file[e]
    BY <2>1, <2>2, <2>8 DEF SplitBounds
  <2>10. TypeOK'
    BY <1>1, <2>1, <2>9 DEF SplitInv, TypeOK, Contents
  <2>11. Deleted' /\ \A r \in cleared : r.gateway # g
    BY <1>1, <2>1, <2>9 DEF SplitInv, Deleted
  <2>12. FileFits(g)'
    <3>1. file'[g].rows = theirs /\ file'[g] # NoFile
      BY <2>3, <2>9
    <3>2. theirs \subseteq written' \ cleared' /\ \A r \in theirs : r.gateway = g
      BY <1>1, <2>6, <2>11
    <3>3. legacy' # NoFile => upgraded' # NoFile /\ Of(upgraded', g) \subseteq theirs
      BY <1>1, <2>4
    <3>4. theirs # {} => ~ Prunes(file'[g].settings)
      BY <2>3, <2>9
    <3> HIDE DEF theirs
    <3> QED BY <3>1, <3>2, <3>3, <3>4 DEF FileFits, Of
  <2>13. \A e \in Gateway \ {g} : FileFits(e)'
    BY <1>1, <2>9 DEF SplitInv, FileFits
  <2>14. \A r \in Row : Served(r) => Served(r)'
    BY <2>1, <2>9 DEF Served
  <2>15. NothingLost' /\ (~LateLegacy => EachIsServed')
    BY <1>1, <2>2, <2>14 DEF SplitInv, NothingLost, EachIsServed
  <2> QED BY <1>2, <2>10, <2>11, <2>12, <2>13, <2>15 DEF SplitInv
<1> QED BY <1>3, <1>4

\* The daemon at work on one gateway's file.
LEMMA WorkSplit ==
  ASSUME SplitBounds, SplitInv, NEW g \in Gateway,
         \/ Store(g) \/ \E days \in {0, 30} : SetPolicy(g, days)
         \/ \E r \in Row : Maintain(g, r)
  PROVE  SplitInv'
<1>1. UNCHANGED <<legacy, tooNew, snapshot, upgraded, at, databases, late, crashes>>
      /\ at = "ready" /\ g \in databases
  BY DEF Store, SetPolicy, Maintain
<1>2. /\ file \in [Gateway -> Contents \cup {NoFile}] /\ written \subseteq Row
      /\ file[g] \in Contents /\ file[g] # NoFile /\ FileFits(g) /\ cleared \subseteq Row
  BY <1>1 DEF SplitInv, TypeOK, Contents
<1>3. legacy # NoFile => upgraded # NoFile
  BY <1>1 DEF SplitInv, Copies
<1>4. ASSUME NEW c \in Contents, file' = [file EXCEPT ![g] = c], written' \subseteq Row,
             cleared' \subseteq Row, confirmed' \subseteq Gateway, Numbered',
             written \subseteq written', confirmed \subseteq confirmed',
             cleared' \subseteq written', cleared \subseteq cleared',
             \A r \in cleared' \ cleared : r \in file[g].rows,
             \A r \in cleared' : upgraded # NoFile /\ r \in upgraded => r.gateway \in confirmed',
             c.rows \subseteq written' \ cleared', \A r \in c.rows : r.gateway = g,
             \A r \in file[g].rows : r \in c.rows \cup cleared',
             upgraded # NoFile /\ c.rows \cap upgraded # {} /\ Prunes(c.settings) =>
               g \in confirmed',
             \A r \in written' \ written : r \in c.rows
      PROVE  SplitInv'
  <2>1. /\ file' \in [Gateway -> Contents \cup {NoFile}] /\ file'[g] = c /\ c # NoFile
        /\ \A e \in Gateway \ {g} : file'[e] = file[e]
    BY <1>2, <1>4 DEF SplitBounds
  <2>2. TypeOK'
    BY <1>1, <1>4, <2>1 DEF SplitInv, TypeOK, Contents
  <2>3. Copies'
    BY <1>1, <1>4 DEF SplitInv, Copies
  <2>4. Deleted'
    BY <1>1, <1>2, <1>4, <2>1 DEF SplitInv, Deleted, FileFits
  <2>5. FileFits(g)'
    <3>1. legacy # NoFile /\ ~LateLegacy =>
            upgraded # NoFile /\ Of(upgraded, g) \subseteq c.rows \cup cleared'
      BY <1>2, <1>4 DEF FileFits
    <3> QED BY <1>1, <1>3, <1>4, <2>1, <3>1 DEF FileFits
  <2>6. ASSUME NEW e \in Gateway \ {g} PROVE FileFits(e)'
    <3>1. file'[e] = file[e] /\ FileFits(e)
      BY <2>1 DEF SplitInv
    <3>2. \A r \in cleared' \ cleared : r.gateway = g
      BY <1>2, <1>4 DEF FileFits
    <3>3. file[e] # NoFile => file[e].rows \subseteq written' \ cleared'
      BY <1>4, <3>1, <3>2 DEF FileFits
    <3> QED BY <1>1, <1>3, <1>4, <3>1, <3>3 DEF FileFits
  <2>7. \A r \in written \ cleared' : Served(r) => Served(r)'
    BY <1>2, <1>4, <2>1 DEF Served
  <2>8. \A r \in written' \ written : Served(r)'
    BY <1>4, <2>1 DEF Served
  <2>9. NothingLost' /\ (~LateLegacy => EachIsServed')
    BY <1>1, <1>4, <2>7, <2>8 DEF SplitInv, NothingLost, EachIsServed
  <2>10. ConfirmedFirst'
    BY <1>1, <1>4 DEF ConfirmedFirst
  <2> QED BY <1>4, <2>2, <2>3, <2>4, <2>5, <2>6, <2>9, <2>10 DEF SplitInv
<1>5. CASE Store(g)
  <2>1. /\ file' = [file EXCEPT ![g].rows = @ \cup {Fresh(g)}] /\ written' = written \cup {Fresh(g)}
        /\ Cardinality(written) < MaxRows /\ UNCHANGED <<cleared, confirmed>>
    BY <1>5 DEF Store
  <2>2. /\ Fresh(g) \in Row /\ Fresh(g) \notin written /\ Fresh(g).gateway = g /\ Numbered'
    BY <2>1, FreshIsNew
  <2>3. PICK c \in Contents : c = [file[g] EXCEPT !.rows = @ \cup {Fresh(g)}]
    BY <1>2, <2>2 DEF Contents, File
  <2>4. file' = [file EXCEPT ![g] = c] /\ c.rows = file[g].rows \cup {Fresh(g)}
        /\ c.settings = file[g].settings
    BY <1>2, <2>1, <2>3 DEF Contents
  <2>5. Fresh(g) \notin cleared /\ (upgraded # NoFile => Fresh(g) \notin upgraded)
    BY <2>2 DEF SplitInv, Deleted, Copies
  <2>6. c.rows \subseteq written' \ cleared' /\ \A r \in c.rows : r.gateway = g
    BY <1>2, <2>1, <2>2, <2>4, <2>5 DEF FileFits
  <2>7. upgraded # NoFile /\ c.rows \cap upgraded # {} /\ Prunes(c.settings) => g \in confirmed'
    BY <1>2, <2>1, <2>4, <2>5 DEF FileFits
  <2>8. /\ cleared \subseteq written /\ confirmed \subseteq Gateway
        /\ \A r \in cleared : upgraded # NoFile /\ r \in upgraded => r.gateway \in confirmed
    BY DEF SplitInv, TypeOK, Deleted, ConfirmedFirst
  <2> QED BY <1>2, <1>4, <2>1, <2>2, <2>4, <2>6, <2>7, <2>8
<1>6. ASSUME NEW days \in {0, 30}, SetPolicy(g, days) PROVE SplitInv'
  <2>1. /\ file' = [file EXCEPT ![g].settings = [days |-> days, review |-> FALSE]]
        /\ confirmed' = confirmed \cup {g} /\ UNCHANGED <<written, cleared>>
    BY <1>6 DEF SetPolicy
  <2>2. PICK c \in Contents : c = [file[g] EXCEPT !.settings = [days |-> days, review |-> FALSE]]
    BY <1>2 DEF Contents, Settings
  <2>3. file' = [file EXCEPT ![g] = c] /\ c.rows = file[g].rows
    BY <1>2, <2>1, <2>2 DEF Contents
  <2>4. /\ cleared \subseteq written /\ confirmed \subseteq Gateway /\ Numbered'
        /\ \A r \in cleared : upgraded # NoFile /\ r \in upgraded => r.gateway \in confirmed
    BY <2>1 DEF SplitInv, TypeOK, Deleted, ConfirmedFirst, Numbered
  <2>5. c.rows \subseteq written \ cleared /\ \A r \in c.rows : r.gateway = g
    BY <1>2, <2>3 DEF FileFits
  <2> QED BY <1>2, <1>4, <2>1, <2>3, <2>4, <2>5
<1>7. ASSUME NEW r \in Row, Maintain(g, r) PROVE SplitInv'
  <2>1. /\ r \in file[g].rows /\ Prunes(file[g].settings) /\ cleared' = cleared \cup {r}
        /\ file' = [file EXCEPT ![g].rows = @ \ {r}] /\ UNCHANGED <<written, confirmed>>
    BY <1>7 DEF Maintain
  <2>2. PICK c \in Contents : c = [file[g] EXCEPT !.rows = @ \ {r}]
    BY <1>2 DEF Contents, File
  <2>3. file' = [file EXCEPT ![g] = c] /\ c.rows = file[g].rows \ {r}
        /\ c.settings = file[g].settings
    BY <1>2, <2>1, <2>2 DEF Contents
  <2>4. r \in written /\ r.gateway = g /\ (upgraded # NoFile /\ r \in upgraded => g \in confirmed)
    BY <1>2, <2>1 DEF FileFits
  <2>5. /\ cleared \subseteq written /\ confirmed \subseteq Gateway /\ Numbered'
        /\ \A q \in cleared : upgraded # NoFile /\ q \in upgraded => q.gateway \in confirmed
    BY <2>1 DEF SplitInv, TypeOK, Deleted, ConfirmedFirst, Numbered
  <2>6. c.rows \subseteq written' \ cleared' /\ \A q \in c.rows : q.gateway = g
    BY <1>2, <2>1, <2>3 DEF FileFits
  <2>7. upgraded # NoFile /\ c.rows \cap upgraded # {} /\ Prunes(c.settings) => g \in confirmed'
    BY <1>2, <2>1, <2>3 DEF FileFits
  <2>8. /\ written' \subseteq Row /\ cleared' \subseteq Row /\ confirmed' \subseteq Gateway
        /\ written \subseteq written' /\ confirmed \subseteq confirmed'
        /\ cleared \subseteq cleared' /\ cleared' \subseteq written'
    BY <1>2, <2>1, <2>4, <2>5
  <2>9. /\ \A q \in cleared' \ cleared : q \in file[g].rows
        /\ \A q \in cleared' : upgraded # NoFile /\ q \in upgraded => q.gateway \in confirmed'
    BY <2>1, <2>4, <2>5
  <2>10. /\ \A q \in file[g].rows : q \in c.rows \cup cleared'
         /\ \A q \in written' \ written : q \in c.rows
    BY <2>1, <2>3
  <2>11. Numbered'
    BY <2>5
  <2> QED BY <1>4, <2>3, <2>6, <2>7, <2>8, <2>9, <2>10, <2>11
<1> QED BY <1>5, <1>6, <1>7

LEMMA SplitNext == SplitBounds /\ SplitInv /\ [Next]_vars => SplitInv'
<1> SUFFICES ASSUME SplitBounds, SplitInv, [Next]_vars PROVE SplitInv'
  OBVIOUS
<1>1. CASE UNCHANGED vars
  <2>1. UNCHANGED <<legacy, tooNew, snapshot, upgraded, file, at, databases, written, cleared,
                    confirmed, late, crashes>>
    BY <1>1 DEF vars, disk, observed
  <2>2. TypeOK' /\ Numbered' /\ Copies' /\ Deleted' /\ ConfirmedFirst'
    BY <2>1 DEF SplitInv, TypeOK, Numbered, Copies, Deleted, ConfirmedFirst
  <2>3. (\A g \in Gateway : FileFits(g)') /\ NothingLost' /\ (~LateLegacy => EachIsServed')
    BY <2>1 DEF SplitInv, FileFits, NothingLost, EachIsServed, Served
  <2> QED BY <2>2, <2>3 DEF SplitInv
<1>2. CASE OldProgram \/ LaterProgram
  BY <1>2, OthersSplit
<1>3. CASE Initialize \/ Crash
  BY <1>3, StartSplit, OpenSplit DEF Initialize
<1>4. CASE \E g \in Gateway :
             \/ Store(g) \/ (\E days \in {0, 30} : SetPolicy(g, days))
             \/ \E r \in Row : Maintain(g, r)
  BY <1>4, WorkSplit
<1> QED BY <1>1, <1>2, <1>3, <1>4 DEF Next

LEMMA SplitInit == SplitBounds /\ Init => SplitInv
<1> SUFFICES ASSUME SplitBounds, Init PROVE SplitInv
  OBVIOUS
<1>1. TypeOK
  <2>1. legacy \in File \cup {NoFile} /\ file \in [Gateway -> Contents \cup {NoFile}]
    BY DEF Init, File
  <2>2. crashes \in 0..MaxCrashes /\ databases = {} /\ written = {} /\ cleared = {} /\ late = {}
    BY DEF Init, SplitBounds
  <2> QED BY <2>1, <2>2 DEF Init, TypeOK, Contents
<1>2. Numbered
  BY FS_EmptySet DEF Init, Numbered
<1>3. Copies /\ Deleted /\ NothingLost /\ ConfirmedFirst /\ \A g \in Gateway : FileFits(g)
  BY DEF Init, Copies, Deleted, NothingLost, ConfirmedFirst, FileFits
<1>4. EachIsServed
  BY DEF Init, EachIsServed
<1> QED BY <1>1, <1>2, <1>3, <1>4 DEF SplitInv

\* Whatever interrupts the split of the legacy database, and whoever uses or makes the old
\* file meanwhile: no row leaves the disk, none that was deleted comes back, none is shown
\* by another gateway, none that was imported is pruned unasked, and a daemon that is ready
\* has a snapshot of the legacy file as it is.  A daemon that is ready also serves every row,
\* but for a legacy file that was made only after the split (gateway_database.py).
THEOREM SplitStaysSafe ==
  ASSUME SplitBounds
  PROVE  Spec => [](TypeOK /\ FilesAreSafe /\ (~LateLegacy => SplitIsSafe))
<1>1. Init => SplitInv
  BY SplitInit
<1>2. SplitInv /\ [Next]_vars => SplitInv'
  BY SplitNext
<1>3. SplitInv => TypeOK /\ FilesAreSafe /\ (~LateLegacy => SplitIsSafe)
  BY DEF SplitInv, SplitIsSafe, FilesAreSafe, DeletedStaysDeleted, OwnRowsOnly, DivergenceIsRefused, FileFits,
     Copies
<1> QED BY <1>1, <1>2, <1>3, PTL DEF Spec

-----------------------------------------------------------------------------
(* The migration of a database file *)

\* Gateways are gateways, and only messages are direct, only observations alike.
MigrationBounds ==
  /\ None \notin Gateway /\ MaxFailures \in Nat
  /\ Direct \subseteq Message /\ Alike \subseteq Observation
\* With what is assumed of the rows.
Tables ==
  /\ MigrationBounds /\ Out \subseteq Message
  /\ MessageOf \in [Observation -> Message] /\ PacketsOf \in [Action -> SUBSET Message]
  /\ Message \cap (Observation \cup Sample \cup Action \cup ConversationMark \cup Nameless) = {}
  /\ Observation \cap (Sample \cup Action \cup ConversationMark \cup Nameless) = {}
  /\ Sample \cap (Action \cup ConversationMark \cup Nameless) = {}
  /\ Action \cap (ConversationMark \cup Nameless) = {}
  /\ ConversationMark \cap Nameless = {}

Lives == UNION {[group -> S!Owner] : group \in SUBSET AnyRow}
Stored == [version : {1, 2, 3, 4, Current, 6}, live : Lives, legacy : SUBSET AnyRow]

\* Every row is there once, and no two observations of one reception are alike.
Whole(d) == Live(d) \cup d.legacy = AnyRow /\ Live(d) \cap d.legacy = {}
Distinct(d) ==
  \A o, q \in Live(d) \cap found.alike :
    o # q /\ MessageOf[o] = MessageOf[q] => d.live[o] # d.live[q]
CopyFits(d) == d \in Stored /\ Whole(d) /\ Distinct(d)

FoundFits ==
  /\ found.db \in Stored /\ found.sender \in [Out -> S!Owner] /\ found.alike \subseteq Observation
  /\ found.db.version # Current
  /\ found.db.version < 4 => Live(found.db) = AnyRow

Unscoping == {"messages", "nodes", "owners", "unowned", "observations", "samples", "actions",
              "marks", "reconcile"}
\* The transaction begins with what was found, or what an earlier one has committed.
VersionsFit ==
  /\ db = found.db \/ db.version = Current
  /\ pc \in Unscoping \cup {"schema", "commit"} => db.version <= Current
  /\ pc \in Unscoping => db.version < Current /\ tx.version = db.version
  /\ pc \in Unscoping \ {"messages"} => db.version < 4
  /\ pc \in {"closed", "schema", "messages", "open", "refused", "failed"} => tx = db

\* What a sent message says of its own gateway.
Own(m) ==
  IF found.db.live[m] # None THEN found.db.live[m]
  ELSE IF found.db.version < 3 /\ m \in Out THEN found.sender[m] ELSE None

\* What the steps have proved of the group of a copy, one after the other.
AsFound(d, group) == \A r \in Live(d) \cap group : d.live[r] = found.db.live[r]
MessagesProved(d) == \A m \in Live(d) \cap Message : Named(m) = {d.live[m]}
SamplesOwned(d) == \A r \in Live(d) \cap Sample : d.live[r] # None
ActionsProved(d) ==
  \A x \in Live(d) \cap Action :
    UNION {Named(m) : m \in PacketsOf[x] \cap Out \cap Live(d)} = {d.live[x]}
MarksOwned(d) == \A r \in Live(d) \cap ConversationMark : d.live[r] # None
Final(d) ==
  /\ AsFound(d, Sample \cup ConversationMark) /\ MessagesProved(d) /\ SamplesOwned(d)
  /\ ActionsProved(d) /\ MarksOwned(d)

Progress ==
  /\ pc \in Unscoping => AsFound(tx, Sample \cup ConversationMark)
  /\ pc \in {"nodes", "owners", "unowned"} =>
       Message \cup Observation \subseteq Live(tx) /\ AsFound(tx, Observation)
  /\ pc \in {"nodes", "owners"} => \A m \in Message : tx.live[m] = Own(m)
  /\ pc = "unowned" => \A m \in Message : tx.live[m] # None => Named(m) = {tx.live[m]}
  /\ pc = "observations" => \A o \in Live(tx) \cap Observation : MessageOf[o] \in Live(tx)
  /\ pc \in {"observations", "samples", "actions", "marks", "reconcile"} => MessagesProved(tx)
  /\ pc \in {"actions", "marks", "reconcile"} => SamplesOwned(tx)
  /\ pc \in {"marks", "reconcile"} => ActionsProved(tx)
  /\ pc = "reconcile" => MarksOwned(tx)
  /\ pc = "commit" => Final(tx)
  /\ db.version = Current => Final(db)

SchemaInv ==
  /\ CopyFits(db) /\ CopyFits(tx) /\ FoundFits /\ VersionsFit
  /\ pc \in Unscoping \cup {"closed", "schema", "commit", "open", "refused", "failed"}
  /\ failures \in 0..MaxFailures
  /\ found.db.version < 4 => Progress

-----------------------------------------------------------------------------
(* Lemmas about the steps' operators *)

LEMMA StoredIs ==
  ASSUME NEW d \in Stored
  PROVE  /\ Live(d) \subseteq AnyRow /\ d.live \in [Live(d) -> S!Owner]
         /\ d.legacy \subseteq AnyRow /\ d.version \in {1, 2, 3, 4, Current, 6}
<1>1. PICK group \in SUBSET AnyRow : d.live \in [group -> S!Owner]
  BY DEF Stored, Lives
<1>2. Live(d) = group
  BY <1>1 DEF Live
<1> QED BY <1>1, <1>2 DEF Stored

LEMMA BoundIs ==
  ASSUME NEW d \in Stored, NEW group \in SUBSET Live(d), NEW owner,
         \A r \in group : owner[r] \in S!Owner
  PROVE  /\ S!Bound(d, group, owner) \in Stored /\ S!Bound(d, group, owner).version = d.version
         /\ S!Bound(d, group, owner).legacy = d.legacy /\ Live(S!Bound(d, group, owner)) = Live(d)
         /\ \A r \in Live(d) : S!Bound(d, group, owner).live[r] =
              IF r \in group THEN owner[r] ELSE d.live[r]
<1> DEFINE live == [r \in Live(d) |-> IF r \in group THEN owner[r] ELSE d.live[r]]
<1>1. S!Bound(d, group, owner) = [d EXCEPT !.live = live]
  BY DEF S!Bound, S!Live, Live
<1>2. live \in [Live(d) -> S!Owner] /\ Live(d) \in SUBSET AnyRow
  BY StoredIs
<1>3. live \in Lives
  BY <1>2 DEF Lives
<1>4. /\ S!Bound(d, group, owner) \in Stored /\ S!Bound(d, group, owner).version = d.version
      /\ S!Bound(d, group, owner).legacy = d.legacy /\ S!Bound(d, group, owner).live = live
  BY <1>1, <1>3 DEF Stored
<1>5. Live(S!Bound(d, group, owner)) = Live(d)
  BY <1>4 DEF Live
<1> QED BY <1>4, <1>5

LEMMA DeletedIs ==
  ASSUME NEW d \in Stored, NEW group
  PROVE  /\ S!Deleted(d, group) \in Stored /\ S!Deleted(d, group).version = d.version
         /\ S!Deleted(d, group).legacy = d.legacy /\ Live(S!Deleted(d, group)) = Live(d) \ group
         /\ \A r \in Live(d) \ group : S!Deleted(d, group).live[r] = d.live[r]
<1> DEFINE live == [r \in Live(d) \ group |-> d.live[r]]
<1>1. S!Deleted(d, group) = [d EXCEPT !.live = live]
  BY DEF S!Deleted, S!Live, Live
<1>2. live \in [Live(d) \ group -> S!Owner] /\ Live(d) \ group \in SUBSET AnyRow
  BY StoredIs
<1>3. live \in Lives
  BY <1>2 DEF Lives
<1>4. /\ S!Deleted(d, group) \in Stored /\ S!Deleted(d, group).version = d.version
      /\ S!Deleted(d, group).legacy = d.legacy /\ S!Deleted(d, group).live = live
  BY <1>1, <1>3 DEF Stored
<1>5. Live(S!Deleted(d, group)) = Live(d) \ group
  BY <1>4 DEF Live
<1> QED BY <1>4, <1>5

\* Rows that are kept aside are no longer live, and the others stay.
LEMMA MovedIs ==
  ASSUME NEW d \in Stored, Whole(d), NEW group \in SUBSET Live(d)
  PROVE  /\ S!Moved(d, group) \in Stored /\ S!Moved(d, group).version = d.version
         /\ Whole(S!Moved(d, group)) /\ Live(S!Moved(d, group)) = Live(d) \ group
         /\ \A r \in Live(d) \ group : S!Moved(d, group).live[r] = d.live[r]
<1> DEFINE kept == S!Kept(d, group)
<1>1. kept = [d EXCEPT !.legacy = d.legacy \cup group]
  BY DEF S!Kept
<1>2. d.legacy \cup group \in SUBSET AnyRow
  BY StoredIs
<1>3. /\ kept \in Stored /\ kept.version = d.version /\ kept.live = d.live
      /\ kept.legacy = d.legacy \cup group
  BY <1>1, <1>2 DEF Stored
<1>4. Live(kept) = Live(d)
  BY <1>3 DEF Live
<1>5. S!Moved(d, group) = S!Deleted(kept, group)
  BY DEF S!Moved
<1>6. /\ S!Moved(d, group) \in Stored /\ S!Moved(d, group).version = d.version
      /\ S!Moved(d, group).legacy = d.legacy \cup group
      /\ Live(S!Moved(d, group)) = Live(d) \ group
      /\ \A r \in Live(d) \ group : S!Moved(d, group).live[r] = d.live[r]
  <2> HIDE DEF kept
  <2> QED BY <1>3, <1>4, <1>5, DeletedIs
<1>7. Whole(S!Moved(d, group))
  BY <1>6 DEF Whole
<1> QED BY <1>6, <1>7

LEMMA SingleIs ==
  ASSUME NEW owners \in SUBSET S!Owner
  PROVE  /\ S!Single(owners) \in S!Owner
         /\ S!Single(owners) # None => owners \ {None} = {S!Single(owners)}
<1>1. CASE \E g \in owners : owners \ {None} = {g}
  <2>1. PICK g \in owners : owners \ {None} = {g}
    BY <1>1
  <2>2. S!Single(owners) = CHOOSE x \in owners : x # None
    BY <1>1 DEF S!Single
  <2>3. \E x \in owners : x # None
    BY <2>1
  <2>4. S!Single(owners) \in owners /\ S!Single(owners) # None
    BY <2>2, <2>3
  <2> QED BY <2>1, <2>4
<1>2. CASE ~ \E g \in owners : owners \ {None} = {g}
  BY <1>2 DEF S!Single, S!Owner
<1> QED BY <1>1, <1>2

-----------------------------------------------------------------------------
(* The steps of the migration *)

\* What the invariant says inside the transaction.
LEMMA InTransaction ==
  ASSUME SchemaInv, pc \in Unscoping
  PROVE  /\ tx \in Stored /\ Whole(tx) /\ Distinct(tx) /\ FoundFits /\ db = found.db
         /\ tx.version = found.db.version /\ tx.version < Current
         /\ pc # "messages" => found.db.version < 4
         /\ found.db.version < 4 => Progress
         /\ Live(tx) \subseteq AnyRow /\ tx.live \in [Live(tx) -> S!Owner]
<1>1. tx \in Stored /\ Whole(tx) /\ Distinct(tx) /\ FoundFits
  BY DEF SchemaInv, CopyFits
<1>2. db.version < Current /\ tx.version = db.version
  BY DEF SchemaInv, VersionsFit
<1>3. db = found.db /\ (pc # "messages" => db.version < 4)
  BY <1>2 DEF SchemaInv, VersionsFit, Current
<1> QED BY <1>1, <1>2, <1>3, StoredIs DEF SchemaInv

\* A step inside the transaction.
LEMMA StepInv ==
  ASSUME SchemaInv, pc \in Unscoping, UNCHANGED <<db, found, failures>>,
         pc' \in (Unscoping \ {"messages"}) \cup {"commit"}, pc' # "commit" => db.version < 4,
         tx' \in Stored, tx'.version = tx.version, Whole(tx'), Distinct(tx)',
         found.db.version < 4 => Progress'
  PROVE  SchemaInv'
<1>1. pc' \in Unscoping \cup {"commit"} /\ pc' \notin {"closed", "schema", "messages", "open",
                                                       "refused", "failed"}
  BY DEF Unscoping
<1>2. db.version < Current /\ tx.version = db.version /\ db = found.db
  BY InTransaction DEF SchemaInv, VersionsFit
<1>3. CopyFits(db)' /\ CopyFits(tx)' /\ FoundFits'
  <2>1. CopyFits(tx)'
    BY DEF CopyFits, Whole, Live
  <2>2. CopyFits(db)'
    BY DEF SchemaInv, CopyFits, Whole, Distinct
  <2> QED BY <2>1, <2>2 DEF SchemaInv, FoundFits
<1>4. VersionsFit'
  <2>1. db.version \in {1, 2, 3, 4, 5, 6}
    BY DEF SchemaInv, CopyFits, Stored, Current
  <2>2. pc' \in Unscoping => db.version < 4
    BY DEF Unscoping
  <2> QED BY <1>1, <1>2, <2>1, <2>2 DEF VersionsFit, Current
<1> QED BY <1>1, <1>3, <1>4 DEF SchemaInv

\* Moving group aside leaves the others as they were.
LEMMA MovedStep ==
  ASSUME SchemaInv, pc \in Unscoping, UNCHANGED <<db, found>>, NEW group \in SUBSET Live(tx),
         tx' = S!Moved(tx, group)
  PROVE  /\ tx' \in Stored /\ tx'.version = tx.version /\ Whole(tx') /\ Distinct(tx)'
         /\ Live(tx)' = Live(tx) \ group /\ \A r \in Live(tx)' : tx'.live[r] = tx.live[r]
         /\ \A others : AsFound(tx, others) => AsFound(tx, others)'
<1>1. /\ tx' \in Stored /\ tx'.version = tx.version /\ Whole(tx') /\ Live(tx') = Live(tx) \ group
      /\ \A r \in Live(tx) \ group : tx'.live[r] = tx.live[r]
  BY InTransaction, MovedIs
<1>2. Live(tx)' = Live(tx')
  BY DEF Live
<1>3. Distinct(tx)'
  BY <1>1, <1>2, InTransaction DEF Distinct
<1>4. \A others : AsFound(tx, others) => AsFound(tx, others)'
  BY <1>1, <1>2 DEF AsFound
<1> QED BY <1>1, <1>2, <1>3, <1>4

\* Sent messages name their gateway.
LEMMA MessagesInv ==
  ASSUME Tables, SchemaInv, S!MigrateMessages
  PROVE  SchemaInv'
<1>1. /\ pc = "messages" /\ tx' = S!Senders(tx) /\ UNCHANGED <<db, found, failures>>
      /\ pc' = IF tx.version < 4 THEN "nodes" ELSE "commit"
  BY DEF S!MigrateMessages, S!Step
<1>2. pc \in Unscoping
  BY <1>1 DEF Unscoping
<1>3. tx = found.db /\ tx = db
  BY <1>1, <1>2, InTransaction DEF SchemaInv, VersionsFit
<1>4. tx.version \in {1, 2, 3, 4}
  BY <1>2, <1>3, InTransaction DEF FoundFits, Stored, Current
<1>5. pc' \in (Unscoping \ {"messages"}) \cup {"commit"} /\ (pc' # "commit" => db.version < 4)
  BY <1>1, <1>3, <1>4 DEF Unscoping
<1>6. CASE tx.version >= 3
  <2>1. tx' = tx
    BY <1>1, <1>6 DEF S!Senders
  <2>2. Distinct(tx)' /\ Whole(tx') /\ Live(tx)' = Live(tx)
    BY <1>1, <1>2, <2>1, InTransaction DEF Distinct, Whole, Live
  <2>3. ASSUME found.db.version < 4 PROVE Progress'
    <3>1. Live(tx) = AnyRow /\ pc' = "nodes" /\ found.db.version = 3
      BY <1>1, <1>2, <1>3, <1>4, <1>6, <2>3, InTransaction DEF FoundFits
    <3>2. \A group : AsFound(tx, group)'
      BY <1>1, <1>3, <2>1, <2>2 DEF AsFound
    <3>3. \A m \in Message : tx'.live[m] = Own(m)'
      BY <1>1, <1>3, <2>1, <3>1 DEF Own
    <3>4. db'.version # Current
      BY <1>1, <1>3, <1>4 DEF Current
    <3>5. Message \cup Observation \subseteq Live(tx)'
      BY <2>2, <3>1 DEF AnyRow
    <3> QED BY <3>1, <3>2, <3>3, <3>4, <3>5 DEF Progress, Unscoping
  <2> QED BY <1>1, <1>2, <1>5, <2>1, <2>2, <2>3, InTransaction, StepInv
<1>7. CASE tx.version < 3
  <2> DEFINE group == S!Unowned(tx, Out)
  <2>1. tx' = S!Bound(tx, group, found.sender)
    BY <1>1, <1>4, <1>7 DEF S!Senders
  <2>2. group = {r \in Live(tx) \cap Out : tx.live[r] = None}
    BY DEF S!Unowned, S!Live, Live
  <2>3. group \in SUBSET Live(tx) /\ \A r \in group : found.sender[r] \in S!Owner
    BY <1>2, <2>2, InTransaction DEF FoundFits
  <2>4. /\ tx' \in Stored /\ tx'.version = tx.version /\ tx'.legacy = tx.legacy
        /\ Live(tx') = Live(tx)
        /\ \A r \in Live(tx) : tx'.live[r] = IF r \in group THEN found.sender[r] ELSE tx.live[r]
    <3>1. tx \in Stored
      BY <1>2, InTransaction
    <3>2. PICK named \in SUBSET Live(tx) : named = group
      BY <2>3
    <3>3. \A r \in named : found.sender[r] \in S!Owner
      BY <2>3, <3>2
    <3>4. tx' = S!Bound(tx, named, found.sender)
      BY <2>1, <3>2
    <3>5. /\ tx' \in Stored /\ tx'.version = tx.version /\ tx'.legacy = tx.legacy
          /\ Live(tx') = Live(tx)
          /\ \A r \in Live(tx) : tx'.live[r] = IF r \in named THEN found.sender[r] ELSE tx.live[r]
      BY <3>1, <3>3, <3>4, BoundIs
    <3> QED BY <3>2, <3>5
  <2>5. Live(tx)' = Live(tx) /\ Whole(tx')
    BY <1>2, <2>4, InTransaction DEF Live, Whole
  <2>6. Message \cap Observation = {} /\ Out \subseteq Message /\ Message \cap Sample = {}
        /\ Message \cap ConversationMark = {}
    BY DEF Tables, MigrationBounds
  <2>7. \A r \in Live(tx) \ Message : tx'.live[r] = tx.live[r]
    BY <2>2, <2>4, <2>6
  <2>8. Distinct(tx)'
    <3>1. found.alike \cap Message = {}
      BY <1>2, <2>6, InTransaction DEF FoundFits
    <3> QED BY <1>1, <1>2, <2>5, <2>7, <3>1, InTransaction DEF Distinct
  <2>9. ASSUME found.db.version < 4 PROVE Progress'
    <3>1. Live(tx) = AnyRow /\ pc' = "nodes" /\ found.db.version < 3
      BY <1>1, <1>2, <1>3, <1>4, <1>7, <2>9, InTransaction DEF FoundFits
    <3>2. AsFound(tx, Observation)' /\ AsFound(tx, Sample \cup ConversationMark)'
      BY <1>1, <1>3, <2>5, <2>6, <2>7 DEF AsFound
    <3>3. ASSUME NEW m \in Message PROVE tx'.live[m] = Own(m)'
      <4>1. m \in Live(tx)
        BY <3>1 DEF AnyRow
      <4> QED BY <1>1, <1>3, <2>2, <2>4, <3>1, <4>1 DEF Own
    <3>4. db'.version # Current
      BY <1>1, <1>3, <1>4 DEF Current
    <3>5. Message \cup Observation \subseteq Live(tx)'
      BY <2>5, <3>1 DEF AnyRow
    <3> QED BY <3>1, <3>2, <3>3, <3>4, <3>5 DEF Progress, Unscoping
  <2> QED BY <1>1, <1>2, <1>5, <2>4, <2>5, <2>8, <2>9, StepInv
<1> QED BY <1>4, <1>6, <1>7

\* Nodes are kept aside.
LEMMA NodesInv ==
  ASSUME Tables, SchemaInv, S!MigrateNodes
  PROVE  SchemaInv'
<1>1. /\ pc = "nodes" /\ pc' = "owners" /\ UNCHANGED <<db, found, failures>>
      /\ tx' = S!Moved(tx, Live(tx) \cap Nameless)
  BY DEF S!MigrateNodes, S!Step, S!Live, Live
<1>2. pc \in Unscoping /\ pc' \in Unscoping \ {"messages"}
  BY <1>1 DEF Unscoping
<1>3. found.db.version < 4 /\ db = found.db /\ Progress
  BY <1>1, <1>2, InTransaction
<1>4. /\ tx' \in Stored /\ tx'.version = tx.version /\ Whole(tx') /\ Distinct(tx)'
      /\ Live(tx)' = Live(tx) \ Nameless /\ \A r \in Live(tx)' : tx'.live[r] = tx.live[r]
      /\ \A others : AsFound(tx, others) => AsFound(tx, others)'
  BY <1>1, <1>2, MovedStep
<1>5. Progress'
  <2>1. AsFound(tx, Sample \cup ConversationMark)' /\ AsFound(tx, Observation)'
    BY <1>1, <1>2, <1>3, <1>4 DEF Progress
  <2>2. Message \cup Observation \subseteq Live(tx)'
    BY <1>1, <1>3, <1>4 DEF Progress, Tables, MigrationBounds
  <2>3. \A m \in Message : tx'.live[m] = Own(m)'
    BY <1>1, <1>3, <1>4, <2>2 DEF Progress, Own
  <2>4. db'.version # Current
    BY <1>1, <1>2 DEF SchemaInv, VersionsFit, Current
  <2> QED BY <1>1, <2>1, <2>2, <2>3, <2>4 DEF Progress, Unscoping
<1> QED BY <1>1, <1>2, <1>3, <1>4, <1>5, StepInv

\* Who else a message may belong to, as its observations say.
LEMMA OwnersInv ==
  ASSUME Tables, SchemaInv, S!MigrateOwners
  PROVE  SchemaInv'
<1>1. /\ pc = "owners" /\ pc' = "unowned" /\ UNCHANGED <<db, found, failures>>
      /\ tx' = S!Owners(tx)
  BY DEF S!MigrateOwners, S!Step
<1>2. pc \in Unscoping /\ pc' \in Unscoping \ {"messages"}
  BY <1>1 DEF Unscoping
<1>3. found.db.version < 4 /\ db = found.db /\ Progress
  BY <1>1, <1>2, InTransaction
<1> DEFINE group == S!Unowned(tx, Message)
           names(m) == {tx.live[o] : o \in S!ObservationsOf(tx, m)}
           owner == [m \in group |-> S!Single(names(m))]
<1>4. group = {m \in Live(tx) \cap Message : tx.live[m] = None} /\ group \in SUBSET Live(tx)
  BY DEF S!Unowned, S!Live, Live
<1>5. ASSUME NEW m \in Message
      PROVE  names(m) = {tx.live[o] : o \in {p \in Observation : MessageOf[p] = m}}
             /\ names(m) \in SUBSET S!Owner /\ names(m) \ {None} = Witness(m)
  <2>1. Observation \subseteq Live(tx) /\ AsFound(tx, Observation)
    BY <1>1, <1>3 DEF Progress
  <2>2. S!ObservationsOf(tx, m) = {p \in Observation : MessageOf[p] = m}
    BY <2>1 DEF S!ObservationsOf, S!Live, Live
  <2>3. \A o \in Observation : tx.live[o] = found.db.live[o] /\ tx.live[o] \in S!Owner
    BY <1>2, <2>1, InTransaction DEF AsFound
  <2> QED BY <2>2, <2>3 DEF Witness
<1>6. tx' = S!Bound(tx, group, owner)
  BY <1>1 DEF S!Owners
<1>7. \A m \in group : owner[m] \in S!Owner
  <2> SUFFICES ASSUME NEW m \in group PROVE S!Single(names(m)) \in S!Owner
    OBVIOUS
  <2>1. names(m) \in SUBSET S!Owner
    BY <1>4, <1>5
  <2> HIDE DEF names
  <2> QED BY <2>1, SingleIs
<1>8. /\ tx' \in Stored /\ tx'.version = tx.version /\ tx'.legacy = tx.legacy
      /\ Live(tx') = Live(tx)
      /\ \A r \in Live(tx) : tx'.live[r] = IF r \in group THEN owner[r] ELSE tx.live[r]
  <2>1. tx \in Stored
    BY <1>2, InTransaction
  <2>2. PICK named \in SUBSET Live(tx) : named = group
    BY <1>4
  <2>6. PICK given : given = owner
    OBVIOUS
  <2>3. \A m \in named : given[m] \in S!Owner
    <3> HIDE DEF group, owner
    <3> QED BY <1>7, <2>2, <2>6
  <2>4. tx' = S!Bound(tx, named, given)
    <3> HIDE DEF group, owner
    <3> QED BY <1>6, <2>2, <2>6
  <2>5. /\ tx' \in Stored /\ tx'.version = tx.version /\ tx'.legacy = tx.legacy
        /\ Live(tx') = Live(tx)
        /\ \A r \in Live(tx) : tx'.live[r] = IF r \in named THEN given[r] ELSE tx.live[r]
    <3> DEFINE joined == S!Bound(tx, named, given)
    <3>1. joined \in Stored /\ joined.version = tx.version /\ joined.legacy = tx.legacy
          /\ Live(joined) = Live(tx)
          /\ \A r \in Live(tx) : joined.live[r] = IF r \in named THEN given[r] ELSE tx.live[r]
      BY <2>1, <2>3, BoundIs
    <3> HIDE DEF joined
    <3> QED BY <2>4, <3>1 DEF joined
  <2> HIDE DEF group, owner
  <2> QED BY <2>2, <2>5, <2>6
<1>9. Live(tx)' = Live(tx) /\ Whole(tx')
  BY <1>2, <1>8, InTransaction DEF Live, Whole
<1>10. \A r \in Live(tx) \ Message : tx'.live[r] = tx.live[r]
  BY <1>4, <1>8
<1>11. Distinct(tx)'
  <2>1. found.alike \cap Message = {}
    BY <1>2, InTransaction DEF FoundFits, Tables, MigrationBounds
  <2> QED BY <1>1, <1>2, <1>9, <1>10, <2>1, InTransaction DEF Distinct
<1>12. Progress'
  <2>1. AsFound(tx, Sample \cup ConversationMark) /\ AsFound(tx, Observation)
        /\ Message \cup Observation \subseteq Live(tx) /\ \A m \in Message : tx.live[m] = Own(m)
    BY <1>1, <1>2, <1>3 DEF Progress
  <2>2. AsFound(tx, Sample \cup ConversationMark)' /\ AsFound(tx, Observation)'
    BY <1>1, <1>9, <1>10, <2>1 DEF AsFound, Tables, MigrationBounds
  <2>3. ASSUME NEW m \in Message, tx'.live[m] # None PROVE Named(m) = {tx'.live[m]}
    <3>1. CASE m \in group
      <4>1. tx'.live[m] = S!Single(names(m)) /\ Own(m) = None
        BY <1>4, <1>8, <2>1, <3>1
      <4>2. names(m) \ {None} = {tx'.live[m]}
        <5> HIDE DEF names
        <5> QED BY <1>5, <2>3, <4>1, SingleIs
      <4>3. Named(m) = Witness(m)
        BY <4>1 DEF Named, Own
      <4> QED BY <1>5, <4>2, <4>3
    <3>2. CASE m \notin group
      <4>1. tx'.live[m] = Own(m) /\ Own(m) # None
        BY <1>8, <2>1, <2>3, <3>2
      <4> QED BY <4>1 DEF Named, Own
    <3> QED BY <3>1, <3>2
  <2>4. \A m \in Message : Named(m)' = Named(m)
    BY <1>1 DEF Named, Witness
  <2>5. db'.version # Current
    BY <1>1, <1>2 DEF SchemaInv, VersionsFit, Current
  <2> QED BY <1>1, <1>9, <2>1, <2>2, <2>3, <2>4, <2>5 DEF Progress, Unscoping
<1> QED BY <1>1, <1>2, <1>3, <1>8, <1>9, <1>11, <1>12, StepInv

\* Rows that are only moved aside take nothing from what is proved of the others.
LEMMA ProvedStays ==
  ASSUME Tables, UNCHANGED found, Live(tx)' \subseteq Live(tx),
         \A r \in Live(tx)' : tx'.live[r] = tx.live[r]
  PROVE  /\ \A m : Named(m)' = Named(m)
         /\ MessagesProved(tx) => MessagesProved(tx)'
         /\ SamplesOwned(tx) => SamplesOwned(tx)'
         /\ Live(tx)' \cap Message = Live(tx) \cap Message =>
              (ActionsProved(tx) => ActionsProved(tx)')
<1>1. \A m : Named(m)' = Named(m)
  BY DEF Named, Witness
<1>2. MessagesProved(tx) => MessagesProved(tx)'
  <2> SUFFICES ASSUME MessagesProved(tx), NEW m \in Live(tx)' \cap Message
               PROVE  Named(m)' = {tx'.live[m]}
    BY DEF MessagesProved
  <2> QED BY <1>1 DEF MessagesProved
<1>3. SamplesOwned(tx) => SamplesOwned(tx)'
  BY DEF SamplesOwned
<1>4. ASSUME Live(tx)' \cap Message = Live(tx) \cap Message, ActionsProved(tx)
      PROVE  ActionsProved(tx)'
  <2> SUFFICES ASSUME NEW x \in Live(tx)' \cap Action
               PROVE  UNION {Named(m)' : m \in PacketsOf[x] \cap Out \cap Live(tx)'} = {tx'.live[x]}
    BY DEF ActionsProved
  <2>1. PacketsOf[x] \cap Out \cap Live(tx)' = PacketsOf[x] \cap Out \cap Live(tx)
    BY <1>4 DEF Tables, MigrationBounds
  <2>2. UNION {Named(m) : m \in PacketsOf[x] \cap Out \cap Live(tx)} = {tx.live[x]}
    BY <1>4 DEF ActionsProved
  <2>3. {Named(m)' : m \in PacketsOf[x] \cap Out \cap Live(tx)'}
        = {Named(m) : m \in PacketsOf[x] \cap Out \cap Live(tx)}
    BY <1>1, <2>1
  <2> QED BY <2>2, <2>3
<1> QED BY <1>1, <1>2, <1>3, <1>4

\* Before the new version is written what was found is what the file holds.
LEMMA NotYetCurrent ==
  ASSUME SchemaInv, pc \in Unscoping, UNCHANGED db
  PROVE  db'.version # Current
<1>1. db.version < Current
  BY DEF SchemaInv, VersionsFit
<1>2. db.version # Current
  BY <1>1 DEF Current
<1> QED BY <1>2

\* Messages without a single owner are kept aside, with their observations.
LEMMA UnownedInv ==
  ASSUME Tables, SchemaInv, S!MigrateUnowned
  PROVE  SchemaInv'
<1>1. /\ pc = "unowned" /\ pc' = "observations" /\ UNCHANGED <<db, found, failures>>
      /\ tx' = S!UnscopedMessages(tx)
  BY DEF S!MigrateUnowned, S!Step
<1>2. pc \in Unscoping /\ pc' \in Unscoping \ {"messages"} /\ pc' # "commit"
  BY <1>1 DEF Unscoping
<1>3. found.db.version < 4 /\ db = found.db /\ Progress
  BY <1>1, <1>2, InTransaction
<1>4. PICK gone : gone = S!Doubtful(tx)
  OBVIOUS
<1>5. /\ gone \subseteq Live(tx) \cap Message
      /\ \A m \in Live(tx) \cap Message : tx.live[m] = None => m \in gone
  BY <1>4 DEF S!Doubtful, S!Live, Live
<1>6. PICK theirs : theirs = UNION {S!ObservationsOf(tx, m) : m \in gone}
  OBVIOUS
<1>7. theirs = {o \in Live(tx) \cap Observation : MessageOf[o] \in gone}
  BY <1>6 DEF S!ObservationsOf, S!Live, Live
<1>8. gone \cup theirs \in SUBSET Live(tx) /\ tx' = S!Moved(tx, gone \cup theirs)
  BY <1>1, <1>4, <1>5, <1>6, <1>7 DEF S!UnscopedMessages
<1>9. /\ tx' \in Stored /\ tx'.version = tx.version /\ Whole(tx') /\ Distinct(tx)'
      /\ Live(tx)' = Live(tx) \ (gone \cup theirs)
      /\ \A r \in Live(tx)' : tx'.live[r] = tx.live[r]
      /\ \A others : AsFound(tx, others) => AsFound(tx, others)'
  BY <1>1, <1>2, <1>8, MovedStep
<1>10. Progress'
  <2>1. AsFound(tx, Sample \cup ConversationMark)'
    BY <1>1, <1>2, <1>3, <1>9 DEF Progress
  <2>2. /\ Message \subseteq Live(tx)
        /\ \A m \in Message : tx.live[m] # None => Named(m) = {tx.live[m]}
    BY <1>1, <1>3 DEF Progress
  <2>3. \A o \in Live(tx)' \cap Observation : MessageOf[o] \in Live(tx)'
    BY <1>5, <1>7, <1>9, <2>2 DEF Tables, MigrationBounds
  <2>4. MessagesProved(tx)'
    <3> SUFFICES ASSUME NEW m \in Live(tx)' \cap Message PROVE Named(m)' = {tx'.live[m]}
      BY DEF MessagesProved
    <3>1. tx.live[m] # None /\ tx'.live[m] = tx.live[m]
      BY <1>5, <1>9
    <3>2. Named(m)' = Named(m)
      BY <1>1 DEF Named, Witness
    <3> QED BY <2>2, <3>1, <3>2
  <2> QED BY <1>1, <1>2, <2>1, <2>3, <2>4, NotYetCurrent DEF Progress, Unscoping
<1> QED BY <1>1, <1>2, <1>3, <1>9, <1>10, StepInv

\* Observations follow their message.
LEMMA ObservationsInv ==
  ASSUME Tables, SchemaInv, S!MigrateObservations
  PROVE  SchemaInv'
<1>1. /\ pc = "observations" /\ pc' = "samples" /\ UNCHANGED <<db, found, failures>>
      /\ tx' = S!Observations(tx) /\ ~S!Collide(tx)
  BY DEF S!MigrateObservations, S!Step
<1>2. pc \in Unscoping /\ pc' \in Unscoping \ {"messages"} /\ pc' # "commit"
  BY <1>1 DEF Unscoping
<1>3. found.db.version < 4 /\ db = found.db /\ Progress
  BY <1>1, <1>2, InTransaction
<1>4. PICK group \in SUBSET Live(tx) : group = Live(tx) \cap Observation
  OBVIOUS
<1>5. PICK given : given = [o \in group |-> tx.live[MessageOf[o]]]
  OBVIOUS
<1>6. \A o \in group : given[o] \in S!Owner
  BY <1>1, <1>2, <1>3, <1>4, <1>5, InTransaction DEF Progress
<1>7. tx' = S!Bound(tx, group, given)
  BY <1>1, <1>4, <1>5 DEF S!Observations, S!Live, Live
<1>8. /\ tx' \in Stored /\ tx'.version = tx.version /\ tx'.legacy = tx.legacy
      /\ Live(tx') = Live(tx)
      /\ \A r \in Live(tx) \ Observation : tx'.live[r] = tx.live[r]
  <2> DEFINE joined == S!Bound(tx, group, given)
  <2>1. /\ joined \in Stored /\ joined.version = tx.version /\ joined.legacy = tx.legacy
        /\ Live(joined) = Live(tx)
        /\ \A r \in Live(tx) : joined.live[r] = IF r \in group THEN given[r] ELSE tx.live[r]
    <3>1. tx \in Stored
      BY <1>2, InTransaction
    <3> QED BY <1>6, <3>1, BoundIs
  <2> HIDE DEF joined
  <2> QED BY <1>4, <1>7, <2>1 DEF joined
<1>9. Live(tx)' = Live(tx) /\ Whole(tx')
  BY <1>2, <1>8, InTransaction DEF Live, Whole
<1>10. Distinct(tx)'
  BY <1>1, <1>9 DEF Distinct, S!Collide, S!Live, Live
<1>11. Progress'
  <2>1. AsFound(tx, Sample \cup ConversationMark)'
    BY <1>1, <1>2, <1>3, <1>8, <1>9 DEF Progress, AsFound, Tables, MigrationBounds
  <2>2. MessagesProved(tx)'
    <3> SUFFICES ASSUME NEW m \in Live(tx)' \cap Message PROVE Named(m)' = {tx'.live[m]}
      BY DEF MessagesProved
    <3>1. tx'.live[m] = tx.live[m]
      BY <1>8, <1>9 DEF Tables, MigrationBounds
    <3>2. Named(m)' = Named(m)
      BY <1>1 DEF Named, Witness
    <3> QED BY <1>1, <1>3, <1>9, <3>1, <3>2 DEF Progress, MessagesProved
  <2> QED BY <1>1, <1>2, <2>1, <2>2, NotYetCurrent DEF Progress, Unscoping
<1> QED BY <1>1, <1>2, <1>3, <1>8, <1>9, <1>10, <1>11, StepInv

\* Samples of no known gateway are kept aside.
LEMMA SamplesInv ==
  ASSUME Tables, SchemaInv, S!MigrateSamples
  PROVE  SchemaInv'
<1>1. /\ pc = "samples" /\ pc' = "actions" /\ UNCHANGED <<db, found, failures>>
      /\ tx' = S!Samples(tx)
  BY DEF S!MigrateSamples, S!Step
<1>2. pc \in Unscoping /\ pc' \in Unscoping \ {"messages"} /\ pc' # "commit"
  BY <1>1 DEF Unscoping
<1>3. found.db.version < 4 /\ db = found.db /\ Progress
  BY <1>1, <1>2, InTransaction
<1>4. PICK group \in SUBSET Live(tx) : group = {r \in Live(tx) \cap Sample : tx.live[r] = None}
  OBVIOUS
<1>5. tx' = S!Moved(tx, group)
  BY <1>1, <1>4 DEF S!Samples, S!Unowned, S!Live, Live
<1>6. /\ tx' \in Stored /\ tx'.version = tx.version /\ Whole(tx') /\ Distinct(tx)'
      /\ Live(tx)' = Live(tx) \ group /\ \A r \in Live(tx)' : tx'.live[r] = tx.live[r]
      /\ \A others : AsFound(tx, others) => AsFound(tx, others)'
  BY <1>1, <1>2, <1>5, MovedStep
<1>7. Progress'
  <2>1. AsFound(tx, Sample \cup ConversationMark)'
    BY <1>1, <1>2, <1>3, <1>6 DEF Progress
  <2>2. MessagesProved(tx)'
    BY <1>1, <1>3, <1>6, ProvedStays DEF Progress
  <2>3. SamplesOwned(tx)'
    BY <1>4, <1>6 DEF SamplesOwned
  <2> QED BY <1>1, <1>2, <2>1, <2>2, <2>3, NotYetCurrent DEF Progress, Unscoping
<1> QED BY <1>1, <1>2, <1>3, <1>6, <1>7, StepInv

\* No row names the absence of a gateway.
LEMMA NamedAreGateways ==
  ASSUME NEW m
  PROVE  None \notin Named(m)
<1>1. None \notin Witness(m)
  BY DEF Witness
<1> QED BY <1>1 DEF Named

\* Node actions belong to the gateway of the messages with their packet id.
LEMMA ActionsInv ==
  ASSUME Tables, SchemaInv, S!MigrateActions
  PROVE  SchemaInv'
<1>1. /\ pc = "actions" /\ pc' = "marks" /\ UNCHANGED <<db, found, failures>>
      /\ tx' = S!Actions(tx)
  BY DEF S!MigrateActions, S!Step
<1>2. pc \in Unscoping /\ pc' \in Unscoping \ {"messages"} /\ pc' # "commit"
  BY <1>1 DEF Unscoping
<1>3. found.db.version < 4 /\ db = found.db /\ Progress
  BY <1>1, <1>2, InTransaction
<1>4. PICK group \in SUBSET Live(tx) : group = Live(tx) \cap Action
  OBVIOUS
<1> DEFINE theirs(x) == PacketsOf[x] \cap Out \cap Live(tx)
           names(x) == {tx.live[m] : m \in theirs(x)}
<1>5. PICK given : given = [x \in group |-> S!Single(names(x))]
  OBVIOUS
<1>6. ASSUME NEW x \in group
      PROVE  /\ names(x) \in SUBSET S!Owner /\ None \notin names(x)
             /\ names(x) = UNION {Named(m) : m \in theirs(x)}
  <2>1. \A m \in theirs(x) : Named(m) = {tx.live[m]}
    BY <1>1, <1>3 DEF Progress, MessagesProved, Tables, MigrationBounds
  <2>2. names(x) \in SUBSET S!Owner
    BY <1>2, InTransaction
  <2>3. None \notin names(x)
    BY <2>1, NamedAreGateways
  <2>4. \A g : g \in UNION {Named(m) : m \in theirs(x)} <=> \E m \in theirs(x) : g \in Named(m)
    OBVIOUS
  <2>5. \A g : g \in names(x) <=> \E m \in theirs(x) : g = tx.live[m]
    OBVIOUS
  <2>6. \A g : g \in UNION {Named(m) : m \in theirs(x)} <=> g \in names(x)
    <3> HIDE DEF names, theirs
    <3> QED BY <2>1, <2>4, <2>5
  <2>7. names(x) = UNION {Named(m) : m \in theirs(x)}
    <3> HIDE DEF names, theirs
    <3> QED BY <2>6
  <2> QED BY <2>2, <2>3, <2>7
<1>7. ASSUME NEW x \in group
      PROVE  given[x] \in S!Owner /\ (given[x] # None => names(x) = {given[x]})
  <2>1. given[x] = S!Single(names(x))
    BY <1>5
  <2>2. names(x) \in SUBSET S!Owner /\ names(x) \ {None} = names(x)
    BY <1>6
  <2> HIDE DEF names
  <2> QED BY <2>1, <2>2, SingleIs
<1>8. PICK joined : joined = S!Bound(tx, group, given)
  OBVIOUS
<1>9. /\ joined \in Stored /\ joined.version = tx.version /\ joined.legacy = tx.legacy
      /\ Live(joined) = Live(tx)
      /\ \A r \in Live(tx) : joined.live[r] = IF r \in group THEN given[r] ELSE tx.live[r]
  <2>1. \A x \in group : given[x] \in S!Owner
    BY <1>7
  <2> DEFINE copy == S!Bound(tx, group, given)
  <2>2. /\ copy \in Stored /\ copy.version = tx.version /\ copy.legacy = tx.legacy
        /\ Live(copy) = Live(tx)
        /\ \A r \in Live(tx) : copy.live[r] = IF r \in group THEN given[r] ELSE tx.live[r]
    <3>1. tx \in Stored
      BY <1>2, InTransaction
    <3> QED BY <2>1, <3>1, BoundIs
  <2>3. joined = copy
    BY <1>8
  <2> HIDE DEF copy
  <2> QED BY <2>2, <2>3
<1>10. Whole(joined)
  BY <1>2, <1>9, InTransaction DEF Whole
<1>11. PICK lost \in SUBSET Live(joined) :
         lost = {x \in Live(joined) \cap Action : joined.live[x] = None}
  OBVIOUS
<1>12. tx' = S!Moved(joined, lost)
  <2>1. S!Actions(tx) = S!Moved(joined, S!Unowned(joined, Action))
    BY <1>4, <1>5, <1>8 DEF S!Actions, S!Live, Live
  <2>2. S!Unowned(joined, Action) = lost
    BY <1>11 DEF S!Unowned, S!Live, Live
  <2> QED BY <1>1, <2>1, <2>2
<1>13. /\ tx' \in Stored /\ tx'.version = tx.version /\ Whole(tx') /\ Live(tx') = Live(tx) \ lost
       /\ \A r \in Live(tx) \ lost : tx'.live[r] = joined.live[r]
  <2> DEFINE moved == S!Moved(joined, lost)
  <2>1. /\ moved \in Stored /\ moved.version = joined.version /\ Whole(moved)
        /\ Live(moved) = Live(joined) \ lost
        /\ \A r \in Live(joined) \ lost : moved.live[r] = joined.live[r]
    BY <1>9, <1>10, MovedIs
  <2> HIDE DEF moved
  <2> QED BY <1>9, <1>12, <2>1 DEF moved
<1>14. Live(tx)' = Live(tx) \ lost /\ lost \subseteq Action
  BY <1>11, <1>13 DEF Live
<1>15. \A r \in Live(tx) \ Action : r \in Live(tx)' /\ tx'.live[r] = tx.live[r]
  BY <1>4, <1>9, <1>13, <1>14
<1>16. Distinct(tx)'
  <2>1. found.alike \cap Action = {}
    BY <1>2, InTransaction DEF FoundFits, Tables, MigrationBounds
  <2> QED BY <1>1, <1>2, <1>14, <1>15, <2>1, InTransaction DEF Distinct
<1>17. \A m : Named(m)' = Named(m)
  BY <1>1 DEF Named, Witness
<1>18. Progress'
  <2>1. AsFound(tx, Sample \cup ConversationMark)'
    BY <1>1, <1>2, <1>3, <1>14, <1>15 DEF Progress, AsFound, Tables, MigrationBounds
  <2>2. MessagesProved(tx)'
    <3> SUFFICES ASSUME NEW m \in Live(tx)' \cap Message PROVE Named(m)' = {tx'.live[m]}
      BY DEF MessagesProved
    <3>1. m \in Live(tx) /\ tx'.live[m] = tx.live[m]
      BY <1>14, <1>15 DEF Tables, MigrationBounds
    <3> QED BY <1>1, <1>3, <1>17, <3>1 DEF Progress, MessagesProved
  <2>3. SamplesOwned(tx)'
    BY <1>1, <1>3, <1>14, <1>15 DEF Progress, SamplesOwned, Tables, MigrationBounds
  <2>4. ActionsProved(tx)'
    <3> SUFFICES ASSUME NEW x \in Live(tx)' \cap Action
                 PROVE  UNION {Named(m)' : m \in PacketsOf[x] \cap Out \cap Live(tx)'}
                        = {tx'.live[x]}
      BY DEF ActionsProved
    <3>1. x \in group /\ x \notin lost /\ tx'.live[x] = given[x] /\ given[x] # None
      BY <1>4, <1>9, <1>11, <1>13, <1>14
    <3>2. UNION {Named(m) : m \in theirs(x)} = {tx'.live[x]}
      BY <1>6, <1>7, <3>1
    <3>3. PacketsOf[x] \cap Out \cap Live(tx)' = theirs(x)
      BY <1>14 DEF Tables, MigrationBounds
    <3>4. {Named(m)' : m \in PacketsOf[x] \cap Out \cap Live(tx)'} = {Named(m) : m \in theirs(x)}
      BY <1>17, <3>3
    <3> QED BY <3>2, <3>4
  <2> QED BY <1>1, <1>2, <2>1, <2>2, <2>3, <2>4, NotYetCurrent DEF Progress, Unscoping
<1> QED BY <1>1, <1>2, <1>3, <1>13, <1>16, <1>18, StepInv

\* Closed conversations without a gateway are kept aside.
LEMMA MarksInv ==
  ASSUME Tables, SchemaInv, S!MigrateMarks
  PROVE  SchemaInv'
<1>1. /\ pc = "marks" /\ pc' = "reconcile" /\ UNCHANGED <<db, found, failures>>
      /\ tx' = S!Marks(tx)
  BY DEF S!MigrateMarks, S!Step
<1>2. pc \in Unscoping /\ pc' \in Unscoping \ {"messages"} /\ pc' # "commit"
  BY <1>1 DEF Unscoping
<1>3. found.db.version < 4 /\ db = found.db /\ Progress
  BY <1>1, <1>2, InTransaction
<1>4. PICK group \in SUBSET Live(tx) :
        group = {r \in Live(tx) \cap ConversationMark : tx.live[r] = None}
               \cup (Live(tx) \cap Nameless)
  OBVIOUS
<1>5. tx' = S!Moved(tx, group)
  BY <1>1, <1>4 DEF S!Marks, S!Unowned, S!Live, Live
<1>6. /\ tx' \in Stored /\ tx'.version = tx.version /\ Whole(tx') /\ Distinct(tx)'
      /\ Live(tx)' = Live(tx) \ group /\ \A r \in Live(tx)' : tx'.live[r] = tx.live[r]
      /\ \A others : AsFound(tx, others) => AsFound(tx, others)'
  BY <1>1, <1>2, <1>5, MovedStep
<1>7. Progress'
  <2>1. AsFound(tx, Sample \cup ConversationMark)'
    BY <1>1, <1>2, <1>3, <1>6 DEF Progress
  <2>2. Live(tx)' \cap Message = Live(tx) \cap Message
    BY <1>4, <1>6 DEF Tables, MigrationBounds
  <2>3. MessagesProved(tx)' /\ SamplesOwned(tx)' /\ ActionsProved(tx)'
    BY <1>1, <1>3, <1>6, <2>2, ProvedStays DEF Progress
  <2>4. MarksOwned(tx)'
    BY <1>4, <1>6 DEF MarksOwned
  <2> QED BY <1>1, <1>2, <2>1, <2>3, <2>4, NotYetCurrent DEF Progress, Unscoping
<1> QED BY <1>1, <1>2, <1>3, <1>6, <1>7, StepInv

\* The counts agree: nothing is left but to write the version.
LEMMA ReconcileInv ==
  ASSUME Tables, SchemaInv, S!Reconcile
  PROVE  SchemaInv'
<1>1. pc = "reconcile" /\ pc' = "commit" /\ UNCHANGED <<db, tx, found, failures>>
  BY DEF S!Reconcile, S!Step
<1>2. pc \in Unscoping
  BY <1>1 DEF Unscoping
<1>3. Live(tx)' = Live(tx) /\ Whole(tx') /\ Distinct(tx)'
  BY <1>1, <1>2, InTransaction DEF Live, Whole, Distinct
<1>4. Progress'
  <2>1. /\ AsFound(tx, Sample \cup ConversationMark) /\ MessagesProved(tx) /\ SamplesOwned(tx)
        /\ ActionsProved(tx) /\ MarksOwned(tx)
    BY <1>1, <1>2, InTransaction DEF Progress
  <2>2. MessagesProved(tx)' /\ SamplesOwned(tx)' /\ ActionsProved(tx)'
    BY <1>1, <1>3, <2>1, ProvedStays
  <2>3. AsFound(tx, Sample \cup ConversationMark)' /\ MarksOwned(tx)'
    BY <1>1, <1>3, <2>1 DEF AsFound, MarksOwned
  <2> QED BY <1>1, <1>2, <2>1, <2>2, <2>3, NotYetCurrent DEF Progress, Final, Unscoping
<1> QED BY <1>1, <1>2, <1>3, <1>4, InTransaction, StepInv

\* The steps outside the unscoping: the copy is what is committed, or becomes it.
LEMMA OutsideInv ==
  ASSUME Tables, SchemaInv, UNCHANGED found, tx' = db', failures' \in 0..MaxFailures,
         CopyFits(db'), db'.version = Current \/ db' = db,
         found.db.version < 4 /\ db'.version = Current => Final(db)',
         pc' \in {"closed", "schema", "open", "refused", "failed"},
         pc' = "schema" => db'.version <= Current
  PROVE  SchemaInv'
<1>1. pc' \notin Unscoping /\ pc' # "commit"
  BY DEF Unscoping
<1>2. CopyFits(db)' /\ CopyFits(tx)' /\ FoundFits'
  <2>1. CopyFits(db)'
    BY DEF CopyFits, Whole, Distinct, Live
  <2>2. CopyFits(tx)'
    BY <2>1 DEF CopyFits, Whole, Distinct, Live
  <2> QED BY <2>1, <2>2 DEF SchemaInv, FoundFits
<1>3. VersionsFit'
  BY <1>1 DEF SchemaInv, VersionsFit
<1>4. found.db.version < 4 => Progress'
  BY <1>1 DEF Progress, Unscoping
<1> QED BY <1>1, <1>2, <1>3, <1>4 DEF SchemaInv

\* What is proved of a copy is a matter of its live group.
LEMMA FinalStays ==
  ASSUME UNCHANGED found, Final(tx), db'.live = tx.live
  PROVE  Final(db)'
<1>1. Live(db)' = Live(tx)
  BY DEF Live
<1>2. \A m : Named(m)' = Named(m)
  BY DEF Named, Witness
<1>3. MessagesProved(db)'
  <2> SUFFICES ASSUME NEW m \in Live(db)' \cap Message PROVE Named(m)' = {db'.live[m]}
    BY DEF MessagesProved
  <2> QED BY <1>1, <1>2 DEF Final, MessagesProved
<1>4. ActionsProved(db)'
  <2> SUFFICES ASSUME NEW x \in Live(db)' \cap Action
               PROVE  UNION {Named(m)' : m \in PacketsOf[x] \cap Out \cap Live(db)'} = {db'.live[x]}
    BY DEF ActionsProved
  <2>1. UNION {Named(m) : m \in PacketsOf[x] \cap Out \cap Live(tx)} = {tx.live[x]}
    BY <1>1 DEF Final, ActionsProved
  <2>2. {Named(m)' : m \in PacketsOf[x] \cap Out \cap Live(db)'}
        = {Named(m) : m \in PacketsOf[x] \cap Out \cap Live(tx)}
    BY <1>1, <1>2
  <2> QED BY <2>1, <2>2
<1>5. /\ AsFound(db, Sample \cup ConversationMark)' /\ SamplesOwned(db)' /\ MarksOwned(db)'
  BY <1>1 DEF Final, AsFound, SamplesOwned, MarksOwned
<1> QED BY <1>3, <1>4, <1>5 DEF Final

\* The same when nothing changes at all.
LEMMA DoneStays ==
  ASSUME SchemaInv, UNCHANGED <<db, found>>
  PROVE  CopyFits(db') /\ (found.db.version < 4 /\ db'.version = Current => Final(db)')
<1>1. CopyFits(db')
  BY DEF SchemaInv, CopyFits, Whole, Distinct, Live
<1>2. ASSUME found.db.version < 4, db'.version = Current PROVE Final(db)'
  <2>1. Final(db)
    BY <1>2 DEF SchemaInv, Progress
  <2>2. \A m : Named(m)' = Named(m)
    BY DEF Named, Witness
  <2>3. MessagesProved(db)' /\ ActionsProved(db)'
    <3>1. Live(db)' = Live(db) /\ db' = db
      OBVIOUS
    <3>2. MessagesProved(db)'
      BY <2>1, <2>2, <3>1 DEF Final, MessagesProved
    <3>3. ASSUME NEW x \in Live(db)' \cap Action
          PROVE  UNION {Named(m)' : m \in PacketsOf[x] \cap Out \cap Live(db)'} = {db'.live[x]}
      <4>1. UNION {Named(m) : m \in PacketsOf[x] \cap Out \cap Live(db)} = {db.live[x]}
        BY <2>1, <3>1, <3>3 DEF Final, ActionsProved
      <4>2. {Named(m)' : m \in PacketsOf[x] \cap Out \cap Live(db)'}
            = {Named(m) : m \in PacketsOf[x] \cap Out \cap Live(db)}
        BY <2>2, <3>1
      <4> QED BY <3>1, <4>1, <4>2
    <3>4. ActionsProved(db)'
      BY <3>3 DEF ActionsProved
    <3> QED BY <3>2, <3>4
  <2>4. AsFound(db, Sample \cup ConversationMark)' /\ SamplesOwned(db)' /\ MarksOwned(db)'
    BY <2>1 DEF Final, AsFound, SamplesOwned, MarksOwned, Live
  <2> QED BY <2>3, <2>4 DEF Final
<1> QED BY <1>1, <1>2

\* The version is read before the file is touched.
LEMMA CheckInv ==
  ASSUME Tables, SchemaInv, S!Check
  PROVE  SchemaInv'
<1>1. /\ pc \in {"closed", "failed"} /\ UNCHANGED <<db, tx, found, failures>>
      /\ pc' = IF db.version > Current THEN "refused" ELSE "schema"
  BY DEF S!Check, S!Current, Current
<1>2. tx' = db' /\ failures' \in 0..MaxFailures
  BY <1>1 DEF SchemaInv, VersionsFit
<1>3. db'.version <= Current \/ db'.version > Current
  BY <1>1 DEF SchemaInv, CopyFits, Stored, Current
<1>4. pc' \in {"closed", "schema", "open", "refused", "failed"}
      /\ (pc' = "schema" => db'.version <= Current)
  BY <1>1, <1>3
<1> QED BY <1>1, <1>2, <1>4, DoneStays, OutsideInv

\* The transaction begins with what is committed.
LEMMA BeginInv ==
  ASSUME Tables, SchemaInv, S!Begin
  PROVE  SchemaInv'
<1>1. /\ pc = "schema" /\ tx' = db /\ UNCHANGED <<db, found, failures>>
      /\ pc' = IF db.version < Current THEN "messages" ELSE "commit"
  BY DEF S!Begin, S!Current, Current
<1>2. tx = db /\ db.version <= Current /\ db.version \in {1, 2, 3, 4, Current, 6}
  BY <1>1 DEF SchemaInv, VersionsFit, CopyFits, Stored
<1>3. CopyFits(db)' /\ CopyFits(tx)' /\ FoundFits'
  BY <1>1, <1>2 DEF SchemaInv, CopyFits, FoundFits, Whole, Distinct, Live
<1>4. VersionsFit'
  BY <1>1, <1>2 DEF SchemaInv, VersionsFit, Unscoping, Current
<1>5. ASSUME found.db.version < 4 PROVE Progress'
  <2>1. CASE pc' = "messages"
    <3>1. db.version # Current /\ db = found.db
      BY <1>1, <1>2, <2>1 DEF SchemaInv, VersionsFit, Current
    <3>2. AsFound(tx, Sample \cup ConversationMark)'
      BY <1>1, <3>1 DEF AsFound
    <3> QED BY <1>1, <2>1, <3>1, <3>2 DEF Progress, Unscoping
  <2>2. CASE pc' = "commit"
    <3>1. db.version = Current
      BY <1>1, <1>2, <2>2 DEF Current
    <3>2. Final(db)'
      BY <1>1, <1>5, <3>1, DoneStays
    <3>3. Final(tx)'
      BY <1>1, <3>2
    <3> QED BY <2>2, <3>2, <3>3 DEF Progress, Unscoping
  <2> QED BY <1>1, <2>1, <2>2
<1>6. pc' \in Unscoping \cup {"commit"}
  BY <1>1 DEF Unscoping
<1> QED BY <1>1, <1>3, <1>4, <1>5, <1>6 DEF SchemaInv

\* Everything is committed at once, with the new version.
LEMMA CommitInv ==
  ASSUME Tables, SchemaInv, S!Commit
  PROVE  SchemaInv'
<1>1. /\ pc = "commit" /\ pc' = "open" /\ UNCHANGED <<found, failures>>
      /\ db' = [tx EXCEPT !.version = Current] /\ tx' = db'
  BY DEF S!Commit, S!Current, Current
<1>2. tx \in Stored /\ Whole(tx) /\ Distinct(tx)
  BY DEF SchemaInv, CopyFits
<1>3. db' \in Stored /\ db'.version = Current /\ db'.live = tx.live /\ db'.legacy = tx.legacy
  BY <1>1, <1>2 DEF Stored
<1>4. CopyFits(db')
  BY <1>2, <1>3 DEF CopyFits, Whole, Distinct, Live
<1>5. ASSUME found.db.version < 4 PROVE Final(db)'
  <2>1. Final(tx)
    BY <1>1, <1>5 DEF SchemaInv, Progress
  <2> QED BY <1>1, <1>3, <2>1, FinalStays
<1>6. failures' \in 0..MaxFailures
  BY <1>1 DEF SchemaInv
<1> QED BY <1>1, <1>3, <1>4, <1>5, <1>6, OutsideInv

\* A refused row or another error: what was not committed is gone.
LEMMA RollbackInv ==
  ASSUME Tables, SchemaInv, S!Refuse \/ S!Interrupt
  PROVE  SchemaInv'
<1>1. /\ pc' \in {"closed", "failed"} /\ db' = db /\ tx' = db' /\ UNCHANGED found
      /\ failures' = failures \/ (failures < MaxFailures /\ failures' = failures + 1)
  BY DEF S!Refuse, S!Interrupt, S!Rollback
<1>2. failures' \in 0..MaxFailures
  BY <1>1 DEF SchemaInv, Tables, MigrationBounds
<1>3. db' = db /\ found' = found
  BY <1>1
<1> QED BY <1>1, <1>2, <1>3, DoneStays, OutsideInv

LEMMA ReopenInv ==
  ASSUME Tables, SchemaInv, S!Reopen
  PROVE  SchemaInv'
<1>1. /\ pc = "open" /\ pc' = "closed" /\ UNCHANGED <<db, tx, found>>
      /\ failures < MaxFailures /\ failures' = failures + 1
  BY DEF S!Reopen
<1>2. tx' = db' /\ failures' \in 0..MaxFailures
  BY <1>1 DEF SchemaInv, VersionsFit, Tables, MigrationBounds
<1> QED BY <1>1, <1>2, DoneStays, OutsideInv

LEMMA SchemaNext ==
  ASSUME Tables, SchemaInv, [S!Next]_S!vars
  PROVE  SchemaInv'
<1>1. CASE S!Check
  BY <1>1, CheckInv
<1>2. CASE S!Begin
  BY <1>2, BeginInv
<1>3. CASE S!Migrate
  BY <1>3, MessagesInv, NodesInv, OwnersInv, UnownedInv, ObservationsInv, SamplesInv,
     ActionsInv, MarksInv DEF S!Migrate
<1>4. CASE S!Reconcile
  BY <1>4, ReconcileInv
<1>5. CASE S!Commit
  BY <1>5, CommitInv
<1>6. CASE S!Refuse \/ S!Interrupt
  BY <1>6, RollbackInv
<1>7. CASE S!Reopen
  BY <1>7, ReopenInv
<1>8. CASE UNCHANGED S!vars
  <2>1. UNCHANGED <<db, tx, pc, found, failures>>
    BY <1>8 DEF S!vars
  <2>2. CopyFits(db)' /\ CopyFits(tx)' /\ FoundFits' /\ VersionsFit'
    BY <2>1 DEF SchemaInv, CopyFits, FoundFits, VersionsFit, Whole, Distinct, Live
  <2>3. ASSUME found.db.version < 4 PROVE Progress'
    <3>1. Live(tx)' = Live(tx) /\ (\A m : Named(m)' = Named(m)) /\ \A m : Own(m)' = Own(m)
      BY <2>1 DEF Live, Named, Witness, Own
    <3>2. \A group : AsFound(tx, group) => AsFound(tx, group)'
      BY <2>1, <3>1 DEF AsFound
    <3>3. /\ (MessagesProved(tx) => MessagesProved(tx)') /\ (SamplesOwned(tx) => SamplesOwned(tx)')
          /\ (ActionsProved(tx) => ActionsProved(tx)') /\ (MarksOwned(tx) => MarksOwned(tx)')
      BY <2>1, <3>1, ProvedStays DEF MarksOwned
    <3>4. Final(tx) => Final(tx)'
      BY <3>2, <3>3 DEF Final
    <3>5. db'.version = Current => Final(db)'
      BY <2>1, <2>3, DoneStays
    <3>6. /\ pc = "unowned" => \A m \in Message : tx'.live[m] # None => Named(m)' = {tx'.live[m]}
          /\ pc \in {"nodes", "owners"} => \A m \in Message : tx'.live[m] = Own(m)'
          /\ pc = "observations" => \A o \in Live(tx)' \cap Observation : MessageOf[o] \in Live(tx)'
      BY <2>1, <2>3, <3>1 DEF SchemaInv, Progress
    <3> QED BY <2>1, <2>3, <3>1, <3>2, <3>3, <3>4, <3>5, <3>6 DEF SchemaInv, Progress
  <2> QED BY <2>1, <2>2, <2>3 DEF SchemaInv
<1> QED BY <1>1, <1>2, <1>3, <1>4, <1>5, <1>6, <1>7, <1>8 DEF S!Next, S!Open

LEMMA SchemaInit ==
  ASSUME Tables, S!Init
  PROVE  SchemaInv
<1>1. PICK version \in {1, 2, 3, 4, 6}, says \in [S!AnyRow \ S!Silent -> S!Owner],
           sender \in [Out -> S!Owner], keyed \in SUBSET (Message \ Direct), alike \in {{}, Alike} :
        /\ \A o, q \in alike : o # q /\ MessageOf[o] = MessageOf[q] => says[o] # says[q]
        /\ version = 1 => keyed = {} /\ \A r \in Message \cup Observation : says[r] = None
        /\ LET known == {r \in S!AnyRow \ S!Silent : says[r] # None}
                          \ {o \in Observation : says[o] # says[MessageOf[o]]}
           IN db = IF version < 4
                   THEN [version |-> version, legacy |-> {},
                         live |-> [r \in S!AnyRow |-> IF r \in S!Silent THEN None ELSE says[r]]]
                   ELSE [version |-> version, legacy |-> S!AnyRow \ known,
                         live |-> [r \in known |-> says[r]]]
        /\ found = [db |-> db, sender |-> sender, alike |-> alike,
                    keyed |-> keyed \cup Direct]
  BY DEF S!Init
<1> USE DEF S!AnyRow, AnyRow
<1>2. PICK known \in SUBSET (AnyRow \ S!Silent) :
        known = {r \in AnyRow \ S!Silent : says[r] # None}
                  \ {o \in Observation : says[o] # says[MessageOf[o]]}
  OBVIOUS
<1>3. tx = db /\ pc = "closed" /\ failures = 0
  BY DEF S!Init
<1>4. /\ found.db = db /\ found.sender = sender /\ found.alike = alike
      /\ alike \subseteq Observation
  BY <1>1 DEF Tables, MigrationBounds
<1>5. /\ db.version = version
      /\ version < 4 => /\ db.legacy = {}
                        /\ db.live = [r \in AnyRow |-> IF r \in S!Silent THEN None ELSE says[r]]
      /\ version >= 4 => db.legacy = AnyRow \ known /\ db.live = [r \in known |-> says[r]]
  BY <1>1, <1>2
<1>6. db \in Stored /\ Whole(db) /\ (version < 4 => Live(db) = AnyRow)
      /\ \A r \in Live(db) \ S!Silent : db.live[r] = says[r]
  <2>1. CASE version < 4
    <3> DEFINE live == [r \in AnyRow |-> IF r \in S!Silent THEN None ELSE says[r]]
    <3>1. live \in [AnyRow -> S!Owner]
      BY DEF S!Owner
    <3>2. live \in Lives
      BY <3>1 DEF Lives
    <3>3. db = [version |-> version, legacy |-> {}, live |-> live]
      BY <1>1, <2>1
    <3>4. db \in Stored
      BY <3>2, <3>3 DEF Stored
    <3> QED BY <1>5, <2>1, <3>4 DEF Whole, Live
  <2>2. CASE version >= 4
    <3> DEFINE live == [r \in known |-> says[r]]
    <3>1. live \in [known -> S!Owner] /\ known \in SUBSET AnyRow
      OBVIOUS
    <3>2. live \in Lives
      BY <3>1 DEF Lives
    <3>3. db = [version |-> version, legacy |-> AnyRow \ known, live |-> live]
      BY <1>1, <1>2, <2>2
    <3>4. db \in Stored
      BY <3>2, <3>3 DEF Stored
    <3>5. Live(db) = known /\ db.legacy = AnyRow \ known
      BY <1>5, <2>2 DEF Live
    <3> QED BY <1>5, <2>2, <3>4, <3>5 DEF Whole
  <2> QED BY <2>1, <2>2
<1>7. Distinct(db)
  <2> SUFFICES ASSUME NEW o \in Live(db) \cap alike, NEW q \in Live(db) \cap alike,
                      o # q, MessageOf[o] = MessageOf[q]
               PROVE  db.live[o] # db.live[q]
    BY <1>4 DEF Distinct
  <2>1. o \notin S!Silent /\ q \notin S!Silent
    BY <1>4 DEF S!Silent, Tables, MigrationBounds
  <2>2. says[o] # says[q]
    BY <1>1
  <2> QED BY <1>6, <2>1, <2>2
<1>8. CopyFits(db) /\ CopyFits(tx)
  BY <1>3, <1>6, <1>7 DEF CopyFits
<1>9. FoundFits
  BY <1>4, <1>5, <1>6 DEF FoundFits, Current
<1>10. VersionsFit
  BY <1>3, <1>4 DEF VersionsFit, Unscoping
<1>11. Progress
  BY <1>3, <1>5 DEF Progress, Unscoping, Current
<1>12. failures \in 0..MaxFailures
  BY <1>3 DEF Tables, MigrationBounds
<1> QED BY <1>3, <1>8, <1>9, <1>10, <1>11, <1>12 DEF SchemaInv

\* Whatever interrupts the opening of an older file, every row is there once, the file is the
\* old one until it has the new version, and every row that is then joined to a gateway could
\* belong to no other (initialize, _migrate_scope_schema).
THEOREM MigrationStaysSafe == ASSUME MigrationBounds PROVE S!Spec => [](S!TypeOK /\ MigrationIsSafe)
<1>0. Tables
  BY TablesAssumption DEF Tables
<1>1. SchemaInv => S!TypeOK
  <2> SUFFICES ASSUME SchemaInv PROVE S!TypeOK
    OBVIOUS
  <2>1. ASSUME NEW d \in {db, tx}
        PROVE  /\ d.version \in {1, 2, 3, 4, S!Current, 6}
               /\ S!Live(d) \subseteq S!AnyRow /\ \A r \in S!Live(d) : d.live[r] \in S!Owner
               /\ d.legacy \subseteq S!AnyRow
               /\ \A o, q \in S!Live(d) \cap found.alike :
                    o # q /\ MessageOf[o] = MessageOf[q] => d.live[o] # d.live[q]
    <3>1. d \in Stored /\ Distinct(d)
      BY DEF SchemaInv, CopyFits
    <3> QED BY <3>1, StoredIs DEF Distinct, S!Live, Live, S!AnyRow, AnyRow, S!Current, Current
  <2>2. pc \in {"closed", "schema", "messages", "nodes", "owners", "unowned", "observations",
                "samples", "actions", "marks", "reconcile", "commit", "open", "refused", "failed"}
    BY DEF SchemaInv, Unscoping
  <2> QED BY <2>1, <2>2 DEF S!TypeOK, SchemaInv
<1>2. SchemaInv => MigrationIsSafe
  <2> SUFFICES ASSUME SchemaInv PROVE MigrationIsSafe
    OBVIOUS
  <2>1. EveryRowOnce
    BY DEF SchemaInv, CopyFits, Whole, EveryRowOnce
  <2>2. OldUntilDone
    BY DEF SchemaInv, VersionsFit, OldUntilDone
  <2>3. OnlyProved
    <3> SUFFICES ASSUME found.db.version < 4, db.version = Current, NEW r \in Live(db)
                 PROVE  /\ r \in Message => Named(r) = {db.live[r]}
                        /\ r \in Sample \cup ConversationMark =>
                             found.db.live[r] = db.live[r] /\ db.live[r] # None
                        /\ r \in Action =>
                             UNION {Named(m) : m \in PacketsOf[r] \cap Out \cap Live(db)}
                             = {db.live[r]}
      BY DEF OnlyProved
    <3>1. Final(db)
      BY DEF SchemaInv, Progress
    <3> QED BY <3>1 DEF Final, AsFound, MessagesProved, SamplesOwned, ActionsProved, MarksOwned
  <2> QED BY <2>1, <2>2, <2>3 DEF MigrationIsSafe
<1> QED BY <1>0, <1>1, <1>2, SchemaInit, SchemaNext, PTL DEF S!Spec

-----------------------------------------------------------------------------
(* Conversations *)

Unique(table) == \A r, s \in table : r.pkt = s.pkt /\ r.route = s.route => r = s

\* What is quiet is marked as closed, and has a row to be hidden.
QuietIsMarked ==
  \A c \in quiet : c \in closed /\ \E r \in rows : Conversation(r) = c

ConversationInv == M!TypeOK /\ ObservationsSurvive /\ QuietIsMarked

\* A row that is bound keeps its packet and receptions, and no packet has two rows of a route.
LEMMA MergedIs ==
  ASSUME rows \subseteq M!Row, Unique(rows), NEW from \in Route, NEW to \in Route, from # to
  PROVE  /\ M!Merged(from, to) \subseteq M!Row /\ Unique(M!Merged(from, to))
         /\ \A r \in rows : \E s \in M!Merged(from, to) :
              /\ s.pkt = r.pkt /\ r.seen \subseteq s.seen
              /\ s.route = IF r.route = from THEN to ELSE r.route
<1> DEFINE twins(r, route) == {s \in rows : s.route = route /\ s.pkt = r.pkt}
           seen(r) == UNION {s.seen : s \in {r} \cup twins(r, from)}
           apart == {r \in rows : r.route \notin {from, to}}
           renamed == {[r EXCEPT !.route = to] :
                         r \in {s \in rows : s.route = from /\ twins(s, to) = {}}}
           joined == {[r EXCEPT !.seen = seen(r)] : r \in {s \in rows : s.route = to}}
<1>1. M!Merged(from, to) = apart \cup renamed \cup joined
  BY DEF M!Merged, M!Twins, M!Rows
<1>2. ASSUME NEW e \in apart PROVE e \in M!Row /\ e \in rows /\ e.route \notin {from, to}
  OBVIOUS
<1>3. ASSUME NEW e \in renamed
      PROVE  \E r \in rows : /\ r.route = from /\ twins(r, to) = {} /\ e \in M!Row
                             /\ e = [pkt |-> r.pkt, route |-> to, seen |-> r.seen]
  <2>1. PICK r \in rows : r.route = from /\ twins(r, to) = {} /\ e = [r EXCEPT !.route = to]
    OBVIOUS
  <2>2. r.pkt \in Packet /\ r.seen \in SUBSET Transport /\ to \in M!Route
    BY DEF M!Row, M!Route, M!Bound, Route, Bound
  <2>3. e = [pkt |-> r.pkt, route |-> to, seen |-> r.seen]
    BY <2>1 DEF M!Row
  <2>4. e \in M!Row
    BY <2>2, <2>3 DEF M!Row
  <2> QED BY <2>1, <2>3, <2>4
<1>4. ASSUME NEW e \in joined
      PROVE  \E r \in rows : /\ r.route = to /\ e \in M!Row
                             /\ e = [pkt |-> r.pkt, route |-> to, seen |-> seen(r)]
  <2>1. PICK r \in rows : r.route = to /\ e = [r EXCEPT !.seen = seen(r)]
    OBVIOUS
  <2>2. seen(r) \in SUBSET Transport
    BY DEF M!Row
  <2> HIDE DEF seen
  <2>3. e = [pkt |-> r.pkt, route |-> to, seen |-> seen(r)] /\ e \in M!Row
    BY <2>1, <2>2 DEF M!Row
  <2> QED BY <2>1, <2>3
<1>5. M!Merged(from, to) \subseteq M!Row
  BY <1>1, <1>2, <1>3, <1>4
<1>6. ASSUME NEW e \in M!Merged(from, to), NEW f \in M!Merged(from, to),
             e.pkt = f.pkt, e.route = f.route
      PROVE  e = f
  <2> HIDE DEF apart, renamed, joined, seen
  <2>1. CASE e \in apart
    <3>1. e \in rows /\ f.route \notin {from, to}
      BY <1>2, <1>6, <2>1
    <3>2. f \in apart
      BY <1>1, <1>3, <1>4, <3>1
    <3> QED BY <1>2, <1>6, <2>1, <3>2 DEF Unique
  <2>2. CASE e \in renamed
    <3>1. PICK r \in rows : /\ r.route = from /\ twins(r, to) = {}
                            /\ e = [pkt |-> r.pkt, route |-> to, seen |-> r.seen]
      BY <1>3, <2>2
    <3>2. CASE f \in renamed
      <4>1. PICK s \in rows : s.route = from /\ f = [pkt |-> s.pkt, route |-> to, seen |-> s.seen]
        BY <1>3, <3>2
      <4>2. r = s
        BY <1>6, <3>1, <4>1 DEF Unique
      <4> QED BY <3>1, <4>1, <4>2
    <3>3. CASE f \in joined
      <4>1. PICK s \in rows : s.route = to /\ f = [pkt |-> s.pkt, route |-> to, seen |-> seen(s)]
        BY <1>4, <3>3
      <4>2. s \in twins(r, to)
        BY <1>6, <3>1, <4>1
      <4> QED BY <3>1, <4>2
    <3>4. f \notin apart
      BY <1>2, <1>6, <3>1
    <3> QED BY <1>1, <3>2, <3>3, <3>4
  <2>3. CASE e \in joined
    <3>1. PICK r \in rows : r.route = to /\ e = [pkt |-> r.pkt, route |-> to, seen |-> seen(r)]
      BY <1>4, <2>3
    <3>2. CASE f \in renamed
      <4>1. PICK s \in rows : /\ s.route = from /\ twins(s, to) = {}
                              /\ f = [pkt |-> s.pkt, route |-> to, seen |-> s.seen]
        BY <1>3, <3>2
      <4>2. r \in twins(s, to)
        BY <1>6, <3>1, <4>1
      <4> QED BY <4>1, <4>2
    <3>3. CASE f \in joined
      <4>1. PICK s \in rows : s.route = to /\ f = [pkt |-> s.pkt, route |-> to, seen |-> seen(s)]
        BY <1>4, <3>3
      <4>2. r = s
        BY <1>6, <3>1, <4>1 DEF Unique
      <4> QED BY <3>1, <4>1, <4>2
    <3>4. f \notin apart
      BY <1>2, <1>6, <3>1
    <3> QED BY <1>1, <3>2, <3>3, <3>4
  <2> QED BY <1>1, <2>1, <2>2, <2>3
<1>7. ASSUME NEW r \in rows
      PROVE  \E s \in M!Merged(from, to) :
               /\ s.pkt = r.pkt /\ r.seen \subseteq s.seen
               /\ s.route = IF r.route = from THEN to ELSE r.route
  <2>1. CASE r.route \notin {from, to}
    <3>1. r \in M!Merged(from, to)
      BY <1>1, <2>1
    <3> QED BY <2>1, <3>1
  <2>2. ASSUME NEW s \in rows, s.route = to
        PROVE  \E e \in M!Merged(from, to) : e.pkt = s.pkt /\ e.route = to /\ e.seen = seen(s)
    <3> DEFINE e == [s EXCEPT !.seen = seen(s)]
    <3>1. e \in joined
      BY <2>2
    <3>2. e.pkt = s.pkt /\ e.route = to /\ e.seen = seen(s)
      <4> HIDE DEF seen
      <4> QED BY <2>2 DEF M!Row
    <3> HIDE DEF e, seen, joined
    <3> QED BY <1>1, <3>1, <3>2
  <2>3. CASE r.route = to
    <3>1. r.seen \subseteq seen(r)
      OBVIOUS
    <3> HIDE DEF seen
    <3> QED BY <2>2, <2>3, <3>1
  <2>4. CASE r.route = from /\ twins(r, to) = {}
    <3> DEFINE e == [r EXCEPT !.route = to]
    <3>1. e \in renamed /\ e.pkt = r.pkt /\ e.route = to /\ e.seen = r.seen
      BY <2>4 DEF M!Row
    <3> HIDE DEF e, renamed
    <3> QED BY <1>1, <2>4, <3>1
  <2>5. CASE r.route = from /\ twins(r, to) # {}
    <3>1. PICK s \in rows : s.route = to /\ s.pkt = r.pkt
      BY <2>5
    <3>2. r.seen \subseteq seen(s)
      BY <2>5, <3>1
    <3> HIDE DEF seen
    <3> QED BY <2>2, <2>5, <3>1, <3>2
  <2> QED BY <2>1, <2>3, <2>4, <2>5
<1> QED BY <1>5, <1>6, <1>7 DEF Unique

LEMMA NamesAgree ==
  /\ M!Bound = Bound /\ M!Route = Route
  /\ \A r : M!Conversation(r) = Conversation(r)
  BY DEF M!Bound, Bound, M!Route, Route, M!Conversation, Conversation

\* A step that leaves the tables alone.
LEMMA TablesAlone ==
  ASSUME ConversationInv, UNCHANGED <<rows, closed, heard, quiet>>, bound' \in BOOLEAN,
         active' \in BOOLEAN, sync' \in {"idle", "table", "main", "legacy", "side"},
         received' \in {None} \cup [pkt: Packet, by: Transport, route: Route \cup {None}]
  PROVE  ConversationInv'
<1>1. M!TypeOK'
  BY NamesAgree DEF ConversationInv, M!TypeOK
<1>2. ObservationsSurvive' /\ QuietIsMarked'
  BY DEF ConversationInv, ObservationsSurvive, QuietIsMarked, Conversation
<1> QED BY <1>1, <1>2 DEF ConversationInv

LEMMA HearInv ==
  ASSUME ConversationInv, NEW p \in Packet, NEW t \in Transport, M!Hear(p, t)
  PROVE  ConversationInv'
<1>1. /\ received' = [pkt |-> p, by |-> t, route |-> None]
      /\ UNCHANGED <<rows, closed, bound, active, sync, heard, quiet>>
  BY DEF M!Hear
<1>2. received' \in [pkt: Packet, by: Transport, route: Route \cup {None}]
  BY <1>1
<1> QED BY <1>1, <1>2, TablesAlone DEF ConversationInv, M!TypeOK

LEMMA BindInv ==
  ASSUME ConversationInv, M!Bind
  PROVE  ConversationInv'
<1> DEFINE route == M!RouteNow(ChannelOf[received.pkt])
<1>1. /\ received # None /\ received' = [received EXCEPT !.route = route]
      /\ UNCHANGED <<rows, closed, bound, active, sync, heard, quiet>>
  BY DEF M!Bind
<1>2. route \in Route
  BY DEF M!RouteNow, Route, Bound
<1>3. received \in [pkt: Packet, by: Transport, route: Route \cup {None}]
  BY <1>1, NamesAgree DEF ConversationInv, M!TypeOK
<1>4. received' \in [pkt: Packet, by: Transport, route: Route \cup {None}]
  <2> HIDE DEF route
  <2> QED BY <1>1, <1>2, <1>3
<1> QED BY <1>1, <1>4, TablesAlone DEF ConversationInv, M!TypeOK

LEMMA SyncStepInv ==
  ASSUME ConversationInv, M!SyncBind \/ M!SyncTable \/ M!SyncBusy \/ M!Reconnect
  PROVE  ConversationInv'
<1>1. /\ UNCHANGED <<rows, closed, received, heard, quiet>>
      /\ bound' \in BOOLEAN /\ active' \in BOOLEAN
      /\ sync' \in {"idle", "table", "main", "legacy", "side"}
  BY DEF M!SyncBind, M!SyncTable, M!SyncBusy, M!Reconnect, ConversationInv, M!TypeOK
<1>2. received' \in {None} \cup [pkt: Packet, by: Transport, route: Route \cup {None}]
  BY <1>1, NamesAgree DEF ConversationInv, M!TypeOK
<1> QED BY <1>1, <1>2, TablesAlone

\* A packet is stored: as a new row, or as one more reception of the row it has.
LEMMA InsertInv ==
  ASSUME ConversationInv, M!Insert
  PROVE  ConversationInv'
<1> DEFINE same == {r \in rows : r.pkt = received.pkt /\ r.route = received.route}
           new == [pkt |-> received.pkt, route |-> received.route, seen |-> {received.by}]
<1>1. /\ received # None /\ received.route # None /\ received' = None
      /\ heard' = heard \cup {<<received.pkt, received.by>>}
      /\ UNCHANGED <<bound, active, sync>>
  BY DEF M!Insert
<1>2. \/ /\ same # {} /\ UNCHANGED <<closed, quiet>>
         /\ rows' = (rows \ same) \cup {[r EXCEPT !.seen = @ \cup {received.by}] : r \in same}
      \/ /\ same = {} /\ rows' = rows \cup {new}
         /\ closed' = closed \ M!Reopened /\ quiet' = quiet \ M!Reopened
  BY DEF M!Insert
<1>3. received.pkt \in Packet /\ received.by \in Transport /\ received.route \in M!Route
  BY <1>1 DEF ConversationInv, M!TypeOK
<1>4. rows \subseteq M!Row /\ Unique(rows)
  BY DEF ConversationInv, M!TypeOK, Unique
<1>5. /\ rows' \subseteq M!Row /\ Unique(rows')
      /\ \A r \in rows : \E s \in rows' :
           s.pkt = r.pkt /\ s.route = r.route /\ r.seen \subseteq s.seen
      /\ \E s \in rows' : s.pkt = received.pkt /\ received.by \in s.seen
  <2>1. CASE same # {}
    <3>1. PICK r \in rows : r.pkt = received.pkt /\ r.route = received.route
      BY <2>1
    <3>2. same = {r}
      BY <1>4, <3>1 DEF Unique
    <3> DEFINE more == [r EXCEPT !.seen = @ \cup {received.by}]
    <3>3. rows' = (rows \ {r}) \cup {more}
      BY <1>2, <2>1, <3>2
    <3>4. /\ more.pkt = r.pkt /\ more.route = r.route /\ more.seen = r.seen \cup {received.by}
          /\ more \in M!Row
      BY <1>3, <1>4 DEF M!Row
    <3> HIDE DEF more
    <3>5. rows' \subseteq M!Row
      BY <1>4, <3>3, <3>4
    <3>6. Unique(rows')
      BY <1>4, <3>3, <3>4 DEF Unique
    <3>7. \A s \in rows : s = r \/ s \in rows'
      BY <3>3
    <3> QED BY <3>1, <3>3, <3>4, <3>5, <3>6, <3>7
  <2>2. CASE same = {}
    <3>1. rows' = rows \cup {new}
      BY <1>2, <2>2
    <3>2. new \in M!Row /\ new.pkt = received.pkt /\ new.route = received.route
          /\ new.seen = {received.by}
      BY <1>3 DEF M!Row
    <3>3. \A r \in rows : ~(r.pkt = new.pkt /\ r.route = new.route)
      BY <2>2
    <3> HIDE DEF new
    <3> QED BY <1>4, <3>1, <3>2, <3>3 DEF Unique
  <2> QED BY <2>1, <2>2
<1>6. closed' \subseteq closed /\ quiet' \subseteq quiet
      /\ (\A c \in quiet' : c \in closed => c \in closed')
  BY <1>2
<1> HIDE DEF same, new
<1>7. M!TypeOK'
  BY <1>1, <1>3, <1>5, <1>6 DEF ConversationInv, M!TypeOK, Unique
<1>8. ObservationsSurvive'
  <2> SUFFICES ASSUME NEW h \in heard' PROVE \E s \in rows' : s.pkt = h[1] /\ h[2] \in s.seen
    BY DEF ObservationsSurvive
  <2>1. CASE h \in heard
    BY <1>5, <2>1 DEF ConversationInv, ObservationsSurvive
  <2>2. CASE h = <<received.pkt, received.by>>
    BY <1>5, <2>2
  <2> QED BY <1>1, <2>1, <2>2
<1>9. QuietIsMarked'
  <2> SUFFICES ASSUME NEW c \in quiet'
               PROVE  c \in closed' /\ \E r \in rows' : Conversation(r) = c
    BY DEF QuietIsMarked, Conversation
  <2> QED BY <1>5, <1>6 DEF ConversationInv, QuietIsMarked, Conversation
<1> QED BY <1>7, <1>8, <1>9 DEF ConversationInv

\* Rows are bound to their channel, and the marks of closed conversations go with them.
LEMMA RebindInv ==
  ASSUME ConversationInv, NEW step, NEW from \in Route, NEW to \in Route, from # to,
         NEW next \in {"idle", "side", "legacy"}, M!Rebind(step, from, to, next)
  PROVE  ConversationInv'
<1> DEFINE moved == {c \in closed : c[2] = from /\ \E r \in rows : Conversation(r) = c}
<1>1. /\ sync' = next /\ rows' = M!Merged(from, to)
      /\ closed' = (closed \ moved) \cup {<<c[1], to>> : c \in moved}
      /\ UNCHANGED <<bound, active, received, heard>>
  BY NamesAgree DEF M!Rebind, M!Marked
<1>2. \A c \in quiet' : \/ c \in quiet /\ c[2] # from
                        \/ \E d \in quiet : d[2] = from /\ c = <<d[1], to>>
  BY DEF M!Rebind
<1>3. /\ rows \subseteq M!Row /\ Unique(rows)
      /\ closed \subseteq Peer \X Route /\ quiet \subseteq Peer \X Route
  BY NamesAgree DEF ConversationInv, M!TypeOK, Unique
<1>4. /\ rows' \subseteq M!Row /\ Unique(rows')
      /\ \A r \in rows : \E s \in rows' :
           /\ s.pkt = r.pkt /\ r.seen \subseteq s.seen
           /\ s.route = IF r.route = from THEN to ELSE r.route
  BY <1>1, <1>3, MergedIs
<1>5. closed' \subseteq Peer \X Route
  BY <1>1, <1>3
<1>6. quiet' \subseteq Peer \X Route
  BY <1>2, <1>3
<1>7. M!TypeOK'
  BY <1>1, <1>4, <1>5, <1>6, NamesAgree DEF ConversationInv, M!TypeOK, Unique
<1>8. ObservationsSurvive'
  BY <1>1, <1>4 DEF ConversationInv, ObservationsSurvive
<1>9. QuietIsMarked'
  <2> SUFFICES ASSUME NEW c \in quiet'
               PROVE  c \in closed' /\ \E r \in rows' : Conversation(r) = c
    BY DEF QuietIsMarked, Conversation
  <2>1. CASE c \in quiet /\ c[2] # from
    <3>1. c \in closed /\ \E r \in rows : Conversation(r) = c
      BY <2>1 DEF ConversationInv, QuietIsMarked
    <3>2. PICK r \in rows : Conversation(r) = c
      BY <3>1
    <3>3. r.route # from
      BY <2>1, <3>2 DEF Conversation
    <3>4. \E s \in rows' : Conversation(s) = c
      BY <1>4, <3>2, <3>3 DEF Conversation
    <3> QED BY <1>1, <2>1, <3>1, <3>4
  <2>2. CASE \E d \in quiet : d[2] = from /\ c = <<d[1], to>>
    <3>1. PICK d \in quiet : d[2] = from /\ c = <<d[1], to>>
      BY <2>2
    <3>2. d \in closed /\ \E r \in rows : Conversation(r) = d
      BY DEF ConversationInv, QuietIsMarked
    <3>3. PICK r \in rows : Conversation(r) = d
      BY <3>2
    <3>4. r.route = from /\ PartyOf[r.pkt] = d[1]
      BY <3>1, <3>3 DEF Conversation
    <3>5. \E s \in rows' : Conversation(s) = c
      BY <1>4, <3>1, <3>4 DEF Conversation
    <3>6. d \in moved
      BY <3>1, <3>2
    <3> QED BY <1>1, <3>1, <3>5, <3>6
  <2> QED BY <1>2, <2>1, <2>2
<1> QED BY <1>7, <1>8, <1>9 DEF ConversationInv

LEMMA CloseInv ==
  ASSUME ConversationInv, NEW peer \in Peer, NEW route \in Route, M!Close(peer, route)
  PROVE  ConversationInv'
<1>1. /\ route \in M!Listed(peer)
      /\ closed' = closed \cup {<<peer, route>>} /\ quiet' = quiet \cup {<<peer, route>>}
      /\ UNCHANGED <<rows, bound, active, sync, received, heard>>
  BY DEF M!Close, M!Shown
<1>2. M!TypeOK'
  BY <1>1, NamesAgree DEF ConversationInv, M!TypeOK
<1>3. ObservationsSurvive'
  BY <1>1 DEF ConversationInv, ObservationsSurvive
<1>4. PICK r \in rows : PartyOf[r.pkt] = peer /\ r.route = route
  BY <1>1 DEF M!Listed, M!Conversation
<1>5. QuietIsMarked'
  BY <1>1, <1>4 DEF ConversationInv, QuietIsMarked, Conversation
<1> QED BY <1>2, <1>3, <1>5 DEF ConversationInv

LEMMA ReopenedInv ==
  ASSUME ConversationInv, NEW peer \in Peer, NEW route \in Route, M!Reopen(peer, route)
  PROVE  ConversationInv'
<1>1. /\ closed' = closed \ {<<peer, route>>} /\ quiet' = quiet \ {<<peer, route>>}
      /\ UNCHANGED <<rows, bound, active, sync, received, heard>>
  BY DEF M!Reopen
<1>2. M!TypeOK'
  BY <1>1 DEF ConversationInv, M!TypeOK
<1>3. ObservationsSurvive' /\ QuietIsMarked'
  BY <1>1 DEF ConversationInv, ObservationsSurvive, QuietIsMarked, Conversation
<1> QED BY <1>2, <1>3 DEF ConversationInv

\* Clearing takes messages with their receptions, and the marks with the direct ones.
LEMMA ClearInv ==
  ASSUME ConversationInv, NEW kind, M!Clear(kind)
  PROVE  ConversationInv'
<1>1. /\ rows' = rows \ M!Scope(kind)
      /\ heard' = {h \in heard : \A r \in M!Scope(kind) : r.pkt # h[1]}
      /\ UNCHANGED <<bound, active, sync, received>>
      /\ (closed' = closed /\ quiet' = quiet /\ kind = "public") \/ (closed' = {} /\ quiet' = {})
  BY DEF M!Clear
<1>2. M!TypeOK'
  BY <1>1 DEF ConversationInv, M!TypeOK
<1>3. ObservationsSurvive'
  BY <1>1 DEF ConversationInv, ObservationsSurvive
<1>4. QuietIsMarked'
  <2> SUFFICES ASSUME NEW c \in quiet'
               PROVE  c \in closed' /\ \E r \in rows' : Conversation(r) = c
    BY DEF QuietIsMarked, Conversation
  <2>1. kind = "public" /\ c \in quiet /\ closed' = closed
    BY <1>1
  <2>2. PICK r \in rows : Conversation(r) = c
    BY <2>1 DEF ConversationInv, QuietIsMarked
  <2>3. M!IsDM(r.pkt)
    BY <2>1, <2>2 DEF ConversationInv, M!TypeOK, Conversation, M!IsDM
  <2>4. r \notin M!Scope(kind)
    BY <2>1, <2>3 DEF M!Scope
  <2> QED BY <1>1, <2>1, <2>2, <2>4 DEF ConversationInv, QuietIsMarked
<1> QED BY <1>2, <1>3, <1>4 DEF ConversationInv

LEMMA ConversationInit ==
  ASSUME M!Init
  PROVE  ConversationInv
<1>1. /\ heard = UNION {{r.pkt} \X r.seen : r \in rows} /\ closed = {} /\ quiet = {}
      /\ bound = FALSE /\ active = FALSE /\ sync = "idle" /\ received = None
  BY DEF M!Init
<1>2. rows \subseteq M!Row /\ Unique(rows)
  <2>1. PICK p \in Packet, t \in Transport :
          rows = {} \/ rows = {[pkt |-> p, route |-> "legacy", seen |-> {t}]}
    BY DEF M!Init
  <2>2. [pkt |-> p, route |-> "legacy", seen |-> {t}] \in M!Row
    BY NamesAgree DEF M!Row, Route
  <2> QED BY <2>1, <2>2 DEF Unique
<1>3. heard \subseteq Packet \X Transport
  BY <1>1, <1>2 DEF M!Row
<1>4. ObservationsSurvive
  <2> SUFFICES ASSUME NEW h \in heard PROVE \E r \in rows : r.pkt = h[1] /\ h[2] \in r.seen
    BY DEF ObservationsSurvive
  <2>1. PICK r \in rows : h \in {r.pkt} \X r.seen
    BY <1>1
  <2> QED BY <2>1
<1>5. M!TypeOK
  BY <1>1, <1>2, <1>3 DEF M!TypeOK, Unique
<1>6. QuietIsMarked
  BY <1>1 DEF QuietIsMarked
<1> QED BY <1>4, <1>5, <1>6 DEF ConversationInv

LEMMA ConversationNext ==
  ASSUME ConversationInv, [M!Next]_M!vars
  PROVE  ConversationInv'
<1>1. ASSUME NEW p \in Packet, NEW t \in Transport, M!Hear(p, t) PROVE ConversationInv'
  BY <1>1, HearInv
<1>2. CASE M!Bind
  BY <1>2, BindInv
<1>3. CASE M!Insert
  BY <1>3, InsertInv
<1>4. CASE M!Sync
  <2>1. CASE M!SyncBind \/ M!SyncTable
    BY <2>1, SyncStepInv
  <2>2. CASE M!Rebind("main", "prov0", "main", "legacy")
    BY <2>2, RebindInv DEF Route, Bound
  <2>3. CASE M!Rebind("legacy", "legacy", "main", "side")
    BY <2>3, RebindInv DEF Route, Bound
  <2>4. CASE M!Rebind("side", "prov1", "side", "idle")
    BY <2>4, RebindInv DEF Route, Bound
  <2> QED BY <1>4, <2>1, <2>2, <2>3, <2>4 DEF M!Sync
<1>5. CASE M!SyncBusy \/ M!Reconnect
  BY <1>5, SyncStepInv
<1>6. ASSUME NEW peer \in Peer, NEW route \in Route, M!Close(peer, route) \/ M!Reopen(peer, route)
      PROVE  ConversationInv'
  BY <1>6, CloseInv, ReopenedInv
<1>7. ASSUME NEW kind \in {"public", "dm", "all"}, M!Clear(kind) PROVE ConversationInv'
  BY <1>7, ClearInv
<1>8. CASE UNCHANGED M!vars
  BY <1>8, NamesAgree, TablesAlone DEF M!vars, ConversationInv, M!TypeOK
<1> QED BY <1>1, <1>2, <1>3, <1>4, <1>5, <1>6, <1>7, <1>8, NamesAgree DEF M!Next

\* Packets may arrive over several transports before the channels are known, and rows be bound
\* and merged while conversations are closed: no reception is lost, and what was closed is not
\* listed again without a new message (insert_message, rebind_provisional_channel,
\* archive_conversation).
THEOREM ConversationsStayKept == M!Spec => [](M!TypeOK /\ ConversationsAreKept)
<1>1. ConversationInv => M!TypeOK /\ ConversationsAreKept
  <2> SUFFICES ASSUME ConversationInv PROVE ClosedStaysClosed
    BY DEF ConversationInv, ConversationsAreKept
  <2>1. ASSUME NEW c \in quiet PROVE c[2] \notin Listed(c[1])
    <3>1. c \in closed /\ c \in Peer \X Route
      BY NamesAgree DEF ConversationInv, QuietIsMarked, M!TypeOK
    <3>2. c = <<c[1], c[2]>> /\ c[2] \in Route
      BY <3>1
    <3> QED BY <3>1, <3>2 DEF Listed
  <2> QED BY <2>1 DEF ClosedStaysClosed
<1> QED BY <1>1, ConversationInit, ConversationNext, PTL DEF M!Spec

-----------------------------------------------------------------------------
(* The components side by side *)

\* A step is one of the component whose part it is, and the others stand still.
LEMMA PartSteps ==
  [NextPart]_everything => [Next]_vars /\ [S!Next]_(S!vars) /\ [M!Next]_(M!vars)
BY DEF NextPart, OnlyFiles, OnlySchema, OnlyMessages, everything, fileVars, schemaVars,
   messageVars, vars, disk, observed, S!vars, M!vars

LEMMA PartsBehave == SpecPart => Spec /\ S!Spec /\ M!Spec
<1>1. InitPart => Init /\ S!Init /\ M!Init
  BY DEF InitPart
<1> QED BY <1>1, PartSteps, PTL DEF SpecPart, Spec, S!Spec, M!Spec

\* The files of the split, the tables and the transaction of a migration, and the messages
\* with what is known of their conversations keep their types (gateway_database.py, database.py).
THEOREM StorageKeepsTypes ==
  ASSUME SplitBounds, MigrationBounds PROVE SpecPart => []TypesOK
<1>1. TypeOK /\ S!TypeOK /\ M!TypeOK => TypesOK
  BY DEF TypesOK
<1> QED
  BY <1>1, PartsBehave, SplitStaysSafe, MigrationStaysSafe, ConversationsStayKept, PTL
=============================================================================
