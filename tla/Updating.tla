------------------------------- MODULE Updating -------------------------------
(* meshpi update (cli.py, update.py) and the installer it runs                   *)
(* (installers/install-linux.sh, always mode): check, confirmation, download and *)
(* verification, then a new release directory, the switch of the current link,   *)
(* a health check, and the way back when anything fails.                         *)
(*                                                                              *)
(* A release is its version number; a file is the version it was made for.  One  *)
(* installer runs at a time: nothing in the code enforces it.  The previous      *)
(* link, which nothing reads, and the web service are left out.                  *)
EXTENDS Naturals, Installations

CONSTANTS
  Version,      \* released versions, in the order of version_key
  Channel, Stable,
  SchemaOf,     \* the database schema of each version
  None, Damaged,
  Partial        \* a release directory that is not finished

vars == <<site, link, release, settings, schema, daemon, up, before>>

Artifact == {"installer", "package", "lock"}
File == {"config", "launcher", "unit"}
Settings == [File -> Version \cup {None}]
Waiting == {"idle", "asked", "confirmed", "download"}
Installing == {"verify", "saved", "configured", "building", "built", "tested", "stopped",
               "switched", "launched", "started"}
Undoing == {"undo", "unsettled", "unlinked", "restart"}
\* After ACTIVATION_STARTED=1.
Activated == {"stopped", "switched", "launched", "started"}

Idle == [step |-> "idle", direct |-> FALSE, channel |-> Stable, current |-> None,
         notice |-> None, plan |-> None, files |-> [a \in Artifact |-> None],
         saved |-> None, activated |-> FALSE]

TypeOK ==
  /\ site \in [Channel -> Version] /\ link \in Version \cup {None}
  /\ release \in [Version -> Version \cup {Partial, None}]
  /\ settings \in Settings
  /\ \E v \in Version : schema = SchemaOf[v]
  /\ daemon \in Version \cup {None}
  /\ up.step \in Waiting \cup Installing \cup Undoing \cup {"failed"}
  /\ up.plan \in Version \cup {None}
  /\ up.files \in [Artifact -> Version \cup {Damaged, None}]

First == CHOOSE v \in Version : \A w \in Version : v <= w

Init ==
  /\ site = [c \in Channel |-> First]
  /\ link = First /\ release = [v \in Version |-> IF v = First THEN v ELSE None]
  /\ settings = [f \in File |-> First] /\ schema = SchemaOf[First] /\ daemon = First
  /\ up = Idle /\ before = None

installation == <<link, release, settings, schema, daemon>>

Publish(channel, version) ==
  /\ version > site[channel] /\ site' = [site EXCEPT ![channel] = version]
  /\ UNCHANGED <<installation, up, before>>

----------------------------------------------------------------------------
(* The updater.  An error at any step ends it: Abandon.                        *)

\* What the address of a channel may answer: UPDATE_URL may lead to another channel, and
\* what arrives may be damaged.
Manifest == [version: Version, channel: Channel, intact: BOOLEAN]
Served == {m \in Manifest : m.version = site[m.channel]}

\* _parse_update_plan: signature, channel, and a version newer than the program's.
Acceptable(m, channel, current) == m.intact /\ m.channel = channel /\ m.version > current

\* check_for_update, by the program that the current link leads to.
Check(channel) ==
  /\ up.step = "idle" /\ link # None
  /\ \E m \in Served :
       /\ Acceptable(m, channel, link)
       /\ up' = [Idle EXCEPT !.step = "asked", !.channel = channel, !.current = link,
                             !.notice = m.version]
  /\ UNCHANGED <<site, installation, before>>

\* The user writes OPPDATER, or has said --yes.
Confirm ==
  /\ up.step = "asked" /\ up' = [up EXCEPT !.step = "confirmed"]
  /\ UNCHANGED <<site, installation, before>>

\* Mutant: whatever version the manifest names by now.
ExpectedAny(m) == TRUE
Expected(m) == m.version = up.notice

\* apply_update fetches the manifest again.
Prepare ==
  /\ up.step = "confirmed"
  /\ \E m \in Served :
       /\ Acceptable(m, up.channel, up.current) /\ Expected(m)
       /\ up' = [up EXCEPT !.step = "download", !.plan = m.version]
  /\ UNCHANGED <<site, installation, before>>

Missing == {a \in Artifact : up.files[a] = None}

\* Size and SHA-256 are those of the signed manifest.
Genuine(got) == got = up.plan

\* _download_artifact, in this order.
Download(got) ==
  /\ up.step = "download" /\ Missing # {} /\ Genuine(got)
  /\ LET a == IF "installer" \in Missing THEN "installer"
              ELSE IF "package" \in Missing THEN "package" ELSE "lock"
     IN up' = [up EXCEPT !.files[a] = got]
  /\ UNCHANGED <<site, installation, before>>

RunInstaller ==
  /\ up.step = "download" /\ Missing = {}
  /\ up' = [up EXCEPT !.step = "verify"] /\ before' = State
  /\ UNCHANGED <<site, installation>>

\* The installer is run by hand and fetches the files itself; it compares no versions.
RunDirectly(got) ==
  /\ up.step = "idle"
  /\ \E m \in Served :
       /\ m.intact
       /\ up' = [Idle EXCEPT !.step = "verify", !.direct = TRUE, !.channel = m.channel,
                             !.plan = m.version, !.files = got]
  /\ before' = State
  /\ UNCHANGED <<site, installation>>

Abandon ==
  /\ up.step \in (Waiting \cup {"verify"}) \ {"idle"} /\ up' = Idle
  /\ UNCHANGED <<site, installation, before>>

----------------------------------------------------------------------------
(* The installer.                                                              *)

Go(step) == up' = [up EXCEPT !.step = step]

\* The hashes of the package and of the lock file.
Verified == up.files["package"] = up.plan /\ up.files["lock"] = up.plan

\* snapshot_file, OLD_DAEMON_ACTIVE, OLD_RELEASE.
Saved == State

Verify ==
  /\ up.step = "verify" /\ Verified
  /\ up' = [up EXCEPT !.step = "saved", !.saved = Saved]
  /\ UNCHANGED <<site, installation, before>>

Configure ==
  /\ up.step = "saved" /\ Go("configured")
  /\ settings' = [settings EXCEPT !["config"] = up.plan]
  /\ UNCHANGED <<site, link, release, schema, daemon, before>>

\* The script compares the path of the release with what the link resolves to.  Its PREFIX
\* is assumed to be a resolved path: under a symbolic link it would build the release that
\* runs again.
\* Mutant: the release that runs is built again.
MustBuildAlways == TRUE
MustBuild == up.plan # up.saved.link

Clear ==
  /\ up.step = "configured"
  /\ IF MustBuild
     THEN release' = [release EXCEPT ![up.plan] = Partial] /\ Go("building")
     ELSE UNCHANGED release /\ Go("built")
  /\ UNCHANGED <<site, link, settings, schema, daemon, before>>

Content == IF up.files["package"] = up.files["lock"] THEN up.files["package"] ELSE Damaged
Build ==
  /\ up.step = "building" /\ Go("built")
  /\ release' = [release EXCEPT ![up.plan] = Content]
  /\ UNCHANGED <<site, link, settings, schema, daemon, before>>

\* --version and doctor --offline.
SelfTest ==
  /\ up.step = "built" /\ release[up.plan] # Partial /\ Go("tested")
  /\ UNCHANGED <<site, installation, before>>

\* That stopping fails is left out: the script ignores it, and the old daemon would run on.
\* Mutant: the old daemon runs on.
StoppedNever == daemon
Stopped == None

Stop ==
  /\ up.step = "tested" /\ daemon' = Stopped
  /\ up' = [up EXCEPT !.step = "stopped", !.activated = TRUE]
  /\ UNCHANGED <<site, link, release, settings, schema, before>>

\* switch_link: one rename.
Switch ==
  /\ up.step = "stopped" /\ link' = up.plan /\ Go("switched")
  /\ UNCHANGED <<site, release, settings, schema, daemon, before>>

WriteFiles ==
  /\ up.step = "switched" /\ Go("launched")
  /\ settings' = [settings EXCEPT !["launcher"] = up.plan, !["unit"] = up.plan]
  /\ UNCHANGED <<site, link, release, schema, daemon, before>>

\* The daemon that the current link leads to opens the database, and refuses one that is
\* newer than it knows.
Opens(v) == v # None /\ release[v] \notin {None, Partial} /\ schema <= SchemaOf[v]
Started(v) ==
  /\ daemon' = IF Opens(v) THEN v ELSE None
  /\ schema' = IF Opens(v) THEN SchemaOf[v] ELSE schema

Start ==
  /\ up.step = "launched" /\ Started(link) /\ Go("started")
  /\ UNCHANGED <<site, link, release, settings, before>>

\* meshpi status answers within 40 attempts.
Healthy ==
  /\ up.step = "started" /\ daemon # None /\ up' = Idle
  /\ UNCHANGED <<site, installation, before>>

Fail ==
  /\ up.step \in Installing \ {"verify"} /\ Go("undo")
  /\ UNCHANGED <<site, installation, before>>

----------------------------------------------------------------------------
(* finish_install after a failure or a signal; its own errors are ignored.     *)

UndoStop ==
  /\ up.step = "undo" /\ Go("unsettled")
  /\ daemon' = IF up.activated THEN None ELSE daemon
  /\ UNCHANGED <<site, link, release, settings, schema, before>>

\* Mutant: the launcher is forgotten.
RestoredButLauncher == [up.saved.settings EXCEPT !["launcher"] = settings["launcher"]]
Restored == up.saved.settings

UndoFiles ==
  /\ up.step = "unsettled" /\ settings' = Restored /\ Go("unlinked")
  /\ UNCHANGED <<site, link, release, schema, daemon, before>>

UndoLink ==
  /\ up.step = "unlinked" /\ Go("restart")
  /\ link' = IF up.activated THEN up.saved.link ELSE link
  /\ UNCHANGED <<site, release, settings, schema, daemon, before>>

\* Mutant: the service is only enabled.
WasActiveNever == FALSE
WasActive == up.saved.daemon # None

UndoStart ==
  /\ up.step = "restart" /\ Go("failed")
  /\ IF up.activated /\ WasActive THEN Started(link) ELSE UNCHANGED <<daemon, schema>>
  /\ UNCHANGED <<site, link, release, settings, before>>

Exit ==
  /\ up.step = "failed" /\ up' = Idle
  /\ UNCHANGED <<site, installation, before>>

\* The machine loses power; when it comes back systemd starts the service.
PowerLoss ==
  /\ up' = Idle /\ Started(link)
  /\ UNCHANGED <<site, link, release, settings, before>>

----------------------------------------------------------------------------
Install ==
  \/ Verify \/ Configure \/ Clear \/ Build \/ SelfTest \/ Stop \/ Switch \/ WriteFiles
  \/ Start \/ Healthy
Undo == UndoStop \/ UndoFiles \/ UndoLink \/ UndoStart \/ Exit
Update ==
  \/ Prepare \/ RunInstaller \/ Abandon \/ Fail
  \/ \E got \in Version \cup {Damaged} : Download(got)

Next ==
  \/ Install \/ Undo \/ Update \/ Confirm \/ PowerLoss
  \/ \E c \in Channel : Check(c) \/ (\E v \in Version : Publish(c, v))
  \/ \E got \in [Artifact -> Version \cup {Damaged}] : RunDirectly(got)

Spec == Init /\ [][Next]_vars
\* Commands and downloads end, if only by a timeout.
FairSpec == Spec /\ WF_vars(Install \/ Undo \/ Update)

----------------------------------------------------------------------------
\* meshpi update installs the version the user has confirmed, newer than the program that
\* runs, although releases are published meanwhile; a link that changes
\* otherwise goes back (apply_update's expected_version, finish_install).
OnlyWhatWasConfirmed ==
  [][link' # link =>
       \/ link' = before.link
       \/ link' = up.plan /\ (up.direct \/ (link' = up.notice /\ link' > up.current))]_vars

\* The service is not left stopped: README.md:309-311.
ServiceComesBack == []<>(daemon # None)
==============================================================================
