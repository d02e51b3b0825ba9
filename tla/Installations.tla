---------------------------- MODULE Installations ----------------------------
(* What an installation of the program consists of on the computer, the update   *)
(* under way, and what holds wherever an installation ends (install-linux.sh).   *)
(* The steps are in Updating.                                                    *)

VARIABLES
  site,      \* the version that each channel's manifest names
  link,      \* durable: the release that PREFIX/current leads to
  release,   \* durable: what each release directory was built from
  settings,  \* durable: which version wrote the configuration, launcher and unit
  schema,    \* durable: the schema version of the database
  daemon,    \* the version that meshpi.service runs
  up,        \* the update under way, its local variables and private files
  before     \* (observer) the installation when the installer was started

\* What an installation may change and a failed one gives back.
State == [settings |-> settings, link |-> link, daemon |-> daemon]

----------------------------------------------------------------------------
\* The current link leads to a finished release of that version, built of its own signed
\* files, through every failure and loss of power (switch_link, README.md:309-311).
CurrentIsComplete == link \in DOMAIN release => release[link] = link

\* The service runs the release that the current link leads to, never one that is no longer
\* current (the stop before the switch, UndoLink).
ServiceIsCurrent == daemon \in DOMAIN release => daemon = link

\* When an installation has failed the link, the files and the service are as they were:
\* README.md:309-311 (finish_install).
FailureIsUndone == up.step = "failed" => State = before

\* What an installation leaves behind, wherever it ends.
InstallationIsWhole == CurrentIsComplete /\ ServiceIsCurrent /\ FailureIsUndone
==============================================================================
