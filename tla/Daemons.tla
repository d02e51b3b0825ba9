------------------------------- MODULE Daemons -------------------------------
(* The processes of the daemon, the path at which clients reach one, and what   *)
(* is promised of them (run_daemon, IPCServer and lifecycle.py).  The steps are *)
(* in DaemonLifecycle, which says what a process and its socket are.            *)
EXTENDS FiniteSets, Naturals

CONSTANTS
  Daemon,       \* daemon processes
  NoDaemon      \* no file and no process

VARIABLES
  path,      \* durable: the socket file: the process that bound it, or NoDaemon
  proc       \* Daemon -> where the process is

Owning == {"init", "ready", "check", "enter", "serve", "leave"}

----------------------------------------------------------------------------
\* daemon.py: the endpoint is reserved before the database is touched, so no two
\* processes ever own the database and the radio.
SingleOwner == Cardinality({d \in Daemon : proc[d] \in Owning}) <= 1

\* A process that owns them can be reached at the path, also after others have failed to
\* start, crashed, or closed their own sockets.
OwnerIsReachable == \A d \in Daemon : proc[d] \in Owning => path = d

\* The two together: whoever owns the database is the one at the path.
OneDaemon == SingleOwner /\ OwnerIsReachable
==============================================================================
