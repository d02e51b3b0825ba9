---------------------------- MODULE DaemonLifecycle ----------------------------
(***************************************************************************)
(* Who owns the database and the radio: the daemon processes (run_daemon), *)
(* the Unix socket that reserves ownership (IPCServer), and the clients    *)
(* that start and stop daemons (lifecycle.py).                             *)
(*                                                                         *)
(* A process is used once and makes at most one socket, so its name is     *)
(* also the inode of that socket.  Each system call on the path is a step. *)
(* Authentication, the platform's service managers and TCP are left out:   *)
(* the kernel makes the binding of a TCP port exclusive by itself.         *)
(***************************************************************************)
EXTENDS Daemons

CONSTANTS
  Client,       \* clients that start and stop daemons
  Overlap,      \* bound: whether a process may start while another one is
                \* between its probe and its listen, or is closing its socket
  StopAtOnce,   \* bound: whether a stop may be requested between the last
                \* look at the flag and the start of the serving loop
  MaxRequests   \* bound: starts and stops clients ask for

VARIABLES
  listening, \* processes whose socket accepts connections
  found,     \* Daemon -> the file its probe, or its own close, has looked at
  identity,  \* Daemon -> _unix_identity
  stopping,  \* processes whose stopping event is set
  asking,    \* processes in which a thread is inside server.shutdown()
  serving,   \* processes whose _serving is set
  shut,      \* processes whose serving loop has been told to end
  client,    \* Client -> [step, daemon]
  requests

server == <<listening, found, identity, stopping, asking, serving, shut>>
vars == <<path, proc, server, client, requests>>

Rest == [step |-> "idle", daemon |-> NoDaemon]
Starting == {"probe", "compare", "unlink", "bind", "listen", "identify"}
Closing == {"compare own", "unlink own"}
Step == {"none", "gone", "close"} \cup Starting \cup Owning \cup Closing

TypeOK ==
  /\ path \in Daemon \cup {NoDaemon} /\ proc \in [Daemon -> Step]
  /\ found \in [Daemon -> Daemon \cup {NoDaemon}]
  /\ identity \in [Daemon -> Daemon \cup {NoDaemon}]
  /\ listening \subseteq {d \in Daemon :
       proc[d] \in {"identify"} \cup Owning \cup {"close"}}
  /\ stopping \subseteq Daemon /\ asking \subseteq stopping
  /\ serving \subseteq Daemon /\ shut \subseteq Daemon
  /\ client \in [Client -> [step : {"idle", "start", "stop"},
                            daemon : Daemon \cup {NoDaemon}]]
  /\ requests \in 0..MaxRequests

Init ==
  /\ path = NoDaemon /\ proc = [d \in Daemon |-> "none"] /\ listening = {}
  /\ found = [d \in Daemon |-> NoDaemon] /\ identity = [d \in Daemon |-> NoDaemon]
  /\ stopping = {} /\ asking = {} /\ serving = {} /\ shut = {}
  /\ client = [c \in Client |-> Rest] /\ requests = 0

-----------------------------------------------------------------------------

(* Without Overlap, starts and the ends of closes take turns.              *)
Apart == Overlap \/ \A e \in Daemon : proc[e] \notin Starting

Goto(d, from, to) == proc[d] = from /\ proc' = [proc EXCEPT ![d] = to]
Reachable == path \in listening

\* Mutant: a daemon that does not answer is taken for a stale socket too.
ProbeImpatient(d) ==
  /\ \/ path = NoDaemon /\ Goto(d, "probe", "bind") /\ UNCHANGED found
     \/ path # NoDaemon /\ proc[path] = "serve" /\ Goto(d, "probe", "gone") /\ UNCHANGED found
     \/ /\ path # NoDaemon /\ proc[path] # "serve" /\ Goto(d, "probe", "compare")
        /\ found' = [found EXCEPT ![d] = path]
  /\ UNCHANGED <<path, listening, identity, stopping, asking, serving, shut, client, requests>>

(* _prepare_unix_path: a socket nobody listens on is taken for stale.      *)
Probe(d) ==
  /\ \/ path = NoDaemon /\ Goto(d, "probe", "bind") /\ UNCHANGED found
     \/ path # NoDaemon /\ Reachable /\ Goto(d, "probe", "gone") /\ UNCHANGED found
     \/ /\ path # NoDaemon /\ ~Reachable /\ Goto(d, "probe", "compare")
        /\ found' = [found EXCEPT ![d] = path]
  /\ UNCHANGED <<path, listening, identity, stopping, asking, serving, shut, client, requests>>

(* If the file has been replaced since, the process gives up; if it has    *)
(* been removed, lstat raises.                                             *)
Compare(d) ==
  /\ Goto(d, "compare", IF path = found[d] THEN "unlink" ELSE "gone")
  /\ UNCHANGED <<path, server, client, requests>>

Unlink(d) ==
  /\ Goto(d, "unlink", IF path = NoDaemon THEN "gone" ELSE "bind") /\ path' = NoDaemon
  /\ UNCHANGED <<server, client, requests>>

(* bind fails where there is a file.                                       *)
Bind(d) ==
  /\ Goto(d, "bind", IF path = NoDaemon THEN "listen" ELSE "gone")
  /\ path' = IF path = NoDaemon THEN d ELSE path
  /\ UNCHANGED <<server, client, requests>>

Listen(d) ==
  /\ Goto(d, "listen", "identify") /\ listening' = listening \cup {d}
  /\ UNCHANGED <<path, found, identity, stopping, asking, serving, shut, client, requests>>

(* The mode of the file is set, and its identity remembered.               *)
Identify(d) ==
  /\ \/ path # NoDaemon /\ Goto(d, "identify", "init")
        /\ identity' = [identity EXCEPT ![d] = path] /\ UNCHANGED listening
     \/ path = NoDaemon /\ Goto(d, "identify", "gone")
        /\ listening' = listening \ {d} /\ UNCHANGED identity
  /\ UNCHANGED <<path, found, stopping, asking, serving, shut, client, requests>>

(* The databases are opened, the service is made, handlers are installed;  *)
(* a failure leads to the same clean-up as a stop.                         *)
Initialize(d) ==
  /\ \/ Goto(d, "init", "ready") \/ Goto(d, "init", "leave")
  /\ UNCHANGED <<path, server, client, requests>>

(* service.start() and the maintenance thread.                             *)
StartService(d) ==
  /\ Goto(d, "ready", "check") /\ UNCHANGED <<path, server, client, requests>>

\* Mutant: the flag is not looked at before serving.
CheckNothing(d) ==
  /\ Goto(d, "check", "enter") /\ UNCHANGED <<path, server, client, requests>>

(* if not stopping.is_set(): server.serve_forever()                        *)
CheckStopping(d) ==
  /\ Goto(d, "check", IF d \in stopping THEN "leave" ELSE "enter")
  /\ UNCHANGED <<path, server, client, requests>>

EnterServing(d) ==
  /\ Goto(d, "enter", "serve") /\ serving' = serving \cup {d}
  /\ UNCHANGED <<path, listening, found, identity, stopping, asking, shut, client, requests>>

\* Mutant: the socket is closed before the service has stopped.
EndServingClosed(d) ==
  /\ d \in shut /\ Goto(d, "serve", "leave") /\ serving' = serving \ {d}
  /\ listening' = listening \ {d}
  /\ UNCHANGED <<path, found, identity, stopping, asking, shut, client, requests>>

(* The loop ends; finally the service is stopped, and only then the socket *)
(* closed, so that nobody takes the endpoint over too early.               *)
EndServing(d) ==
  /\ d \in shut /\ Goto(d, "serve", "leave") /\ serving' = serving \ {d}
  /\ UNCHANGED <<path, listening, found, identity, stopping, asking, shut, client, requests>>

StopService(d) ==
  /\ Goto(d, "leave", "close") /\ stopping' = stopping \cup {d}
  /\ UNCHANGED <<path, listening, found, identity, asking, serving, shut, client, requests>>

Close(d) ==
  /\ Apart /\ Goto(d, "close", "compare own") /\ listening' = listening \ {d}
  /\ UNCHANGED <<path, found, identity, stopping, asking, serving, shut, client, requests>>

CompareOwn(d) ==
  /\ Goto(d, "compare own", IF path # NoDaemon /\ path = identity[d] THEN "unlink own" ELSE "gone")
  /\ UNCHANGED <<path, server, client, requests>>

UnlinkOwn(d) ==
  /\ Goto(d, "unlink own", "gone") /\ path' = NoDaemon
  /\ UNCHANGED <<server, client, requests>>

(* request_stop: a signal, the parent's end or a shutdown request.  Only   *)
(* the first one starts a thread.                                          *)
Handles == {"ready", "check", "serve"} \cup (IF StopAtOnce THEN {"enter"} ELSE {})
Asked(d) ==
  /\ proc[d] \in Handles
  /\ stopping' = stopping \cup {d}
  /\ asking' = IF d \in stopping THEN asking ELSE asking \cup {d}

RequestStop(d) ==
  /\ d \notin stopping /\ Asked(d)
  /\ UNCHANGED <<path, proc, listening, found, identity, serving, shut, client, requests>>

(* server.shutdown(close=False) in that thread: it tells only a server     *)
(* that serves; the flag alone ends one that has not looked at it yet.     *)
Shutdown(d) ==
  /\ d \in asking /\ asking' = asking \ {d}
  /\ StopAtOnce \/ proc[d] # "enter"
  /\ shut' = IF d \in serving THEN shut \cup {d} ELSE shut
  /\ UNCHANGED <<path, proc, listening, found, identity, stopping, serving, client, requests>>

(* The process is killed; its socket file remains.                         *)
Crash(d) ==
  /\ proc[d] \notin {"none", "gone"} /\ proc' = [proc EXCEPT ![d] = "gone"]
  /\ listening' = listening \ {d} /\ asking' = asking \ {d} /\ serving' = serving \ {d}
  /\ UNCHANGED <<path, found, identity, stopping, shut, client, requests>>

-----------------------------------------------------------------------------

MayStart == Apart /\ (Overlap \/ \A e \in Daemon : proc[e] \notin Closing)

(* The platform's service manager, or a user, starts a process as well.    *)
Launch(d) ==
  /\ MayStart /\ Goto(d, "none", "probe")
  /\ UNCHANGED <<path, server, client, requests>>

(* start_session_daemon: unless a daemon can be connected to, a process is *)
(* started.  Any error of connect() counts, that of a full listen queue    *)
(* included, so what a client concludes may be wrong at any time.          *)
ClientStarts(c, d) ==
  /\ client[c] = Rest /\ requests < MaxRequests /\ requests' = requests + 1
  /\ MayStart
  /\ Goto(d, "none", "probe")
  /\ client' = [client EXCEPT ![c] = [step |-> "start", daemon |-> d]]
  /\ UNCHANGED <<path, server>>

(* It waits until a daemon answers or its own process has ended.           *)
Answers == Reachable /\ proc[path] = "serve"
ClientStarted(c) ==
  /\ client[c].step = "start" /\ (Answers \/ proc[client[c].daemon] = "gone")
  /\ client' = [client EXCEPT ![c] = Rest]
  /\ UNCHANGED <<path, proc, server, requests>>

(* After its timeout it terminates the process.                            *)
ClientTerminates(c) ==
  LET d == client[c].daemon IN
  /\ client[c].step = "start" /\ client' = [client EXCEPT ![c] = Rest]
  /\ \/ Asked(d) /\ UNCHANGED <<proc, listening>>
     \/ /\ proc[d] \in Starting \cup {"init"} /\ proc' = [proc EXCEPT ![d] = "gone"]
        /\ listening' = listening \ {d} /\ UNCHANGED <<stopping, asking>>
  /\ UNCHANGED <<path, found, identity, serving, shut, requests>>

(* stop_daemon: a shutdown request; the handler answers, then stops.       *)
ClientStops(c) ==
  /\ client[c] = Rest /\ requests < MaxRequests /\ requests' = requests + 1
  /\ Answers /\ Asked(path)
  /\ client' = [client EXCEPT ![c] = [step |-> "stop", daemon |-> path]]
  /\ UNCHANGED <<path, proc, listening, found, identity, serving, shut>>

(* It reports success when connect() fails, or gives up after its timeout. *)
(* Its own probes soon fill the listen queue of a daemon that accepts none *)
(* of them while it stops, so success does not mean that it has stopped.   *)
ClientStopped(c) ==
  /\ client[c].step = "stop"
  /\ client' = [client EXCEPT ![c] = Rest]
  /\ UNCHANGED <<path, proc, server, requests>>

Process(d) ==
  \/ Probe(d) \/ Compare(d) \/ Unlink(d) \/ Bind(d) \/ Listen(d) \/ Identify(d)
  \/ Initialize(d) \/ StartService(d) \/ CheckStopping(d) \/ EnterServing(d)
  \/ EndServing(d) \/ StopService(d) \/ Close(d) \/ CompareOwn(d) \/ UnlinkOwn(d)
ClientNext(c) ==
  \/ ClientStarted(c) \/ ClientTerminates(c) \/ ClientStops(c) \/ ClientStopped(c)
  \/ \E d \in Daemon : ClientStarts(c, d)
Next ==
  \/ \E d \in Daemon : Process(d) \/ Launch(d) \/ RequestStop(d) \/ Shutdown(d) \/ Crash(d)
  \/ \E c \in Client : ClientNext(c)

Spec == Init /\ [][Next]_vars
FairSpec == Spec /\ \A d \in Daemon : WF_vars(Process(d)) /\ WF_vars(Shutdown(d))

-----------------------------------------------------------------------------

(* A process that was asked to stop ends, wherever it was when it was      *)
(* asked.                                                                  *)
StopIsObeyed == \A d \in Daemon : []<>(d \in stopping => proc[d] = "gone")
=============================================================================
