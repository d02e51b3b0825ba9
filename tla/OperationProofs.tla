---------------------------- MODULE OperationProofs ----------------------------
(***************************************************************************)
(* Proofs about DaemonLifecycle, for every number of processes and clients *)
(* and of what clients ask for, about Updating, for any releases, and      *)
(* about what MCOperation composes of them and NodeRemoval.                *)
(***************************************************************************)
EXTENDS MCOperation, NodeRemovalProofs, FiniteSetTheorems

\* NoDaemon stands for no file and no process.
DaemonBounds == MaxRequests \in Nat /\ NoDaemon \notin Daemon

\* A client that waits has a process to wait for.
ClientFits(c) == client[c].step # "idle" => client[c].daemon \in Daemon
ClientsFit == \A c \in Client : ClientFits(c)

\* What a process knows of the socket file at each of its steps: from its bind to
\* the end of its close the file is its own, and before it nobody listens there.
Knows(d) ==
  /\ proc[d] \in Owning \cup {"close"} => path = d /\ d \in listening /\ identity[d] = d
  /\ proc[d] \in D!Closing => path = d /\ identity[d] = d
  /\ proc[d] \in {"compare", "unlink", "bind"} => path \notin listening
  /\ proc[d] = "listen" => path = d
  /\ proc[d] = "identify" => path = d /\ d \in listening

\* Starts and the ends of closes take turns.
InTurn ==
  /\ \A d, e \in Daemon : proc[d] \in D!Starting /\ proc[e] \in D!Starting => d = e
  /\ \A d, e \in Daemon : proc[d] \in D!Starting => proc[e] \notin D!Closing

\* The inductive invariant.
DaemonInv == D!TypeOK /\ ClientsFit
OwnInv == InTurn /\ \A d \in Daemon : Knows(d)

-----------------------------------------------------------------------------
(* Types *)

USE DEF D!Starting, Owning, D!Owning, D!Closing

\* A process that accepts connections.
Listens == {"identify"} \cup Owning \cup {"close"}

\* Everything but the processes' steps and sockets.
SharedOK ==
  /\ path \in Daemon \cup {NoDaemon}
  /\ found \in [Daemon -> Daemon \cup {NoDaemon}] /\ identity \in [Daemon -> Daemon \cup {NoDaemon}]
  /\ stopping \subseteq Daemon /\ asking \subseteq stopping
  /\ serving \subseteq Daemon /\ shut \subseteq Daemon
  /\ client \in [Client -> [step : {"idle", "start", "stop"}, daemon : Daemon \cup {NoDaemon}]]
  /\ requests \in 0..MaxRequests
  /\ ClientsFit

SocketsOK ==
  /\ proc \in [Daemon -> D!Step]
  /\ \A d \in listening : d \in Daemon /\ proc[d] \in Listens

LEMMA Parts == DaemonInv <=> SharedOK /\ SocketsOK
BY DEF DaemonInv, D!TypeOK, SharedOK, SocketsOK, Listens

LEMMA PartsNext == DaemonInv' <=> SharedOK' /\ SocketsOK'
BY Parts, PTL

\* Process d goes to another step.
Moves(d, to) ==
  /\ proc' \in [Daemon -> D!Step] /\ proc'[d] = to
  /\ \A e \in Daemon : e # d => proc'[e] = proc[e]

\* A process goes from one step to another.
LEMMA GotoMoves ==
  ASSUME DaemonInv, NEW d \in Daemon, NEW from, NEW to \in D!Step, D!Goto(d, from, to)
  PROVE  proc[d] = from /\ Moves(d, to)
BY DEF D!Goto, Moves, DaemonInv, D!TypeOK

\* A process that moves keeps its socket open only at the steps that have one.
LEMMA MoveInv ==
  ASSUME DaemonInv, NEW d \in Daemon, NEW to, Moves(d, to), SharedOK',
         listening' \subseteq listening \cup {d}, d \in listening' => to \in Listens
  PROVE  DaemonInv'
<1>1. SocketsOK'
  BY Parts DEF SocketsOK, Moves
<1> QED BY <1>1, PartsNext

\* The way to the socket.
LEMMA StartInv ==
  ASSUME DaemonInv, NEW d \in Daemon,
         D!Probe(d) \/ D!Compare(d) \/ D!Unlink(d) \/ D!Bind(d) \/ D!Listen(d) \/ D!Identify(d)
  PROVE  DaemonInv'
<1>1. SharedOK'
  BY Parts DEF D!Probe, D!Compare, D!Unlink, D!Bind, D!Listen, D!Identify, D!server, SharedOK,
     ClientsFit, ClientFits
<1>2. PICK from \in D!Starting, to \in D!Step :
        /\ D!Goto(d, from, to)
        /\ from = "listen" => to = "identify"
        /\ from = "identify" => to \in {"init", "gone"}
  <2>1. D!Probe(d) => \E to \in D!Step : D!Goto(d, "probe", to)
    BY DEF D!Probe, D!Step
  <2>2. D!Compare(d) => \E to \in D!Step : D!Goto(d, "compare", to)
    BY DEF D!Compare, D!Step
  <2>3. D!Unlink(d) => \E to \in D!Step : D!Goto(d, "unlink", to)
    BY DEF D!Unlink, D!Step
  <2>4. D!Bind(d) => \E to \in D!Step : D!Goto(d, "bind", to)
    BY DEF D!Bind, D!Step
  <2>5. D!Listen(d) => D!Goto(d, "listen", "identify")
    BY DEF D!Listen
  <2>6. D!Identify(d) => D!Goto(d, "identify", "init") \/ D!Goto(d, "identify", "gone")
    BY DEF D!Identify
  <2> QED BY <2>1, <2>2, <2>3, <2>4, <2>5, <2>6 DEF D!Step
<1>3. /\ listening' \subseteq listening \cup {d}
      /\ d \in listening' => (d \in listening /\ proc[d] # "identify") \/ to \in Listens
  BY <1>2 DEF D!Probe, D!Compare, D!Unlink, D!Bind, D!Listen, D!Identify, D!server, D!Goto,
     Listens, DaemonInv, D!TypeOK
<1>4. proc[d] = from /\ Moves(d, to)
  BY <1>2, GotoMoves
<1>5. d \in listening => proc[d] = "identify"
  BY <1>2, <1>4, Parts DEF SocketsOK, Listens
<1> QED BY <1>1, <1>3, <1>4, <1>5, MoveInv

\* The time as the owner, and the close.
LEMMA OwnerInv ==
  ASSUME DaemonInv, NEW d \in Daemon,
         \/ D!Initialize(d) \/ D!StartService(d) \/ D!CheckStopping(d) \/ D!EnterServing(d)
         \/ D!EndServing(d) \/ D!StopService(d) \/ D!Close(d) \/ D!CompareOwn(d) \/ D!UnlinkOwn(d)
  PROVE  DaemonInv'
<1>1. SharedOK'
  BY Parts DEF D!Initialize, D!StartService, D!CheckStopping, D!EnterServing, D!EndServing,
     D!StopService, D!Close, D!CompareOwn, D!UnlinkOwn, D!server, SharedOK, ClientsFit, ClientFits
<1>2. PICK from, to \in D!Step : D!Goto(d, from, to) /\ (from \in Owning => to \in Listens)
                             /\ (from \notin Owning => from \in D!Closing \cup {"close"})
  BY DEF D!Initialize, D!StartService, D!CheckStopping, D!EnterServing, D!EndServing,
     D!StopService, D!Close, D!CompareOwn, D!UnlinkOwn, D!Step, Listens
<1>3. proc[d] = from /\ Moves(d, to)
  BY <1>2, GotoMoves
<1>4. /\ listening' \subseteq listening
      /\ from = "close" => d \notin listening'
  BY <1>2, <1>3 DEF D!Initialize, D!StartService, D!CheckStopping, D!EnterServing, D!EndServing,
     D!StopService, D!Close, D!CompareOwn, D!UnlinkOwn, D!server, D!Goto
<1>5. d \in listening => from \in Listens
  BY <1>3, Parts DEF SocketsOK
<1>6. d \in listening' => to \in Listens
  BY <1>2, <1>4, <1>5 DEF Listens
<1> QED BY <1>1, <1>3, <1>4, <1>6, MoveInv

\* Starts, stops and crashes.
LEMMA StopInv ==
  ASSUME DaemonInv, NEW d \in Daemon,
         D!Launch(d) \/ D!RequestStop(d) \/ D!Shutdown(d) \/ D!Crash(d)
  PROVE  DaemonInv'
<1>1. SharedOK'
  BY Parts DEF D!Launch, D!RequestStop, D!Asked, D!Shutdown, D!Crash, D!server, SharedOK,
     ClientsFit, ClientFits
<1>2. CASE D!Launch(d)
  <2>1. proc[d] = "none" /\ Moves(d, "probe") /\ listening' = listening
    BY <1>2, GotoMoves DEF D!Launch, D!Step, D!server
  <2>2. d \notin listening
    BY <2>1, Parts DEF SocketsOK, Listens
  <2> QED BY <1>1, <2>1, <2>2, MoveInv
<1>3. CASE D!RequestStop(d) \/ D!Shutdown(d)
  <2>1. SocketsOK'
    BY <1>3, Parts DEF D!RequestStop, D!Asked, D!Shutdown, SocketsOK
  <2> QED BY <1>1, <2>1, PartsNext
<1>4. CASE D!Crash(d)
  <2>1. Moves(d, "gone")
    BY <1>4 DEF D!Crash, Moves, DaemonInv, D!TypeOK, D!Step
  <2> QED BY <1>1, <1>4, <2>1, MoveInv DEF D!Crash
<1> QED BY <1>2, <1>3, <1>4

\* A client's state is a record of its step and its process.
LEMMA ClientType ==
  ASSUME DaemonInv, NEW c \in Client, NEW step \in {"idle", "start", "stop"},
         NEW d \in Daemon \cup {NoDaemon}, step = "idle" \/ d \in Daemon,
         client' = [client EXCEPT ![c] = [step |-> step, daemon |-> d]]
  PROVE  /\ client' \in [Client -> [step : {"idle", "start", "stop"},
                                 daemon : Daemon \cup {NoDaemon}]]
         /\ ClientsFit'
<1>1. client \in [Client -> [step : {"idle", "start", "stop"}, daemon : Daemon \cup {NoDaemon}]]
  BY DEF DaemonInv, D!TypeOK
<1>2. client'[c].step = step /\ client'[c].daemon = d
      /\ \A e \in Client : e # c => client'[e] = client[e]
  BY <1>1
<1> QED BY <1>1, <1>2 DEF DaemonInv, ClientsFit, ClientFits

\* What clients do to the processes.
LEMMA ClientInv ==
  ASSUME DaemonBounds, DaemonInv, NEW c \in Client, D!ClientNext(c)
  PROVE  DaemonInv'
<1> DEFINE ClientsOK ==
      /\ client' \in [Client -> [step : {"idle", "start", "stop"}, daemon : Daemon \cup {NoDaemon}]]
      /\ ClientsFit'
<1>1. CASE \E d \in Daemon : D!ClientStarts(c, d)
  <2>1. PICK d \in Daemon : D!ClientStarts(c, d)
    BY <1>1
  <2>2. ClientsOK
    BY <2>1, ClientType DEF D!ClientStarts
  <2>3. requests' \in 0..MaxRequests
    BY <2>1, DaemonBounds DEF D!ClientStarts, DaemonInv, D!TypeOK, DaemonBounds
  <2>4. SharedOK'
    BY <2>1, <2>2, <2>3, Parts DEF D!ClientStarts, D!server, SharedOK
  <2>5. proc[d] = "none" /\ Moves(d, "probe") /\ listening' = listening
    BY <2>1, GotoMoves DEF D!ClientStarts, D!Step, D!server
  <2>6. d \notin listening
    BY <2>5, Parts DEF SocketsOK, Listens
  <2> QED BY <2>4, <2>5, <2>6, MoveInv
<1>2. CASE D!ClientStarted(c) \/ D!ClientStopped(c)
  <2>1. ClientsOK
    BY <1>2, ClientType DEF D!ClientStarted, D!ClientStopped, D!Rest
  <2>2. SharedOK' /\ SocketsOK'
    BY <1>2, <2>1, Parts DEF D!ClientStarted, D!ClientStopped, D!server, SharedOK, SocketsOK
  <2> QED BY <2>2, PartsNext
<1>3. CASE D!ClientTerminates(c)
  <2>1. ClientsOK
    BY <1>3, ClientType DEF D!ClientTerminates, D!Rest
  <2>2. PICK d \in Daemon : d = client[c].daemon
    BY <1>3 DEF D!ClientTerminates, DaemonInv, ClientsFit, ClientFits
  <2>3. SharedOK'
    BY <1>3, <2>1, <2>2, Parts DEF D!ClientTerminates, D!Asked, SharedOK
  <2>4. CASE proc' = proc /\ listening' = listening
    <3>1. SocketsOK'
      BY <2>4, Parts DEF SocketsOK
    <3> QED BY <2>3, <3>1, PartsNext
  <2>5. CASE proc' = [proc EXCEPT ![d] = "gone"] /\ listening' = listening \ {d}
    <3>1. Moves(d, "gone")
      BY <2>5 DEF Moves, DaemonInv, D!TypeOK, D!Step
    <3> QED BY <2>3, <2>5, <3>1, MoveInv
  <2> QED BY <1>3, <2>2, <2>4, <2>5 DEF D!ClientTerminates
<1>4. CASE D!ClientStops(c)
  <2>1. path \in Daemon
    BY <1>4, Parts DEF D!ClientStops, D!Answers, D!Reachable, SocketsOK
  <2>2. ClientsOK
    BY <1>4, <2>1, ClientType DEF D!ClientStops
  <2>3. requests' \in 0..MaxRequests
    BY <1>4, DaemonBounds DEF D!ClientStops, DaemonInv, D!TypeOK, DaemonBounds
  <2>4. SharedOK' /\ SocketsOK'
    BY <1>4, <2>1, <2>2, <2>3, Parts DEF D!ClientStops, D!Asked, SharedOK, SocketsOK
  <2> QED BY <2>4, PartsNext
<1> QED BY <1>1, <1>2, <1>3, <1>4 DEF D!ClientNext

\* Every step preserves the types.
LEMMA NextInv == DaemonBounds /\ DaemonInv /\ [D!Next]_(D!vars) => DaemonInv'
<1> SUFFICES ASSUME DaemonBounds, DaemonInv, [D!Next]_(D!vars) PROVE DaemonInv'
  OBVIOUS
<1>1. ASSUME NEW d \in Daemon,
             D!Process(d) \/ D!Launch(d) \/ D!RequestStop(d) \/ D!Shutdown(d) \/ D!Crash(d)
      PROVE  DaemonInv'
  BY <1>1, StartInv, OwnerInv, StopInv DEF D!Process
<1>2. ASSUME NEW c \in Client, D!ClientNext(c) PROVE DaemonInv'
  BY <1>2, ClientInv
<1>3. CASE UNCHANGED D!vars
  BY <1>3 DEF D!vars, D!server, DaemonInv, D!TypeOK, ClientsFit, ClientFits
<1> QED BY <1>1, <1>2, <1>3 DEF D!Next

-----------------------------------------------------------------------------
(* Ownership *)

\* A process that starts does so while no other one does, and none closes.
Enters(d, to) ==
  /\ to \in D!Starting /\ proc[d] \notin D!Starting =>
       \A e \in Daemon : proc[e] \notin D!Starting \cup D!Closing
  /\ to \in D!Closing /\ proc[d] \notin D!Closing => \A e \in Daemon : proc[e] \notin D!Starting

LEMMA TurnsKept ==
  ASSUME InTurn, NEW d \in Daemon, NEW to, Moves(d, to), Enters(d, to)
  PROVE  InTurn'
<1>1. D!Starting \cap D!Closing = {}
  OBVIOUS
<1>2. \A e \in Daemon : proc'[e] = IF e = d THEN to ELSE proc[e]
  BY DEF Moves
<1> HIDE DEF D!Starting, D!Closing
<1>3. \A e \in Daemon : e # d /\ proc[e] \in D!Starting /\ to \in D!Starting => FALSE
  BY DEF Enters, InTurn
<1>4. \A e \in Daemon : e # d /\ proc[e] \in D!Starting => to \notin D!Closing
  BY DEF Enters, InTurn
<1>5. \A e \in Daemon : e # d /\ proc[e] \in D!Closing => to \notin D!Starting
  BY DEF Enters, InTurn
<1> QED BY <1>1, <1>2, <1>3, <1>4, <1>5 DEF InTurn

\* A process that moves and leaves the file alone.
LEMMA KeepsFile ==
  ASSUME OwnInv, NEW d \in Daemon, NEW to, Moves(d, to), Enters(d, to), path' = path,
         \A e \in Daemon : e # d => identity'[e] = identity[e],
         \A e \in Daemon : e # d => (e \in listening' <=> e \in listening),
         path \notin listening => path \notin listening' \/ proc[d] \in D!Starting,
         Knows(d)'
  PROVE  OwnInv'
<1>1. InTurn'
  BY TurnsKept DEF OwnInv
<1>2. ASSUME NEW e \in Daemon, e # d PROVE Knows(e)'
  <2>1. proc'[e] = proc[e] /\ Knows(e)
    BY <1>2 DEF Moves, OwnInv
  <2>2. proc[e] \in D!Starting => proc[d] \notin D!Starting
    BY <1>2 DEF OwnInv, InTurn
  <2> QED BY <1>2, <2>1, <2>2 DEF Knows
<1> QED BY <1>1, <1>2 DEF OwnInv

\* A process that changes the file while no other process has it or looks for it.
LEMMA ChangesFile ==
  ASSUME OwnInv, NEW d \in Daemon, NEW to, Moves(d, to), Enters(d, to),
         identity' = identity, listening' = listening,
         \A e \in Daemon :
           e # d => proc[e] \notin D!Starting \cup Owning \cup D!Closing \cup {"close"},
         Knows(d)'
  PROVE  OwnInv'
<1>1. InTurn'
  BY TurnsKept DEF OwnInv
<1>2. ASSUME NEW e \in Daemon, e # d PROVE Knows(e)'
  BY <1>2 DEF Moves, Knows
<1> QED BY <1>1, <1>2 DEF OwnInv

\* The way to the socket.
LEMMA StartOwn ==
  ASSUME DaemonBounds, DaemonInv, OwnInv, NEW d \in Daemon,
         D!Probe(d) \/ D!Compare(d) \/ D!Unlink(d) \/ D!Bind(d) \/ D!Listen(d) \/ D!Identify(d)
  PROVE  OwnInv'
<1>1. Knows(d) /\ \A e \in listening : e \in Daemon /\ proc[e] \in Listens
  BY Parts DEF OwnInv, SocketsOK
<1>2. CASE D!Probe(d)
  <2>1. PICK to \in {"bind", "gone", "compare"} : D!Goto(d, "probe", to)
    BY <1>2 DEF D!Probe
  <2>2. proc[d] = "probe" /\ Moves(d, to)
    BY <2>1, GotoMoves DEF D!Step
  <2>3. to \in {"bind", "compare"} => path \notin listening
    BY <1>1, <1>2, <2>1, <2>2 DEF D!Probe, D!Reachable, D!Goto, DaemonBounds, Moves
  <2>4. path' = path /\ identity' = identity /\ listening' = listening
    BY <1>2 DEF D!Probe
  <2>5. Knows(d)'
    BY <2>2, <2>3, <2>4 DEF Knows, Moves
  <2> QED BY <2>2, <2>4, <2>5, KeepsFile DEF Enters
<1>3. CASE D!Compare(d)
  <2>1. PICK to \in {"unlink", "gone"} : D!Goto(d, "compare", to)
    BY <1>3 DEF D!Compare
  <2>2. proc[d] = "compare" /\ Moves(d, to)
    BY <2>1, GotoMoves DEF D!Step
  <2>3. path' = path /\ identity' = identity /\ listening' = listening
    BY <1>3 DEF D!Compare, D!server
  <2>4. Knows(d)'
    BY <1>1, <2>2, <2>3 DEF Knows, Moves
  <2> QED BY <2>2, <2>3, <2>4, KeepsFile DEF Enters
<1>4. CASE D!Unlink(d)
  <2>1. PICK to \in {"bind", "gone"} : D!Goto(d, "unlink", to)
    BY <1>4 DEF D!Unlink
  <2>2. proc[d] = "unlink" /\ Moves(d, to)
    BY <2>1, GotoMoves DEF D!Step
  <2>3. path' = NoDaemon /\ identity' = identity /\ listening' = listening
    BY <1>4 DEF D!Unlink, D!server
  <2>4. Knows(d)'
    BY <1>1, <2>2, <2>3 DEF Knows, Moves, DaemonBounds
  <2>5. \A e \in Daemon :
          e # d => proc[e] \notin D!Starting \cup Owning \cup D!Closing \cup {"close"}
    BY <1>1, <2>2 DEF OwnInv, InTurn, Knows
  <2> QED BY <2>2, <2>3, <2>4, <2>5, ChangesFile DEF Enters
<1>5. CASE D!Bind(d)
  <2>1. PICK to \in {"listen", "gone"} : D!Goto(d, "bind", to) /\ (to = "listen" => path' = d)
    BY <1>5 DEF D!Bind
  <2>2. proc[d] = "bind" /\ Moves(d, to)
    BY <2>1, GotoMoves DEF D!Step
  <2>3. identity' = identity /\ listening' = listening
    BY <1>5 DEF D!Bind, D!server
  <2>4. Knows(d)'
    BY <2>1, <2>2 DEF Knows, Moves
  <2>5. \A e \in Daemon :
          e # d => proc[e] \notin D!Starting \cup Owning \cup D!Closing \cup {"close"}
    BY <1>1, <2>2 DEF OwnInv, InTurn, Knows
  <2> QED BY <2>2, <2>3, <2>4, <2>5, ChangesFile DEF Enters
<1>6. CASE D!Listen(d)
  <2>1. proc[d] = "listen" /\ Moves(d, "identify")
    BY <1>6, GotoMoves DEF D!Listen, D!Step
  <2>2. path' = path /\ identity' = identity /\ listening' = listening \cup {d}
    BY <1>6 DEF D!Listen
  <2>3. Knows(d)'
    BY <1>1, <2>1, <2>2 DEF Knows, Moves
  <2> QED BY <2>1, <2>2, <2>3, KeepsFile DEF Enters
<1>7. CASE D!Identify(d)
  <2>1. proc[d] = "identify" /\ path = d
    BY <1>1, <1>7 DEF D!Identify, D!Goto, Knows
  <2>2. /\ Moves(d, "init") /\ identity' = [identity EXCEPT ![d] = path]
        /\ path' = path /\ listening' = listening
    BY <1>7, <2>1, GotoMoves DEF D!Identify, D!Step, DaemonBounds
  <2>3. Knows(d)' /\ \A e \in Daemon : e # d => identity'[e] = identity[e]
    BY <1>1, <2>1, <2>2 DEF Knows, Moves, DaemonInv, D!TypeOK
  <2> QED BY <2>1, <2>2, <2>3, KeepsFile DEF Enters
<1> QED BY <1>2, <1>3, <1>4, <1>5, <1>6, <1>7

\* The time as the owner, and the close.
LEMMA OwnerOwn ==
  ASSUME DaemonInv, OwnInv, ~ Overlap, NEW d \in Daemon,
         \/ D!Initialize(d) \/ D!StartService(d) \/ D!CheckStopping(d) \/ D!EnterServing(d)
         \/ D!EndServing(d) \/ D!StopService(d) \/ D!Close(d) \/ D!CompareOwn(d) \/ D!UnlinkOwn(d)
  PROVE  OwnInv'
<1>1. Knows(d)
  BY DEF OwnInv
<1>2. CASE D!Initialize(d) \/ D!StartService(d) \/ D!CheckStopping(d) \/ D!EnterServing(d)
           \/ D!EndServing(d) \/ D!StopService(d)
  <2>1. PICK from \in Owning, to \in Owning \cup {"close"} : D!Goto(d, from, to)
    BY <1>2 DEF D!Initialize, D!StartService, D!CheckStopping, D!EnterServing, D!EndServing,
       D!StopService
  <2>2. proc[d] \in Owning /\ Moves(d, to)
    BY <2>1, GotoMoves DEF D!Step
  <2>3. path' = path /\ identity' = identity /\ listening' = listening
    BY <1>2 DEF D!Initialize, D!StartService, D!CheckStopping, D!EnterServing, D!EndServing,
       D!StopService, D!server
  <2>4. Knows(d)'
    BY <1>1, <2>1, <2>2, <2>3 DEF Knows, Moves
  <2>5. Enters(d, to)
    BY <2>1 DEF Enters
  <2> QED BY <2>2, <2>3, <2>4, <2>5, KeepsFile
<1>3. CASE D!Close(d)
  <2>1. proc[d] = "close" /\ Moves(d, "compare own")
    BY <1>3, GotoMoves DEF D!Close, D!Step
  <2>2. path' = path /\ identity' = identity /\ listening' = listening \ {d}
    BY <1>3 DEF D!Close
  <2>3. Knows(d)'
    BY <1>1, <2>1, <2>2 DEF Knows, Moves
  <2>4. Enters(d, "compare own")
    BY <1>3 DEF Enters, D!Close, D!Apart
  <2> QED BY <2>1, <2>2, <2>3, <2>4, KeepsFile
<1>4. CASE D!CompareOwn(d)
  <2>1. PICK to \in {"unlink own", "gone"} : D!Goto(d, "compare own", to)
    BY <1>4 DEF D!CompareOwn
  <2>2. proc[d] = "compare own" /\ Moves(d, to)
    BY <2>1, GotoMoves DEF D!Step
  <2>3. path' = path /\ identity' = identity /\ listening' = listening
    BY <1>4 DEF D!CompareOwn, D!server
  <2>4. Knows(d)'
    BY <1>1, <2>2, <2>3 DEF Knows, Moves
  <2> QED BY <2>2, <2>3, <2>4, KeepsFile DEF Enters
<1>5. CASE D!UnlinkOwn(d)
  <2>1. proc[d] = "unlink own" /\ Moves(d, "gone")
    BY <1>5, GotoMoves DEF D!UnlinkOwn, D!Step
  <2>2. identity' = identity /\ listening' = listening
    BY <1>5 DEF D!UnlinkOwn, D!server
  <2>3. Knows(d)'
    BY <2>1 DEF Knows, Moves
  <2>4. \A e \in Daemon :
          e # d => proc[e] \notin D!Starting \cup Owning \cup D!Closing \cup {"close"}
    BY <1>1, <2>1 DEF OwnInv, InTurn, Knows
  <2> QED BY <2>1, <2>2, <2>3, <2>4, ChangesFile DEF Enters
<1> QED BY <1>2, <1>3, <1>4, <1>5

\* A process that ends, wherever it is, leaves the file to the others.
LEMMA EndsOwn ==
  ASSUME OwnInv, NEW d \in Daemon, Moves(d, "gone"), path' = path, identity' = identity,
         listening' = listening \ {d}
  PROVE  OwnInv'
<1>1. Knows(d)'
  BY DEF Knows, Moves
<1> QED BY <1>1, KeepsFile DEF Enters

\* A process starts while none starts or closes.
LEMMA LaunchOwn ==
  ASSUME DaemonInv, OwnInv, ~ Overlap, NEW d \in Daemon, D!MayStart, D!Goto(d, "none", "probe"),
         path' = path, identity' = identity, listening' = listening
  PROVE  OwnInv'
<1>1. proc[d] = "none" /\ Moves(d, "probe")
  BY GotoMoves DEF D!Step
<1>2. Knows(d)'
  BY <1>1 DEF Knows, Moves
<1>3. Enters(d, "probe")
  BY DEF Enters, D!MayStart, D!Apart
<1> QED BY <1>1, <1>2, <1>3, KeepsFile

\* Where no process moves.
LEMMA RestsOwn ==
  ASSUME OwnInv, proc' = proc, path' = path, identity' = identity, listening' = listening
  PROVE  OwnInv'
BY DEF OwnInv, InTurn, Knows

\* What clients do to the processes.
LEMMA ClientOwn ==
  ASSUME DaemonInv, OwnInv, ~ Overlap, NEW c \in Client, D!ClientNext(c)
  PROVE  OwnInv'
<1>1. CASE \E d \in Daemon : D!ClientStarts(c, d)
  <2>1. PICK d \in Daemon : D!ClientStarts(c, d)
    BY <1>1
  <2> QED BY <2>1, LaunchOwn DEF D!ClientStarts, D!server
<1>2. CASE D!ClientStarted(c) \/ D!ClientStopped(c) \/ D!ClientStops(c)
  BY <1>2, RestsOwn DEF D!ClientStarted, D!ClientStopped, D!ClientStops, D!Asked, D!server
<1>3. CASE D!ClientTerminates(c)
  <2>1. PICK d \in Daemon : d = client[c].daemon
    BY <1>3 DEF D!ClientTerminates, DaemonInv, ClientsFit, ClientFits
  <2>2. path' = path /\ identity' = identity
    BY <1>3 DEF D!ClientTerminates
  <2>3. CASE proc' = proc /\ listening' = listening
    BY <2>2, <2>3, RestsOwn
  <2>4. CASE proc' = [proc EXCEPT ![d] = "gone"] /\ listening' = listening \ {d}
    <3>1. Moves(d, "gone")
      BY <2>4 DEF Moves, DaemonInv, D!TypeOK, D!Step
    <3> QED BY <2>2, <2>4, <3>1, EndsOwn
  <2> QED BY <1>3, <2>1, <2>3, <2>4 DEF D!ClientTerminates
<1> QED BY <1>1, <1>2, <1>3 DEF D!ClientNext

-----------------------------------------------------------------------------

\* No process runs and no client waits.
LEMMA InitInv == DaemonBounds /\ D!Init => DaemonInv /\ OwnInv
<1> SUFFICES ASSUME DaemonBounds, D!Init PROVE DaemonInv /\ OwnInv
  OBVIOUS
<1>1. DaemonInv
  BY DEF DaemonBounds, D!Init, DaemonInv, D!TypeOK, ClientsFit, ClientFits, D!Rest, D!Step
<1>2. OwnInv
  BY DEF D!Init, OwnInv, InTurn, Knows
<1> QED BY <1>1, <1>2

\* Every step keeps the files and the processes apart.
LEMMA NextOwn == DaemonBounds /\ DaemonInv /\ OwnInv /\ ~ Overlap /\ [D!Next]_(D!vars) => OwnInv'
<1> SUFFICES ASSUME DaemonBounds, DaemonInv, OwnInv, ~ Overlap, [D!Next]_(D!vars) PROVE OwnInv'
  OBVIOUS
<1>1. ASSUME NEW d \in Daemon, D!Process(d) PROVE OwnInv'
  BY <1>1, StartOwn, OwnerOwn DEF D!Process
<1>2. ASSUME NEW d \in Daemon, D!Launch(d) PROVE OwnInv'
  BY <1>2, LaunchOwn DEF D!Launch, D!server
<1>3. ASSUME NEW d \in Daemon, D!RequestStop(d) \/ D!Shutdown(d) PROVE OwnInv'
  BY <1>3, RestsOwn DEF D!RequestStop, D!Asked, D!Shutdown
<1>4. ASSUME NEW d \in Daemon, D!Crash(d) PROVE OwnInv'
  <2>1. Moves(d, "gone")
    BY <1>4 DEF D!Crash, Moves, DaemonInv, D!TypeOK, D!Step
  <2> QED BY <1>4, <2>1, EndsOwn DEF D!Crash
<1>5. ASSUME NEW c \in Client, D!ClientNext(c) PROVE OwnInv'
  BY <1>5, ClientOwn
<1>6. CASE UNCHANGED D!vars
  BY <1>6, RestsOwn DEF D!vars, D!server
<1> QED BY <1>1, <1>2, <1>3, <1>4, <1>5, <1>6 DEF D!Next

\* At most one process has the file, and the owners have it.
LEMMA OwnersAlone == OwnInv => OneDaemon
<1> SUFFICES ASSUME OwnInv PROVE OneDaemon
  OBVIOUS
<1> DEFINE owners == {d \in Daemon : proc[d] \in Owning}
<1>1. \A d \in owners : path = d
  BY DEF OwnInv, Knows
<1>2. CASE owners = {}
  BY <1>1, <1>2, FS_EmptySet DEF OneDaemon, SingleOwner, OwnerIsReachable
<1>3. CASE owners # {}
  <2>1. owners = {path}
    BY <1>1, <1>3
  <2> QED BY <1>1, <2>1, FS_Singleton DEF OneDaemon, SingleOwner, OwnerIsReachable
<1> QED BY <1>2, <1>3

-----------------------------------------------------------------------------
(* The theorems *)

\* The processes' steps, sockets and flags keep their types, for any number of
\* processes and clients, overlapping starts included.
THEOREM DaemonsKeepTypes == ASSUME DaemonBounds PROVE D!Spec => []D!TypeOK
<1>1. D!Init => DaemonInv
  BY InitInv
<1>2. DaemonInv /\ [D!Next]_(D!vars) => DaemonInv'
  BY NextInv
<1>3. DaemonInv => D!TypeOK
  BY DEF DaemonInv
<1> QED BY <1>1, <1>2, <1>3, PTL DEF D!Spec

\* As long as starts and the ends of closes take turns: however many processes are
\* started, stopped, terminated and crash, at most one owns the database and the
\* radio, and it is the one that clients reach at the path.
THEOREM OwnersAreSingle == ASSUME DaemonBounds, ~ Overlap PROVE D!Spec => []OneDaemon
<1>1. D!Init => DaemonInv /\ OwnInv
  BY InitInv
<1>2. DaemonInv /\ OwnInv /\ [D!Next]_(D!vars) => DaemonInv' /\ OwnInv'
  BY NextInv, NextOwn
<1> QED BY <1>1, <1>2, OwnersAlone, PTL DEF D!Spec

-----------------------------------------------------------------------------
(* Updates *)

\* There is a first release, "stable" is a channel, and what stands for the lack of a
\* version is none.
Releases ==
  /\ \E v \in Version : \A x \in Version : v <= x
  /\ Stable \in Channel /\ None \notin Version /\ Partial \notin Version

\* No release brings another schema.
SameSchema == \A v, x \in Version : SchemaOf[v] <= SchemaOf[x]

UpAts == U!Waiting \cup U!Installing \cup U!Undoing \cup {"failed"}
Changing == (U!Installing \ {"verify"}) \cup U!Undoing \cup {"failed"}
Backup == [settings : U!Settings, link : Version, daemon : Version \cup {None}]
UpState == [step : UpAts, direct : BOOLEAN, channel : Channel, current : Version \cup {None},
            notice : Version \cup {None}, plan : Version \cup {None},
            files : [U!Artifact -> Version \cup {Damaged, None}], saved : Backup \cup {None},
            activated : BOOLEAN]

UpdateTypes ==
  /\ site \in [Channel -> Version] /\ link \in Version
  /\ release \in [Version -> Version \cup {Partial, None}] /\ settings \in U!Settings
  /\ (\E v \in Version : schema = SchemaOf[v]) /\ daemon \in Version \cup {None}
  /\ up \in UpState

\* The link leads to a finished release, and the service runs nothing else.
Sound == release[link] = link /\ (daemon # None => daemon = link)

\* What an installation has saved is what was there, and it builds what it says.
SavedFits ==
  /\ up.step = "verify" => before = State /\ up.plan \in Version
  /\ up.step = "download" => up.plan \in Version
  /\ up.step \in Changing =>
       /\ before \in Backup /\ up.saved = before /\ up.plan \in Version
       /\ up.files["package"] = up.plan /\ up.files["lock"] = up.plan
       /\ release[before.link] = before.link
       /\ before.daemon # None => before.daemon = before.link

\* How far each step has changed the installation, or given it back.
ProgressFits ==
  /\ up.step \in U!Activated => up.activated
  /\ up.step \in Changing /\ ~ up.activated => link = before.link /\ daemon = before.daemon
  /\ up.step \in {"saved", "configured", "building", "built", "tested", "stopped", "restart",
                  "failed"} => link = before.link
  /\ up.step \in {"built", "tested", "stopped"} => release[up.plan] = up.plan
  /\ up.step \in {"stopped", "switched", "launched"} => daemon = None
  /\ up.step \in {"unsettled", "unlinked", "restart"} /\ up.activated => daemon = None
  /\ up.step \in {"unlinked", "restart", "failed"} => settings = before.settings

UpdateInv == UpdateTypes /\ Sound /\ SavedFits /\ ProgressFits

\* The service is given back if the old release can open the database.
ServiceGivenBack == up.step = "failed" => daemon = before.daemon

\* What meshpi update installs has been shown and confirmed.
ConfirmedInv ==
  /\ up.step \in {"asked", "confirmed"} => up.notice > up.current
  /\ up.step \in {"download", "verify"} \cup Changing /\ ~ up.direct =>
       up.plan = up.notice /\ up.plan > up.current

LEMMA InstallTo ==
  ASSUME UpdateTypes, NEW s \in UpAts, U!Go(s)
  PROVE  /\ up' \in UpState /\ up'.step = s /\ up'.direct = up.direct /\ up'.current = up.current
         /\ up'.notice = up.notice /\ up'.plan = up.plan /\ up'.files = up.files
         /\ up'.saved = up.saved /\ up'.activated = up.activated
<1>1. up \in UpState
  BY DEF UpdateTypes
<1>2. up' = [up EXCEPT !.step = s]
  BY DEF U!Go
<1>3. up' \in UpState
  BY <1>1, <1>2 DEF UpState
<1> QED BY <1>1, <1>2, <1>3 DEF UpState

\* Nothing is under way.
LEMMA IdleUpdate == Releases => U!Idle \in UpState /\ U!Idle.step = "idle"
<1> SUFFICES ASSUME Releases PROVE U!Idle \in UpState /\ U!Idle.step = "idle"
  OBVIOUS
<1>1. [a \in U!Artifact |-> None] \in [U!Artifact -> Version \cup {Damaged, None}]
  OBVIOUS
<1>2. "idle" \in UpAts /\ Stable \in Channel
  BY DEF UpAts, U!Waiting, Releases
<1> QED BY <1>1, <1>2 DEF U!Idle, UpState

\* As long as the installer does not run, nothing is claimed of it.
LEMMA BeforeInstall ==
  ASSUME UpdateInv, UNCHANGED <<link, release, settings, schema, daemon>>,
         site' \in [Channel -> Version], up' \in UpState, up'.step \in U!Waiting,
         up'.step = "download" => up'.plan \in Version
  PROVE  UpdateInv'
<1>1. up'.step \notin Changing \cup {"verify"} \cup U!Activated
  BY DEF U!Waiting, U!Installing, U!Undoing, U!Activated, Changing
<1>2. UpdateTypes' /\ Sound'
  BY DEF UpdateInv, UpdateTypes, Sound
<1>3. SavedFits'
  BY <1>1 DEF SavedFits
<1>4. ProgressFits'
  BY <1>1 DEF ProgressFits, Changing, U!Installing, U!Undoing
<1> QED BY <1>2, <1>3, <1>4 DEF UpdateInv

\* The steps of the updater.
LEMMA UpdaterInv ==
  ASSUME Releases, UpdateInv,
         \/ U!Confirm \/ U!Prepare \/ U!Abandon
         \/ \E c \in Channel : U!Check(c) \/ (\E v \in Version : U!Publish(c, v))
         \/ \E got \in Version \cup {Damaged} : U!Download(got)
  PROVE  UpdateInv'
<1>1. up \in UpState /\ site \in [Channel -> Version] /\ link \in Version
  BY DEF UpdateInv, UpdateTypes
<1>2. UNCHANGED <<link, release, settings, schema, daemon>>
  BY DEF U!Confirm, U!Prepare, U!Abandon, U!Check, U!Publish, U!Download, U!installation
<1>3. CASE U!Confirm
  <2>1. up' = [up EXCEPT !.step = "confirmed"] /\ site' = site
    BY <1>3 DEF U!Confirm
  <2>2. up' \in UpState /\ up'.step = "confirmed"
    BY <1>1, <2>1 DEF UpState, UpAts, U!Waiting
  <2> QED BY <1>1, <1>2, <2>1, <2>2, BeforeInstall DEF U!Waiting
<1>4. CASE U!Prepare
  <2>1. PICK v \in Version : up' = [up EXCEPT !.step = "download", !.plan = v] /\ site' = site
    BY <1>4 DEF U!Prepare, U!Served, U!Manifest
  <2>2. up' \in UpState /\ up'.step = "download" /\ up'.plan = v
    BY <1>1, <2>1 DEF UpState, UpAts, U!Waiting
  <2> QED BY <1>1, <1>2, <2>1, <2>2, BeforeInstall DEF U!Waiting
<1>5. CASE U!Abandon
  <2>1. up' = U!Idle /\ site' = site
    BY <1>5 DEF U!Abandon
  <2> QED BY <1>1, <1>2, <2>1, IdleUpdate, BeforeInstall DEF U!Waiting
<1>6. ASSUME NEW c \in Channel, U!Check(c) PROVE UpdateInv'
  <2>1. PICK v \in Version :
          up' = [U!Idle EXCEPT !.step = "asked", !.channel = c, !.current = link, !.notice = v]
    BY <1>6 DEF U!Check, U!Served, U!Manifest
  <2>2. U!Idle \in UpState
    BY IdleUpdate
  <2>3. PICK q \in UpState : q = [U!Idle EXCEPT !.step = "asked", !.channel = c]
    BY <2>2 DEF UpState, UpAts, U!Waiting
  <2>4. up' = [q EXCEPT !.current = link, !.notice = v]
    BY <2>1, <2>2, <2>3 DEF UpState
  <2>5. up' \in UpState /\ up'.step = "asked"
    BY <1>1, <2>2, <2>3, <2>4 DEF UpState
  <2>6. site' = site
    BY <1>6 DEF U!Check
  <2> QED BY <1>1, <1>2, <2>5, <2>6, BeforeInstall DEF U!Waiting
<1>7. ASSUME NEW c \in Channel, NEW v \in Version, U!Publish(c, v) PROVE UpdateInv'
  <2>1. up' = up /\ site' \in [Channel -> Version]
    BY <1>1, <1>7 DEF U!Publish
  <2>2. before' = before
    BY <1>7 DEF U!Publish
  <2>3. UpdateTypes' /\ Sound'
    BY <1>2, <2>1 DEF UpdateInv, UpdateTypes, Sound
  <2>4. SavedFits' /\ ProgressFits'
    BY <1>2, <2>1, <2>2 DEF UpdateInv, SavedFits, ProgressFits, State
  <2> QED BY <2>3, <2>4 DEF UpdateInv
<1>8. ASSUME NEW got \in Version \cup {Damaged}, U!Download(got) PROVE UpdateInv'
  <2>1. PICK a \in U!Artifact : up' = [up EXCEPT !.files[a] = got]
    BY <1>8 DEF U!Download, U!Artifact
  <2>2. [up.files EXCEPT ![a] = got] \in [U!Artifact -> Version \cup {Damaged, None}]
    BY <1>1 DEF UpState
  <2>3. PICK f \in [U!Artifact -> Version \cup {Damaged, None}] : f = [up.files EXCEPT ![a] = got]
    BY <2>2
  <2>4. up' = [up EXCEPT !.files = f]
    BY <2>1, <2>3
  <2>5. up' \in UpState /\ up'.step = up.step /\ up'.plan = up.plan
    BY <1>1, <2>4 DEF UpState
  <2>6. up.step = "download" /\ up.plan \in Version /\ site' = site
    BY <1>8 DEF U!Download, UpdateInv, SavedFits
  <2> QED BY <1>1, <1>2, <2>5, <2>6, BeforeInstall DEF U!Waiting
<1> QED BY <1>3, <1>4, <1>5, <1>6, <1>7, <1>8

\* The installer begins, or looks at what it has got.
LEMMA BeginInv ==
  ASSUME Releases, UpdateInv,
         \/ U!RunInstaller \/ U!Verify
         \/ \E got \in [U!Artifact -> Version \cup {Damaged}] : U!RunDirectly(got)
  PROVE  UpdateInv'
<1>1. up \in UpState /\ site \in [Channel -> Version] /\ link \in Version
      /\ settings \in U!Settings /\ daemon \in Version \cup {None}
  BY DEF UpdateInv, UpdateTypes
<1>2. UNCHANGED <<site, link, release, settings, schema, daemon>>
  BY DEF U!RunInstaller, U!Verify, U!RunDirectly, U!installation
<1>3. Sound'
  BY <1>2 DEF UpdateInv, Sound
<1>4. ASSUME up' \in UpState PROVE UpdateTypes'
  BY <1>2, <1>4 DEF UpdateInv, UpdateTypes
<1>5. ASSUME up'.step = "verify", before' = U!State, up' \in UpState, up'.plan \in Version
      PROVE  UpdateInv'
  <2>1. before' = State'
    BY <1>2, <1>5 DEF U!State, State
  <2>2. SavedFits'
    BY <1>5, <2>1 DEF SavedFits, Changing, U!Installing, U!Undoing
  <2>3. ProgressFits'
    BY <1>5 DEF ProgressFits, Changing, U!Installing, U!Undoing, U!Activated
  <2> QED BY <1>3, <1>4, <1>5, <2>2, <2>3 DEF UpdateInv
<1>6. CASE U!RunInstaller
  <2>1. up' = [up EXCEPT !.step = "verify"] /\ up.step = "download" /\ before' = U!State
    BY <1>6 DEF U!RunInstaller
  <2>2. up' \in UpState /\ up'.step = "verify" /\ up'.plan = up.plan
    BY <1>1, <2>1 DEF UpState, UpAts, U!Installing
  <2>3. up.plan \in Version
    BY <2>1 DEF UpdateInv, SavedFits
  <2> QED BY <1>5, <2>1, <2>2, <2>3
<1>7. ASSUME NEW got \in [U!Artifact -> Version \cup {Damaged}], U!RunDirectly(got)
      PROVE  UpdateInv'
  <2>1. PICK v \in Version, c \in Channel :
          up' = [U!Idle EXCEPT !.step = "verify", !.direct = TRUE, !.channel = c, !.plan = v,
                               !.files = got]
    BY <1>7 DEF U!RunDirectly, U!Served, U!Manifest
  <2>2. U!Idle \in UpState
    BY IdleUpdate
  <2>3. PICK q \in UpState : q = [U!Idle EXCEPT !.step = "verify", !.direct = TRUE]
    BY <2>2 DEF UpState, UpAts, U!Installing
  <2>4. PICK x \in UpState : x = [q EXCEPT !.channel = c, !.plan = v]
    BY <2>3 DEF UpState
  <2>5. got \in [U!Artifact -> Version \cup {Damaged, None}]
    OBVIOUS
  <2>6. up' = [x EXCEPT !.files = got]
    BY <2>1, <2>2, <2>3, <2>4 DEF UpState
  <2>7. up' \in UpState /\ up'.step = "verify" /\ up'.plan = v
    BY <2>2, <2>3, <2>4, <2>5, <2>6 DEF UpState
  <2>8. before' = U!State
    BY <1>7 DEF U!RunDirectly
  <2> QED BY <1>5, <2>7, <2>8
<1>8. CASE U!Verify
  <2>1. /\ up.step = "verify" /\ up.files["package"] = up.plan /\ up.files["lock"] = up.plan
        /\ up' = [up EXCEPT !.step = "saved", !.saved = U!State] /\ before' = before
    BY <1>8 DEF U!Verify, U!Verified, U!Saved
  <2>2. before = State /\ up.plan \in Version
    BY <2>1 DEF UpdateInv, SavedFits
  <2>3. State \in Backup /\ U!State = State
    BY <1>1 DEF State, U!State, Backup
  <2>4. PICK copy \in Backup : copy = State
    BY <2>3
  <2>5. up' = [up EXCEPT !.step = "saved", !.saved = copy]
    BY <2>1, <2>3, <2>4
  <2>6. /\ up' \in UpState /\ up'.step = "saved" /\ up'.saved = copy /\ up'.plan = up.plan
        /\ up'.files = up.files
    BY <1>1, <2>5 DEF UpState, UpAts, U!Installing
  <2>7. before.link = link /\ before.daemon = daemon /\ before.settings = settings
    BY <2>2 DEF State
  <2>8. SavedFits'
    BY <1>2, <2>1, <2>2, <2>3, <2>4, <2>6, <2>7 DEF SavedFits, UpdateInv, Sound
  <2>9. ProgressFits'
    BY <1>2, <2>1, <2>6, <2>7 DEF ProgressFits, U!Activated
  <2> QED BY <1>3, <1>4, <2>6, <2>8, <2>9 DEF UpdateInv
<1> QED BY <1>6, <1>7, <1>8

\* A step of an installation that keeps what it has saved.
LEMMA InstallStep ==
  ASSUME UpdateInv, up.step \in Changing, up' \in UpState, up'.step \in Changing,
         up'.plan = up.plan, up'.files = up.files, up'.saved = up.saved,
         UNCHANGED <<site, before>>,
         link' \in Version, release' \in [Version -> Version \cup {Partial, None}],
         settings' \in U!Settings, \E v \in Version : schema' = SchemaOf[v],
         daemon' \in Version \cup {None}, release'[before.link] = before.link
  PROVE  UpdateTypes' /\ SavedFits'
<1>1. UpdateTypes'
  BY DEF UpdateInv, UpdateTypes
<1>2. up'.step # "verify" /\ up'.step # "download"
  BY DEF Changing, U!Installing, U!Undoing
<1>3. SavedFits'
  BY <1>2 DEF UpdateInv, SavedFits
<1> QED BY <1>1, <1>3

\* What the invariant says while an installation changes things.
LEMMA Ongoing ==
  ASSUME UpdateInv, up.step \in Changing
  PROVE  /\ up \in UpState /\ link \in Version /\ settings \in U!Settings
         /\ release \in [Version -> Version \cup {Partial, None}]
         /\ (\E v \in Version : schema = SchemaOf[v]) /\ daemon \in Version \cup {None}
         /\ release[link] = link /\ (daemon # None => daemon = link)
         /\ before \in Backup /\ up.saved = before /\ up.plan \in Version
         /\ up.files["package"] = up.plan /\ up.files["lock"] = up.plan
         /\ release[before.link] = before.link
BY DEF UpdateInv, UpdateTypes, Sound, SavedFits

\* The new release is configured, built and tested.
LEMMA BuildInv ==
  ASSUME Releases, UpdateInv, U!Configure \/ U!Clear \/ U!Build \/ U!SelfTest
  PROVE  UpdateInv'
<1>1. up.step \in {"saved", "configured", "building", "built"}
  BY DEF U!Configure, U!Clear, U!Build, U!SelfTest
<1>2. up.step \in Changing /\ up.step \in UpAts
  BY <1>1 DEF Changing, UpAts, U!Installing
<1>3. /\ UNCHANGED <<site, link, schema, daemon, before>> /\ link = before.link
  BY <1>1 DEF U!Configure, U!Clear, U!Build, U!SelfTest, U!installation, UpdateInv, ProgressFits
<1>4. UpdateTypes
  BY DEF UpdateInv
<1>5. ASSUME NEW s \in {"configured", "building", "built", "tested"}, U!Go(s),
             release' \in [Version -> Version \cup {Partial, None}], settings' \in U!Settings,
             release'[link] = link, s \in {"built", "tested"} => release'[up.plan] = up.plan
      PROVE  UpdateInv'
  <2>1. s \in UpAts /\ s \in Changing
    BY DEF UpAts, Changing, U!Installing
  <2>2. /\ up' \in UpState /\ up'.step = s /\ up'.plan = up.plan /\ up'.files = up.files
        /\ up'.saved = up.saved /\ up'.activated = up.activated
    BY <1>4, <1>5, <2>1, InstallTo
  <2>3. UpdateTypes' /\ SavedFits'
    BY <1>2, <1>3, <1>5, <2>1, <2>2, Ongoing, InstallStep
  <2>4. Sound'
    BY <1>2, <1>3, <1>5, Ongoing DEF Sound
  <2>5. ~ up.activated => daemon = before.daemon
    BY <1>2 DEF UpdateInv, ProgressFits
  <2>6. ProgressFits'
    BY <1>3, <1>5, <2>2, <2>5 DEF ProgressFits, U!Activated
  <2> QED BY <2>3, <2>4, <2>6 DEF UpdateInv
<1>6. CASE U!Configure
  <2>1. U!Go("configured") /\ settings' = [settings EXCEPT !["config"] = up.plan]
        /\ release' = release
    BY <1>6 DEF U!Configure
  <2>2. settings' \in U!Settings
    BY <1>2, <2>1, Ongoing DEF U!Settings
  <2> QED BY <1>2, <1>5, <2>1, <2>2, Ongoing
<1>7. CASE U!Clear /\ U!MustBuild
  <2>1. U!Go("building") /\ release' = [release EXCEPT ![up.plan] = Partial]
        /\ settings' = settings
    BY <1>7 DEF U!Clear
  <2>2. up.plan # link
    BY <1>2, <1>3, <1>7, Ongoing DEF U!MustBuild
  <2>3. release' \in [Version -> Version \cup {Partial, None}] /\ release'[link] = link
    BY <1>2, <2>1, <2>2, Ongoing
  <2> QED BY <1>2, <1>5, <2>1, <2>3, Ongoing
<1>8. CASE U!Clear /\ ~ U!MustBuild
  <2>1. U!Go("built") /\ release' = release /\ settings' = settings
    BY <1>8 DEF U!Clear
  <2>2. up.plan = link
    BY <1>2, <1>3, <1>8, Ongoing DEF U!MustBuild
  <2> QED BY <1>2, <1>5, <2>1, <2>2, Ongoing
<1>9. CASE U!Build
  <2>1. U!Go("built") /\ release' = [release EXCEPT ![up.plan] = up.plan]
        /\ settings' = settings
    BY <1>2, <1>9, Ongoing DEF U!Build, U!Content
  <2>2. /\ release' \in [Version -> Version \cup {Partial, None}] /\ release'[link] = link
        /\ release'[up.plan] = up.plan
    BY <1>2, <2>1, Ongoing
  <2> QED BY <1>2, <1>5, <2>1, <2>2, Ongoing
<1>10. CASE U!SelfTest
  <2>1. U!Go("tested") /\ release' = release /\ settings' = settings /\ up.step = "built"
    BY <1>10 DEF U!SelfTest, U!installation
  <2>2. release[up.plan] = up.plan
    BY <2>1 DEF UpdateInv, ProgressFits
  <2> QED BY <1>2, <1>5, <2>1, <2>2, Ongoing
<1> QED BY <1>6, <1>7, <1>8, <1>9, <1>10

\* The service that the current link leads to is started.
LEMMA StartedSound ==
  ASSUME Releases, link \in Version, release[link] = link, U!Started(link),
         \E v \in Version : schema = SchemaOf[v], UNCHANGED <<link, release>>
  PROVE  /\ Sound' /\ daemon' \in {link, None} /\ daemon' \in Version \cup {None}
         /\ \E v \in Version : schema' = SchemaOf[v]
BY DEF U!Started, U!Opens, Sound

\* The switch: the service is stopped, the link led to the new release, and it is started.
LEMMA SwitchInv ==
  ASSUME Releases, UpdateInv, U!Stop \/ U!Switch \/ U!WriteFiles \/ U!Start
  PROVE  UpdateInv'
<1>1. up.step \in {"tested", "stopped", "switched", "launched"}
  BY DEF U!Stop, U!Switch, U!WriteFiles, U!Start
<1>2. up.step \in Changing
  BY <1>1 DEF Changing, U!Installing
<1>3. UNCHANGED <<site, release, before>>
  BY DEF U!Stop, U!Switch, U!WriteFiles, U!Start
<1>4. UpdateTypes
  BY DEF UpdateInv
<1>5. CASE U!Stop
  <2>1. /\ up' = [up EXCEPT !.step = "stopped", !.activated = TRUE] /\ daemon' = None
        /\ UNCHANGED <<link, settings, schema>> /\ up.step = "tested"
    BY <1>5 DEF U!Stop, U!Stopped
  <2>2. /\ up' \in UpState /\ up'.step = "stopped" /\ up'.plan = up.plan /\ up'.files = up.files
        /\ up'.saved = up.saved /\ up'.activated
    BY <1>2, <2>1, Ongoing DEF UpState, UpAts, U!Installing
  <2>3. "stopped" \in Changing
    BY DEF Changing, U!Installing
  <2>4. UpdateTypes' /\ SavedFits'
    BY <1>2, <1>3, <2>1, <2>2, <2>3, Ongoing, InstallStep
  <2>5. Sound'
    BY <1>2, <1>3, <2>1, Ongoing DEF Sound
  <2>6. link = before.link /\ release[up.plan] = up.plan
    BY <2>1 DEF UpdateInv, ProgressFits
  <2>7. ProgressFits'
    BY <1>3, <2>1, <2>2, <2>6 DEF ProgressFits
  <2> QED BY <2>4, <2>5, <2>7 DEF UpdateInv
<1>6. ASSUME NEW s \in {"switched", "launched", "started"}, U!Go(s), up.activated,
             link' \in Version, release[link'] = link', settings' \in U!Settings,
             \E v \in Version : schema' = SchemaOf[v], daemon' \in {None, link'},
             s # "started" => daemon' = None
      PROVE  UpdateInv'
  <2>1. s \in UpAts /\ s \in Changing
    BY DEF UpAts, Changing, U!Installing
  <2>2. /\ up' \in UpState /\ up'.step = s /\ up'.plan = up.plan /\ up'.files = up.files
        /\ up'.saved = up.saved /\ up'.activated = up.activated
    BY <1>4, <1>6, <2>1, InstallTo
  <2>3. UpdateTypes' /\ SavedFits'
    BY <1>2, <1>3, <1>6, <2>1, <2>2, Ongoing, InstallStep
  <2>4. Sound'
    BY <1>3, <1>6 DEF Sound
  <2>5. ProgressFits'
    BY <1>6, <2>2 DEF ProgressFits
  <2> QED BY <2>3, <2>4, <2>5 DEF UpdateInv
<1>7. up.step # "tested" => up.activated
  BY <1>1 DEF UpdateInv, ProgressFits, U!Activated
<1>8. CASE U!Switch
  <2>1. /\ U!Go("switched") /\ link' = up.plan /\ UNCHANGED <<settings, schema, daemon>>
        /\ up.step = "stopped"
    BY <1>8 DEF U!Switch
  <2>2. daemon = None /\ release[up.plan] = up.plan
    BY <2>1 DEF UpdateInv, ProgressFits
  <2> QED BY <1>2, <1>6, <1>7, <2>1, <2>2, Ongoing
<1>9. CASE U!WriteFiles
  <2>1. /\ U!Go("launched") /\ UNCHANGED <<link, schema, daemon>> /\ up.step = "switched"
        /\ settings' = [settings EXCEPT !["launcher"] = up.plan, !["unit"] = up.plan]
    BY <1>9 DEF U!WriteFiles
  <2>2. settings' \in U!Settings
    BY <1>2, <2>1, Ongoing DEF U!Settings
  <2>3. daemon = None
    BY <2>1 DEF UpdateInv, ProgressFits
  <2> QED BY <1>2, <1>6, <1>7, <2>1, <2>2, <2>3, Ongoing
<1>10. CASE U!Start
  <2>1. U!Go("started") /\ U!Started(link) /\ UNCHANGED <<link, settings>> /\ up.step = "launched"
    BY <1>10 DEF U!Start
  <2>2. daemon' \in {link, None} /\ \E v \in Version : schema' = SchemaOf[v]
    BY <1>2, <1>3, <2>1, Ongoing, StartedSound
  <2> QED BY <1>2, <1>6, <1>7, <2>1, <2>2, Ongoing
<1> QED BY <1>5, <1>8, <1>9, <1>10

\* The installation ends, or the machine loses power.
LEMMA EndInv ==
  ASSUME Releases, UpdateInv, U!Healthy \/ U!Exit \/ U!PowerLoss
  PROVE  UpdateInv'
<1>1. up' = U!Idle /\ UNCHANGED <<site, link, release, settings>>
  BY DEF U!Healthy, U!Exit, U!PowerLoss, U!installation
<1>2. up' \in UpState /\ up'.step = "idle"
  BY <1>1, IdleUpdate
<1>3. link \in Version /\ release[link] = link /\ \E v \in Version : schema = SchemaOf[v]
  BY DEF UpdateInv, UpdateTypes, Sound
<1>4. Sound' /\ daemon' \in Version \cup {None} /\ \E v \in Version : schema' = SchemaOf[v]
  <2>1. CASE U!PowerLoss
    BY <1>1, <1>3, <2>1, StartedSound DEF U!PowerLoss
  <2>2. CASE U!Healthy \/ U!Exit
    <3>1. UNCHANGED <<daemon, schema>>
      BY <2>2 DEF U!Healthy, U!Exit, U!installation
    <3> QED BY <1>1, <3>1 DEF UpdateInv, UpdateTypes, Sound
  <2> QED BY <2>1, <2>2
<1>5. UpdateTypes'
  BY <1>1, <1>2, <1>4 DEF UpdateInv, UpdateTypes
<1>6. "idle" \notin Changing /\ "idle" \notin U!Activated
  BY DEF Changing, U!Installing, U!Undoing, U!Activated
<1>7. SavedFits'
  BY <1>2, <1>6 DEF SavedFits
<1>8. ProgressFits'
  BY <1>2, <1>6 DEF ProgressFits
<1> QED BY <1>4, <1>5, <1>7, <1>8 DEF UpdateInv

\* The way back.
LEMMA UndoInv ==
  ASSUME Releases, UpdateInv, U!Fail \/ U!UndoStop \/ U!UndoFiles \/ U!UndoLink \/ U!UndoStart
  PROVE  UpdateInv'
<1>1. up.step \in Changing
  BY DEF U!Fail, U!UndoStop, U!UndoFiles, U!UndoLink, U!UndoStart, Changing, U!Undoing
<1>2. UNCHANGED <<site, release, before>>
  BY DEF U!Fail, U!UndoStop, U!UndoFiles, U!UndoLink, U!UndoStart, U!installation
<1>3. UpdateTypes
  BY DEF UpdateInv
<1>4. ~ up.activated => link = before.link /\ daemon = before.daemon
  BY <1>1 DEF UpdateInv, ProgressFits
<1>5. ASSUME NEW s \in U!Undoing \cup {"failed"}, U!Go(s), link' \in {link, before.link},
             settings' \in U!Settings, \E v \in Version : schema' = SchemaOf[v],
             daemon' \in {None, link'},
             ~ up.activated => link' = before.link /\ daemon' = before.daemon,
             s \in {"restart", "failed"} => link' = before.link,
             s \in {"unsettled", "unlinked", "restart"} /\ up.activated => daemon' = None,
             s \in {"unlinked", "restart", "failed"} => settings' = before.settings
      PROVE  UpdateInv'
  <2>1. s \in UpAts /\ s \in Changing
    BY DEF UpAts, Changing
  <2>2. /\ up' \in UpState /\ up'.step = s /\ up'.plan = up.plan /\ up'.files = up.files
        /\ up'.saved = up.saved /\ up'.activated = up.activated
    BY <1>3, <1>5, <2>1, InstallTo
  <2>3. link' \in Version /\ release[link'] = link'
    BY <1>1, <1>5, Ongoing DEF Backup
  <2>4. UpdateTypes' /\ SavedFits'
    BY <1>1, <1>2, <1>5, <2>1, <2>2, <2>3, Ongoing, InstallStep
  <2>5. Sound'
    BY <1>2, <1>5, <2>3 DEF Sound
  <2>6. s \in {"undo", "unsettled", "unlinked", "restart", "failed"}
    BY DEF U!Undoing
  <2>7. ProgressFits'
    BY <1>2, <1>5, <2>2, <2>6 DEF ProgressFits, U!Activated
  <2> QED BY <2>4, <2>5, <2>7 DEF UpdateInv
<1>6. daemon \in {None, link} /\ settings \in U!Settings /\ link \in Version
      /\ \E v \in Version : schema = SchemaOf[v]
  BY <1>1, Ongoing
<1>7. before.settings \in U!Settings /\ up.saved = before
  BY <1>1, Ongoing DEF Backup
<1>8. CASE U!Fail
  <2>1. U!Go("undo") /\ UNCHANGED <<link, settings, schema, daemon>>
    BY <1>8 DEF U!Fail, U!installation
  <2>2. "undo" \in U!Undoing
    BY DEF U!Undoing
  <2> QED BY <1>4, <1>5, <1>6, <2>1, <2>2
<1>9. CASE U!UndoStop
  <2>1. /\ U!Go("unsettled") /\ UNCHANGED <<link, settings, schema>>
        /\ daemon' = IF up.activated THEN None ELSE daemon
    BY <1>9 DEF U!UndoStop
  <2>2. "unsettled" \in U!Undoing
    BY DEF U!Undoing
  <2> QED BY <1>4, <1>5, <1>6, <2>1, <2>2
<1>10. CASE U!UndoFiles
  <2>1. /\ U!Go("unlinked") /\ UNCHANGED <<link, schema, daemon>> /\ settings' = before.settings
        /\ up.step = "unsettled"
    BY <1>7, <1>10 DEF U!UndoFiles, U!Restored
  <2>2. "unlinked" \in U!Undoing
    BY DEF U!Undoing
  <2>3. up.activated => daemon = None
    BY <2>1 DEF UpdateInv, ProgressFits
  <2> QED BY <1>4, <1>5, <1>6, <1>7, <2>1, <2>2, <2>3
<1>11. CASE U!UndoLink
  <2>1. /\ U!Go("restart") /\ UNCHANGED <<settings, schema, daemon>> /\ up.step = "unlinked"
        /\ link' = IF up.activated THEN before.link ELSE link
    BY <1>7, <1>11 DEF U!UndoLink
  <2>2. "restart" \in U!Undoing
    BY DEF U!Undoing
  <2>3. (up.activated => daemon = None) /\ settings = before.settings
    BY <2>1 DEF UpdateInv, ProgressFits
  <2>4. link' = before.link
    BY <1>4, <2>1
  <2>5. daemon' \in {None, link'}
    BY <1>4, <1>6, <2>1, <2>3
  <2> QED BY <1>4, <1>5, <1>6, <2>1, <2>2, <2>3, <2>4, <2>5
<1>12. CASE U!UndoStart
  <2>1. /\ U!Go("failed") /\ UNCHANGED <<link, settings>> /\ up.step = "restart"
        /\ IF up.activated /\ U!WasActive THEN U!Started(link) ELSE UNCHANGED <<daemon, schema>>
    BY <1>12 DEF U!UndoStart
  <2>2. link = before.link /\ settings = before.settings
    BY <2>1 DEF UpdateInv, ProgressFits
  <2>3. daemon' \in {None, link} /\ \E v \in Version : schema' = SchemaOf[v]
    BY <1>1, <1>2, <1>6, <2>1, Ongoing, StartedSound
  <2> QED BY <1>4, <1>5, <1>6, <2>1, <2>2, <2>3
<1> QED BY <1>8, <1>9, <1>10, <1>11, <1>12

LEMMA UpdateNext == Releases /\ UpdateInv /\ [U!Next]_(U!vars) => UpdateInv'
<1> SUFFICES ASSUME Releases, UpdateInv, [U!Next]_(U!vars) PROVE UpdateInv'
  OBVIOUS
<1>1. CASE UNCHANGED U!vars
  <2>1. UNCHANGED <<site, link, release, settings, schema, daemon, up, before>>
    BY <1>1 DEF U!vars
  <2>2. UpdateTypes' /\ Sound'
    BY <2>1 DEF UpdateInv, UpdateTypes, Sound
  <2>3. SavedFits' /\ ProgressFits'
    BY <2>1 DEF UpdateInv, SavedFits, ProgressFits, State
  <2> QED BY <2>2, <2>3 DEF UpdateInv
<1>2. CASE U!Install
  BY <1>2, BeginInv, BuildInv, SwitchInv, EndInv DEF U!Install
<1>3. CASE U!Undo
  BY <1>3, UndoInv, EndInv DEF U!Undo
<1>4. CASE U!Update
  BY <1>4, UpdaterInv, BeginInv, UndoInv DEF U!Update
<1>5. CASE U!Confirm \/ U!PowerLoss
  BY <1>5, UpdaterInv, EndInv
<1>6. CASE \E c \in Channel : U!Check(c) \/ (\E v \in Version : U!Publish(c, v))
  BY <1>6, UpdaterInv
<1>7. CASE \E got \in [U!Artifact -> Version \cup {Damaged}] : U!RunDirectly(got)
  BY <1>7, BeginInv
<1> QED BY <1>1, <1>2, <1>3, <1>4, <1>5, <1>6, <1>7 DEF U!Next

LEMMA UpdateInit == Releases /\ U!Init => UpdateInv
<1> SUFFICES ASSUME Releases, U!Init PROVE UpdateInv
  OBVIOUS
<1>1. U!First \in Version
  BY DEF Releases, U!First
<1>2. up \in UpState /\ up.step = "idle"
  BY IdleUpdate DEF U!Init
<1>3. UpdateTypes
  BY <1>1, <1>2 DEF U!Init, UpdateTypes, U!Settings
<1>4. Sound
  BY <1>1 DEF U!Init, Sound
<1>5. "idle" \notin Changing /\ "idle" \notin U!Activated
  BY DEF Changing, U!Installing, U!Undoing, U!Activated
<1>6. SavedFits /\ ProgressFits
  BY <1>2, <1>5 DEF SavedFits, ProgressFits
<1> QED BY <1>3, <1>4, <1>6 DEF UpdateInv

\* A step that does not end an installation, or gives the service back as it was.
LEMMA GivenBackNext ==
  ASSUME Releases, SameSchema, UpdateInv, ServiceGivenBack, [U!Next]_(U!vars)
  PROVE  ServiceGivenBack'
<1>1. CASE U!UndoStart
  <2>1. /\ U!Go("failed") /\ UNCHANGED <<link, release, before>> /\ up.step = "restart"
        /\ IF up.activated /\ U!WasActive THEN U!Started(link) ELSE UNCHANGED <<daemon, schema>>
    BY <1>1 DEF U!UndoStart
  <2>2. up.step \in Changing
    BY <2>1 DEF Changing, U!Undoing
  <2>3. /\ link = before.link /\ (~ up.activated => daemon = before.daemon)
        /\ up.activated => daemon = None
    BY <2>1, <2>2 DEF UpdateInv, ProgressFits
  <2>4. up.saved = before /\ (before.daemon # None => before.daemon = before.link)
    BY <2>2 DEF UpdateInv, SavedFits
  <2>5. CASE up.activated /\ U!WasActive
    <3>1. link \in Version /\ release[link] = link /\ schema <= SchemaOf[link]
      BY <2>2, Ongoing DEF SameSchema
    <3>2. link \notin {None, Partial}
      BY <3>1 DEF Releases
    <3>3. U!Opens(link)
      BY <3>1, <3>2 DEF U!Opens
    <3>4. daemon' = link
      BY <2>1, <2>5, <3>3 DEF U!Started
    <3> QED BY <2>1, <2>3, <2>4, <2>5, <3>4 DEF ServiceGivenBack, U!WasActive
  <2>6. CASE ~ (up.activated /\ U!WasActive)
    BY <2>1, <2>3, <2>4, <2>6 DEF ServiceGivenBack, U!WasActive
  <2> QED BY <2>5, <2>6
<1>2. CASE UNCHANGED U!vars
  BY <1>2 DEF U!vars, ServiceGivenBack
<1>3. CASE U!Next /\ ~ U!UndoStart
  <2>1. up \in UpState
    BY DEF UpdateInv, UpdateTypes
  <2>2. U!Idle.step = "idle"
    BY IdleUpdate
  <2>3. up'.step # "failed" \/ UNCHANGED <<up, daemon, before>>
    <3>1. CASE U!Install
      BY <2>1, <2>2, <3>1 DEF UpState, U!Install, U!Go, U!Verify, U!Configure, U!Clear, U!Build,
         U!SelfTest, U!Stop, U!Switch, U!WriteFiles, U!Start, U!Healthy
    <3>2. CASE U!UndoStop \/ U!UndoFiles \/ U!UndoLink \/ U!Exit \/ U!PowerLoss \/ U!Fail
               \/ U!Confirm
      BY <2>1, <2>2, <3>2 DEF UpState, U!Go, U!UndoStop, U!UndoFiles, U!UndoLink, U!Exit,
         U!PowerLoss, U!Fail, U!Confirm
    <3>3. CASE U!Prepare \/ U!RunInstaller \/ U!Abandon
      BY <2>1, <2>2, <3>3 DEF UpState, U!Prepare, U!RunInstaller, U!Abandon
    <3>4. ASSUME NEW got \in Version \cup {Damaged}, U!Download(got) PROVE up'.step # "failed"
      BY <2>1, <3>4 DEF UpState, U!Download
    <3>5. ASSUME NEW c \in Channel, U!Check(c) PROVE up'.step # "failed"
      <4>1. U!Idle \in UpState
        BY IdleUpdate
      <4> QED BY <3>5, <4>1 DEF UpState, U!Check
    <3>6. ASSUME NEW c \in Channel, NEW v \in Version, U!Publish(c, v)
          PROVE  UNCHANGED <<up, daemon, before>>
      BY <3>6 DEF U!Publish, U!installation
    <3>7. ASSUME NEW got \in [U!Artifact -> Version \cup {Damaged}], U!RunDirectly(got)
          PROVE  up'.step # "failed"
      <4>1. U!Idle \in UpState
        BY IdleUpdate
      <4> QED BY <3>7, <4>1 DEF UpState, U!RunDirectly
    <3> QED BY <1>3, <3>1, <3>2, <3>3, <3>4, <3>5, <3>6, <3>7 DEF U!Next, U!Undo, U!Update
  <2> QED BY <2>3 DEF ServiceGivenBack
<1> QED BY <1>1, <1>2, <1>3

LEMMA WholeWhenSound ==
  Releases /\ UpdateInv /\ ServiceGivenBack => InstallationIsWhole
<1> SUFFICES ASSUME Releases, UpdateInv, ServiceGivenBack PROVE InstallationIsWhole
  OBVIOUS
<1>1. CurrentIsComplete
  BY DEF UpdateInv, Sound, CurrentIsComplete
<1>2. ServiceIsCurrent
  BY DEF Releases, UpdateInv, UpdateTypes, Sound, ServiceIsCurrent
<1>3. FailureIsUndone
  <2> SUFFICES ASSUME up.step = "failed" PROVE State = before
    BY DEF FailureIsUndone
  <2>1. before \in Backup
    BY Ongoing DEF Changing
  <2>2. link = before.link /\ settings = before.settings
    BY DEF UpdateInv, ProgressFits
  <2>3. daemon = before.daemon
    BY DEF ServiceGivenBack
  <2> QED BY <2>1, <2>2, <2>3 DEF Backup, State
<1> QED BY <1>1, <1>2, <1>3 DEF InstallationIsWhole

\* The state of the installation keeps its type, and the current link leads to a release
\* (install-linux.sh).
THEOREM UpdatesKeepTypes == ASSUME Releases PROVE U!Spec => []U!TypeOK
<1>1. U!Init => UpdateInv
  BY UpdateInit
<1>2. UpdateInv /\ [U!Next]_(U!vars) => UpdateInv'
  BY UpdateNext
<1>3. UpdateInv => U!TypeOK
  <2> SUFFICES ASSUME UpdateInv PROVE U!TypeOK
    OBVIOUS
  <2>1. up \in UpState
    BY DEF UpdateInv, UpdateTypes
  <2>2. /\ up.step \in U!Waiting \cup U!Installing \cup U!Undoing \cup {"failed"}
        /\ up.plan \in Version \cup {None}
        /\ up.files \in [U!Artifact -> Version \cup {Damaged, None}]
    BY <2>1 DEF UpState, UpAts
  <2> QED BY <2>2 DEF UpdateInv, UpdateTypes, U!TypeOK
<1> QED BY <1>1, <1>2, <1>3, PTL DEF U!Spec

\* Through every failure, signal and loss of power the current link leads to a release that
\* is finished, the service runs that release or none, and an installation that has failed
\* has given the files, the link and the service back (finish_install, README.md:309-311).
THEOREM InstallationsAreWhole ==
  ASSUME Releases, SameSchema PROVE U!Spec => []InstallationIsWhole
<1>1. U!Init => UpdateInv
  BY UpdateInit
<1>2. UpdateInv /\ [U!Next]_(U!vars) => UpdateInv'
  BY UpdateNext
<1>3. U!Init => ServiceGivenBack
  BY IdleUpdate DEF U!Init, ServiceGivenBack
<1>4. UpdateInv /\ ServiceGivenBack /\ [U!Next]_(U!vars) => ServiceGivenBack'
  BY GivenBackNext
<1>5. UpdateInv /\ ServiceGivenBack => InstallationIsWhole
  BY WholeWhenSound
<1> QED BY <1>1, <1>2, <1>3, <1>4, <1>5, PTL DEF U!Spec

\* What meshpi update goes on with is what it has shown.
LEMMA ConfirmedNext ==
  ASSUME Releases, UpdateInv, ConfirmedInv, [U!Next]_(U!vars)
  PROVE  ConfirmedInv'
<1>1. up \in UpState /\ link \in Version
  BY DEF UpdateInv, UpdateTypes
<1>2. U!Idle \in UpState /\ U!Idle.step = "idle" /\ U!Idle.direct = FALSE
  BY IdleUpdate DEF U!Idle
<1>3. ASSUME up'.step = "idle" \/ UNCHANGED up PROVE ConfirmedInv'
  BY <1>3 DEF ConfirmedInv, Changing, U!Installing, U!Undoing
<1>4. ASSUME up.step \in {"download", "verify"} \cup Changing,
             up'.step \in {"download", "verify"} \cup Changing,
             UNCHANGED <<up.plan, up.notice, up.current, up.direct>>
      PROVE  ConfirmedInv'
  BY <1>4 DEF ConfirmedInv, Changing, U!Installing, U!Undoing
<1>5. ASSUME NEW s \in {"verify"} \cup Changing, U!Go(s),
             up.step \in {"download", "verify"} \cup Changing
      PROVE  ConfirmedInv'
  <2>1. s \in UpAts
    BY DEF UpAts, Changing, U!Installing
  <2>2. up'.step = s /\ UNCHANGED <<up.plan, up.notice, up.current, up.direct>>
    BY <1>5, <2>1, InstallTo DEF UpdateInv
  <2> QED BY <1>4, <1>5, <2>2
<1>6. CASE U!Install
  <2>1. CASE U!Verify \/ U!Stop
    BY <1>1, <1>4, <2>1 DEF UpState, U!Verify, U!Stop, Changing, U!Installing
  <2>2. CASE U!Healthy
    BY <1>2, <1>3, <2>2 DEF U!Healthy
  <2>3. CASE U!Configure \/ U!Clear \/ U!Build \/ U!SelfTest \/ U!Switch \/ U!WriteFiles \/ U!Start
    BY <1>5, <2>3 DEF Changing, U!Installing, U!Configure, U!Clear, U!Build, U!SelfTest,
       U!Switch, U!WriteFiles, U!Start
  <2> QED BY <1>6, <2>1, <2>2, <2>3 DEF U!Install
<1>7. CASE U!Undo \/ U!Fail
  <2>1. CASE U!Exit
    BY <1>2, <1>3, <2>1 DEF U!Exit
  <2>2. CASE U!UndoStop \/ U!UndoFiles \/ U!UndoLink \/ U!UndoStart \/ U!Fail
    BY <1>5, <2>2 DEF Changing, U!Installing, U!Undoing, U!UndoStop, U!UndoFiles, U!UndoLink,
       U!UndoStart, U!Fail
  <2> QED BY <1>7, <2>1, <2>2 DEF U!Undo
<1>8. CASE U!Abandon \/ U!PowerLoss
  BY <1>2, <1>3, <1>8 DEF U!Abandon, U!PowerLoss
<1>9. CASE U!RunInstaller
  BY <1>1, <1>4, <1>9 DEF UpState, U!RunInstaller
<1>10. ASSUME NEW got \in Version \cup {Damaged}, U!Download(got) PROVE ConfirmedInv'
  BY <1>1, <1>4, <1>10 DEF UpState, U!Download
<1>11. CASE U!Confirm
  <2>1. up' = [up EXCEPT !.step = "confirmed"] /\ up.step = "asked"
    BY <1>11 DEF U!Confirm
  <2>2. up'.step = "confirmed" /\ up'.notice = up.notice /\ up'.current = up.current
    BY <1>1, <2>1 DEF UpState
  <2> QED BY <2>1, <2>2 DEF ConfirmedInv, Changing, U!Installing, U!Undoing
<1>12. CASE U!Prepare
  <2>1. up' = [up EXCEPT !.step = "download", !.plan = up.notice] /\ up.step = "confirmed"
    BY <1>12 DEF U!Prepare, U!Expected
  <2>2. /\ up'.step = "download" /\ up'.plan = up.notice /\ up'.notice = up.notice
        /\ up'.current = up.current
    BY <1>1, <2>1 DEF UpState
  <2> QED BY <2>1, <2>2 DEF ConfirmedInv
<1>13. ASSUME NEW c \in Channel, U!Check(c) PROVE ConfirmedInv'
  <2>1. PICK v \in Version :
          /\ v > link
          /\ up' = [U!Idle EXCEPT !.step = "asked", !.channel = c, !.current = link, !.notice = v]
    BY <1>13 DEF U!Check, U!Served, U!Manifest, U!Acceptable
  <2>2. up'.step = "asked" /\ up'.notice = v /\ up'.current = link
    BY <1>2, <2>1 DEF UpState
  <2> QED BY <2>1, <2>2 DEF ConfirmedInv, Changing, U!Installing, U!Undoing
<1>14. ASSUME NEW c \in Channel, NEW v \in Version, U!Publish(c, v) PROVE ConfirmedInv'
  BY <1>3, <1>14 DEF U!Publish
<1>15. ASSUME NEW got \in [U!Artifact -> Version \cup {Damaged}], U!RunDirectly(got)
       PROVE  ConfirmedInv'
  <2>1. up'.step = "verify" /\ up'.direct = TRUE
    BY <1>2, <1>15 DEF UpState, U!RunDirectly
  <2> QED BY <2>1 DEF ConfirmedInv
<1>16. CASE UNCHANGED U!vars
  BY <1>3, <1>16 DEF U!vars
<1> QED BY <1>6, <1>7, <1>8, <1>9, <1>10, <1>11, <1>12, <1>13, <1>14, <1>15, <1>16
        DEF U!Next, U!Update

\* The link moves forward to what was confirmed, or back.
LEMMA LinkMoves ==
  ASSUME Releases, UpdateInv, ConfirmedInv, U!Next, link' # link
  PROVE  \/ link' = before.link
         \/ link' = up.plan /\ (up.direct \/ (link' = up.notice /\ link' > up.current))
<1>1. CASE U!Switch
  <2>1. link' = up.plan /\ up.step \in Changing
    BY <1>1 DEF U!Switch, Changing, U!Installing
  <2>2. up.direct \/ (up.plan = up.notice /\ up.plan > up.current)
    BY <2>1 DEF ConfirmedInv
  <2> QED BY <2>1, <2>2
<1>2. CASE U!UndoLink
  <2>1. up.step \in Changing /\ link' = up.saved.link
    BY <1>2 DEF U!UndoLink, Changing, U!Undoing
  <2> QED BY <2>1, Ongoing
<1>3. CASE ~ U!Switch /\ ~ U!UndoLink
  BY <1>3 DEF U!Next, U!Install, U!Undo, U!Update, U!installation, U!Verify, U!Configure,
     U!Clear, U!Build, U!SelfTest, U!Stop, U!WriteFiles, U!Start, U!Healthy, U!UndoStop,
     U!UndoFiles, U!UndoStart, U!Exit, U!Prepare, U!RunInstaller, U!Abandon, U!Fail,
     U!Download, U!Confirm, U!PowerLoss, U!Check, U!Publish, U!RunDirectly
<1> QED BY <1>1, <1>2, <1>3

\* meshpi update installs the version the user has confirmed, newer than the program that
\* runs, whatever is published meanwhile; a link that changes otherwise goes back to where
\* it was when the installer began (apply_update's expected_version, finish_install).
THEOREM ConfirmedIsInstalled == ASSUME Releases PROVE U!Spec => U!OnlyWhatWasConfirmed
<1>1. U!Init => UpdateInv
  BY UpdateInit
<1>2. UpdateInv /\ [U!Next]_(U!vars) => UpdateInv'
  BY UpdateNext
<1>3. U!Init => ConfirmedInv
  BY IdleUpdate DEF U!Init, ConfirmedInv, Changing, U!Installing, U!Undoing
<1>4. UpdateInv /\ ConfirmedInv /\ [U!Next]_(U!vars) => ConfirmedInv'
  BY ConfirmedNext
<1>5. UpdateInv /\ ConfirmedInv /\ [U!Next]_(U!vars) =>
        [link' # link =>
           \/ link' = before.link
           \/ link' = up.plan /\ (up.direct \/ (link' = up.notice /\ link' > up.current))]_(U!vars)
  BY LinkMoves
<1> QED BY <1>1, <1>2, <1>3, <1>4, <1>5, PTL DEF U!Spec, U!OnlyWhatWasConfirmed

-----------------------------------------------------------------------------
(* The components side by side *)

\* A step is one of the component whose part it is, and the others stand still.
LEMMA PartSteps ==
  [NextPart]_everything => [Next]_vars /\ [D!Next]_(D!vars) /\ [U!Next]_(U!vars)
BY DEF NextPart, OnlyRemoval, OnlyProcesses, OnlyUpdates, everything, processVars, updateVars,
   D!vars, D!server, U!vars, U!installation

LEMMA PartsBehave == SpecPart => Spec /\ D!Spec /\ U!Spec
<1>1. InitPart => Init /\ D!Init /\ U!Init
  BY DEF InitPart
<1> QED BY <1>1, PartSteps, PTL DEF SpecPart, Spec, D!Spec, U!Spec

\* The batches and the radio, the processes and their clients, and the installation and
\* its update keep their types together (service.py, daemon.py, update.py).
THEOREM OperationKeepsTypes ==
  ASSUME Bounds, DaemonBounds, Releases PROVE SpecPart => []TypesOK
<1>1. TypeOK /\ D!TypeOK /\ U!TypeOK => TypesOK
  BY DEF TypesOK
<1> QED BY <1>1, PartsBehave, TypeCorrect, DaemonsKeepTypes, UpdatesKeepTypes, PTL

\* What is reported and installed is what was meant: a contact reported as removed has been
\* lacked by the radio, and what an update installs has been confirmed.
THEOREM WhatIsReportedIsTrue ==
  ASSUME Bounds, "config" \notin Contact, Releases PROVE SpecPart => ReportsAreTrue
BY PartsBehave, RemovedWasProved, ConfirmedIsInstalled, PTL DEF ReportsAreTrue
=============================================================================
