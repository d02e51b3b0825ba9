------------------------------ MODULE Connection ------------------------------
(***************************************************************************)
(* Who owns the radio, and for whom: the worker thread of                  *)
(* MeshtasticService (_run), the SDK's publishing thread (_on_connection,  *)
(* _on_lost, _on_receive), the IPC handler threads in connect(), and       *)
(* stop(), over service._lock, the three events _stop, _lost and           *)
(* _switch_requested, and the profiles ConnectionStore keeps on disk.      *)
(*                                                                         *)
(* Abstractions.  A profile is a name and the local node it remembers; the *)
(* radio behind a profile never changes (NodeOf), and a serial profile's   *)
(* device path does not move.  What _sync_nodes and _on_receive store is   *)
(* reduced to a pair: the node of the radio it came from and the local     *)
(* node it is filed under.  Of the status only its state is kept.          *)
(***************************************************************************)
EXTENDS FiniteSets, Naturals

CONSTANTS
  Profile,       \* connection profiles
  Node,          \* local nodes: the radios' node ids
  NodeOf,        \* Profile -> Node: the radio a profile leads to
  Client,        \* IPC handler threads that may be in connect()
  None,          \* no profile, no interface
  NoNode,        \* no local node id
  MaxInterfaces, \* bound: interface objects in use at the same time
  MaxConnects,   \* bound: calls of connect()
  MayStop,       \* bound: whether the daemon is stopped
  Callbacks      \* bound: the SDK's callbacks that happen

ASSUME NodeOfAssumption == NodeOf \in [Profile -> Node]
ASSUME NoneAssumption ==
  /\ None \notin Profile
  /\ NoNode \notin Node
  /\ None \notin [profile : Profile, number : 1..MaxInterfaces]
ASSUME ThreadAssumption == Client \cap {"worker", "publisher", "stopper"} = {}
ASSUME BoundAssumption ==
  /\ MaxInterfaces \in Nat /\ MaxConnects \in Nat /\ MayStop \in BOOLEAN
  /\ Callbacks \subseteq {"established", "lost", "receive"}

VARIABLES
  store,      \* durable: connections.json, the active profile and their nodes
  profile,    \* _profile
  interface,  \* _interface
  localNode,  \* _local_node_id
  bindings,   \* the local node _channel_bindings was made for, or NoNode
  stopped,    \* _stop
  lost,       \* _lost
  switch,     \* _switch_requested
  status,     \* _status["state"]
  at,         \* Thread -> where the thread is, and its local variables
  open,       \* the interfaces whose connection to a radio is open
  filed,      \* observed: <<node of the radio, node its data is filed under>>
  connects    \* calls of connect() so far

service == <<profile, interface, localNode, bindings, stopped, lost, switch, status>>
vars == <<store, service, at, open, filed, connects>>

-----------------------------------------------------------------------------

Thread == {"worker", "publisher", "stopper"} \cup Client
Interface == [profile : Profile, number : 1..MaxInterfaces]
Chosen == [id : Profile \cup {None}, node : Node \cup {NoNode}]
NoProfile == [id |-> None, node |-> NoNode]

\* A thread's program counter, the interface, profile and node id it has read,
\* and what it goes on with after a synchronisation.
Idle == [step |-> "idle", iface |-> None, profile |-> NoProfile,
         node |-> NoNode, next |-> "idle"]
Start(step) == [Idle EXCEPT !.step = step]
Setup(iface, step, next) ==
  [Idle EXCEPT !.step = step, !.iface = iface, !.next = next]
Step(t, step) == [at EXCEPT ![t].step = step]
Become(t, state) == [at EXCEPT ![t] = state]

\* A new interface object gets the least number that no object in use has.
Used == open \cup {interface} \cup {at[t].iface : t \in Thread}
Numbers == {i.number : i \in Used \ {None}}

Init ==
  /\ \E p \in Profile \cup {None} :
       /\ store = [active |-> p, node |-> [q \in Profile |-> NoNode]]
       /\ profile = [NoProfile EXCEPT !.id = p]
       /\ status = IF p = None THEN "ingen node" ELSE "frakopla"
  /\ interface = None
  /\ localNode = NoNode
  /\ bindings = NoNode
  /\ stopped = FALSE /\ lost = FALSE /\ switch = FALSE
  /\ at = [t \in Thread |-> IF t = "worker" THEN Start("top") ELSE Idle]
  /\ open = {}
  /\ filed = {}
  /\ connects = 0

-----------------------------------------------------------------------------
(* The worker thread: _run *)

\* The loop's condition, and _lost.clear().
Top ==
  /\ at["worker"].step = "top"
  /\ \/ stopped /\ at' = Step("worker", "done") /\ UNCHANGED lost
     \/ ~ stopped /\ at' = Step("worker", "read") /\ lost' = FALSE
  /\ UNCHANGED <<store, profile, interface, localNode, bindings, stopped, switch,
                 status, open, filed, connects>>

ReadProfile ==
  /\ at["worker"].step = "read"
  /\ IF profile.id = None
     THEN /\ at' = Step("worker", "unselected")
          /\ status' = "ingen node"
     ELSE /\ at' = Become("worker", [Start("create") EXCEPT !.profile = profile])
          /\ status' = "koplar til"
  /\ UNCHANGED <<store, profile, interface, localNode, bindings, stopped, lost,
                 switch, open, filed, connects>>

\* _switch_requested.wait() returns, and the event is cleared.
Selected ==
  /\ at["worker"].step = "unselected" /\ switch
  /\ switch' = FALSE
  /\ at' = Step("worker", "top")
  /\ UNCHANGED <<store, profile, interface, localNode, bindings, stopped, lost,
                 status, open, filed, connects>>

\* _create_interface returns.
Create ==
  /\ at["worker"].step = "create"
  /\ \E n \in 1..MaxInterfaces :
       LET new == [profile |-> at["worker"].profile.id, number |-> n]
       IN  /\ n \notin Numbers
           /\ 1..(n - 1) \subseteq Numbers
           /\ open' = open \cup {new}
           /\ at' = Become("worker", [Setup(new, "publish", "idle") EXCEPT
                                          !.profile = at["worker"].profile])
  /\ UNCHANGED <<store, service, filed, connects>>

\* The except clause.
Failed ==
  /\ status' = IF switch THEN status ELSE "feil"
  /\ at' = Become("worker", Start("take"))

CreateFails ==
  /\ at["worker"].step = "create"
  /\ Failed
  /\ UNCHANGED <<store, profile, interface, localNode, bindings, stopped, lost,
                 switch, open, filed, connects>>

\* Mutant: the profile is not compared with the selected one.
PublishUnchecked ==
  LET me == at["worker"] IN
  /\ me.step = "publish"
  /\ \/ /\ stopped
        /\ open' = open \ {me.iface}
        /\ at' = Become("worker", Start("take"))
        /\ UNCHANGED interface
     \/ /\ ~ stopped
        /\ interface' = me.iface
        /\ at' = Become("worker", Setup(me.iface, "discover", "connected"))
        /\ UNCHANGED open
  /\ UNCHANGED <<store, profile, localNode, bindings, stopped, lost, switch,
                 status, filed, connects>>

\* Mutant: an interface created for a profile that was replaced is forgotten.
PublishForgetting ==
  LET me == at["worker"] IN
  /\ me.step = "publish"
  /\ \/ /\ stopped
        /\ open' = open \ {me.iface}
        /\ at' = Become("worker", Start("take"))
        /\ UNCHANGED <<interface, switch, status>>
     \/ /\ ~ stopped /\ me.profile # profile
        /\ switch' = TRUE
        /\ at' = Become("worker", Start("take"))
        /\ UNCHANGED <<interface, status, open>>
     \/ /\ ~ stopped /\ me.profile = profile
        /\ interface' = me.iface
        /\ at' = Become("worker", Setup(me.iface, "discover", "connected"))
        /\ UNCHANGED <<switch, status, open>>
  /\ UNCHANGED <<store, profile, localNode, bindings, stopped, lost, filed, connects>>

\* Under the lock: the interface is published, or closed when the service is
\* stopping or another profile was selected while it was created.
Publish ==
  LET me == at["worker"] IN
  /\ me.step = "publish"
  /\ \/ /\ stopped
        /\ open' = open \ {me.iface}
        /\ at' = Become("worker", Start("take"))
        /\ UNCHANGED <<interface, switch, status>>
     \/ /\ ~ stopped /\ me.profile # profile
        /\ open' = open \ {me.iface}
        /\ switch' = TRUE
        /\ at' = Become("worker", Start("take"))
        /\ UNCHANGED <<interface, status>>
     \/ /\ ~ stopped /\ me.profile = profile
        /\ interface' = me.iface
        /\ at' = Become("worker", Setup(me.iface, "discover", "connected"))
        /\ UNCHANGED <<switch, status, open>>
  /\ UNCHANGED <<store, profile, localNode, bindings, stopped, lost, filed, connects>>

\* A health check that finds nothing synchronises channels and nodes again.
HealthCheck ==
  /\ at["worker"].step = "health" /\ ~ lost /\ ~ stopped
  /\ at' = Become("worker", Setup(at["worker"].iface, "identity", "health"))
  /\ UNCHANGED <<store, service, open, filed, connects>>

\* The reader thread has stopped, or the machine was suspended.
ReaderStopped ==
  /\ at["worker"].step = "health" /\ ~ lost /\ ~ stopped
  /\ lost' = TRUE
  /\ at' = Become("worker", Start("take"))
  /\ UNCHANGED <<store, profile, interface, localNode, bindings, stopped, switch,
                 status, open, filed, connects>>

HealthEnds ==
  /\ at["worker"].step = "health" /\ (lost \/ stopped)
  /\ at' = Become("worker", Start("take"))
  /\ UNCHANGED <<store, service, open, filed, connects>>

\* The finally clause: pending node actions are failed, which is NodeActions' part and
\* assumed to return here (sqlite3 may raise there, which ends the worker: WorkerLives of
\* NodeActions), and the interface is taken under the lock ...
Take ==
  /\ at["worker"].step = "take"
  /\ interface' = None
  /\ at' = Become("worker", IF interface = None THEN Start("after")
                               ELSE Setup(interface, "close", "after"))
  /\ UNCHANGED <<store, profile, localNode, bindings, stopped, lost, switch, status,
                 open, filed, connects>>

\* After a switch the next round starts at once, otherwise it backs off.
After ==
  /\ at["worker"].step = "after"
  /\ \/ /\ stopped
        /\ at' = Become("worker", Start("done"))
        /\ UNCHANGED <<switch, status>>
     \/ /\ ~ stopped /\ switch
        /\ switch' = FALSE
        /\ at' = Become("worker", Start("top"))
        /\ UNCHANGED status
     \/ /\ ~ stopped /\ ~ switch
        /\ status' = "frakopla"
        /\ at' = Become("worker", Start("backoff"))
        /\ UNCHANGED switch
  /\ UNCHANGED <<store, profile, interface, localNode, bindings, stopped, lost,
                 open, filed, connects>>

BackoffEnds ==
  /\ at["worker"].step = "backoff"
  /\ at' = Step("worker", "top")
  /\ UNCHANGED <<store, service, open, filed, connects>>

-----------------------------------------------------------------------------
(* What the worker and the publishing thread both do with an interface *)

\* _discover_local_node up to its assignment, which takes no lock.
Discover(t) ==
  /\ at[t].step = "discover"
  /\ \/ localNode' = NodeOf[at[t].iface.profile] /\ at' = Step(t, "remember")
     \/ at' = Step(t, "identity") /\ UNCHANGED localNode
  /\ UNCHANGED <<store, profile, interface, bindings, stopped, lost, switch, status,
                 open, filed, connects>>

\* The rest of it, under the lock: remember_local_node, for the profile that is
\* selected now.  A local node id that was reset in between raises.
Remember(t) ==
  /\ at[t].step = "remember"
  /\ IF profile.id = None \/ profile.node = localNode
     THEN /\ at' = Step(t, "identity")
          /\ UNCHANGED <<profile, store, status>>
     ELSE IF localNode = NoNode
     THEN /\ IF t = "worker" THEN Failed
             ELSE at' = Become(t, Idle) /\ UNCHANGED status
          /\ UNCHANGED <<profile, store>>
     ELSE /\ profile' = [profile EXCEPT !.node = localNode]
          /\ store' = [store EXCEPT !.node[profile.id] = localNode]
          /\ at' = Step(t, "identity")
          /\ UNCHANGED status
  /\ UNCHANGED <<interface, localNode, bindings, stopped, lost, switch,
                 open, filed, connects>>

\* _sync_channels takes _channel_sync_lock and reads the local node id.
ReadIdentity(t) ==
  /\ at[t].step = "identity"
  /\ \A u \in Thread : at[u].step # "bind"
  /\ IF localNode = NoNode
     THEN at' = Step(t, IF at[t].next = "file" THEN "file" ELSE "nodes")
     ELSE at' = Become(t, [Setup(at[t].iface, "bind", at[t].next) EXCEPT !.node = localNode])
  /\ UNCHANGED <<store, service, open, filed, connects>>

\* It replaces the bindings, by none if the interface knows no channels, and
\* stores them; sqlite3 may raise.
Bind(t) ==
  /\ at[t].step = "bind"
  /\ \E node \in {at[t].node, NoNode} : bindings' = node
  /\ \/ /\ at' = Become(t, Setup(at[t].iface, IF at[t].next = "file" THEN "file" ELSE "nodes",
                                   at[t].next))
        /\ UNCHANGED status
     \/ IF t = "worker" THEN Failed ELSE at' = Become(t, Idle) /\ UNCHANGED status
  /\ UNCHANGED <<store, profile, interface, localNode, stopped, lost, switch,
                 open, filed, connects>>

\* _sync_nodes, all of it under the lock.
SyncNodes(t) ==
  /\ at[t].step = "nodes"
  /\ filed' = IF at[t].iface = interface /\ ~ lost /\ localNode # NoNode
              THEN filed \cup {<<NodeOf[at[t].iface.profile], localNode>>}
              ELSE filed
  /\ at' = Step(t, at[t].next)
  /\ UNCHANGED <<store, service, open, connects>>

\* Mutant: _lost is cleared once the radio is connected.
SetConnectedClearing(t) ==
  /\ at[t].step = "connected"
  /\ status' = "tilkopla" /\ lost' = FALSE
  /\ at' = IF t = "worker" THEN Step(t, "health") ELSE Become(t, Idle)
  /\ UNCHANGED <<store, profile, interface, localNode, bindings, stopped,
                 switch, open, filed, connects>>

SetConnected(t) ==
  /\ at[t].step = "connected"
  /\ status' = "tilkopla"
  /\ at' = IF t = "worker" THEN Step(t, "health") ELSE Become(t, Idle)
  /\ UNCHANGED <<store, profile, interface, localNode, bindings, stopped, lost,
                 switch, open, filed, connects>>

\* interface.close(), outside the lock.
Close(t) ==
  /\ at[t].step = "close"
  /\ open' = open \ {at[t].iface}
  /\ at' = Become(t, Start(at[t].next))
  /\ UNCHANGED <<store, service, filed, connects>>

-----------------------------------------------------------------------------
(* The SDK's publishing thread; each callback first compares interfaces *)

OnConnection ==
  /\ "established" \in Callbacks /\ at["publisher"] = Idle /\ interface # None
  /\ at' = Become("publisher", Setup(interface, "discover", "connected"))
  /\ UNCHANGED <<store, service, open, filed, connects>>

OnLost ==
  /\ "lost" \in Callbacks /\ at["publisher"] = Idle /\ interface # None
  /\ at' = Become("publisher", Start("lost"))
  /\ UNCHANGED <<store, service, open, filed, connects>>

SetLost ==
  /\ at["publisher"].step = "lost"
  /\ lost' = TRUE
  /\ at' = Become("publisher", Idle)
  /\ UNCHANGED <<store, profile, interface, localNode, bindings, stopped, switch,
                 status, open, filed, connects>>

\* A text message; its channel is synchronised first if it is not known.
OnReceive ==
  /\ "receive" \in Callbacks /\ at["publisher"] = Idle /\ interface # None
  /\ at' = Become("publisher",
                  Setup(interface, IF bindings = NoNode THEN "identity" ELSE "file", "file"))
  /\ UNCHANGED <<store, service, open, filed, connects>>

\* Mutant: a message without a local node is stored all the same.
FileUnscoped ==
  /\ at["publisher"].step = "file"
  /\ filed' = filed \cup {<<NodeOf[at["publisher"].iface.profile], localNode>>}
  /\ at' = Become("publisher", Idle)
  /\ UNCHANGED <<store, service, open, connects>>

\* It is stored under the local node id of this moment, or not at all.
File ==
  /\ at["publisher"].step = "file"
  /\ filed' = IF localNode = NoNode THEN filed
              ELSE filed \cup {<<NodeOf[at["publisher"].iface.profile], localNode>>}
  /\ at' = Become("publisher", Idle)
  /\ UNCHANGED <<store, service, open, connects>>

-----------------------------------------------------------------------------
(* connect(), on an IPC handler thread, and stop() *)

\* activate reads the profile as it is stored; a target is a profile that
\* remembers no node.
Connect(c) ==
  /\ at[c] = Idle /\ connects < MaxConnects
  /\ connects' = connects + 1
  /\ \E p \in Profile, byTarget \in BOOLEAN :
       at' = Become(c, [Start("save") EXCEPT !.profile =
                          [id |-> p, node |-> IF byTarget THEN NoNode ELSE store.node[p]]])
  /\ UNCHANGED <<store, service, open, filed>>

SaveAndActivate(c) ==
  /\ at[c].step = "save"
  /\ store' = [active |-> at[c].profile.id,
               node |-> [store.node EXCEPT ![at[c].profile.id] = at[c].profile.node]]
  /\ at' = Step(c, "swap")
  /\ UNCHANGED <<service, open, filed, connects>>

\* Under the lock: the same profile and an interface means nothing to do;
\* otherwise the profile is replaced and the interface taken.  Pending node actions are
\* then failed, which is assumed to return: where sqlite3 raises there, the status is not
\* set and the old interface, which nobody else knows any more, is never closed.
Swap(c) ==
  /\ at[c].step = "swap"
  /\ \/ /\ at[c].profile = profile /\ interface # None
        /\ at' = Become(c, Idle)
        /\ UNCHANGED <<profile, interface, localNode, bindings, switch, lost>>
     \/ /\ at[c].profile # profile \/ interface = None
        /\ profile' = at[c].profile
        /\ interface' = None
        /\ localNode' = NoNode
        /\ bindings' = NoNode
        /\ switch' = TRUE /\ lost' = TRUE
        /\ at' = Become(c, Setup(interface, "status", "idle"))
  /\ UNCHANGED <<store, stopped, status, open, filed, connects>>

SetConnecting(c) ==
  /\ at[c].step = "status"
  /\ status' = "koplar til"
  /\ at' = IF at[c].iface = None THEN Become(c, Idle) ELSE Step(c, "close")
  /\ UNCHANGED <<store, profile, interface, localNode, bindings, stopped, lost,
                 switch, open, filed, connects>>

\* Mutant: stop() leaves _switch_requested alone.
StopQuietly ==
  /\ MayStop /\ at["stopper"] = Idle /\ ~ stopped
  /\ stopped' = TRUE /\ lost' = TRUE
  /\ at' = Become("stopper", Start("takeLast"))
  /\ UNCHANGED <<store, profile, interface, localNode, bindings, switch, status,
                 open, filed, connects>>

\* stop() sets the three events ...
Stop ==
  /\ MayStop /\ at["stopper"] = Idle /\ ~ stopped
  /\ stopped' = TRUE /\ lost' = TRUE /\ switch' = TRUE
  /\ at' = Become("stopper", Start("takeLast"))
  /\ UNCHANGED <<store, profile, interface, localNode, bindings, status,
                 open, filed, connects>>

\* ... takes the interface and closes it ...
TakeLast ==
  /\ at["stopper"].step = "takeLast"
  /\ interface' = None
  /\ at' = Become("stopper",
                  IF interface = None THEN Start("join") ELSE Setup(interface, "close", "join"))
  /\ UNCHANGED <<store, profile, localNode, bindings, stopped, lost, switch, status,
                 open, filed, connects>>

\* ... and joins the worker, for at most ten seconds.
Join ==
  /\ at["stopper"].step = "join"
  /\ status' = "frakopla"
  /\ at' = Become("stopper", Idle)
  /\ UNCHANGED <<store, profile, interface, localNode, bindings, stopped, lost,
                 switch, open, filed, connects>>

-----------------------------------------------------------------------------

Synchronise(t) ==
  \/ Discover(t) \/ Remember(t) \/ ReadIdentity(t) \/ Bind(t)
  \/ SyncNodes(t) \/ SetConnected(t)

Worker ==
  \/ Top \/ ReadProfile \/ Selected \/ Create \/ CreateFails \/ Publish
  \/ HealthCheck \/ ReaderStopped \/ HealthEnds \/ Take \/ After \/ BackoffEnds
  \/ Synchronise("worker") \/ Close("worker")

Publisher == SetLost \/ File \/ Synchronise("publisher")
Callback == OnConnection \/ OnLost \/ OnReceive
Handler(c) == SaveAndActivate(c) \/ Swap(c) \/ SetConnecting(c) \/ Close(c)
Stopper == TakeLast \/ Join \/ Close("stopper")

Next ==
  \/ Worker \/ Publisher \/ Callback
  \/ \E c \in Client : Connect(c) \/ Handler(c)
  \/ Stop \/ Stopper

Spec == Init /\ [][Next]_vars

\* Threads that can run do run, and a radio that is tried over and over is
\* reached at last.  Nothing is assumed of clients, of stop() or of callbacks.
Fairness ==
  /\ WF_vars(Worker) /\ SF_vars(Create)
  /\ WF_vars(Publisher) /\ WF_vars(Stopper)
  /\ \A c \in Client : WF_vars(Handler(c))

FairSpec == Spec /\ Fairness

-----------------------------------------------------------------------------
(* Properties *)

\* Where a thread can be, and what it can hold there.
Steps == {"idle", "top", "read", "unselected", "create", "publish", "health", "take",
          "after", "backoff", "done", "discover", "remember", "identity", "bind",
          "nodes", "connected", "close", "lost", "file", "save", "swap", "status",
          "takeLast", "join"}

ThreadState == [step : Steps, iface : Interface \cup {None}, profile : Chosen,
                node : Node \cup {NoNode}, next : Steps]

\* Every variable has its type; above all, what a radio delivers is filed under a
\* local node's id and never under none.
TypeOK ==
  /\ store \in [active : Profile \cup {None}, node : [Profile -> Node \cup {NoNode}]]
  /\ profile \in Chosen
  /\ interface \in Interface \cup {None}
  /\ localNode \in Node \cup {NoNode}
  /\ bindings \in Node \cup {NoNode}
  /\ stopped \in BOOLEAN /\ lost \in BOOLEAN /\ switch \in BOOLEAN
  /\ status \in {"ingen node", "koplar til", "tilkopla", "frakopla", "feil"}
  /\ at \in [Thread -> ThreadState]
  /\ open \subseteq Interface
  /\ filed \subseteq Node \X Node
  /\ connects \in 0..MaxConnects

\* The published interface leads to the radio of the selected profile, however
\* connect() interleaves with an attempt to connect to another one.
InterfaceOfProfile == interface # None => interface.profile = profile.id

\* The threads that will close interface i.
Closers(i) ==
  {t \in Thread : at[t].iface = i /\ at[t].step \in {"publish", "status", "close"}}

\* Nobody's connection is forgotten and none is closed twice: every open
\* interface is either the published one or in the hands of exactly one thread
\* that goes on to publish or close it, and whatever is held so is open.
OwnedOnce ==
  /\ \A i \in open :
       IF interface = i THEN Closers(i) = {} ELSE Cardinality(Closers(i)) = 1
  /\ interface # None => interface \in open
  /\ \A t \in Thread :
       at[t].step \in {"publish", "close"} => at[t].iface \in open

\* No call of connect() is lost between the events _lost and
\* _switch_requested: while a profile stays selected and the service runs, its
\* radio is connected again and again.
SelectedIsConnected ==
  \A p \in Profile :
    <>[](profile.id = p /\ ~ stopped)
      => []<>(interface # None /\ interface.profile = p)

\* stop() ends the worker from wherever it is, and no connection stays open.
StopReleasesRadio == stopped ~> [](at["worker"].step = "done" /\ open = {})

\* README.md:657: "meshpi status" shows the state of the connection.  With the
\* worker watching a connection and nobody else doing anything, it is "tilkopla".
StatusAtRest ==
  /\ at["worker"].step = "health" /\ ~ lost /\ ~ stopped
  /\ \A t \in Thread \ {"worker"} : at[t] = Idle
  => status = "tilkopla"

\* README.md:420: the daemon owns one radio connection at a time, and a switch of
\* profiles closes the old one and connects to the new one.
OneConnection == Cardinality(open) <= 1

\* DEVELOPMENT.md:304: a profile remembers the last known local node id, so that
\* the right history is shown while it reconnects.
RemembersItsNode ==
  \A p \in Profile : store.node[p] \in {NodeOf[p], NoNode}

\* README.md:424: node lists and conversations are separate per local node: what a
\* radio delivers is filed under that radio's node.
FiledSeparately == \A pair \in filed : pair[1] = pair[2]
=============================================================================
