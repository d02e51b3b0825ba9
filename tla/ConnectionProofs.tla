--------------------------- MODULE ConnectionProofs ---------------------------
(***************************************************************************)
(* Proofs about Connection, for every set of profiles, radios and clients  *)
(* and for every bound.                                                    *)
(***************************************************************************)
EXTENDS Connection, TLAPS, FiniteSetTheorems

\* What a thread's local variables satisfy at each of its steps.
FitsAs(step, iface, chosen, next) ==
  /\ step \in {"publish", "discover", "remember", "identity", "bind", "nodes",
               "connected", "health", "file", "close"} => iface \in Interface
  /\ step \in {"discover", "remember", "identity", "bind", "nodes"}
       => next \in {"connected", "health", "file"}
  /\ step \in {"status", "close"} => next \in {"after", "join", "idle"}
  /\ step = "create" => chosen.id \in Profile
  /\ step = "publish" => iface.profile = chosen.id

Fits(s) == FitsAs(s.step, s.iface, s.profile, s.next)

ThreadsFit == \A t \in Thread : Fits(at[t])

\* The inductive invariant: Publish relies on the interface in the worker's
\* hands leading to the profile the worker has read.
Inv == TypeOK /\ ThreadsFit /\ InterfaceOfProfile

\* The variables other than the threads' own.
SharedOK ==
  /\ store \in [active : Profile \cup {None}, node : [Profile -> Node \cup {NoNode}]]
  /\ profile \in Chosen
  /\ interface \in Interface \cup {None}
  /\ localNode \in Node \cup {NoNode}
  /\ bindings \in Node \cup {NoNode}
  /\ stopped \in BOOLEAN /\ lost \in BOOLEAN /\ switch \in BOOLEAN
  /\ status \in {"ingen node", "koplar til", "tilkopla", "frakopla", "feil"}
  /\ open \subseteq Interface
  /\ filed \subseteq Node \X Node
  /\ connects \in 0..MaxConnects
  /\ InterfaceOfProfile

\* An action takes one thread from its state to another that fits.
ThreadMoves ==
  \E t \in Thread, s \in ThreadState : Fits(s) /\ at' = [at EXCEPT ![t] = s]

-----------------------------------------------------------------------------
(* Lemmas *)

\* A step that moves one thread and keeps the shared variables keeps Inv.
LEMMA OneThreadMoves ==
  ASSUME Inv, ThreadMoves, SharedOK'
  PROVE  Inv'
<1>1. PICK t \in Thread, s \in ThreadState : Fits(s) /\ at' = [at EXCEPT ![t] = s]
  BY DEF ThreadMoves
<1>2. at' \in [Thread -> ThreadState]
  BY <1>1 DEF Inv, TypeOK
<1>3. ASSUME NEW u \in Thread PROVE Fits(at'[u])
  <2>1. CASE u = t
    BY <1>1, <2>1 DEF Inv, TypeOK
  <2>2. CASE u # t
    BY <1>1, <2>2 DEF Inv, TypeOK, ThreadsFit
  <2> QED BY <2>1, <2>2
<1>4. ThreadsFit'
  BY <1>3 DEF ThreadsFit
<1> QED
  BY <1>2, <1>4 DEF Inv, TypeOK, SharedOK

\* A thread's state with another step.
LEMMA StepType ==
  ASSUME NEW s \in ThreadState, NEW step \in Steps
  PROVE  /\ [s EXCEPT !.step = step] \in ThreadState
         /\ [s EXCEPT !.step = step].step = step
         /\ [s EXCEPT !.step = step].iface = s.iface
         /\ [s EXCEPT !.step = step].profile = s.profile
         /\ [s EXCEPT !.step = step].node = s.node
         /\ [s EXCEPT !.step = step].next = s.next
BY DEF ThreadState

\* A thread's state with another profile or another node id.
LEMMA FieldType ==
  ASSUME NEW s \in ThreadState, NEW chosen \in Chosen, NEW node \in Node \cup {NoNode}
  PROVE  /\ [s EXCEPT !.profile = chosen] \in ThreadState
         /\ [s EXCEPT !.profile = chosen].step = s.step
         /\ [s EXCEPT !.profile = chosen].iface = s.iface
         /\ [s EXCEPT !.profile = chosen].profile = chosen
         /\ [s EXCEPT !.node = node] \in ThreadState
         /\ [s EXCEPT !.node = node].step = s.step
         /\ [s EXCEPT !.node = node].iface = s.iface
         /\ [s EXCEPT !.node = node].next = s.next
BY DEF ThreadState

\* The states that the helpers of the model make.
LEMMA IdleType == Idle \in ThreadState /\ Idle.step = "idle" /\ NoProfile \in Chosen
BY DEF Idle, ThreadState, Steps, NoProfile, Chosen

\* A thread that starts at a step has a thread's state.
LEMMA StartType ==
  ASSUME NEW step \in Steps
  PROVE  Start(step) \in ThreadState /\ Start(step).step = step
BY IdleType, StepType DEF Start

\* So has one that starts to work on an interface.
LEMMA SetupType ==
  ASSUME NEW iface \in Interface \cup {None}, NEW step \in Steps, NEW next \in Steps
  PROVE  /\ Setup(iface, step, next) \in ThreadState
         /\ Setup(iface, step, next).step = step
         /\ Setup(iface, step, next).iface = iface
         /\ Setup(iface, step, next).next = next
BY IdleType DEF Setup, ThreadState, Idle, NoProfile

\* The worker and the publishing thread are threads.
LEMMA FixedThreads == {"worker", "publisher", "stopper"} \subseteq Thread /\ Client \subseteq Thread
BY DEF Thread

\* The two forms in which the model changes a thread's state.
LEMMA StepMoves ==
  ASSUME Inv, NEW t \in Thread, NEW step \in Steps, at' = Step(t, step),
         FitsAs(step, at[t].iface, at[t].profile, at[t].next)
  PROVE  ThreadMoves
<1> DEFINE s == [at[t] EXCEPT !.step = step]
<1>1. at[t] \in ThreadState
  BY DEF Inv, TypeOK
<1>2. s \in ThreadState /\ Fits(s)
  BY <1>1, StepType DEF Fits
<1>3. at' = [at EXCEPT ![t] = s]
  BY DEF Step
<1> QED BY <1>2, <1>3 DEF ThreadMoves

\* The second form: a thread's state is replaced.
LEMMA BecomeMoves ==
  ASSUME NEW t \in Thread, NEW s \in ThreadState, at' = Become(t, s), Fits(s)
  PROVE  ThreadMoves
BY DEF ThreadMoves, Become

\* A thread starts again from nothing.
LEMMA StartMoves ==
  ASSUME NEW t \in Thread, NEW step \in Steps, at' = Become(t, Start(step)),
         step \notin {"publish", "discover", "remember", "identity", "bind", "nodes",
                     "connected", "health", "file", "status", "close", "create"}
  PROVE  ThreadMoves
BY StartType, BecomeMoves DEF Fits, FitsAs

\* A thread has nothing more to do.
LEMMA IdleMoves ==
  ASSUME NEW t \in Thread, at' = Become(t, Idle)
  PROVE  ThreadMoves
BY IdleType, BecomeMoves DEF Fits, FitsAs

\* A thread goes on with an interface.
LEMMA SetupMoves ==
  ASSUME NEW t \in Thread, NEW iface \in Interface \cup {None},
         NEW step \in Steps, NEW next \in Steps,
         at' = Become(t, Setup(iface, step, next)),
         step \notin {"publish", "create"},
         FitsAs(step, iface, NoProfile, next)
  PROVE  ThreadMoves
BY SetupType, BecomeMoves DEF Fits, FitsAs

-----------------------------------------------------------------------------
(* The actions preserve the inductive invariant *)

\* The loop's condition in _run preserves the invariant.
LEMMA TopInv == ASSUME Inv, Top PROVE Inv'
<1>1. ThreadMoves
  <2>1. at' = Step("worker", "done") \/ at' = Step("worker", "read")
    BY DEF Top
  <2>2. "done" \in Steps /\ "read" \in Steps
    BY DEF Steps
  <2> QED BY <2>1, <2>2, FixedThreads, StepMoves DEF FitsAs
<1>2. SharedOK'
  BY DEF Top, Inv, TypeOK, SharedOK, InterfaceOfProfile
<1> QED BY <1>1, <1>2, OneThreadMoves

\* The worker reads the selected profile: with one, it goes on to create its interface.
LEMMA ReadProfileInv == ASSUME Inv, ReadProfile PROVE Inv'
<1>1. ThreadMoves
  <2>1. CASE profile.id = None
    BY <2>1, FixedThreads, StepMoves DEF ReadProfile, FitsAs, Steps
  <2>2. CASE profile.id # None
    <3> DEFINE s == [Start("create") EXCEPT !.profile = profile]
    <3>1. profile \in Chosen /\ profile.id \in Profile /\ "create" \in Steps
      BY <2>2 DEF Inv, TypeOK, Chosen, Steps
    <3>2. s \in ThreadState /\ s.step = "create" /\ s.profile = profile
      BY <3>1, StartType, FieldType, IdleType
    <3>3. Fits(s)
      BY <3>1, <3>2 DEF Fits, FitsAs
    <3> QED BY <2>2, <3>2, <3>3, FixedThreads, BecomeMoves DEF ReadProfile
  <2> QED BY <2>1, <2>2
<1>2. SharedOK'
  BY DEF ReadProfile, Inv, TypeOK, SharedOK, InterfaceOfProfile
<1> QED BY <1>1, <1>2, OneThreadMoves

\* _switch_requested.wait() returns.
LEMMA SelectedInv == ASSUME Inv, Selected PROVE Inv'
<1>1. ThreadMoves
  BY FixedThreads, StepMoves DEF Selected, FitsAs, Steps
<1>2. SharedOK'
  BY DEF Selected, Inv, TypeOK, SharedOK, InterfaceOfProfile
<1> QED BY <1>1, <1>2, OneThreadMoves

\* The created interface leads to the profile the worker has read.
LEMMA CreateInv == ASSUME Inv, Create PROVE Inv'
<1> DEFINE new(n) == [profile |-> at["worker"].profile.id, number |-> n]
           s(n) == [Setup(new(n), "publish", "idle") EXCEPT !.profile = at["worker"].profile]
<1>1. PICK n \in 1..MaxInterfaces :
        open' = open \cup {new(n)} /\ at' = Become("worker", s(n))
  BY DEF Create
<1>2. at["worker"] \in ThreadState /\ Fits(at["worker"]) /\ at["worker"].step = "create"
  BY FixedThreads DEF Create, Inv, TypeOK, ThreadsFit
<1>3. at["worker"].profile \in Chosen /\ at["worker"].profile.id \in Profile
  BY <1>2 DEF ThreadState, Fits, FitsAs
<1>4. new(n) \in Interface /\ new(n).profile = at["worker"].profile.id
  BY <1>3 DEF Interface
<1>5. Setup(new(n), "publish", "idle") \in ThreadState
      /\ Setup(new(n), "publish", "idle").step = "publish"
      /\ Setup(new(n), "publish", "idle").iface = new(n)
  <2>1. new(n) \in Interface \cup {None} /\ "publish" \in Steps /\ "idle" \in Steps
    BY <1>4 DEF Steps
  <2> HIDE DEF new
  <2> QED BY <2>1, SetupType
<1>6. /\ s(n) \in ThreadState /\ s(n).step = "publish" /\ s(n).iface = new(n)
      /\ s(n).profile = at["worker"].profile
  <2> HIDE DEF new
  <2> QED BY <1>3, <1>5, FieldType, IdleType
<1>7. Fits(s(n))
  <2> HIDE DEF s, new
  <2> QED BY <1>4, <1>6 DEF Fits, FitsAs
<1>8. ThreadMoves
  BY <1>1, <1>6, <1>7, FixedThreads, BecomeMoves
<1>9. SharedOK'
  BY <1>1, <1>4 DEF Create, service, Inv, TypeOK, SharedOK, InterfaceOfProfile
<1> QED BY <1>8, <1>9, OneThreadMoves

\* _create_interface raises.
LEMMA CreateFailsInv == ASSUME Inv, CreateFails PROVE Inv'
<1>1. ThreadMoves
  BY FixedThreads, StartMoves DEF CreateFails, Failed, Steps
<1>2. SharedOK'
  BY DEF CreateFails, Failed, Inv, TypeOK, SharedOK, InterfaceOfProfile
<1> QED BY <1>1, <1>2, OneThreadMoves

\* The comparison under the lock is what InterfaceOfProfile rests on.
LEMMA PublishInv == ASSUME Inv, Publish PROVE Inv'
<1>1. /\ at["worker"] \in ThreadState
      /\ at["worker"].iface \in Interface
      /\ at["worker"].iface.profile = at["worker"].profile.id
  BY FixedThreads DEF Publish, Inv, TypeOK, ThreadsFit, Fits, FitsAs
<1>2. ThreadMoves
  <2>1. CASE at' = Become("worker", Start("take"))
    BY <2>1, FixedThreads, StartMoves DEF Steps
  <2>2. CASE at' = Become("worker", Setup(at["worker"].iface, "discover", "connected"))
    <3>1. "worker" \in Thread /\ "discover" \in Steps /\ "connected" \in Steps
      BY FixedThreads DEF Steps
    <3>2. FitsAs("discover", at["worker"].iface, NoProfile, "connected")
      BY <1>1 DEF FitsAs
    <3> QED BY <1>1, <2>2, <3>1, <3>2, SetupMoves
  <2> QED BY <2>1, <2>2 DEF Publish
<1>3. SharedOK'
  <2>1. CASE UNCHANGED interface
    BY <2>1 DEF Publish, Inv, TypeOK, SharedOK, InterfaceOfProfile
  <2>2. CASE interface' = at["worker"].iface /\ at["worker"].profile = profile
    BY <1>1, <2>2 DEF Publish, Inv, TypeOK, SharedOK, InterfaceOfProfile
  <2> QED BY <2>1, <2>2 DEF Publish
<1> QED BY <1>2, <1>3, OneThreadMoves

\* A round of the health loop, or its end.
LEMMA HealthInv == ASSUME Inv, HealthCheck \/ ReaderStopped \/ HealthEnds PROVE Inv'
<1>1. CASE HealthCheck
  <2>1. at["worker"].iface \in Interface
    BY <1>1, FixedThreads DEF HealthCheck, Inv, TypeOK, ThreadsFit, Fits, FitsAs
  <2>2. ThreadMoves
    <3>1. "worker" \in Thread /\ "identity" \in Steps /\ "health" \in Steps
      BY FixedThreads DEF Steps
    <3>2. FitsAs("identity", at["worker"].iface, NoProfile, "health")
      BY <2>1 DEF FitsAs
    <3>3. at' = Become("worker", Setup(at["worker"].iface, "identity", "health"))
      BY <1>1 DEF HealthCheck
    <3> QED BY <2>1, <3>1, <3>2, <3>3, SetupMoves
  <2>3. SharedOK'
    BY <1>1 DEF HealthCheck, service, Inv, TypeOK, SharedOK, InterfaceOfProfile
  <2> QED BY <2>2, <2>3, OneThreadMoves
<1>2. CASE ReaderStopped \/ HealthEnds
  <2>1. ThreadMoves
    BY <1>2, FixedThreads, StartMoves DEF ReaderStopped, HealthEnds, Steps
  <2>2. SharedOK'
    BY <1>2 DEF ReaderStopped, HealthEnds, service, Inv, TypeOK, SharedOK, InterfaceOfProfile
  <2> QED BY <2>1, <2>2, OneThreadMoves
<1> QED BY <1>1, <1>2

\* The finally clause of _run takes the published interface.
LEMMA TakeInv == ASSUME Inv, Take PROVE Inv'
<1>1. ThreadMoves
  <2>1. CASE interface = None
    BY <2>1, FixedThreads, StartMoves DEF Take, Steps
  <2>2. CASE interface # None
    <3>1. interface \in Interface
      BY <2>2 DEF Inv, TypeOK
    <3> QED BY <2>2, <3>1, FixedThreads, SetupMoves DEF Take, Steps, FitsAs
  <2> QED BY <2>1, <2>2
<1>2. SharedOK'
  BY DEF Take, Inv, TypeOK, SharedOK, InterfaceOfProfile
<1> QED BY <1>1, <1>2, OneThreadMoves

\* The end of a round of _run.
LEMMA AfterInv == ASSUME Inv, After \/ BackoffEnds PROVE Inv'
<1>1. ThreadMoves
  <2>1. CASE After
    BY <2>1, FixedThreads, StartMoves DEF After, Steps
  <2>2. CASE BackoffEnds
    BY <2>2, FixedThreads, StepMoves DEF BackoffEnds, FitsAs, Steps
  <2> QED BY <2>1, <2>2
<1>2. SharedOK'
  BY DEF After, BackoffEnds, service, Inv, TypeOK, SharedOK, InterfaceOfProfile
<1> QED BY <1>1, <1>2, OneThreadMoves

\* A thread that works on an interface has one, and knows how to go on.
LEMMA Working ==
  ASSUME Inv, NEW t \in Thread
  PROVE  /\ at[t] \in ThreadState
         /\ at[t].step \in {"discover", "remember", "identity", "bind", "nodes"}
              => /\ at[t].iface \in Interface
                 /\ at[t].next \in {"connected", "health", "file"}
         /\ at[t].step \in {"connected", "file"} => at[t].iface \in Interface
         /\ at[t].step \in {"status", "close"} => at[t].next \in {"after", "join", "idle"}
BY DEF Inv, TypeOK, ThreadsFit, Fits, FitsAs

\* _discover_local_node assigns the local node id, on any thread.
LEMMA DiscoverInv == ASSUME Inv, NEW t \in Thread, Discover(t) PROVE Inv'
<1>1. at[t].iface \in Interface /\ at[t].next \in {"connected", "health", "file"}
  BY Working DEF Discover
<1>2. ThreadMoves
  <2>1. at' = Step(t, "remember") \/ at' = Step(t, "identity")
    BY DEF Discover
  <2>2. "remember" \in Steps /\ "identity" \in Steps
    BY DEF Steps
  <2> QED BY <1>1, <2>1, <2>2, StepMoves DEF FitsAs
<1>3. NodeOf[at[t].iface.profile] \in Node
  BY <1>1, NodeOfAssumption DEF Interface
<1>4. SharedOK'
  BY <1>3 DEF Discover, Inv, TypeOK, SharedOK, InterfaceOfProfile
<1> QED BY <1>2, <1>4, OneThreadMoves

\* remember_local_node changes the selected profile's node and not its id.
LEMMA RememberInv == ASSUME Inv, NEW t \in Thread, Remember(t) PROVE Inv'
<1>1. at[t].iface \in Interface /\ at[t].next \in {"connected", "health", "file"}
  BY Working DEF Remember
<1>2. ThreadMoves
  <2>1. CASE at' = Step(t, "identity")
    BY <1>1, <2>1, StepMoves DEF FitsAs, Steps
  <2>2. CASE at' = Become("worker", Start("take"))
    BY <2>2, FixedThreads, StartMoves DEF Steps
  <2>3. CASE at' = Become(t, Idle)
    BY <2>3, IdleMoves
  <2> QED BY <2>1, <2>2, <2>3 DEF Remember, Failed
<1>3. CASE UNCHANGED <<profile, store>>
  <2>1. SharedOK'
    BY <1>3 DEF Remember, Failed, Inv, TypeOK, SharedOK, InterfaceOfProfile
  <2> QED BY <1>2, <2>1, OneThreadMoves
<1>4. CASE /\ localNode # NoNode
           /\ profile' = [profile EXCEPT !.node = localNode]
           /\ store' = [store EXCEPT !.node[profile.id] = localNode]
  <2>1. profile' \in Chosen /\ profile'.id = profile.id
    BY <1>4 DEF Inv, TypeOK, Chosen
  <2>2. store' \in [active : Profile \cup {None}, node : [Profile -> Node \cup {NoNode}]]
    BY <1>4 DEF Inv, TypeOK
  <2>3. UNCHANGED status
    BY <1>4 DEF Remember, Inv, TypeOK, Chosen
  <2>4. SharedOK'
    BY <2>1, <2>2, <2>3 DEF Remember, Inv, TypeOK, SharedOK, InterfaceOfProfile
  <2> QED BY <1>2, <2>4, OneThreadMoves
<1> QED BY <1>3, <1>4 DEF Remember

\* _sync_channels reads the local node id under its lock.
LEMMA ReadIdentityInv == ASSUME Inv, NEW t \in Thread, ReadIdentity(t) PROVE Inv'
<1>1. at[t].iface \in Interface /\ at[t].next \in {"connected", "health", "file"}
  BY Working DEF ReadIdentity
<1>2. ThreadMoves
  <2>1. CASE localNode = NoNode
    BY <1>1, <2>1, StepMoves DEF ReadIdentity, FitsAs, Steps
  <2>2. CASE localNode # NoNode
    <3> DEFINE s == [Setup(at[t].iface, "bind", at[t].next) EXCEPT !.node = localNode]
    <3>1. Setup(at[t].iface, "bind", at[t].next) \in ThreadState
          /\ Setup(at[t].iface, "bind", at[t].next).step = "bind"
          /\ Setup(at[t].iface, "bind", at[t].next).iface = at[t].iface
          /\ Setup(at[t].iface, "bind", at[t].next).next = at[t].next
      <4>1. at[t].next \in Steps /\ "bind" \in Steps
        BY <1>1 DEF Steps
      <4> QED BY <1>1, <4>1, SetupType
    <3>2. s \in ThreadState /\ s.step = "bind" /\ s.iface = at[t].iface
          /\ s.next = at[t].next
      BY <3>1, FieldType, IdleType DEF Inv, TypeOK
    <3>3. Fits(s)
      <4> HIDE DEF s
      <4> QED BY <1>1, <3>2 DEF Fits, FitsAs
    <3> QED BY <2>2, <3>2, <3>3, BecomeMoves DEF ReadIdentity
  <2> QED BY <2>1, <2>2
<1>3. SharedOK'
  BY DEF ReadIdentity, service, Inv, TypeOK, SharedOK, InterfaceOfProfile
<1> QED BY <1>2, <1>3, OneThreadMoves

\* _sync_channels replaces the bindings, or raises.
LEMMA BindInv == ASSUME Inv, NEW t \in Thread, Bind(t) PROVE Inv'
<1>1. /\ at[t] \in ThreadState
      /\ at[t].iface \in Interface /\ at[t].next \in {"connected", "health", "file"}
  BY Working DEF Bind
<1>2. ThreadMoves
  <2>1. CASE at' = Become(t, Setup(at[t].iface, "file", at[t].next))
    <3>1. "file" \in Steps /\ at[t].next \in Steps
      BY <1>1 DEF Steps
    <3>2. FitsAs("file", at[t].iface, NoProfile, at[t].next)
      BY <1>1 DEF FitsAs
    <3> QED BY <1>1, <2>1, <3>1, <3>2, SetupMoves
  <2>2. CASE at' = Become(t, Setup(at[t].iface, "nodes", at[t].next))
    <3>1. "nodes" \in Steps /\ at[t].next \in Steps
      BY <1>1 DEF Steps
    <3>2. FitsAs("nodes", at[t].iface, NoProfile, at[t].next)
      BY <1>1 DEF FitsAs
    <3> QED BY <1>1, <2>2, <3>1, <3>2, SetupMoves
  <2>3. CASE at' = Become("worker", Start("take"))
    BY <2>3, FixedThreads, StartMoves DEF Steps
  <2>4. CASE at' = Become(t, Idle)
    BY <2>4, IdleMoves
  <2> QED BY <2>1, <2>2, <2>3, <2>4 DEF Bind, Failed
<1>3. SharedOK'
  <2>1. at[t].node \in Node \cup {NoNode}
    BY <1>1 DEF ThreadState
  <2>2. bindings' \in Node \cup {NoNode}
    BY <2>1 DEF Bind
  <2>3. status' = status \/ status' = "feil"
    BY DEF Bind, Failed
  <2>4. UNCHANGED <<store, profile, interface, localNode, stopped, lost, switch, open, filed,
                    connects>>
    BY DEF Bind
  <2> QED BY <2>2, <2>3, <2>4 DEF Inv, TypeOK, SharedOK, InterfaceOfProfile
<1> QED BY <1>2, <1>3, OneThreadMoves

\* _sync_nodes files under a local node id only.
LEMMA SyncNodesInv == ASSUME Inv, NEW t \in Thread, SyncNodes(t) PROVE Inv'
<1>1. at[t].iface \in Interface /\ at[t].next \in {"connected", "health", "file"}
  BY Working DEF SyncNodes
<1>2. ThreadMoves
  BY <1>1, StepMoves DEF SyncNodes, FitsAs, Steps
<1>3. NodeOf[at[t].iface.profile] \in Node
  BY <1>1, NodeOfAssumption DEF Interface
<1>4. filed' \subseteq Node \X Node
  <2>1. localNode # NoNode => <<NodeOf[at[t].iface.profile], localNode>> \in Node \X Node
    BY <1>3 DEF Inv, TypeOK
  <2>2. filed \subseteq Node \X Node
    BY DEF Inv, TypeOK
  <2> QED BY <2>1, <2>2 DEF SyncNodes
<1>5. SharedOK'
  BY <1>4 DEF SyncNodes, service, Inv, TypeOK, SharedOK, InterfaceOfProfile
<1> QED BY <1>2, <1>5, OneThreadMoves

\* The thread that has set up an interface reports "tilkopla".
LEMMA SetConnectedInv == ASSUME Inv, NEW t \in Thread, SetConnected(t) PROVE Inv'
<1>1. at[t].iface \in Interface
  BY Working DEF SetConnected
<1>2. ThreadMoves
  <2>1. CASE t = "worker"
    BY <1>1, <2>1, StepMoves DEF SetConnected, FitsAs, Steps
  <2>2. CASE t # "worker"
    BY <2>2, IdleMoves DEF SetConnected
  <2> QED BY <2>1, <2>2
<1>3. SharedOK'
  BY DEF SetConnected, Inv, TypeOK, SharedOK, InterfaceOfProfile
<1> QED BY <1>2, <1>3, OneThreadMoves

\* interface.close(), on any thread.
LEMMA CloseInv == ASSUME Inv, NEW t \in Thread, Close(t) PROVE Inv'
<1>1. at[t].next \in {"after", "join", "idle"}
  BY Working DEF Close
<1>2. ThreadMoves
  BY <1>1, StartMoves DEF Close, Steps
<1>3. SharedOK'
  BY DEF Close, service, Inv, TypeOK, SharedOK, InterfaceOfProfile
<1> QED BY <1>2, <1>3, OneThreadMoves

\* A callback that starts has compared its interface with the published one.
LEMMA CallbackInv == ASSUME Inv, Callback PROVE Inv'
<1>1. interface \in Interface
  BY DEF Callback, OnConnection, OnLost, OnReceive, Inv, TypeOK
<1>2. ThreadMoves
  <2>1. CASE OnLost
    BY <2>1, FixedThreads, StartMoves DEF OnLost, Steps
  <2>2. CASE OnConnection
    BY <1>1, <2>2, FixedThreads, SetupMoves DEF OnConnection, FitsAs, Steps
  <2>3. CASE at' = Become("publisher", Setup(interface, "identity", "file"))
    BY <1>1, <2>3, FixedThreads, SetupMoves DEF FitsAs, Steps
  <2>4. CASE at' = Become("publisher", Setup(interface, "file", "file"))
    BY <1>1, <2>4, FixedThreads, SetupMoves DEF FitsAs, Steps
  <2> QED BY <2>1, <2>2, <2>3, <2>4 DEF Callback, OnReceive
<1>3. SharedOK'
  BY DEF Callback, OnConnection, OnLost, OnReceive, service, Inv, TypeOK, SharedOK,
         InterfaceOfProfile
<1> QED BY <1>2, <1>3, OneThreadMoves

\* The end of _on_lost and of _on_receive.
LEMMA PublisherInv == ASSUME Inv, SetLost \/ File PROVE Inv'
<1>1. ThreadMoves
  BY FixedThreads, IdleMoves DEF SetLost, File
<1>2. CASE SetLost
  <2>1. SharedOK'
    BY <1>2 DEF SetLost, Inv, TypeOK, SharedOK, InterfaceOfProfile
  <2> QED BY <1>1, <2>1, OneThreadMoves
<1>3. CASE File
  <2>1. at["publisher"].iface \in Interface
    BY <1>3, FixedThreads, Working DEF File
  <2>2. NodeOf[at["publisher"].iface.profile] \in Node
    BY <2>1, NodeOfAssumption DEF Interface
  <2>3. filed' \subseteq Node \X Node
    <3>1. localNode # NoNode =>
            <<NodeOf[at["publisher"].iface.profile], localNode>> \in Node \X Node
      BY <2>2 DEF Inv, TypeOK
    <3>2. filed \subseteq Node \X Node
      BY DEF Inv, TypeOK
    <3> QED BY <1>3, <3>1, <3>2 DEF File
  <2>4. SharedOK'
    BY <1>3, <2>3 DEF File, service, Inv, TypeOK, SharedOK, InterfaceOfProfile
  <2> QED BY <1>1, <2>4, OneThreadMoves
<1> QED BY <1>2, <1>3

\* connect() reads the profile it was asked for.
LEMMA ConnectInv == ASSUME Inv, NEW c \in Client, Connect(c) PROVE Inv'
<1> DEFINE chosen(p, byTarget) ==
             [id |-> p, node |-> IF byTarget THEN NoNode ELSE store.node[p]]
           s(p, byTarget) == [Start("save") EXCEPT !.profile = chosen(p, byTarget)]
<1>1. PICK p \in Profile, byTarget \in BOOLEAN : at' = Become(c, s(p, byTarget))
  BY DEF Connect
<1>2. chosen(p, byTarget) \in Chosen
  BY DEF Chosen, Inv, TypeOK
<1>3. s(p, byTarget) \in ThreadState /\ s(p, byTarget).step = "save"
  <2>1. Start("save") \in ThreadState /\ Start("save").step = "save"
    BY StartType DEF Steps
  <2> HIDE DEF chosen
  <2> QED BY <1>2, <2>1, FieldType
<1>4. Fits(s(p, byTarget))
  <2> HIDE DEF s
  <2> QED BY <1>3 DEF Fits, FitsAs
<1>5. ThreadMoves
  BY <1>1, <1>3, <1>4, FixedThreads, BecomeMoves
<1>6. connects' \in 0..MaxConnects
  <2>1. MaxConnects \in Nat /\ connects \in 0..MaxConnects
    BY BoundAssumption DEF Inv, TypeOK
  <2>2. connects < MaxConnects /\ connects' = connects + 1
    BY DEF Connect
  <2> QED BY <2>1, <2>2
<1>7. SharedOK'
  BY <1>6 DEF Connect, service, Inv, TypeOK, SharedOK, InterfaceOfProfile
<1> QED BY <1>5, <1>7, OneThreadMoves

\* The later steps of connect(): it replaces the profile and takes the interface at once.
LEMMA HandlerInv ==
  ASSUME Inv, NEW c \in Client, SaveAndActivate(c) \/ Swap(c) \/ SetConnecting(c)
  PROVE  Inv'
<1>1. c \in Thread /\ at[c] \in ThreadState /\ at[c].profile \in Chosen
  BY FixedThreads DEF Inv, TypeOK, ThreadState
<1>2. CASE SaveAndActivate(c)
  <2>1. ThreadMoves
    BY <1>1, <1>2, StepMoves DEF SaveAndActivate, FitsAs, Steps
  <2>2. store' \in [active : Profile \cup {None}, node : [Profile -> Node \cup {NoNode}]]
    BY <1>1, <1>2 DEF SaveAndActivate, Chosen, Inv, TypeOK
  <2>3. SharedOK'
    BY <1>2, <2>2 DEF SaveAndActivate, service, Inv, TypeOK, SharedOK, InterfaceOfProfile
  <2> QED BY <2>1, <2>3, OneThreadMoves
<1>3. CASE Swap(c)
  <2>1. ThreadMoves
    <3>1. CASE at' = Become(c, Idle)
      BY <1>1, <3>1, IdleMoves
    <3>2. CASE at' = Become(c, Setup(interface, "status", "idle"))
      <4>1. interface \in Interface \cup {None} /\ "status" \in Steps /\ "idle" \in Steps
        BY DEF Steps, Inv, TypeOK
      <4>2. FitsAs("status", interface, NoProfile, "idle")
        BY DEF FitsAs
      <4> QED BY <1>1, <3>2, <4>1, <4>2, SetupMoves
    <3> QED BY <1>3, <3>1, <3>2 DEF Swap
  <2>2. SharedOK'
    BY <1>1, <1>3 DEF Swap, Inv, TypeOK, SharedOK, InterfaceOfProfile
  <2> QED BY <2>1, <2>2, OneThreadMoves
<1>4. CASE SetConnecting(c)
  <2>1. ThreadMoves
    <3>1. CASE at[c].iface = None
      BY <1>1, <1>4, <3>1, IdleMoves DEF SetConnecting
    <3>2. CASE at[c].iface # None
      <4>1. at[c].iface \in Interface /\ at[c].next \in {"after", "join", "idle"}
        BY <1>1, <1>4, <3>2, Working DEF SetConnecting, ThreadState
      <4> QED BY <1>1, <1>4, <3>2, <4>1, StepMoves DEF SetConnecting, FitsAs, Steps
    <3> QED BY <3>1, <3>2
  <2>2. SharedOK'
    BY <1>4 DEF SetConnecting, Inv, TypeOK, SharedOK, InterfaceOfProfile
  <2> QED BY <2>1, <2>2, OneThreadMoves
<1> QED BY <1>2, <1>3, <1>4

\* The steps of stop() other than closing the interface.
LEMMA StopInv == ASSUME Inv, Stop \/ TakeLast \/ Join PROVE Inv'
<1>1. CASE Stop
  <2>1. ThreadMoves
    BY <1>1, FixedThreads, StartMoves DEF Stop, Steps
  <2>2. SharedOK'
    BY <1>1 DEF Stop, Inv, TypeOK, SharedOK, InterfaceOfProfile
  <2> QED BY <2>1, <2>2, OneThreadMoves
<1>2. CASE TakeLast
  <2>1. ThreadMoves
    <3>1. CASE interface = None
      BY <1>2, <3>1, FixedThreads, StartMoves DEF TakeLast, Steps
    <3>2. CASE interface # None
      <4>1. interface \in Interface
        BY <3>2 DEF Inv, TypeOK
      <4> QED BY <1>2, <3>2, <4>1, FixedThreads, SetupMoves DEF TakeLast, Steps, FitsAs
    <3> QED BY <3>1, <3>2
  <2>2. SharedOK'
    BY <1>2 DEF TakeLast, Inv, TypeOK, SharedOK, InterfaceOfProfile
  <2> QED BY <2>1, <2>2, OneThreadMoves
<1>3. CASE Join
  <2>1. ThreadMoves
    BY <1>3, FixedThreads, IdleMoves DEF Join
  <2>2. SharedOK'
    BY <1>3 DEF Join, Inv, TypeOK, SharedOK, InterfaceOfProfile
  <2> QED BY <2>1, <2>2, OneThreadMoves
<1> QED BY <1>1, <1>2, <1>3

\* A step that changes nothing.
LEMMA StutterInv == ASSUME Inv, UNCHANGED vars PROVE Inv'
BY DEF Inv, TypeOK, ThreadsFit, Fits, InterfaceOfProfile, vars, service

-----------------------------------------------------------------------------
(* The theorems *)

\* The daemon starts in a state that satisfies the inductive invariant.
LEMMA InitInv == Init => Inv
<1> SUFFICES ASSUME Init PROVE Inv
  OBVIOUS
<1>1. PICK p \in Profile \cup {None} :
        /\ store = [active |-> p, node |-> [q \in Profile |-> NoNode]]
        /\ profile = [NoProfile EXCEPT !.id = p]
        /\ status = IF p = None THEN "ingen node" ELSE "frakopla"
  BY DEF Init
<1>2. profile \in Chosen
  BY <1>1 DEF NoProfile, Chosen
<1>3. /\ Start("top") \in ThreadState /\ Start("top").step = "top"
      /\ Idle \in ThreadState /\ Idle.step = "idle"
  BY StartType, IdleType DEF Steps
<1>4. at \in [Thread -> ThreadState] /\ ThreadsFit
  BY <1>3 DEF Init, ThreadsFit, Fits, FitsAs
<1>5. connects \in 0..MaxConnects
  <2>1. MaxConnects \in Nat /\ connects = 0
    BY BoundAssumption DEF Init
  <2> QED BY <2>1
<1> QED BY <1>1, <1>2, <1>4, <1>5 DEF Init, Inv, TypeOK, InterfaceOfProfile

\* Every step of a thread, of a client or of stop() preserves it.
LEMMA NextInv == Inv /\ [Next]_vars => Inv'
<1> SUFFICES ASSUME Inv, [Next]_vars PROVE Inv'
  OBVIOUS
<1>1. ASSUME NEW t \in Thread, Synchronise(t) PROVE Inv'
  BY <1>1, DiscoverInv, RememberInv, ReadIdentityInv, BindInv, SyncNodesInv,
     SetConnectedInv DEF Synchronise
<1>2. CASE Worker
  BY <1>1, <1>2, FixedThreads, TopInv, ReadProfileInv, SelectedInv, CreateInv,
     CreateFailsInv, PublishInv, HealthInv, TakeInv, AfterInv, CloseInv DEF Worker
<1>3. CASE Publisher
  BY <1>1, <1>3, FixedThreads, PublisherInv DEF Publisher
<1>4. CASE Callback
  BY <1>4, CallbackInv
<1>5. ASSUME NEW c \in Client, Connect(c) \/ Handler(c) PROVE Inv'
  BY <1>5, FixedThreads, ConnectInv, HandlerInv, CloseInv DEF Handler
<1>6. CASE Stop \/ Stopper
  BY <1>6, FixedThreads, StopInv, CloseInv DEF Stopper
<1>7. CASE UNCHANGED vars
  BY <1>7, StutterInv
<1> QED BY <1>2, <1>3, <1>4, <1>5, <1>6, <1>7 DEF Next

\* All variables of the connection state keep their types: in particular nothing
\* is ever filed without a local node to file it under.
THEOREM TypeCorrect == Spec => []TypeOK
<1>1. Inv => TypeOK
  BY DEF Inv
<1> QED BY InitInv, NextInv, <1>1, PTL DEF Spec

\* The published interface leads to the radio of the selected profile, whatever
\* the number of clients that switch profiles at the same time.
THEOREM InterfaceFollowsProfile == Spec => []InterfaceOfProfile
<1>1. Inv => InterfaceOfProfile
  BY DEF Inv
<1> QED BY InitInv, NextInv, <1>1, PTL DEF Spec

-----------------------------------------------------------------------------
(* Ownership: no connection to a radio is forgotten and none is closed twice *)

\* The state of a thread that will publish or close an interface.
Holding(s) == s.step \in {"publish", "status", "close"} /\ s.iface # None

\* Where the worker is between taking the interface and publishing the next one.
Between == {"top", "read", "unselected", "create", "publish", "close", "after", "backoff",
            "done"}

\* What a thread will publish or close is open, not published and in its hands alone.
HeldAlone ==
  /\ \A t \in Thread : Holding(at[t]) => at[t].iface \in open /\ at[t].iface # interface
  /\ \A t, u \in Thread :
       Holding(at[t]) /\ Holding(at[u]) /\ t # u => at[t].iface # at[u].iface

\* What is open is published or held.
NoneForgotten ==
  /\ interface # None => interface \in open
  /\ \A i \in open : i = interface \/ \E t \in Thread : Holding(at[t]) /\ at[t].iface = i

\* The worker publishes where nothing is published: else it would forget what was.
WorkerBetween == at["worker"].step \in Between => interface = None

Owned == HeldAlone /\ NoneForgotten /\ WorkerBetween

-----------------------------------------------------------------------------
(* Lemmas *)

\* A thread that holds nothing before and after, while nothing else changes.
LEMMA QuietMove ==
  ASSUME Inv, Owned, NEW t \in Thread, NEW s,
         at' = [at EXCEPT ![t] = s], ~ Holding(at[t]), ~ Holding(s),
         t = "worker" /\ s.step \in Between => interface = None,
         UNCHANGED <<interface, open>>
  PROVE  Owned'
<1>1. at'[t] = s /\ \A u \in Thread \ {t} : at'[u] = at[u]
  BY DEF Inv, TypeOK
<1>2. HeldAlone'
  BY <1>1 DEF Owned, HeldAlone
<1>3. NoneForgotten'
  BY <1>1 DEF Owned, NoneForgotten
<1>4. WorkerBetween'
  BY <1>1, FixedThreads DEF Owned, WorkerBetween
<1> QED BY <1>2, <1>3, <1>4 DEF Owned

\* A thread takes the published interface to close it.
LEMMA Taken ==
  ASSUME Inv, Owned, NEW t \in Thread, NEW s,
         at' = [at EXCEPT ![t] = s], ~ Holding(at[t]), Holding(s), s.iface = interface,
         interface' = None, open' = open
  PROVE  Owned'
<1>1. at'[t] = s /\ \A u \in Thread \ {t} : at'[u] = at[u]
  BY DEF Inv, TypeOK
<1>2. interface \in open /\ \A u \in Thread : Holding(at[u]) => at[u].iface # interface
  BY DEF Owned, HeldAlone, NoneForgotten, Holding
<1>3. HeldAlone'
  BY <1>1, <1>2 DEF Owned, HeldAlone, Holding
<1>4. NoneForgotten'
  BY <1>1 DEF Owned, NoneForgotten
<1>5. WorkerBetween'
  BY DEF WorkerBetween
<1> QED BY <1>3, <1>4, <1>5 DEF Owned

\* A thread closes what it holds.
LEMMA Closed ==
  ASSUME Inv, Owned, NEW t \in Thread, NEW s,
         at' = [at EXCEPT ![t] = s], Holding(at[t]), ~ Holding(s),
         t = "worker" => interface = None \/ s.step \notin Between,
         open' = open \ {at[t].iface}, interface' = interface
  PROVE  Owned'
<1>1. at'[t] = s /\ \A u \in Thread \ {t} : at'[u] = at[u]
  BY DEF Inv, TypeOK
<1>2. HeldAlone'
  BY <1>1 DEF Owned, HeldAlone
<1>3. NoneForgotten'
  BY <1>1 DEF Owned, HeldAlone, NoneForgotten
<1>4. WorkerBetween'
  BY <1>1, FixedThreads DEF Owned, WorkerBetween
<1> QED BY <1>2, <1>3, <1>4 DEF Owned

\* A client is not the worker.
LEMMA Clients == \A c \in Client : c # "worker" /\ c # "stopper" /\ c # "publisher"
BY ThreadAssumption

\* The two forms of a quiet move.
LEMMA QuietStep ==
  ASSUME Inv, Owned, NEW t \in Thread, NEW step \in Steps, at' = Step(t, step),
         at[t].step \notin {"publish", "status", "close"},
         step \notin {"publish", "status", "close"},
         t = "worker" /\ step \in Between => interface = None,
         UNCHANGED <<interface, open>>
  PROVE  Owned'
<1> DEFINE s == [at[t] EXCEPT !.step = step]
<1>1. at[t] \in ThreadState
  BY DEF Inv, TypeOK
<1>2. s.step = step
  BY <1>1, StepType
<1>3. at' = [at EXCEPT ![t] = s]
  BY DEF Step
<1> HIDE DEF s
<1> QED BY <1>2, <1>3, QuietMove DEF Holding

\* The second form: a thread's state is replaced.
LEMMA QuietBecome ==
  ASSUME Inv, Owned, NEW t \in Thread, NEW s, at' = Become(t, s),
         at[t].step \notin {"publish", "status", "close"},
         s.step \notin {"publish", "status", "close"},
         t = "worker" /\ s.step \in Between => interface = None,
         UNCHANGED <<interface, open>>
  PROVE  Owned'
BY QuietMove DEF Holding, Become

\* The states that the helpers of the model make.
LEMMA Shapes ==
  /\ \A step \in Steps : Start(step).step = step
  /\ Idle.step = "idle"
  /\ \A i \in Interface \cup {None} : \A step, next \in Steps :
       Setup(i, step, next).step = step /\ Setup(i, step, next).iface = i
BY StartType, IdleType, SetupType

-----------------------------------------------------------------------------
(* The worker's actions preserve Owned *)

\* A round of _run up to the attempt to connect, and its failure.
LEMMA RoundOwned ==
  ASSUME Inv, Owned, Top \/ ReadProfile \/ Selected \/ CreateFails
  PROVE  Owned'
<1>1. CASE Top
  <2>1. interface = None
    BY <1>1 DEF Top, Owned, WorkerBetween, Between
  <2>2. at' = Step("worker", "done") \/ at' = Step("worker", "read")
    BY <1>1 DEF Top
  <2>3. at["worker"].step = "top" /\ UNCHANGED <<interface, open>>
    BY <1>1 DEF Top
  <2> QED BY <2>1, <2>2, <2>3, FixedThreads, QuietStep DEF Steps
<1>2. CASE ReadProfile
  <2>1. interface = None /\ at["worker"].step = "read" /\ UNCHANGED <<interface, open>>
    BY <1>2 DEF ReadProfile, Owned, WorkerBetween, Between
  <2>2. CASE at' = Step("worker", "unselected")
    BY <2>1, <2>2, FixedThreads, QuietStep DEF Steps
  <2>3. CASE at' = Become("worker", [Start("create") EXCEPT !.profile = profile])
    <3> DEFINE s == [Start("create") EXCEPT !.profile = profile]
    <3>1. profile \in Chosen /\ "create" \in Steps
      BY DEF Inv, TypeOK, Steps
    <3>2. s.step = "create"
      BY <3>1, StartType, FieldType, IdleType
    <3>3. at' = Become("worker", s)
      BY <2>3
    <3> HIDE DEF s
    <3> QED BY <2>1, <3>2, <3>3, FixedThreads, QuietBecome
  <2> QED BY <1>2, <2>2, <2>3 DEF ReadProfile
<1>3. CASE Selected
  <2>1. interface = None /\ at["worker"].step = "unselected" /\ UNCHANGED <<interface, open>>
    BY <1>3 DEF Selected, Owned, WorkerBetween, Between
  <2> QED BY <1>3, <2>1, FixedThreads, QuietStep DEF Selected, Steps
<1>4. CASE CreateFails
  <2>1. at["worker"].step = "create" /\ UNCHANGED <<interface, open>>
        /\ at' = Become("worker", Start("take"))
    BY <1>4 DEF CreateFails, Failed
  <2>2. Start("take").step = "take"
    BY Shapes DEF Steps
  <2> QED BY <2>1, <2>2, FixedThreads, QuietBecome DEF Between
<1> QED BY <1>1, <1>2, <1>3, <1>4

\* _create_interface returns an object that nobody else has.
LEMMA CreateOwned == ASSUME Inv, Owned, Create PROVE Owned'
<1> DEFINE new(n) == [profile |-> at["worker"].profile.id, number |-> n]
           s(n) == [Setup(new(n), "publish", "idle") EXCEPT !.profile = at["worker"].profile]
<1>1. PICK n \in 1..MaxInterfaces :
        /\ n \notin Numbers
        /\ open' = open \cup {new(n)} /\ at' = Become("worker", s(n))
  BY DEF Create
<1>2. at["worker"] \in ThreadState /\ Fits(at["worker"]) /\ at["worker"].step = "create"
  BY FixedThreads DEF Create, Inv, TypeOK, ThreadsFit
<1>3. at["worker"].profile \in Chosen /\ at["worker"].profile.id \in Profile
  BY <1>2 DEF ThreadState, Fits, FitsAs
<1>4. new(n) \in Interface /\ new(n).number = n
  BY <1>3 DEF Interface
<1>5. new(n) # None
  BY <1>4, NoneAssumption DEF Interface
<1>6. new(n) \notin Used
  BY <1>1, <1>4, <1>5 DEF Numbers
<1>7. s(n).step = "publish" /\ s(n).iface = new(n)
  <2>1. /\ Setup(new(n), "publish", "idle") \in ThreadState
        /\ Setup(new(n), "publish", "idle").step = "publish"
        /\ Setup(new(n), "publish", "idle").iface = new(n)
    <3>1. new(n) \in Interface \cup {None} /\ "publish" \in Steps /\ "idle" \in Steps
      BY <1>4 DEF Steps
    <3> HIDE DEF new
    <3> QED BY <3>1, SetupType
  <2> HIDE DEF new
  <2> QED BY <1>3, <2>1, FieldType, IdleType
<1>8. interface' = interface /\ interface = None
  BY <1>2 DEF Create, service, Owned, WorkerBetween, Between
<1> HIDE DEF new, s
<1>9. at'["worker"] = s(n) /\ \A u \in Thread \ {"worker"} : at'[u] = at[u]
  BY <1>1, FixedThreads DEF Become, Inv, TypeOK
<1>10. \A u \in Thread : Holding(at[u]) => at[u].iface # new(n)
  BY <1>6 DEF Used
<1>11. HeldAlone'
  BY <1>1, <1>5, <1>7, <1>8, <1>9, <1>10 DEF Owned, HeldAlone
<1>12. NoneForgotten'
  <2>1. Holding(at'["worker"]) /\ at'["worker"].iface = new(n)
    BY <1>5, <1>7, <1>9 DEF Holding
  <2>2. ~ Holding(at["worker"])
    BY <1>2 DEF Holding
  <2> QED BY <1>1, <1>8, <1>9, <2>1, <2>2, FixedThreads DEF Owned, NoneForgotten
<1>13. WorkerBetween'
  BY <1>8 DEF WorkerBetween
<1> QED BY <1>11, <1>12, <1>13 DEF Owned

\* The new interface is published where there is none, or closed.
LEMMA PublishOwned == ASSUME Inv, Owned, Publish PROVE Owned'
<1> DEFINE me == at["worker"]
<1>1. /\ me.step = "publish" /\ me.iface \in Interface
      /\ me.iface # None /\ interface = None
  <2>1. me.step = "publish"
    BY DEF Publish
  <2>2. me.iface \in Interface
    BY <2>1, FixedThreads DEF Inv, TypeOK, ThreadsFit, Fits, FitsAs
  <2> QED BY <2>1, <2>2, NoneAssumption DEF Interface, Owned, WorkerBetween, Between
<1>2. Holding(me)
  BY <1>1 DEF Holding
<1>3. CASE open' = open \ {me.iface} /\ at' = Become("worker", Start("take"))
           /\ interface' = interface
  <2>1. Start("take").step = "take"
    BY Shapes DEF Steps
  <2>2. ~ Holding(Start("take"))
    BY <2>1 DEF Holding
  <2> QED BY <1>1, <1>2, <1>3, <2>2, FixedThreads, Closed DEF Become
<1>4. CASE open' = open /\ interface' = me.iface
           /\ at' = Become("worker", Setup(me.iface, "discover", "connected"))
  <2> DEFINE s == Setup(me.iface, "discover", "connected")
  <2>1. s.step = "discover"
    BY <1>1, Shapes DEF Steps
  <2> HIDE DEF s
  <2>2. at'["worker"] = s /\ \A u \in Thread \ {"worker"} : at'[u] = at[u]
    BY <1>4, FixedThreads DEF Become, Inv, TypeOK, s
  <2>3. ~ Holding(at'["worker"])
    BY <2>1, <2>2 DEF Holding
  <2>4. HeldAlone'
    BY <1>2, <1>4, <2>2, <2>3, FixedThreads DEF Owned, HeldAlone
  <2>5. NoneForgotten'
    <3>1. me.iface \in open
      BY <1>2, FixedThreads DEF Owned, HeldAlone
    <3>2. ASSUME NEW i \in open', i # me.iface
          PROVE  \E u \in Thread : Holding(at'[u]) /\ at'[u].iface = i
      <4>1. i \in open /\ i # interface
        <5>1. i \in open
          BY <1>4, <3>2
        <5>2. i # None
          BY <5>1, NoneAssumption DEF Inv, TypeOK, Interface
        <5> QED BY <1>1, <5>1, <5>2
      <4>2. PICK u \in Thread : Holding(at[u]) /\ at[u].iface = i
        BY <4>1 DEF Owned, NoneForgotten
      <4>3. u # "worker"
        BY <3>2, <4>2
      <4> QED BY <2>2, <4>2, <4>3
    <3> QED BY <1>4, <3>1, <3>2 DEF NoneForgotten
  <2>6. WorkerBetween'
    BY <2>1, <2>2 DEF WorkerBetween, Between
  <2> QED BY <2>4, <2>5, <2>6 DEF Owned
<1> QED BY <1>3, <1>4 DEF Publish

\* A round of the health loop, or its end.
LEMMA HealthOwned ==
  ASSUME Inv, Owned, HealthCheck \/ ReaderStopped \/ HealthEnds
  PROVE  Owned'
<1>1. at["worker"].step = "health" /\ UNCHANGED <<interface, open>>
  BY DEF HealthCheck, ReaderStopped, HealthEnds, service
<1>2. at["worker"].iface \in Interface
  BY <1>1, FixedThreads DEF Inv, TypeOK, ThreadsFit, Fits, FitsAs
<1>3. /\ Setup(at["worker"].iface, "identity", "health").step = "identity"
      /\ Start("take").step = "take"
  BY <1>2, Shapes DEF Steps
<1>4. \/ at' = Become("worker", Setup(at["worker"].iface, "identity", "health"))
      \/ at' = Become("worker", Start("take"))
  BY DEF HealthCheck, ReaderStopped, HealthEnds
<1> QED BY <1>1, <1>3, <1>4, FixedThreads, QuietBecome DEF Between

\* The finally clause of _run takes the published interface.
LEMMA TakeOwned == ASSUME Inv, Owned, Take PROVE Owned'
<1>1. at["worker"].step = "take" /\ interface' = None /\ open' = open
  BY DEF Take
<1>2. CASE interface = None
  <2>1. Start("after").step = "after" /\ at' = Become("worker", Start("after"))
    BY <1>2, Shapes DEF Take, Steps
  <2>2. interface' = interface
    BY <1>1, <1>2
  <2> QED BY <1>1, <1>2, <2>1, <2>2, FixedThreads, QuietBecome
<1>3. CASE interface # None
  <2> DEFINE s == Setup(interface, "close", "after")
  <2>1. s.step = "close" /\ s.iface = interface
    <3>1. interface \in Interface \cup {None}
      BY DEF Inv, TypeOK
    <3>2. "close" \in Steps /\ "after" \in Steps
      BY DEF Steps
    <3> QED BY <3>1, <3>2, SetupType
  <2>2. at' = [at EXCEPT !["worker"] = s]
    BY <1>3 DEF Take, Become
  <2> HIDE DEF s
  <2> QED BY <1>1, <1>3, <2>1, <2>2, FixedThreads, Taken DEF Holding
<1> QED BY <1>2, <1>3

\* The end of a round of _run.
LEMMA AfterOwned == ASSUME Inv, Owned, After \/ BackoffEnds PROVE Owned'
<1>1. /\ at["worker"].step \in {"after", "backoff"} /\ UNCHANGED <<interface, open>>
      /\ interface = None
  BY DEF After, BackoffEnds, service, Owned, WorkerBetween, Between
<1>2. CASE After
  <2>1. \E step \in {"done", "top", "backoff"} : at' = Become("worker", Start(step))
    BY <1>2 DEF After
  <2>2. \A step \in {"done", "top", "backoff"} : Start(step).step = step
    BY Shapes DEF Steps
  <2> QED BY <1>1, <2>1, <2>2, FixedThreads, QuietBecome
<1>3. CASE BackoffEnds
  BY <1>1, <1>3, FixedThreads, QuietStep DEF BackoffEnds, Steps
<1> QED BY <1>2, <1>3

-----------------------------------------------------------------------------
(* Synchronisation, closing and callbacks preserve Owned, on every thread *)

\* Synchronising the radio's data neither takes nor closes an interface.
LEMMA SyncOwned == ASSUME Inv, Owned, NEW t \in Thread, Synchronise(t) PROVE Owned'
<1> DEFINE quiet == Steps \ ({"publish", "status", "close"} \cup Between)
<1>1. /\ {"remember", "identity", "bind", "nodes", "connected", "health", "file", "take",
          "idle"} \subseteq quiet
      /\ quiet \subseteq Steps
  BY DEF Steps, Between
<1>2. /\ at[t].step \in {"discover", "remember", "identity", "bind", "nodes", "connected"}
      /\ UNCHANGED <<interface, open>>
  BY DEF Synchronise, Discover, Remember, ReadIdentity, Bind, SyncNodes, SetConnected,
         service
<1>3. ASSUME NEW step \in quiet, at' = Step(t, step) PROVE Owned'
  BY <1>1, <1>2, <1>3, QuietStep
<1>4. ASSUME NEW s, s.step \in quiet, at' = Become(t, s) PROVE Owned'
  BY <1>1, <1>2, <1>4, QuietBecome
<1>5. ASSUME at' = Become(t, Idle) \/ at' = Become(t, Start("take")) PROVE Owned'
  <2>1. Idle.step \in quiet /\ Start("take").step \in quiet
    BY <1>1, IdleType, StartType
  <2> HIDE DEF quiet
  <2> QED BY <1>4, <1>5, <2>1
<1> HIDE DEF quiet
<1>6. CASE Discover(t)
  BY <1>1, <1>3, <1>6 DEF Discover
<1>7. CASE Remember(t)
  BY <1>1, <1>3, <1>5, <1>7 DEF Remember, Failed
<1>8. CASE ReadIdentity(t)
  <2>1. CASE localNode = NoNode
    BY <1>1, <1>3, <1>8, <2>1 DEF ReadIdentity
  <2>2. CASE localNode # NoNode
    <3> DEFINE s == [Setup(at[t].iface, "bind", at[t].next) EXCEPT !.node = localNode]
    <3>1. /\ Setup(at[t].iface, "bind", at[t].next) \in ThreadState
          /\ Setup(at[t].iface, "bind", at[t].next).step = "bind"
      <4>1. at[t].iface \in Interface /\ at[t].next \in {"connected", "health", "file"}
        BY <1>8, Working DEF ReadIdentity
      <4>2. "bind" \in Steps /\ at[t].next \in Steps
        BY <4>1 DEF Steps
      <4> QED BY <4>1, <4>2, SetupType
    <3>2. s.step = "bind"
      BY <3>1, FieldType, IdleType DEF Inv, TypeOK
    <3>3. at' = Become(t, s)
      BY <1>8, <2>2 DEF ReadIdentity
    <3> HIDE DEF s
    <3> QED BY <1>1, <1>4, <3>2, <3>3
  <2> QED BY <2>1, <2>2
<1>9. CASE Bind(t)
  <2>1. \A step \in {"file", "nodes"} : Setup(at[t].iface, step, at[t].next).step \in quiet
    <3>1. at[t].iface \in Interface /\ at[t].next \in {"connected", "health", "file"}
      BY <1>9, Working DEF Bind
    <3>2. at[t].next \in Steps
      BY <3>1 DEF Steps
    <3> QED BY <1>1, <3>1, <3>2, SetupType
  <2> QED BY <1>4, <1>5, <1>9, <2>1 DEF Bind, Failed
<1>10. CASE SyncNodes(t)
  <2>1. at[t].next \in quiet
    BY <1>1, <1>10, Working DEF SyncNodes
  <2> QED BY <1>3, <1>10, <2>1 DEF SyncNodes
<1>11. CASE SetConnected(t)
  BY <1>1, <1>3, <1>5, <1>11 DEF SetConnected
<1> QED BY <1>6, <1>7, <1>8, <1>9, <1>10, <1>11 DEF Synchronise

\* interface.close(), on any thread.
LEMMA CloseOwned == ASSUME Inv, Owned, NEW t \in Thread, Close(t) PROVE Owned'
<1>1. /\ at[t].step = "close" /\ open' = open \ {at[t].iface} /\ interface' = interface
      /\ at' = [at EXCEPT ![t] = Start(at[t].next)]
  BY DEF Close, service, Become
<1>2. at[t].iface \in Interface /\ at[t].next \in {"after", "join", "idle"}
  BY <1>1 DEF Inv, TypeOK, ThreadsFit, Fits, FitsAs
<1>3. Holding(at[t])
  BY <1>1, <1>2, NoneAssumption DEF Holding, Interface
<1>4. Start(at[t].next).step = at[t].next
  BY <1>2, StartType DEF Steps
<1>5. ~ Holding(Start(at[t].next))
  BY <1>2, <1>4 DEF Holding
<1>6. t = "worker" => interface = None
  BY <1>1 DEF Owned, WorkerBetween, Between
<1> QED BY <1>1, <1>3, <1>5, <1>6, Closed

\* The SDK's callbacks read the published interface and take nothing.
LEMMA CallbackOwned ==
  ASSUME Inv, Owned, Callback \/ SetLost \/ File
  PROVE  Owned'
<1>1. /\ at["publisher"].step \in {"idle", "lost", "file"}
      /\ UNCHANGED <<interface, open>>
  BY IdleType DEF Callback, OnConnection, OnLost, OnReceive, SetLost, File, service
<1>2. ASSUME NEW s, s.step \in {"idle", "lost", "discover", "identity", "file"},
             at' = Become("publisher", s)
      PROVE  Owned'
  BY <1>1, <1>2, FixedThreads, QuietBecome
<1>3. Idle.step = "idle" /\ Start("lost").step = "lost"
  BY IdleType, StartType DEF Steps
<1>4. \A step \in {"discover", "identity", "file"}, next \in {"connected", "file"} :
        Setup(interface, step, next).step = step
  <2>1. interface \in Interface \cup {None}
    BY DEF Inv, TypeOK
  <2>2. ASSUME NEW step \in {"discover", "identity", "file"},
               NEW next \in {"connected", "file"}
        PROVE  Setup(interface, step, next).step = step
    <3>1. step \in Steps /\ next \in Steps
      BY <2>2 DEF Steps
    <3> QED BY <2>1, <3>1, SetupType
  <2> QED BY <2>2
<1> QED BY <1>2, <1>3, <1>4 DEF Callback, OnConnection, OnLost, OnReceive, SetLost, File

-----------------------------------------------------------------------------
(* Clients and stop() preserve Owned *)

\* connect() up to the swap.
LEMMA ConnectOwned ==
  ASSUME Inv, Owned, NEW c \in Client, Connect(c) \/ SaveAndActivate(c)
  PROVE  Owned'
<1>1. at[c].step \in {"idle", "save"} /\ UNCHANGED <<interface, open>> /\ c \in Thread
  BY IdleType, FixedThreads DEF Connect, SaveAndActivate, service
<1>2. CASE Connect(c)
  <2> DEFINE chosen(p, byTarget) ==
               [id |-> p, node |-> IF byTarget THEN NoNode ELSE store.node[p]]
             s(p, byTarget) == [Start("save") EXCEPT !.profile = chosen(p, byTarget)]
  <2>1. PICK p \in Profile, byTarget \in BOOLEAN : at' = Become(c, s(p, byTarget))
    BY <1>2 DEF Connect
  <2>2. chosen(p, byTarget) \in Chosen
    BY DEF Chosen, Inv, TypeOK
  <2>3. s(p, byTarget).step = "save"
    <3> HIDE DEF chosen
    <3> QED BY <2>2, StartType, FieldType DEF Steps
  <2> HIDE DEF s
  <2> QED BY <1>1, <2>1, <2>3, Clients, QuietBecome
<1>3. CASE SaveAndActivate(c)
  BY <1>1, <1>3, Clients, QuietStep DEF SaveAndActivate, Steps
<1> QED BY <1>2, <1>3

\* Under the lock connect() takes the interface, if there is one.
LEMMA SwapOwned == ASSUME Inv, Owned, NEW c \in Client, Swap(c) PROVE Owned'
<1>1. at[c].step = "swap" /\ open' = open /\ c \in Thread
  BY FixedThreads DEF Swap
<1>2. CASE at' = Become(c, Idle) /\ interface' = interface
  BY <1>1, <1>2, IdleType, Clients, QuietBecome
<1>3. CASE at' = Become(c, Setup(interface, "status", "idle")) /\ interface' = None
  <2> DEFINE s == Setup(interface, "status", "idle")
  <2>1. s.step = "status" /\ s.iface = interface
    <3>1. interface \in Interface \cup {None}
      BY DEF Inv, TypeOK
    <3>2. "status" \in Steps /\ "idle" \in Steps
      BY DEF Steps
    <3> QED BY <3>1, <3>2, SetupType
  <2>2. at' = [at EXCEPT ![c] = s]
    BY <1>3 DEF Become
  <2> HIDE DEF s
  <2>3. ~ Holding(at[c])
    BY <1>1 DEF Holding
  <2>4. CASE interface = None
    BY <1>1, <1>3, <2>1, <2>2, <2>3, <2>4, Clients, QuietMove DEF Holding
  <2>5. CASE interface # None
    BY <1>1, <1>3, <2>1, <2>2, <2>3, <2>5, Taken DEF Holding
  <2> QED BY <2>4, <2>5
<1> QED BY <1>2, <1>3 DEF Swap

\* With the status set, the interface is still to be closed.
LEMMA SetConnectingOwned ==
  ASSUME Inv, Owned, NEW c \in Client, SetConnecting(c)
  PROVE  Owned'
<1>1. at[c].step = "status" /\ UNCHANGED <<interface, open>> /\ c \in Thread
  BY FixedThreads DEF SetConnecting
<1>2. CASE at[c].iface = None
  <2>1. at' = [at EXCEPT ![c] = Idle]
    BY <1>2 DEF SetConnecting, Become
  <2>2. ~ Holding(at[c]) /\ ~ Holding(Idle)
    BY <1>2, IdleType DEF Holding
  <2> QED BY <1>1, <2>1, <2>2, Clients, QuietMove
<1>3. CASE at[c].iface # None
  <2>1. at'[c].step = "close" /\ at'[c].iface = at[c].iface
    BY <1>1, <1>3 DEF SetConnecting, Step, Inv, TypeOK, ThreadState
  <2>2. \A u \in Thread \ {c} : at'[u] = at[u]
    BY <1>1, <1>3 DEF SetConnecting, Step, Inv, TypeOK
  <2>3. \A u \in Thread : /\ Holding(at'[u]) <=> Holding(at[u])
                         /\ at'[u].iface = at[u].iface
    BY <1>1, <1>3, <2>1, <2>2 DEF Holding
  <2>4. HeldAlone' /\ NoneForgotten'
    BY <1>1, <2>3 DEF Owned, HeldAlone, NoneForgotten
  <2>5. WorkerBetween'
    BY <1>1, <2>2, Clients, FixedThreads DEF Owned, WorkerBetween
  <2> QED BY <2>4, <2>5 DEF Owned
<1> QED BY <1>2, <1>3

\* stop() takes the interface, if there is one.
LEMMA StopOwned == ASSUME Inv, Owned, Stop \/ TakeLast \/ Join PROVE Owned'
<1>1. CASE Stop
  <2>1. /\ at["stopper"].step = "idle" /\ UNCHANGED <<interface, open>>
        /\ at' = Become("stopper", Start("takeLast"))
    BY <1>1, IdleType DEF Stop
  <2>2. Start("takeLast").step = "takeLast"
    BY StartType DEF Steps
  <2> QED BY <2>1, <2>2, FixedThreads, QuietBecome
<1>2. CASE TakeLast
  <2>1. at["stopper"].step = "takeLast" /\ interface' = None /\ open' = open
    BY <1>2 DEF TakeLast
  <2>2. CASE interface = None
    <3>1. Start("join").step = "join"
      BY StartType DEF Steps
    <3>2. at' = Become("stopper", Start("join")) /\ interface' = interface
      BY <1>2, <2>2 DEF TakeLast
    <3> QED BY <2>1, <3>1, <3>2, FixedThreads, QuietBecome
  <2>3. CASE interface # None
    <3> DEFINE s == Setup(interface, "close", "join")
    <3>1. s.step = "close" /\ s.iface = interface
      <4>1. interface \in Interface \cup {None}
        BY DEF Inv, TypeOK
      <4>2. "close" \in Steps /\ "join" \in Steps
        BY DEF Steps
      <4> QED BY <4>1, <4>2, SetupType
    <3>2. at' = [at EXCEPT !["stopper"] = s]
      BY <1>2, <2>3 DEF TakeLast, Become
    <3> HIDE DEF s
    <3> QED BY <2>1, <2>3, <3>1, <3>2, FixedThreads, Taken DEF Holding
  <2> QED BY <2>2, <2>3
<1>3. CASE Join
  <2>1. /\ at["stopper"].step = "join" /\ UNCHANGED <<interface, open>>
        /\ at' = Become("stopper", Idle)
    BY <1>3 DEF Join
  <2> QED BY <2>1, IdleType, FixedThreads, QuietBecome
<1> QED BY <1>1, <1>2, <1>3

-----------------------------------------------------------------------------
(* The theorem *)

\* The daemon starts with no interface at all.
LEMMA InitOwned == Init => Owned
<1> SUFFICES ASSUME Init PROVE Owned
  OBVIOUS
<1>1. Start("top").step = "top" /\ Idle.step = "idle"
  BY StartType, IdleType DEF Steps
<1>2. \A t \in Thread : ~ Holding(at[t])
  BY <1>1 DEF Init, Holding
<1> QED BY <1>2 DEF Init, Owned, HeldAlone, NoneForgotten, WorkerBetween

\* Every step of a thread, of a client or of stop() preserves Owned.
LEMMA NextOwned == Inv /\ Owned /\ [Next]_vars => Owned'
<1> SUFFICES ASSUME Inv, Owned, [Next]_vars PROVE Owned'
  OBVIOUS
<1>1. CASE Worker
  BY <1>1, FixedThreads, RoundOwned, CreateOwned, PublishOwned, HealthOwned, TakeOwned,
     AfterOwned, SyncOwned, CloseOwned DEF Worker
<1>2. CASE Publisher \/ Callback
  BY <1>2, FixedThreads, CallbackOwned, SyncOwned DEF Publisher
<1>3. ASSUME NEW c \in Client, Connect(c) \/ Handler(c) PROVE Owned'
  BY <1>3, FixedThreads, ConnectOwned, SwapOwned, SetConnectingOwned, CloseOwned DEF Handler
<1>4. CASE Stop \/ Stopper
  BY <1>4, FixedThreads, StopOwned, CloseOwned DEF Stopper
<1>5. CASE UNCHANGED vars
  BY <1>5 DEF vars, service, Owned, HeldAlone, NoneForgotten, WorkerBetween, Holding
<1> QED BY <1>1, <1>2, <1>3, <1>4, <1>5 DEF Next

\* What is held by one thread alone is counted once.
LEMMA OwnedMeansOnce == Inv /\ Owned => OwnedOnce
<1> SUFFICES ASSUME Inv, Owned PROVE OwnedOnce
  OBVIOUS
<1>1. \A t \in Thread : at[t].step \in {"publish", "close"} => Holding(at[t])
  BY NoneAssumption DEF Inv, ThreadsFit, Fits, FitsAs, Holding, Interface
<1>2. ASSUME NEW i \in open
      PROVE  Closers(i) = {t \in Thread : Holding(at[t]) /\ at[t].iface = i}
  <2>1. i # None
    BY NoneAssumption DEF Inv, TypeOK, Interface
  <2> QED BY <2>1 DEF Closers, Holding
<1>3. ASSUME NEW i \in open, interface = i PROVE Closers(i) = {}
  BY <1>2, <1>3 DEF Owned, HeldAlone
<1>4. ASSUME NEW i \in open, interface # i PROVE Cardinality(Closers(i)) = 1
  <2>1. PICK t \in Thread : Holding(at[t]) /\ at[t].iface = i
    BY <1>4 DEF Owned, NoneForgotten
  <2>2. Closers(i) = {t}
    BY <1>2, <2>1 DEF Owned, HeldAlone
  <2> QED BY <2>2, FS_Singleton
<1>5. \A t \in Thread : at[t].step \in {"publish", "close"} => at[t].iface \in open
  BY <1>1 DEF Owned, HeldAlone
<1> QED BY <1>3, <1>4, <1>5 DEF OwnedOnce, Owned, NoneForgotten

\* However clients, callbacks and stop() interleave with the worker, no connection
\* to a radio is forgotten and none is closed twice.
THEOREM InterfacesAreOwnedOnce == Spec => []OwnedOnce
<1>1. Init => Inv /\ Owned
  BY InitInv, InitOwned
<1>2. Inv /\ Owned /\ [Next]_vars => (Inv /\ Owned)'
  BY NextInv, NextOwned
<1> QED BY <1>1, <1>2, OwnedMeansOnce, PTL DEF Spec
=============================================================================
