------------------------------ MODULE NodeActions ------------------------------
(***************************************************************************)
(* Traceroutes and position exchanges: _start_traceroute and               *)
(* _start_position_exchange of service.py on IPC handler threads, the      *)
(* answers the SDK's reader thread brings, the timers, and the losses of   *)
(* the connection that fail what is pending, all of which end in           *)
(* _finish_node_action; with the table _node_actions in memory, the rows   *)
(* of node_actions in the database, and restarts of the daemon.            *)
(*                                                                         *)
(* Abstractions.  The two kinds have the same steps and differ in when     *)
(* their cooldown begins.  Time is one action per thing that it lets       *)
(* happen: a timer fires, a cooldown has passed.  An interface is a number *)
(* that is not used again, 0 is none.  Node removals, which share the      *)
(* table, are left out.                                                    *)
(***************************************************************************)
EXTENDS FiniteSets, Integers

CONSTANTS
  Action,       \* the actions that clients may start
  Traceroute,   \* the traceroutes among them; the others exchange positions
  NoAction,     \* a thread works on no action
  MaxActions,   \* MAX_NODE_ACTIONS
  MaxLinks,     \* bound: interfaces
  MaxRestarts,  \* bound: restarts of the daemon
  Losses,       \* bound: the threads that fail what is pending
  StoreFails,   \* bound: the actions whose rows SQLite may fail to write
  SlowSends     \* bound: whether a send may outlast a cooldown

ASSUME ActionAssumption ==
  Traceroute \subseteq Action /\ NoAction \notin Action /\ IsFiniteSet(Action)
ASSUME BoundAssumption ==
  /\ MaxActions \in Nat \ {0} /\ MaxLinks \in Nat \ {0} /\ MaxRestarts \in Nat
  /\ Losses \subseteq {"worker", "lost", "client"}
  /\ StoreFails \subseteq Action /\ SlowSends \in BOOLEAN

VARIABLES
  action,    \* Action -> the dict that describes it, shared by its threads
  table,     \* the keys of _node_actions
  born,      \* Action -> its place in the order of _node_actions
  timers,    \* the keys of _node_action_timers
  timer,     \* Action -> its threading.Timer
  cooling,   \* Kind -> whether its cooldown is running
  link,      \* _interface
  sentOn,    \* Action -> the interface it was started on
  waiting,   \* the SDK's responseHandlers
  at,        \* Thread -> where it is and what it works on
  rows,      \* durable: the table node_actions
  announced, \* observed: Action -> the last status on the event stream
  recent,    \* observed: the actions sent since the last cooldown passed
  restarts   \* restarts so far

memory == <<action, table, born, timers, timer, cooling>>
radio == <<link, sentOn, waiting>>
observed == <<announced, recent>>
vars == <<memory, radio, at, rows, observed, restarts>>

-----------------------------------------------------------------------------

Kind == {"traceroute", "position"}
KindOf(a) == IF a \in Traceroute THEN "traceroute" ELSE "position"

Final == {"completed", "failed"}
Dict == [status : {"none", "started", "gone"} \cup Final, packet : BOOLEAN]
Unknown == [status |-> "none", packet |-> FALSE]
New == [status |-> "started", packet |-> FALSE]
Gone == [status |-> "gone", packet |-> FALSE]

\* One handler thread and one timer per action; the SDK's reader; and the threads
\* that fail what is pending: the worker, _on_lost, and connect().
Starter(a) == <<"starter", a>>
Timer(a) == <<"timer", a>>
Reader == <<"reader", NoAction>>
Breaker == {"worker", "lost", "client"} \X {NoAction}
Worker == <<"worker", NoAction>>
Thread == ({"starter", "timer"} \X Action) \cup {Reader} \cup Breaker

Idle == [step |-> "idle", action |-> NoAction, outcome |-> "completed",
         snapshot |-> Unknown, pending |-> {}]
Step(t, step) == [at EXCEPT ![t].step = step]
Finishes(t, a, outcome) ==
  [at EXCEPT ![t].step = "finish", ![t].action = a, ![t].outcome = outcome]

Started == {a \in table : action[a].status = "started"}

Init ==
  /\ action = [a \in Action |-> Unknown]
  /\ table = {} /\ timers = {}
  /\ born = [a \in Action |-> 0]
  /\ timer = [a \in Action |-> "none"]
  /\ cooling = [k \in Kind |-> FALSE]
  /\ link = 1
  /\ sentOn = [a \in Action |-> 0]
  /\ waiting = {}
  /\ at = [t \in Thread |-> Idle]
  /\ rows = [a \in Action |-> Unknown]
  /\ announced = [a \in Action |-> "none"]
  /\ recent = {}
  /\ restarts = 0

-----------------------------------------------------------------------------
(* The handler thread of a command node_action *)

\* Mutant: an action that is still pending is evicted like any other.
TrimmedAny(kept) ==
  LET excess == Cardinality(kept) - MaxActions
      older(a) == {b \in table : born[b] < born[a]}
  IN  kept \ {a \in table : Cardinality(older(a)) < excess}

\* _trim_node_actions: above the limit the oldest finished actions go.
Trimmed(kept) ==
  LET finished == {a \in kept : action[a].status \in Final}
      excess == Cardinality(kept) - MaxActions
      older(a) == {b \in finished : born[b] < born[a]}
  IN  kept \ {a \in finished : Cardinality(older(a)) < excess}

\* Mutant: a position's cooldown is not set with the entry.
StartWarm(a) ==
  /\ action[a].status = "none" /\ at[Starter(a)] = Idle
  /\ link # 0 /\ ~ cooling[KindOf(a)]
  /\ action' = [action EXCEPT ![a] = New]
  /\ born' = [born EXCEPT ![a] = Cardinality({b \in Action : born[b] # 0}) + 1]
  /\ table' = {a} \cup Trimmed(table \cup {a})
  /\ sentOn' = [sentOn EXCEPT ![a] = link]
  /\ at' = [at EXCEPT ![Starter(a)].step = "read", ![Starter(a)].action = a]
  /\ UNCHANGED <<timers, timer, cooling, link, waiting, rows, observed, restarts>>

\* Under the lock: the checks, the entry, and a position's cooldown.
Start(a) ==
  /\ action[a].status = "none" /\ at[Starter(a)] = Idle
  /\ link # 0 /\ ~ cooling[KindOf(a)]
  /\ action' = [action EXCEPT ![a] = New]
  /\ born' = [born EXCEPT ![a] = Cardinality({b \in Action : born[b] # 0}) + 1]
  /\ table' = {a} \cup Trimmed(table \cup {a})
  /\ cooling' = [cooling EXCEPT !["position"] = @ \/ a \notin Traceroute]
  /\ sentOn' = [sentOn EXCEPT ![a] = link]
  /\ at' = [at EXCEPT ![Starter(a)].step = "read", ![Starter(a)].action = a]
  /\ UNCHANGED <<timers, timer, link, waiting, rows, observed, restarts>>

\* upsert_node_action outside the lock: the values are read from the shared dict ...
ReadDict(a) ==
  /\ at[Starter(a)].step = "read"
  /\ at' = [at EXCEPT ![Starter(a)].step = "write", ![Starter(a)].snapshot = action[a]]
  /\ UNCHANGED <<memory, radio, rows, observed, restarts>>

\* ... and written once SQLite's lock is free.
WriteDict(a) ==
  /\ at[Starter(a)].step = "write"
  /\ rows' = [rows EXCEPT ![a] = at[Starter(a)].snapshot]
  /\ at' = [at EXCEPT ![Starter(a)].step = "send", ![Starter(a)].snapshot = Unknown]
  /\ UNCHANGED <<memory, radio, observed, restarts>>

\* interface.sendData is entered; it registers the response handler.
Send(a) ==
  /\ at[Starter(a)].step = "send"
  /\ waiting' = waiting \cup {a}
  /\ recent' = recent \cup {a}
  /\ at' = Step(Starter(a), "sending")
  /\ UNCHANGED <<memory, link, sentOn, rows, announced, restarts>>

SendRaises(a) ==
  /\ at[Starter(a)].step = "sending"
  /\ cooling' = [cooling EXCEPT !["position"] = @ /\ a \in Traceroute]
  /\ recent' = recent \ {a}
  /\ at' = Finishes(Starter(a), a, "failed")
  /\ UNCHANGED <<action, table, born, timers, timer, radio, rows, announced, restarts>>

\* Mutant: the timer is registered without looking at the status again.
SettleAlways(a) ==
  /\ at[Starter(a)].step = "sending"
  /\ LET current == [action[a] EXCEPT !.packet = TRUE]
     IN  /\ action' = [action EXCEPT ![a] = IF a \in table THEN current ELSE @]
         /\ cooling' = [cooling EXCEPT !["traceroute"] = @ \/ (a \in Traceroute /\ a \in table)]
         /\ timers' = timers \cup {a}
         /\ timer' = [timer EXCEPT ![a] = "set"]
         /\ at' = Step(Starter(a), "arm")
         /\ rows' = [rows EXCEPT ![a] = action'[a]]
         /\ announced' = IF action[a].status = "started"
                         THEN [announced EXCEPT ![a] = "started"] ELSE announced
  /\ UNCHANGED <<table, born, radio, recent, restarts>>

\* Mutant: what was started is stored and announced as it was started.
SettleStale(a) ==
  /\ at[Starter(a)].step = "sending"
  /\ LET pending == a \in table /\ action[a].status = "started"
         current == [action[a] EXCEPT !.packet = TRUE]
     IN  /\ action' = [action EXCEPT ![a] = IF a \in table THEN current ELSE @]
         /\ cooling' = [cooling EXCEPT !["traceroute"] = @ \/ (a \in Traceroute /\ a \in table)]
         /\ timers' = IF pending THEN timers \cup {a} ELSE timers
         /\ timer' = IF pending THEN [timer EXCEPT ![a] = "set"] ELSE timer
         /\ at' = Step(Starter(a), IF pending THEN "arm" ELSE "returned")
         /\ rows' = [rows EXCEPT ![a] = New]
         /\ announced' = [announced EXCEPT ![a] = "started"]
  /\ UNCHANGED <<table, born, radio, recent, restarts>>

\* Mutant: a request on an interface that is gone gets no timer.
SettleConnected(a) ==
  /\ at[Starter(a)].step = "sending"
  /\ LET pending == a \in table /\ action[a].status = "started" /\ sentOn[a] = link
         current == [action[a] EXCEPT !.packet = TRUE]
     IN  /\ action' = [action EXCEPT ![a] = IF a \in table THEN current ELSE @]
         /\ cooling' = [cooling EXCEPT !["traceroute"] = @ \/ (a \in Traceroute /\ a \in table)]
         /\ timers' = IF pending THEN timers \cup {a} ELSE timers
         /\ timer' = IF pending THEN [timer EXCEPT ![a] = "set"] ELSE timer
         /\ rows' = [rows EXCEPT ![a] = action'[a]]
         /\ announced' = IF action[a].status = "started"
                         THEN [announced EXCEPT ![a] = "started"] ELSE announced
         /\ at' = Step(Starter(a), IF pending THEN "arm" ELSE "returned")
  /\ UNCHANGED <<table, born, radio, recent, restarts>>

\* sendData returns; under the lock the packet id, a traceroute's cooldown and
\* the timer are set, and the dict as it is now is stored and announced.
Settle(a) ==
  /\ at[Starter(a)].step = "sending"
  /\ LET pending == a \in table /\ action[a].status = "started"
         current == [action[a] EXCEPT !.packet = TRUE]
     IN  /\ action' = [action EXCEPT ![a] = IF a \in table THEN current ELSE @]
         /\ cooling' = [cooling EXCEPT !["traceroute"] = @ \/ (a \in Traceroute /\ a \in table)]
         /\ timers' = IF pending THEN timers \cup {a} ELSE timers
         /\ timer' = IF pending THEN [timer EXCEPT ![a] = "set"] ELSE timer
         /\ \/ /\ rows' = [rows EXCEPT ![a] = action'[a]]
               /\ announced' = IF action[a].status = "started"
                               THEN [announced EXCEPT ![a] = "started"] ELSE announced
               /\ at' = Step(Starter(a), IF pending THEN "arm" ELSE "returned")
            \/ /\ a \in StoreFails
               /\ UNCHANGED <<rows, announced>>
               /\ at' = Step(Starter(a), "returned")
  /\ UNCHANGED <<table, born, radio, recent, restarts>>

\* timer.start(), outside the lock; a timer that was cancelled stays so.
Arm(a) ==
  /\ at[Starter(a)].step = "arm"
  /\ timer' = [timer EXCEPT ![a] = IF @ = "set" THEN "running" ELSE @]
  /\ at' = Step(Starter(a), "returned")
  /\ UNCHANGED <<action, table, born, timers, cooling, radio, rows, observed, restarts>>

-----------------------------------------------------------------------------
(* _finish_node_action, on the thread t that called it *)

\* t after it: a thread that fails all that is pending goes on with the rest.
Leaves(t) ==
  CASE t \in Breaker -> [at EXCEPT ![t] = [Idle EXCEPT !.step = "failing", !.pending = at[t].pending]]
    [] t[1] = "starter" -> [at EXCEPT ![t].step = "returned", ![t].snapshot = Unknown]
    [] OTHER -> [at EXCEPT ![t] = Idle]

\* Mutant: the status is not looked at.
FinishAgain(t) ==
  /\ at[t].step = "finish"
  /\ LET a == at[t].action
     IN  /\ action' = [action EXCEPT ![a].status = at[t].outcome]
         /\ timers' = timers \ {a}
         /\ timer' = [timer EXCEPT ![a] = IF @ \in {"set", "running"} THEN "over" ELSE @]
         /\ at' = [at EXCEPT ![t].step = "store", ![t].snapshot = action'[a]]
  /\ UNCHANGED <<table, born, cooling, radio, rows, observed, restarts>>

\* Under the lock: only a pending action is finished, and its timer cancelled.
Finish(t) ==
  /\ at[t].step = "finish"
  /\ LET a == at[t].action IN
     \/ /\ a \notin Started
        /\ at' = Leaves(t)
        /\ UNCHANGED <<action, timers, timer>>
     \/ /\ a \in Started
        /\ action' = [action EXCEPT ![a].status = at[t].outcome]
        /\ timers' = timers \ {a}
        /\ timer' = [timer EXCEPT ![a] = IF @ \in {"set", "running"} THEN "over" ELSE @]
        /\ at' = [at EXCEPT ![t].step = "store", ![t].snapshot = action'[a]]
  /\ UNCHANGED <<table, born, cooling, radio, rows, observed, restarts>>

\* The snapshot is stored outside the lock ...
Store(t) ==
  /\ at[t].step = "store"
  /\ rows' = [rows EXCEPT ![at[t].action] = at[t].snapshot]
  /\ at' = Step(t, "publish")
  /\ UNCHANGED <<memory, radio, observed, restarts>>

\* ... and announced.
Publish(t) ==
  /\ at[t].step = "publish"
  /\ announced' = [announced EXCEPT ![at[t].action] = at[t].snapshot.status]
  /\ at' = Leaves(t)
  /\ UNCHANGED <<memory, radio, rows, recent, restarts>>

\* SQLite raises.  The worker calls from its finally clause and ends with it.
StoreRaises(t) ==
  /\ at[t].step \in {"write", "store"} /\ at[t].action \in StoreFails
  /\ at' = [at EXCEPT ![t] = [Idle EXCEPT !.step = CASE t = Worker -> "dead"
                                                     [] t[1] = "starter" -> "returned"
                                                     [] OTHER -> "idle"]]
  /\ UNCHANGED <<memory, radio, rows, observed, restarts>>

-----------------------------------------------------------------------------
(* Answers and timeouts *)

\* The reader thread calls on_response once; an answer of an interface that has
\* been replaced, or an error, fails the action.
Respond(a) ==
  /\ a \in waiting /\ at[Reader].step = "idle"
  /\ waiting' = waiting \ {a}
  /\ \E outcome \in IF sentOn[a] = link THEN Final ELSE {"failed"} :
       at' = Finishes(Reader, a, outcome)
  /\ UNCHANGED <<memory, link, sentOn, rows, observed, restarts>>

\* on_timeout discards the response handler first.
Timeout(a) ==
  /\ timer[a] = "running"
  /\ timer' = [timer EXCEPT ![a] = "over"]
  /\ waiting' = waiting \ {a}
  /\ at' = Finishes(Timer(a), a, "failed")
  /\ UNCHANGED <<action, table, born, timers, cooling, link, sentOn, rows, observed, restarts>>

\* Thirty seconds are longer than the way from the checks to the radio.
CooldownEnds(k) ==
  /\ cooling[k]
  /\ \A a \in Action : KindOf(a) = k =>
       /\ at[Starter(a)].step \notin {"read", "write", "send"}
       /\ at[Starter(a)].step = "sending" => SlowSends
  /\ cooling' = [cooling EXCEPT ![k] = FALSE]
  /\ recent' = {a \in recent : KindOf(a) # k}
  /\ UNCHANGED <<action, table, born, timers, timer, radio, at, rows, announced, restarts>>

-----------------------------------------------------------------------------
(* The connection *)

\* _fail_pending_node_actions lists what is pending: in _on_lost and in the
\* worker's finally clause before the interface is taken ...
Lost(t) ==
  /\ t[1] \in Losses \ {"client"}
  /\ at[t].step = "idle" /\ (t = Worker \/ link # 0)
  /\ at' = [at EXCEPT ![t].step = "failing", ![t].pending = Started]
  /\ UNCHANGED <<memory, radio, rows, observed, restarts>>

\* ... and in connect() after it.
Switch(t) ==
  /\ t[1] \in Losses \cap {"client"}
  /\ at[t].step = "idle" /\ link # 0
  /\ link' = 0
  /\ at' = Step(t, "list")
  /\ UNCHANGED <<memory, sentOn, waiting, rows, observed, restarts>>

List(t) ==
  /\ at[t].step = "list"
  /\ at' = [at EXCEPT ![t].step = "failing", ![t].pending = Started]
  /\ UNCHANGED <<memory, radio, rows, observed, restarts>>

FailNext(t) ==
  /\ at[t].step = "failing"
  /\ \/ /\ at[t].pending = {}
        /\ at' = Step(t, IF t = Worker THEN "take" ELSE "idle")
     \/ \E a \in at[t].pending :
          at' = [Finishes(t, a, "failed") EXCEPT ![t].pending = @ \ {a}]
  /\ UNCHANGED <<memory, radio, rows, observed, restarts>>

Take ==
  /\ at[Worker].step = "take"
  /\ link' = 0
  /\ at' = Step(Worker, "connect")
  /\ UNCHANGED <<memory, sentOn, waiting, rows, observed, restarts>>

\* The worker publishes a new interface, with the least number no action has seen.
Connect(n) ==
  /\ at[Worker].step = "connect"
  /\ LET used == {sentOn[a] : a \in Action}
     IN  n \notin used /\ 1..(n - 1) \subseteq used
  /\ link' = n
  /\ at' = Step(Worker, "idle")
  /\ UNCHANGED <<memory, sentOn, waiting, rows, observed, restarts>>

\* The daemon ends at any point and a new one starts: __init__ runs
\* fail_started_node_actions, and only the database is left.
Restart ==
  /\ restarts < MaxRestarts
  /\ restarts' = restarts + 1
  /\ rows' = [a \in Action |-> IF rows[a].status = "started"
                               THEN [rows[a] EXCEPT !.status = "failed"] ELSE rows[a]]
  /\ at' = [t \in Thread |-> IF t = Worker THEN [Idle EXCEPT !.step = "connect"]
                             ELSE IF t[1] = "starter" /\ at[t] # Idle
                             THEN [Idle EXCEPT !.step = "returned"] ELSE Idle]
  /\ table' = {} /\ timers' = {} /\ waiting' = {}
  /\ timer' = [a \in Action |-> "none"]
  /\ cooling' = [k \in Kind |-> FALSE]
  /\ link' = 0
  /\ action' = [a \in Action |-> IF action[a] = Unknown THEN Unknown ELSE Gone]
  /\ recent' = {}
  /\ UNCHANGED <<born, sentOn, announced>>

-----------------------------------------------------------------------------

Starting(a) ==
  \/ ReadDict(a) \/ WriteDict(a) \/ Send(a) \/ SendRaises(a) \/ Settle(a) \/ Arm(a)
Ending(t) == Finish(t) \/ Store(t) \/ Publish(t) \/ StoreRaises(t)
Breaking(t) == List(t) \/ FailNext(t)
Reconnect == Take \/ \E n \in 1..MaxLinks : Connect(n)

Next ==
  \/ \E a \in Action : Start(a) \/ Starting(a) \/ Respond(a) \/ Timeout(a)
  \/ \E t \in Thread : Ending(t) \/ Breaking(t)
  \/ \E t \in Breaker : Lost(t) \/ Switch(t)
  \/ \E k \in Kind : CooldownEnds(k)
  \/ Reconnect \/ Restart

Spec == Init /\ [][Next]_vars

\* Threads that can run do run, sendData returns or raises, and timers fire.
\* Nothing is assumed of the mesh, of clients or of the connection.
Fairness ==
  /\ \A a \in Action : WF_vars(Starting(a)) /\ WF_vars(Timeout(a))
  /\ \A t \in Thread : WF_vars(Ending(t)) /\ WF_vars(Breaking(t))

FairSpec == Spec /\ Fairness

-----------------------------------------------------------------------------
(* Properties *)

Steps == {"idle", "read", "write", "send", "sending", "arm", "returned", "finish",
          "store", "publish", "list", "failing", "take", "connect", "dead"}

\* Every variable has its type; above all, a thread that finishes an action has one
\* and stores and announces a final status, and every registered timer's action is in the table.
TypeOK ==
  /\ action \in [Action -> Dict] /\ rows \in [Action -> Dict]
  /\ table \subseteq Action /\ timers \subseteq table /\ waiting \subseteq Action
  /\ born \in [Action -> Nat]
  /\ timer \in [Action -> {"none", "set", "running", "over"}]
  /\ cooling \in [Kind -> BOOLEAN]
  /\ link \in 0..MaxLinks /\ sentOn \in [Action -> 0..MaxLinks]
  /\ at \in [Thread -> [step : Steps, action : Action \cup {NoAction}, outcome : Final,
                        snapshot : Dict, pending : SUBSET Action]]
  /\ \A t \in Thread : at[t].step \in {"finish", "store", "publish"} => at[t].action \in Action
  /\ \A t \in Thread : at[t].step \in {"store", "publish"} => at[t].snapshot.status \in Final
  /\ announced \in [Action -> {"none", "started"} \cup Final]
  /\ recent \subseteq Action
  /\ restarts \in 0..MaxRestarts

\* The threads that are in _finish_node_action for a, or in its first upsert.
WorkingOn(a) ==
  {t \in Thread : at[t].action = a /\ at[t].step \in {"finish", "store", "publish"}}
Returned(a) == at[Starter(a)].step = "returned" /\ WorkingOn(a) = {}
Raised(a) == at[Starter(a)].outcome = "failed"

\* Whichever of the answer, the timeout and the losses of the connection ends an
\* action, and however their upserts overtake each other: once all threads are
\* done with a request that was sent, its row, if SQLite writes it, says how it ended,
\* and after a restart no row says that it still goes on.
LogAgrees ==
  \A a \in Action :
    /\ a \notin StoreFails /\ Returned(a) /\ ~ Raised(a) /\ action[a].status \in Final
         => rows[a].status = action[a].status
    /\ action[a] = Gone => rows[a].status # "started"

\* One end is announced for an action, and nothing after it.
FinalIsLast ==
  [][\A a \in Action :
       announced[a] \in Final => announced'[a] = announced[a]]_announced

\* No timer is kept, and none runs, for an action that has ended or is not in
\* the table any more.
TimersArePending ==
  /\ timers \subseteq Started
  /\ \A a \in Action : timer[a] = "running" => a \in timers

\* DEVELOPMENT.md:266: the position button counts down through the cooldown: two
\* requests are never sent in one.
PositionCooldown == Cardinality(recent \ Traceroute) <= 1

\* Every action ends, if SQLite writes its row: no answer, loss or switch of the
\* connection leaves one that its client waits for in vain.
EveryActionEnds == \A a \in Action \ StoreFails : a \in Started ~> a \notin Started

\* README.md:549: the firmware allows one traceroute every 30 seconds, and the
\* action is locked until the next attempt can be sent.
TracerouteCooldown == Cardinality(recent \cap Traceroute) <= 1

\* README.md:547: traceroute attempts and results are kept in the local log.  An
\* attempt that has ended is not logged as still going on.
AttemptsAreLogged ==
  \A a \in Action :
    Returned(a) /\ action[a].status \in Final => rows[a].status \in Final

\* README.md:37: MeshPi connects again by itself after a loss of the connection;
\* the worker is there to do it.
WorkerLives == at[Worker].step # "dead"
=============================================================================
