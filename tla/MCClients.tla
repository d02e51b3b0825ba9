------------------------------ MODULE MCClients ------------------------------
(* An instance for TLC of three components of the clients' side: the stream of  *)
(* events, the terminal's screens and the store of web logins.  They share no   *)
(* variable, so a behaviour is about one of them, its part, and the others keep *)
(* their initial values: one run checks each as a run of its own would.         *)
EXTENDS AuthStore, EventQueues, Screens

CONSTANTS
  Home, Other, Mover,                          \* two addresses, and who has the other
  QueueSize, MaxEvents, MaxOpens,              \* EventStream
  Public, Message, ConversationOf, PeerOf,     \* Terminal
  Direct,                                      \* the conversation of every message
  MaxSelects, MaxRequests, MaxMishaps

\* One process has another address than the rest.
Addresses == [p \in Process |-> IF p = Mover THEN Other ELSE Home]

\* What is received, and every traceroute, is about one node.
OneConversation == [x \in Message |-> Direct]
OnePeer == [x \in Action |-> Direct]

VARIABLES
  part,
  routes, progress, listed, loaded, refreshes, replies, budget

eventVars == <<version, queues, queue, pub, watch, slots, seen, owed, last, opens>>
terminalVars == <<stored, routes, progress, stream, current, view, listed, entries, history,
                  loaded, loads, refreshes, sends, replies, told, budget>>
everything == <<part, vars, eventVars, terminalVars>>

E == INSTANCE EventStream
T == INSTANCE Terminal

InitPart ==
  /\ part \in {"events", "terminal", "logins"}
  /\ Init /\ E!Init /\ T!Init
  /\ part # "logins" => file.origin = Home

OnlyLogins == UNCHANGED <<part, eventVars, terminalVars>>
OnlyEvents == UNCHANGED <<part, vars, terminalVars>>
OnlyTerminal == UNCHANGED <<part, vars, eventVars>>

NextPart ==
  \/ part = "logins" /\ Next /\ OnlyLogins
  \/ part = "events" /\ E!Next /\ OnlyEvents
  \/ part = "terminal" /\ T!Next /\ OnlyTerminal

\* What EventStream and Terminal assume in their FairSpec.
Fairness ==
  /\ \A p \in Publisher :
       WF_everything(part = "events" /\ (E!Put(p) \/ E!DropOldest(p) \/ E!PutAgain(p))
                     /\ OnlyEvents)
  /\ \A w \in Watcher : WF_everything(part = "events" /\ E!Take(w) /\ OnlyEvents)
  /\ WF_everything(part = "terminal" /\ T!Work /\ OnlyTerminal)

SpecPart == InitPart /\ [][NextPart]_everything /\ Fairness

-----------------------------------------------------------------------------
(* The components' properties, where they are stated and explained;           *)
(* LoginsAreSafe is AuthStore's, NoSilentLoss and InOrder are EventQueues',   *)
(* SettledViewIsCurrent and LateIsHarmless are those of Screens.              *)

TypesOK ==
  /\ part = "logins" => TypeOK
  /\ part = "events" => E!TypeOK /\ SlotsReturned
  /\ part = "terminal" => T!TypeOK

\* Watchers that reload, and the terminal's selection, catch up with the daemon.
ClientsCatchUp == E!ChangesAreNoticed /\ []<>(part = "terminal" => T!Loaded)
=============================================================================
