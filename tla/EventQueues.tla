------------------------------ MODULE EventQueues ------------------------------
(***************************************************************************)
(* What the event stream keeps (EventHub in events.py and the watch        *)
(* requests in ipc.py) and what it promises to those who watch.  The steps *)
(* are in EventStream.                                                     *)
(***************************************************************************)
EXTENDS FiniteSets, Naturals, Sequences

CONSTANTS
  Publisher,   \* threads that publish
  Watcher,     \* watch requests, each on a handler thread of its own
  Reloading,   \* those of clients that read the daemon's state afresh on every event
  MaxWatchers  \* MAX_IPC_WATCHERS

VARIABLES
  version,  \* changes announced so far
  queues,   \* _queues: the watchers that are subscribed
  queue,    \* Watcher -> its queue
  pub,      \* Publisher -> where its publish is
  watch,    \* Watcher -> where its request is
  slots,    \* _watcher_slots: permits left
  seen,     \* observed: Watcher -> the version it last read, of those that reload
  owed,     \* observed: Watcher -> the last version announced to its queue
  last,     \* observed: Watcher -> Publisher -> its last event taken
  opens     \* observed: watch requests so far

\* The web server's watch reloads; that of the terminal and of meshpi watch does not.
ASSUME ReloadingAssumption == Reloading \subseteq Watcher

-----------------------------------------------------------------------------

(* To a client that reloads on every event, no change is lost: it is       *)
(* either read or still on its way, as its own event or as another one,    *)
(* which waits or is being published.  The others go by the events         *)
(* themselves, and a dropped one tells them nothing.                       *)
OnItsWay(w) ==
  \/ queue[w] # <<>>
  \/ \E p \in Publisher : w \in pub[p].left /\ (pub[p].step = "get" => w # pub[p].full)
NoSilentLoss ==
  \A w \in Reloading : watch[w] = "get" => seen[w] >= owed[w] \/ OnItsWay(w)

(* A watcher takes the events of one thread in the order the thread        *)
(* published them, with gaps but never back, so the last status of a       *)
(* message is the last it is told.                                         *)
InOrder ==
  [][\A w \in Watcher, p \in Publisher : last'[w][p] >= last[w][p]]_last

(* Every slot is held by a watcher that is there.                          *)
SlotsReturned ==
  slots + Cardinality({w \in Watcher : watch[w] # "closed"}) = MaxWatchers
=============================================================================
