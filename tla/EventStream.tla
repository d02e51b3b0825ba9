------------------------------ MODULE EventStream ------------------------------
(***************************************************************************)
(* Events from the threads of the daemon to the clients that watch it:     *)
(* EventHub.publish and subscribe (events.py) and the watch request of the *)
(* IPC handler (ipc.py, _watch).  Publishers share nothing but the bounded *)
(* queues; each operation on a queue is atomic, their sequence is not.     *)
(*                                                                         *)
(* Versions count the changes the events announce.  The web server passes  *)
(* any event on as "refresh" (web.py, _watch), and the page reads the      *)
(* state afresh: such a watcher is Reloading.  The terminal and meshpi     *)
(* watch use what the event itself says, and only the events a watch asked *)
(* for are written to it, so of these only the order is followed.          *)
(***************************************************************************)
EXTENDS EventQueues

CONSTANTS
  None,
  QueueSize,   \* queue_size
  MaxEvents,   \* bound: events ever published
  MaxOpens     \* bound: watch requests ever made

vars == <<version, queues, queue, pub, watch, slots, seen, owed, last, opens>>

Event == [by : Publisher, number : 1..MaxEvents]
Version == 0..MaxEvents
Steps == {"closed", "answer", "subscribe", "get"}
Publish == [step : {"idle", "put", "get", "again"}, number : Version,
            left : SUBSET Watcher, full : Watcher \cup {None}]

TypeOK ==
  /\ version \in Version /\ queues \subseteq Watcher
  /\ queue \in [Watcher -> Seq(Event)]
  /\ \A w \in Watcher : Len(queue[w]) <= QueueSize
  /\ pub \in [Publisher -> Publish]
  /\ watch \in [Watcher -> Steps]
  /\ slots \in 0..MaxWatchers
  /\ seen \in [Watcher -> Version] /\ owed \in [Watcher -> Version]
  /\ last \in [Watcher -> [Publisher -> Version]]
  /\ opens \in 0..MaxOpens

Quiet == [step |-> "idle", number |-> 0, left |-> {}, full |-> None]
Init ==
  /\ version = 0 /\ queues = {} /\ queue = [w \in Watcher |-> <<>>]
  /\ pub = [p \in Publisher |-> Quiet]
  /\ watch = [w \in Watcher |-> "closed"] /\ slots = MaxWatchers
  /\ seen = [w \in Watcher |-> 0] /\ owed = [w \in Watcher |-> 0]
  /\ last = [w \in Watcher |-> [p \in Publisher |-> 0]] /\ opens = 0

-----------------------------------------------------------------------------

(* publish copies the subscribers under the lock and leaves it.            *)
Begin(p) ==
  /\ pub[p].step = "idle" /\ version < MaxEvents
  /\ version' = version + 1
  /\ pub' = [pub EXCEPT ![p] =
       IF queues = {} THEN Quiet
       ELSE [step |-> "put", number |-> version + 1, left |-> queues, full |-> None]]
  /\ owed' = [w \in Watcher |-> IF w \in queues THEN version + 1 ELSE owed[w]]
  /\ UNCHANGED <<queues, queue, watch, slots, seen, last, opens>>

Room(w) == Len(queue[w]) < QueueSize
Sent(p, w) == [queue EXCEPT ![w] = Append(@, [by |-> p, number |-> pub[p].number])]

(* One subscriber of the copy after the other, in any order of the set.    *)
Served(p, w) ==
  IF pub[p].left = {w} THEN Quiet
  ELSE [step |-> "put", number |-> pub[p].number, left |-> pub[p].left \ {w}, full |-> None]

\* It stays with a subscriber whose queue it has found full.
Full(p, w, step) ==
  [step |-> step, number |-> pub[p].number, left |-> pub[p].left, full |-> w]

Put(p) ==
  /\ pub[p].step = "put"
  /\ \E w \in pub[p].left :
       \/ /\ Room(w) /\ queue' = Sent(p, w)
          /\ pub' = [pub EXCEPT ![p] = Served(p, w)]
       \/ /\ ~Room(w) /\ pub' = [pub EXCEPT ![p] = Full(p, w, "get")]
          /\ UNCHANGED queue
  /\ UNCHANGED <<version, queues, watch, slots, seen, owed, last, opens>>

\* Mutant: a full queue is emptied and the new event given up.
DropOldestAll(p) ==
  LET w == pub[p].full IN
  /\ pub[p].step = "get"
  /\ queue' = [queue EXCEPT ![w] = <<>>]
  /\ pub' = [pub EXCEPT ![p] = Served(p, w)]
  /\ UNCHANGED <<version, queues, watch, slots, seen, owed, last, opens>>

(* The oldest event is dropped; if the watcher has emptied the queue in    *)
(* the meantime, the new event is given up instead.                        *)
DropOldest(p) ==
  LET w == pub[p].full IN
  /\ pub[p].step = "get"
  /\ \/ /\ queue[w] = <<>> /\ UNCHANGED queue
        /\ pub' = [pub EXCEPT ![p] = Served(p, w)]
     \/ /\ queue[w] # <<>> /\ queue' = [queue EXCEPT ![w] = Tail(@)]
        /\ pub' = [pub EXCEPT ![p] = Full(p, w, "again")]
  /\ UNCHANGED <<version, queues, watch, slots, seen, owed, last, opens>>

(* Another publisher may have taken the room that was made.                *)
PutAgain(p) ==
  LET w == pub[p].full IN
  /\ pub[p].step = "again"
  /\ queue' = IF Room(w) THEN Sent(p, w) ELSE queue
  /\ pub' = [pub EXCEPT ![p] = Served(p, w)]
  /\ UNCHANGED <<version, queues, watch, slots, seen, owed, last, opens>>

-----------------------------------------------------------------------------

(* A watch request takes one of the watchers' slots or is refused.         *)
Open(w) ==
  /\ watch[w] = "closed" /\ opens < MaxOpens /\ opens' = opens + 1
  /\ \/ slots > 0 /\ slots' = slots - 1 /\ watch' = [watch EXCEPT ![w] = "answer"]
     \/ slots = 0 /\ UNCHANGED <<slots, watch>>
  /\ UNCHANGED <<version, queues, queue, pub, seen, owed, last>>

\* The web page's refresh.
Reload(w) == IF w \in Reloading THEN [seen EXCEPT ![w] = version] ELSE seen

(* The client is told that it watches; one that reloads does so then.      *)
Answer(w) ==
  /\ watch[w] = "answer" /\ watch' = [watch EXCEPT ![w] = "subscribe"]
  /\ seen' = Reload(w)
  /\ UNCHANGED <<version, queues, queue, pub, slots, owed, last, opens>>

(* Only then is its queue made.                                            *)
Subscribe(w) ==
  /\ watch[w] = "subscribe" /\ watch' = [watch EXCEPT ![w] = "get"]
  /\ queues' = queues \cup {w} /\ queue' = [queue EXCEPT ![w] = <<>>]
  /\ UNCHANGED <<version, pub, slots, seen, owed, last, opens>>

Got(w, e) ==
  /\ last' = [last EXCEPT ![w][e.by] = e.number]
  /\ seen' = Reload(w)
  /\ UNCHANGED <<version, queues, pub, watch, slots, owed, opens>>

\* Mutant: the newest event is taken first.
TakeNewest(w) ==
  /\ watch[w] = "get" /\ queue[w] # <<>>
  /\ queue' = [queue EXCEPT ![w] = SubSeq(@, 1, Len(@) - 1)]
  /\ Got(w, queue[w][Len(queue[w])])

Take(w) ==
  /\ watch[w] = "get" /\ queue[w] # <<>>
  /\ queue' = [queue EXCEPT ![w] = Tail(@)]
  /\ Got(w, Head(queue[w]))

(* What a publisher still puts into the queue of a closed request is seen  *)
(* by nobody: it goes on with the others.                                  *)
Unwatched(w) ==
  [p \in Publisher |->
     IF w \notin pub[p].left THEN pub[p]
     ELSE IF pub[p].left = {w} \/ pub[p].full = w THEN Served(p, w)
     ELSE [pub[p] EXCEPT !.left = @ \ {w}]]

\* Mutant: only a watcher that was subscribed returns its slot.
HangUpSubscribed(w) ==
  /\ watch[w] # "closed" /\ watch' = [watch EXCEPT ![w] = "closed"]
  /\ slots' = IF watch[w] = "get" THEN slots + 1 ELSE slots
  /\ queues' = queues \ {w} /\ queue' = [queue EXCEPT ![w] = <<>>]
  /\ pub' = Unwatched(w)
  /\ UNCHANGED <<version, seen, owed, last, opens>>

(* The client hangs up or a write fails: the queue is discarded and the    *)
(* slot returned.                                                          *)
HangUp(w) ==
  /\ watch[w] # "closed" /\ watch' = [watch EXCEPT ![w] = "closed"]
  /\ slots' = slots + 1
  /\ queues' = queues \ {w} /\ queue' = [queue EXCEPT ![w] = <<>>]
  /\ pub' = Unwatched(w)
  /\ UNCHANGED <<version, seen, owed, last, opens>>

-----------------------------------------------------------------------------

Publishing(p) == Begin(p) \/ Put(p) \/ DropOldest(p) \/ PutAgain(p)
Watching(w) == Open(w) \/ Answer(w) \/ Subscribe(w) \/ Take(w) \/ HangUp(w)
Next == (\E p \in Publisher : Publishing(p)) \/ (\E w \in Watcher : Watching(w))

Spec == Init /\ [][Next]_vars
(* A thread inside publish runs on; a watcher that is subscribed reads.    *)
FairSpec ==
  /\ Spec
  /\ \A p \in Publisher : WF_vars(Put(p) \/ DropOldest(p) \/ PutAgain(p))
  /\ \A w \in Watcher : WF_vars(Take(w))

-----------------------------------------------------------------------------

(* Every change announced while a client that reloads is subscribed is     *)
(* followed by an event it takes, whatever is dropped between the          *)
(* publishers: it never rests with an old picture and an empty queue.      *)
ChangesAreNoticed ==
  \A w \in Reloading : []<>(watch[w] # "get" \/ seen[w] >= owed[w])
=============================================================================
