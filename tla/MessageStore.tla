----------------------------- MODULE MessageStore ----------------------------
(* The message tables of one gateway as the daemon's threads and its clients    *)
(* use them (database.py, the conversation commands of ipc.py): packets that    *)
(* several transports deliver, provisional channels and legacy rows that are    *)
(* bound to their channel later, and direct messages that are closed.            *)
(*                                                                              *)
(* A conversation is a party (a node, or "public") and a route: the channel's   *)
(* own key ("main" for channel 0, "side" for channel 1), a provisional key      *)
(* while the channels are unknown, or none at all in rows of older releases.    *)
(* Only received messages; outgoing ones and retention are in MessageDelivery.  *)
(* A transaction is one step.                                                  *)
EXTENDS Naturals, FiniteSets, Conversations

CONSTANTS
  ChannelOf,                   \* the channel index of each packet
  Transport,
  None,
  MaxHears, MaxCloses, MaxClears, MaxReconnects   \* bounds on what happens outside

VARIABLES
  bound,       \* the service knows the radio's channels (_channel_bindings)
  active,      \* channel_bindings holds them as active
  sync,        \* the step of _sync_channels_locked
  received,    \* the packet in _on_receive
  budget       \* what is left of the bounds

vars == <<rows, closed, bound, active, sync, received, heard, quiet, budget>>

Row == [pkt: Packet, route: Route, seen: SUBSET Transport]

TypeOK ==
  /\ rows \subseteq Row
  /\ \A r, s \in rows : r.pkt = s.pkt /\ r.route = s.route => r = s  \* the unique index
  /\ closed \subseteq Peer \X Route /\ quiet \subseteq Peer \X Route
  /\ bound \in BOOLEAN /\ active \in BOOLEAN
  /\ sync \in {"idle", "table", "main", "legacy", "side"}
  /\ received \in {None} \cup [pkt: Packet, by: Transport, route: Route \cup {None}]
  /\ heard \subseteq Packet \X Transport

IsDM(p) == PartyOf[p] \in Peer

\* A direct message on channel 0 may be a row of an older release.
Init ==
  /\ \E p \in Packet, t \in Transport :
       \/ rows = {}
       \/ /\ IsDM(p) /\ ChannelOf[p] = 0
          /\ rows = {[pkt |-> p, route |-> "legacy", seen |-> {t}]}
  /\ heard = UNION {{r.pkt} \X r.seen : r \in rows}
  /\ closed = {} /\ quiet = {}
  /\ bound = FALSE /\ active = FALSE /\ sync = "idle"
  /\ received = None
  /\ budget = [hear |-> MaxHears, close |-> MaxCloses, clear |-> MaxClears,
               reconnect |-> MaxReconnects]

Spend(what) == budget[what] > 0 /\ budget' = [budget EXCEPT ![what] = @ - 1]

----------------------------------------------------------------------------
(* Receiving: _on_receive on the publishing thread.                          *)

Hear(p, t) ==
  /\ received = None /\ Spend("hear")
  /\ received' = [pkt |-> p, by |-> t, route |-> None]
  /\ UNCHANGED <<rows, closed, bound, active, sync, heard, quiet>>

\* _channel_binding: the channel's key, provisional while the channels are unknown.
RouteNow(ch) == IF bound THEN (IF ch = 0 THEN "main" ELSE "side")
                         ELSE (IF ch = 0 THEN "prov0" ELSE "prov1")
Bind ==
  /\ received # None /\ received.route = None
  /\ received' = [received EXCEPT !.route = RouteNow(ChannelOf[received.pkt])]
  /\ UNCHANGED <<rows, closed, bound, active, sync, heard, quiet, budget>>

\* What a new row of a direct message reopens.
Reopened == {<<PartyOf[received.pkt], received.route>>, <<PartyOf[received.pkt], "legacy">>}

\* insert_message: a duplicate only adds how it was received.
Insert ==
  /\ received # None /\ received.route # None
  /\ LET same == {r \in rows : r.pkt = received.pkt /\ r.route = received.route}
     IN \/ /\ same # {}
           /\ rows' = (rows \ same) \cup {[r EXCEPT !.seen = @ \cup {received.by}] : r \in same}
           /\ UNCHANGED <<closed, quiet>>
        \/ /\ same = {}
           /\ rows' = rows \cup {[pkt |-> received.pkt, route |-> received.route,
                                  seen |-> {received.by}]}
           /\ closed' = closed \ Reopened /\ quiet' = quiet \ Reopened
  /\ heard' = heard \cup {<<received.pkt, received.by>>}
  /\ received' = None
  /\ UNCHANGED <<bound, active, sync, budget>>

----------------------------------------------------------------------------
(* _sync_channels_locked, which the worker repeats and a packet may start.    *)

\* The radio's channels are read into memory.
SyncBind ==
  /\ sync = "idle" /\ bound' = TRUE /\ sync' = "table"
  /\ UNCHANGED <<rows, closed, active, received, heard, quiet, budget>>

\* sync_channel_bindings.
SyncTable ==
  /\ sync = "table" /\ active' = TRUE /\ sync' = "main"
  /\ UNCHANGED <<rows, closed, bound, received, heard, quiet, budget>>

Rows(route) == {r \in rows : r.route = route}
Twins(r, route) == {s \in Rows(route) : s.pkt = r.pkt}

\* Mutant: a duplicate is deleted with its observations.
MergedDropping(from, to) ==
  {r \in rows : r.route # from}
  \cup {[r EXCEPT !.route = to] : r \in {s \in Rows(from) : Twins(s, to) = {}}}
\* Rows of one route become rows of another.  A row that is there already takes over the
\* observations of its duplicate, which goes.
Merged(from, to) ==
  {r \in rows : r.route \notin {from, to}}
  \cup {[r EXCEPT !.route = to] : r \in {s \in Rows(from) : Twins(s, to) = {}}}
  \cup {[r EXCEPT !.seen = UNION {s.seen : s \in {r} \cup Twins(r, from)}] : r \in Rows(to)}

\* Mutant: the mark of a closed conversation stays with the rows that have gone.
MarkedStill(S, from, to) == S
\* The mark of a closed conversation moves with its rows.
Marked(S, from, to) ==
  LET moved == {c \in S : c[2] = from /\ \E r \in rows : Conversation(r) = c}
  IN (S \ moved) \cup {<<c[1], to>> : c \in moved}

\* rebind_provisional_channel and rebind_legacy_primary_dms, a transaction each.
Rebind(at, from, to, next) ==
  /\ sync = at /\ sync' = next
  /\ rows' = Merged(from, to)
  /\ closed' = Marked(closed, from, to)
  /\ quiet' = {c \in (quiet \ {d \in quiet : d[2] = from})
                     \cup {<<d[1], to>> : d \in {e \in quiet : e[2] = from}} :
                 c \in quiet \/ \A r \in rows : Conversation(r) # c}
  /\ UNCHANGED <<bound, active, received, heard, budget>>

\* SQLite is busy: the rest is left to the next round (_sync_channels_safely).
SyncBusy ==
  /\ sync # "idle" /\ Spend("reconnect") /\ sync' = "idle"
  /\ UNCHANGED <<rows, closed, bound, active, received, heard, quiet>>

\* Mutant: the rows of older releases are left as they are.
SyncScopedOnly ==
  \/ SyncBind \/ SyncTable
  \/ Rebind("main", "prov0", "main", "side") \/ Rebind("side", "prov1", "side", "idle")
Sync ==
  \/ SyncBind \/ SyncTable
  \/ Rebind("main", "prov0", "main", "legacy") \/ Rebind("legacy", "legacy", "main", "side")
  \/ Rebind("side", "prov1", "side", "idle")

\* Another interface, or a restart: the channels must be asked for again.
Reconnect ==
  /\ bound /\ sync = "idle" /\ Spend("reconnect") /\ bound' = FALSE
  /\ UNCHANGED <<rows, closed, active, sync, received, heard, quiet>>

----------------------------------------------------------------------------
(* Clients: conversations, archive_conversation, delete_messages.             *)

\* _visible_conversations shows one entry for a peer: of the routes on which one can send
\* now, if there are any.
Shown(peer) ==
  LET sendable == IF active THEN Listed(peer) \cap Bound ELSE {}
  IN IF sendable # {} THEN sendable ELSE Listed(peer)

\* archive_conversation of the entry that the list shows.
Close(peer, route) ==
  /\ route \in Shown(peer) /\ Spend("close")
  /\ closed' = closed \cup {<<peer, route>>}
  /\ quiet' = quiet \cup {<<peer, route>>}
  /\ UNCHANGED <<rows, bound, active, sync, received, heard>>

\* Opening the node again from the node list (unarchive_conversation).
Reopen(peer, route) ==
  /\ <<peer, route>> \in closed
  /\ closed' = closed \ {<<peer, route>>} /\ quiet' = quiet \ {<<peer, route>>}
  /\ UNCHANGED <<rows, bound, active, sync, received, heard, budget>>

\* What delete_messages removes.
Scope(kind) == {r \in rows : kind = "all" \/ (kind = "dm") = IsDM(r.pkt)}

Clear(kind) ==
  /\ kind \in {"public", "dm", "all"} /\ Spend("clear")
  /\ rows' = rows \ Scope(kind)
  /\ heard' = {h \in heard : \A r \in Scope(kind) : r.pkt # h[1]}
  /\ IF kind = "public" THEN UNCHANGED <<closed, quiet>> ELSE closed' = {} /\ quiet' = {}
  /\ UNCHANGED <<bound, active, sync, received>>

Next ==
  \/ \E p \in Packet, t \in Transport : Hear(p, t)
  \/ Bind \/ Insert \/ Sync \/ SyncBusy \/ Reconnect
  \/ \E peer \in Peer, route \in Route : Close(peer, route) \/ Reopen(peer, route)
  \/ \E kind \in {"public", "dm", "all"} : Clear(kind)

Spec == Init /\ [][Next]_vars

\* The worker synchronises the channels of a connected radio in every health check, and a
\* packet that is being handled is handled.
FairSpec == Spec /\ WF_vars(Sync) /\ WF_vars(Bind) /\ WF_vars(Insert)

----------------------------------------------------------------------------
\* A message received before the channels were known is bound in the end, and then there
\* is one row of each packet (_sync_channels_locked, README.md:489).
ProvisionalEnds ==
  []<>(\A r \in rows : r.route \in Bound /\ Twins(r, r.route) = {r})

\* Closing a direct message hides it from the list: README.md:628.
ClosedIsHidden ==
  [][\A c \in quiet' \ quiet : budget'.close # budget.close => Listed(c[1])' = {}]_vars
==============================================================================
