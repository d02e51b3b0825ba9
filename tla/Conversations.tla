----------------------------- MODULE Conversations ----------------------------
(* The conversations of one gateway's message tables, and what their commands    *)
(* promise: no reception is lost, and what was closed stays closed.  The steps   *)
(* are in MessageStore, which says what a conversation is.                       *)

CONSTANTS
  Peer,
  Packet, PartyOf   \* received packets and their party

VARIABLES
  rows,        \* messages with their message_observations
  closed,      \* archived_conversation_ids, archived_conversations (route "legacy")
  heard,       \* (observer) what was stored and not cleared
  quiet        \* (observer) conversations closed with nothing new in them since

Bound == {"main", "side"}
Route == Bound \cup {"prov0", "prov1", "legacy"}
Conversation(r) == <<PartyOf[r.pkt], r.route>>

\* conversations: the routes of a peer that are not hidden.
Listed(peer) ==
  {Conversation(r)[2] : r \in {s \in rows : PartyOf[s.pkt] = peer}}
  \ {route \in Route : <<peer, route>> \in closed \/ <<peer, "legacy">> \in closed}

----------------------------------------------------------------------------
\* Every reception that was stored is still there, whichever of its packet's rows it was
\* stored with and however those were bound and merged since: DEVELOPMENT.md:380
\* (insert_message, rebind_provisional_channel, rebind_legacy_primary_dms).
ObservationsSurvive ==
  \A h \in heard : \E r \in rows : r.pkt = h[1] /\ h[2] \in r.seen

\* A conversation that was closed, and in which nothing has happened since, is not listed,
\* although its rows were bound to another channel key meanwhile.
ClosedStaysClosed == \A c \in quiet : c[2] \notin Listed(c[1])

\* Neither binding, merging nor closing loses a reception or reopens a conversation.
ConversationsAreKept == ObservationsSurvive /\ ClosedStaysClosed
==============================================================================
