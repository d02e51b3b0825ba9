------------------------------- MODULE Removals -------------------------------
(* What the removal of contacts keeps (remove_nodes, _remove_nodes_worker and   *)
(* _refresh_node_registry in service.py) and what it keeps in order.  The steps *)
(* are in NodeRemoval.                                                          *)
EXTENDS Naturals, Sequences

CONSTANTS
  Batch,       \* calls of remove_nodes
  MaxLinks     \* bound on interfaces

VARIABLES
  iface,     \* _interface: the number of a link, or 0
  links,     \* how many links there have been
  lost,      \* _lost
  refreshOf, \* _node_refresh_interface
  active,    \* _node_removal_send_active, one flag for the calls of all batches
  reg,       \* per link, the SDK's registry: names, its identity, and a download
  handler,   \* per link, the batches whose wrapper _handleConfigComplete runs
  wire,      \* what the present link's radio has still to do
  radio,     \* contacts in the radio
  status,    \* per batch, action["status"]
  item,      \* per batch, the status of its contacts
  row,       \* per batch, the durable copy of both
  late,      \* per batch, the copy that whoever failed it has still to store
  w,         \* per batch, its worker
  sdk,       \* per batch, the thread in removeNode, or that it is due
  cfg,       \* per batch, the thread in _startConfig
  listed,    \* contacts whose removed_at is NULL
  newer,     \* contacts heard since they were hidden
  hears,     \* how many contacts were heard again
  lacked     \* (observer) contacts the radio has lacked since they were last asked for

Open == {"queued", "sent"}

----------------------------------------------------------------------------
\* Nobody asks a link for two removals at once, although a call may hang and return, or even
\* begin, after its batch was given up: a call whose worker no longer waits for it has lost
\* its link.  Calls of two links may overlap (remove_nodes, _remove_nodes_worker).
Calling(b) == sdk[b] \in {"calling", "out"}
OneCallPerLink ==
  \A b \in Batch : Calling(b) =>
    /\ \A e \in Batch : Calling(e) /\ w[e].i = w[b].i => e = b
    /\ w[b].at # "send" => iface # w[b].i \/ lost

\* While the registry of the link in use is only partly downloaded, either the refresh is
\* known to be under way or the link is given up, so nobody reads it as complete; a late
\* _startConfig included (_refresh_node_registry, local_node_info, _sync_nodes).
PartialIsNotTrusted ==
  iface # 0 /\ ~reg[iface].whole => refreshOf = iface \/ lost

\* When no refresh is under way on a link, its completion handler is the SDK's own
\* (_refresh_node_registry), and when a worker has ended, its durable row leaves
\* no contact open, whichever thread stores it last (_remove_nodes_worker).
LeavesNoTrace ==
  /\ \A i \in 1..MaxLinks : handler[i] # <<>> =>
       \E b \in Batch : w[b].i = i /\ w[b].at \in {"barrier", "restore", "restoreFailed"}
  /\ \A b \in Batch : w[b].at = "done" =>
       /\ status[b] # "started" /\ row[b].status # "started"
       /\ \A c \in DOMAIN item[b] : item[b][c] \notin Open /\ row[b].item[c] \notin Open

\* What a removal keeps in order on the radio, in the registry and in its log.
RemovalIsOrderly == OneCallPerLink /\ PartialIsNotTrusted /\ LeavesNoTrace
==============================================================================
