----------------------------- MODULE NodeRemoval -----------------------------
(* service.py remove_nodes, _remove_nodes_worker, _refresh_node_registry: a     *)
(* batch of contacts is removed from the radio, one request at a time, and a    *)
(* contact is reported as removed only when a node list downloaded after its    *)
(* request lacks it.  Each batch has a worker thread, which starts one thread   *)
(* for the SDK's removeNode and one for its _startConfig; both may hang and     *)
(* return late.  Meanwhile the connection is lost and replaced.                 *)
(*                                                                              *)
(* nodes and nodesByNum are one registry here, and its identity is a number.    *)
(* One gateway; its radio answers in the order in which it is asked.            *)
EXTENDS Removals

CONSTANTS
  Contact,
  None,
  Selections,  \* bound: the sets of contacts that are chosen
  MaxHears     \* bound on contacts heard again

conn == <<iface, links, lost>>
radioVars == <<wire, radio, hears>>
vars == <<iface, links, lost, refreshOf, active, reg, handler, wire, radio, status, item,
          row, late, w, sdk, cfg, listed, newer, hears, lacked>>

Statuses == {"queued", "sent", "removed", "sent_unverified", "failed", "skipped"}
Idle == [at |-> "none", c |-> None, i |-> 0, saved |-> <<>>, was |-> 0, left |-> FALSE,
         done |-> FALSE]

TypeOK ==
  /\ iface \in 0..MaxLinks /\ links \in 0..MaxLinks /\ lost \in BOOLEAN
  /\ refreshOf \in 0..MaxLinks /\ active \in BOOLEAN
  /\ \A i \in 1..MaxLinks :
       /\ reg[i].names \subseteq Contact /\ reg[i].coming \subseteq Contact
       /\ reg[i].whole \in BOOLEAN
       /\ \A k \in DOMAIN handler[i] : handler[i][k] \in Batch
       /\ Len(handler[i]) <= 1
  /\ radio \subseteq Contact /\ listed \subseteq Contact
  /\ newer \subseteq Contact /\ lacked \subseteq Contact
  /\ status \in [Batch -> {"none", "started", "failed", "completed"}]
  /\ \A b \in Batch : item[b] \in UNION {[S -> Statuses] : S \in SUBSET Contact}
  /\ \A b \in Batch : row[b].item \in UNION {[S -> Statuses] : S \in SUBSET Contact}

Init ==
  /\ iface = 1 /\ links = 1 /\ lost = FALSE /\ refreshOf = 0 /\ active = FALSE
  /\ reg = [i \in 1..MaxLinks |-> [names |-> Contact, id |-> 0, whole |-> TRUE, coming |-> {}]]
  /\ handler = [i \in 1..MaxLinks |-> <<>>]
  /\ wire = <<>> /\ radio = Contact
  /\ status = [b \in Batch |-> "none"] /\ item = [b \in Batch |-> <<>>]
  /\ row = [b \in Batch |-> [status |-> "none", item |-> <<>>]]
  /\ late = [b \in Batch |-> None]
  /\ w = [b \in Batch |-> Idle]
  /\ sdk = [b \in Batch |-> "none"] /\ cfg = [b \in Batch |-> "none"]
  /\ listed = Contact /\ newer = {} /\ hears = 0 /\ lacked = {}

\* upsert_node_action of the batch as it is after the step.
Store(b) == row' = [row EXCEPT ![b] = [status |-> status'[b], item |-> item'[b]]]
At(b, at) == w' = [w EXCEPT ![b].at = at]
\* The worker ends; the threads it has started go on with its contact and link.
Gone(b) == w' = [w EXCEPT ![b] = [Idle EXCEPT !.at = "done", !.c = w[b].c, !.i = w[b].i]]
\* _removal_interface: the gateway is the same, so only the link can differ.
Usable(i) == iface = i /\ iface # 0 /\ ~lost

\* Mutant: only the queued contacts are closed.
ClosedQueued(f) == [c \in DOMAIN f |-> IF f[c] = "queued" THEN "skipped" ELSE f[c]]
\* An action that ends with an error closes the contacts that are still open.
Closed(f) == [c \in DOMAIN f |-> CASE f[c] = "sent" -> "sent_unverified"
                                   [] f[c] = "queued" -> "skipped"
                                   [] OTHER -> f[c]]

\* One batch at a time, and none while an SDK call is marked as not returned.
MayStart == ~active /\ \A b \in Batch : status[b] # "started"

\* remove_nodes.
Start(b, S) ==
  /\ status[b] = "none"
  /\ b = CHOOSE a \in Batch : status[a] = "none"
  /\ Usable(iface) /\ MayStart
  /\ S \subseteq listed
  /\ status' = [status EXCEPT ![b] = "started"]
  /\ item' = [item EXCEPT ![b] = [c \in S |-> "queued"]]
  /\ Store(b)
  /\ w' = [w EXCEPT ![b] = [Idle EXCEPT !.at = "next", !.i = iface]]
  /\ UNCHANGED <<late, conn, refreshOf, active, reg, handler, radioVars, sdk, cfg, listed, newer, lacked>>

\* The top of the worker's loop, under the lock: the next contact is marked as sent and
\* stored.  The order of a batch is the client's; one order stands for all.
Queued(b) == {c \in DOMAIN item[b] : item[b][c] = "queued"}
Pick(b) ==
  /\ w[b].at = "next" /\ status[b] = "started" /\ Queued(b) # {}
  /\ UNCHANGED <<late, conn, refreshOf, active, reg, handler, radioVars, status, cfg, listed,
                 newer>>
  /\ LET c == CHOOSE q \in Queued(b) : TRUE IN
     \/ /\ Usable(w[b].i)
        /\ item' = [item EXCEPT ![b][c] = "sent"] /\ Store(b)
        /\ w' = [w EXCEPT ![b] = [@ EXCEPT !.at = "send", !.c = c]]
        /\ sdk' = [sdk EXCEPT ![b] = "due"]
        /\ lacked' = lacked \ {c}
     \/ /\ ~Usable(w[b].i) /\ w' = [w EXCEPT ![b] = [@ EXCEPT !.at = "except", !.c = c]]
        /\ UNCHANGED <<item, row, sdk, lacked>>

\* Only then, and without the lock, the flag is set and the call's thread started: what was
\* checked under the lock may no longer hold.
Call(b) ==
  /\ w[b].at = "send" /\ sdk[b] = "due"
  /\ active' = TRUE /\ sdk' = [sdk EXCEPT ![b] = "calling"]
  /\ UNCHANGED <<late, conn, refreshOf, reg, handler, radioVars, status, item, row, w, cfg,
                 listed, newer, lacked>>

\* removeNode in its own thread: the request goes out, then the call returns or raises.
SdkSends(b) ==
  /\ sdk[b] = "calling"
  /\ sdk' = [sdk EXCEPT ![b] = "out"]
  /\ wire' = IF iface = w[b].i THEN Append(wire, w[b].c) ELSE wire
  /\ UNCHANGED <<late, conn, refreshOf, active, reg, handler, radio, hears, status, item, row, w, cfg,
                 listed, newer, lacked>>
SdkReturns(b) ==
  /\ \/ sdk[b] = "out" /\ sdk' = [sdk EXCEPT ![b] = "returned"]
     \/ sdk[b] \in {"calling", "out"} /\ sdk' = [sdk EXCEPT ![b] = "raised"]
  /\ active' = FALSE
  /\ UNCHANGED <<late, conn, refreshOf, reg, handler, radioVars, status, item, row, w, cfg, listed,
                 newer, lacked>>

\* Mutant: the worker waits without a deadline.
SendWaitedOut(b) ==
  /\ w[b].at = "send"
  /\ \/ sdk[b] = "returned" /\ At(b, "refresh")
     \/ sdk[b] = "raised" /\ At(b, "except")
  /\ UNCHANGED <<late, conn, refreshOf, active, reg, handler, radioVars, status, item, row, sdk,
                 cfg, listed, newer, lacked>>
\* The worker waits for the call, at most until the deadline.
SendWaited(b) ==
  /\ w[b].at = "send"
  /\ \/ sdk[b] = "returned" /\ At(b, "refresh") /\ UNCHANGED lost
     \/ sdk[b] = "raised" /\ At(b, "except") /\ UNCHANGED lost
     \/ /\ sdk[b] \in {"calling", "out"} /\ At(b, "except")
        /\ lost' = (lost \/ iface = w[b].i)
  /\ UNCHANGED <<late, iface, links, refreshOf, active, reg, handler, radioVars, status, item, row, sdk,
                 cfg, listed, newer, lacked>>

----------------------------------------------------------------------------
(* _refresh_node_registry.                                                   *)

BeginRefresh(b) ==
  /\ w[b].at = "refresh"
  /\ UNCHANGED <<late, conn, active, reg, radioVars, status, item, row, sdk, listed, newer, lacked>>
  /\ LET i == w[b].i IN
     \/ /\ Usable(i)
        /\ w' = [w EXCEPT ![b] = [@ EXCEPT !.at = "barrier", !.saved = handler[i],
                                           !.was = reg[i].id, !.left = FALSE, !.done = FALSE]]
        /\ handler' = [handler EXCEPT ![i] = <<b>> \o @]
        /\ refreshOf' = i
        /\ cfg' = [cfg EXCEPT ![b] = "starting"]
     \/ ~Usable(i) /\ At(b, "except") /\ UNCHANGED <<handler, refreshOf, cfg>>

\* _startConfig in its own thread, perhaps after the worker has given up: the registry
\* is emptied and the radio asked for everything.
StartConfig(b) ==
  /\ cfg[b] = "starting"
  /\ LET i == w[b].i IN
     \/ /\ cfg' = [cfg EXCEPT ![b] = "started"]
        /\ reg' = [reg EXCEPT ![i] = [names |-> {}, id |-> @.id + 1, whole |-> FALSE, coming |-> {}]]
        /\ wire' = IF iface = i THEN Append(wire, "config") ELSE wire
        /\ UNCHANGED w
     \/ /\ cfg' = [cfg EXCEPT ![b] = "raised"]
        /\ w' = IF w[b].at = "done" THEN w ELSE [w EXCEPT ![b].done = TRUE]
        /\ UNCHANGED <<reg, wire>>
  /\ UNCHANGED <<late, conn, refreshOf, active, handler, radio, hears, status, item, row, sdk, listed,
                 newer, lacked>>

\* Mutant: an answer counts as soon as the registry is a new one.
AnsweredEarly(b) == w[b].done \/ reg[w[b].i].id # w[b].was
\* The barrier: config_complete has run, or start() has raised.
Answered(b) == w[b].done

\* completed.wait(timeout), and the checks that follow it.
Barrier(b) ==
  /\ w[b].at = "barrier"
  /\ \/ /\ Answered(b) /\ cfg[b] # "raised" /\ Usable(w[b].i) /\ reg[w[b].i].id # w[b].was
        /\ w' = [w EXCEPT ![b] = [@ EXCEPT !.at = "restore", !.left = w[b].c \in reg[w[b].i].names,
                                           !.done = TRUE]]
     \/ /\ Answered(b) /\ (cfg[b] = "raised" \/ ~Usable(w[b].i) \/ reg[w[b].i].id = w[b].was)
        /\ At(b, "restoreFailed")
     \/ ~Answered(b) /\ At(b, "restoreFailed")
  /\ UNCHANGED <<late, conn, refreshOf, active, reg, handler, radioVars, status, item, row, sdk, cfg,
                 listed, newer, lacked>>

\* Mutant: a partial registry does not end the connection.
BrokenNever(b) == FALSE
\* The download did not end: the registry of this link cannot be trusted.
Broken(b) == (~w[b].done \/ cfg[b] = "raised") /\ iface = w[b].i

\* Mutant: a refresh that failed leaves its wrapper in place.
RestoreIfDone(b) ==
  /\ w[b].at \in {"restore", "restoreFailed"}
  /\ handler' = IF w[b].at = "restore" THEN [handler EXCEPT ![w[b].i] = w[b].saved] ELSE handler
  /\ refreshOf' = IF refreshOf = w[b].i THEN 0 ELSE refreshOf
  /\ lost' = (lost \/ Broken(b))
  /\ At(b, IF w[b].at = "restore" /\ ~w[b].left THEN "confirm" ELSE "except")
  /\ UNCHANGED <<late, iface, links, active, reg, radioVars, status, item, row, sdk, cfg, listed, newer,
                 lacked>>
\* finally: the SDK's own handler is put back.
Restore(b) ==
  /\ w[b].at \in {"restore", "restoreFailed"}
  /\ handler' = [handler EXCEPT ![w[b].i] = w[b].saved]
  /\ refreshOf' = IF refreshOf = w[b].i THEN 0 ELSE refreshOf
  /\ lost' = (lost \/ Broken(b))
  /\ At(b, IF w[b].at = "restore" /\ ~w[b].left THEN "confirm" ELSE "except")
  /\ UNCHANGED <<late, iface, links, active, reg, radioVars, status, item, row, sdk, cfg, listed, newer,
                 lacked>>

----------------------------------------------------------------------------
(* The end of a contact and of a batch.                                      *)

\* Absence is checked once more, then the contact is hidden, the node list synchronised
\* (_sync_nodes_locked) and the contact reported.
Confirm(b) ==
  /\ w[b].at = "confirm"
  /\ UNCHANGED <<late, conn, refreshOf, active, reg, handler, radioVars, status, sdk, cfg, lacked>>
  /\ LET c == w[b].c IN
     \/ /\ status[b] = "started" /\ Usable(w[b].i) /\ c \notin reg[w[b].i].names
        /\ newer' = newer \ {c}
        /\ listed' = (listed \ {c}) \cup (reg[w[b].i].names \cap newer')
        /\ item' = [item EXCEPT ![b][c] = "removed"] /\ Store(b)
        /\ At(b, "next")
     \/ /\ status[b] = "started" /\ ~(Usable(w[b].i) /\ c \notin reg[w[b].i].names)
        /\ At(b, "except") /\ UNCHANGED <<listed, newer, item, row>>
     \/ status[b] # "started" /\ At(b, "next") /\ UNCHANGED <<listed, newer, item, row>>

\* The exception handler, with the _finish_node_action it calls.
Except(b) ==
  /\ w[b].at = "except"
  /\ item' = [item EXCEPT ![b] =
                [c \in DOMAIN @ |->
                   IF c = w[b].c THEN (IF @[c] = "sent" THEN "sent_unverified" ELSE "failed")
                   ELSE IF @[c] = "queued" THEN "skipped" ELSE @[c]]]
  /\ status' = [status EXCEPT ![b] = IF @ = "started" THEN "failed" ELSE @]
  /\ Store(b)
  /\ Gone(b)
  /\ UNCHANGED <<late, conn, refreshOf, active, reg, handler, radioVars, sdk, cfg, listed, newer, lacked>>

\* After the loop: nothing is left, or somebody else has failed the batch.
Finish(b) ==
  /\ w[b].at = "next"
  /\ \/ /\ status[b] # "started" /\ item' = [item EXCEPT ![b] = Closed(@)]
        /\ UNCHANGED status
     \/ /\ status[b] = "started" /\ Queued(b) = {}
        /\ status' = [status EXCEPT ![b] = "completed"]
        /\ UNCHANGED item
  /\ Store(b)
  /\ Gone(b)
  /\ UNCHANGED <<late, conn, refreshOf, active, reg, handler, radioVars, sdk, cfg, listed, newer, lacked>>

\* _fail_pending_node_actions after a loss, or by the worker of the connection: the batch
\* is closed under the lock, and its copy stored only after that.
FailPending(b) ==
  /\ status[b] = "started" /\ (lost \/ iface = 0)
  /\ status' = [status EXCEPT ![b] = "failed"]
  /\ item' = [item EXCEPT ![b] = Closed(@)]
  /\ late' = [late EXCEPT ![b] = [status |-> "failed", item |-> item'[b]]]
  /\ UNCHANGED <<conn, refreshOf, active, reg, handler, radioVars, row, w, sdk, cfg, listed,
                 newer, lacked>>
StoreFailed(b) ==
  /\ late[b] # None
  /\ row' = [row EXCEPT ![b] = late[b]] /\ late' = [late EXCEPT ![b] = None]
  /\ UNCHANGED <<conn, refreshOf, active, reg, handler, radioVars, status, item, w, sdk, cfg,
                 listed, newer, lacked>>

----------------------------------------------------------------------------
(* The connection, the radio and the node list.                              *)

Lose ==
  /\ iface # 0 /\ ~lost /\ links < MaxLinks /\ lost' = TRUE
  /\ UNCHANGED <<late, iface, links, refreshOf, active, reg, handler, radioVars, status, item, row, w,
                 sdk, cfg, listed, newer, lacked>>

Take ==
  /\ iface # 0 /\ lost /\ iface' = 0 /\ wire' = <<>>
  /\ UNCHANGED <<late, links, lost, refreshOf, active, reg, handler, radio, hears, status, item, row, w,
                 sdk, cfg, listed, newer, lacked>>

\* A new interface downloads everything before it is published.
Reconnect ==
  /\ iface = 0 /\ links < MaxLinks
  /\ links' = links + 1 /\ iface' = links + 1 /\ lost' = FALSE
  /\ reg' = [reg EXCEPT ![links + 1].names = radio]
  /\ UNCHANGED <<late, refreshOf, active, handler, radioVars, status, item, row, w, sdk, cfg, listed,
                 newer, lacked>>

\* The radio carries out what it is asked, in order.
RadioTakes ==
  /\ wire # <<>> /\ wire' = Tail(wire)
  /\ \/ /\ Head(wire) # "config"
        /\ radio' = radio \ {Head(wire)} /\ lacked' = lacked \cup {Head(wire)}
        /\ UNCHANGED reg
     \/ /\ Head(wire) = "config"
        /\ reg' = [reg EXCEPT ![iface].coming = radio]
        /\ lacked' = lacked \cup (Contact \ radio)
        /\ UNCHANGED radio
  /\ UNCHANGED <<late, conn, refreshOf, active, handler, hears, status, item, row, w, sdk, cfg, listed,
                 newer>>

\* The answer to a download: node after node, then _handleConfigComplete.
Downloads == iface # 0 /\ ~reg[iface].whole /\ \A k \in DOMAIN wire : wire[k] # "config"
NodeInfo(c) ==
  /\ Downloads /\ c \in reg[iface].coming
  /\ reg' = [reg EXCEPT ![iface].names = @ \cup {c}, ![iface].coming = @ \ {c}]
  /\ UNCHANGED <<late, conn, refreshOf, active, handler, radioVars, status, item, row, w, sdk, cfg,
                 listed, newer, lacked>>
ConfigComplete ==
  /\ Downloads /\ reg[iface].coming = {}
  /\ reg' = [reg EXCEPT ![iface].whole = TRUE]
  /\ w' = [b \in Batch |-> IF \E k \in DOMAIN handler[iface] : handler[iface][k] = b
                           THEN [w[b] EXCEPT !.done = TRUE] ELSE w[b]]
  /\ UNCHANGED <<late, conn, refreshOf, active, handler, radioVars, status, item, row, sdk, cfg, listed,
                 newer, lacked>>

\* A packet of a contact that the SDK does not list: the radio and the SDK learn it again.
Hear(c) ==
  /\ hears < MaxHears /\ hears' = hears + 1
  /\ iface # 0 /\ c \notin reg[iface].names
  /\ radio' = radio \cup {c}
  /\ reg' = [reg EXCEPT ![iface].names = @ \cup {c}]
  /\ newer' = newer \cup {c}
  /\ UNCHANGED <<late, conn, refreshOf, active, handler, wire, status, item, row, w, sdk, cfg, listed,
                 lacked>>

\* _sync_nodes: an entry that is not newer than removed_at leaves the contact hidden.
SyncNodes ==
  /\ Usable(iface) /\ refreshOf # iface
  /\ listed' = listed \cup (reg[iface].names \cap newer) /\ listed' # listed
  /\ UNCHANGED <<late, conn, refreshOf, active, reg, handler, radioVars, status, item, row, w, sdk, cfg,
                 newer, lacked>>

Worker(b) ==
  \/ Pick(b) \/ Call(b) \/ SendWaited(b) \/ BeginRefresh(b) \/ Barrier(b) \/ Restore(b)
  \/ Confirm(b) \/ Except(b) \/ Finish(b)

Next ==
  \/ \E b \in Batch :
       \/ \E S \in Selections : Start(b, S)
       \/ Worker(b) \/ SdkSends(b) \/ SdkReturns(b) \/ StartConfig(b)
       \/ FailPending(b) \/ StoreFailed(b)
  \/ Lose \/ Take \/ Reconnect \/ RadioTakes \/ ConfigComplete \/ SyncNodes
  \/ \E c \in Contact : NodeInfo(c) \/ Hear(c)

Spec == Init /\ [][Next]_vars

\* The worker's waits have deadlines and the rest of it runs; nothing is assumed of the
\* SDK's threads, of the radio or of the connection.
FairSpec == Spec /\ \A b \in Batch : WF_vars(Worker(b))

----------------------------------------------------------------------------
\* A contact is reported as removed, or hidden from the list, only if the radio has lacked
\* it since it was marked as sent: no late return, partial download or list of an earlier
\* link stands in for the proof (_remove_nodes_worker, _refresh_node_registry).
RemovedWasAbsent ==
  [][/\ \A b \in Batch : \A c \in DOMAIN item[b] :
          item'[b][c] = "removed" => item[b][c] = "removed" \/ c \in lacked
     /\ \A c \in listed \ listed' : \E b \in Batch :
          c \in DOMAIN item[b] /\ item'[b][c] = "removed" /\ item[b][c] # "removed"]_vars

\* Every batch ends, although both of its SDK calls may hang for ever.
Ended(b) == status[b] = "none" \/ w[b].at = "done"
BatchesEnd == \A b \in Batch : []<>Ended(b)

\* A contact whose request was handed to the radio is never reported as failed, which
\* means not sent: tests/test_service.py:457 expects "sent_unverified" when the gateway
\* changes during the refresh.
SentIsNotFailed ==
  [][\A b \in Batch : \A c \in DOMAIN item[b] :
       item[b][c] \in {"sent", "sent_unverified"} => item'[b][c] # "failed"]_vars

==============================================================================
