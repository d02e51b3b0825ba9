------------------------------- MODULE Cleanups -------------------------------
(* What leaves a gateway's history, and what must have come before: a client     *)
(* has confirmed its preview, the policy in force lets the maintenance delete it, *)
(* a message is one too many, or the user has cleared the messages.  The steps    *)
(* are in GatewayHistory, which says what a row is reduced to.                    *)
EXTENDS FiniteSets, Integers

CONSTANTS
  Gateway,   \* local node ids
  Client,    \* IPC handler threads that serve history requests
  MaxHistory,\* max_messages of Database
  MaxTokens  \* bound: previews ever made

VARIABLES
  rows,      \* Gateway -> the rows of its file
  policy,    \* Gateway -> its retention in history_settings
  serving,   \* Client -> the step of its request and its local variables
  keeper,    \* the maintenance thread's step and local variables
  ran        \* observed: token -> clean-ups that ran for it

ASSUME LimitAssumption == MaxHistory \in Nat \ {0}

Prunes(p) == p.days > 0 /\ ~p.review

\* The limit on the number of messages counts those whose outcome is known.
Newer(all, r) == {s \in all : s.table = "messages" /\ ~s.open /\ s.number > r.number}

-----------------------------------------------------------------------------

Left(g) == {r \in rows[g] : r.number \notin {s.number : s \in rows'[g]}}
Confirmed(c, g, r) ==
  /\ serving[c].step = "cleanup" /\ serving'[c].step = "idle"
  /\ serving[c].plan.gateway = g /\ r.number \in serving[c].plan.shown
Expired(g, r) ==
  keeper.step = "cleanup" /\ keeper'.step = "idle" /\ keeper.gateway = g /\ r.old
Outnumbered(g, r) ==
  /\ r.table = "messages"
  /\ \E new \in rows'[g] :
       /\ \A s \in rows[g] : s.number < new.number
       /\ Cardinality(Newer(rows[g] \cup {new}, r)) >= MaxHistory
Cleared(c, g, r) ==
  /\ serving[c].step = "delete" /\ serving'[c].step = "idle"
  /\ serving[c].gateway = g /\ r.table = "messages"

\* Nothing leaves a history but a row that was counted in the preview the user confirmed, an old
\* one the policy gives up, a message pushed out by max_messages newer ones, or a message the
\* user clears; and only clearing takes a row whose outcome is open.  So no clean-up deletes an
\* action that took over the rowid of one deleted meanwhile (_history_request,
\* cleanup_history, _prune_messages, delete_messages).
OnlyWhatWasShown ==
  [][\A g \in Gateway : \A r \in Left(g) :
       \/ /\ ~r.open
          /\ \/ Expired(g, r) \/ Outnumbered(g, r)
             \/ \E c \in Client : Confirmed(c, g, r)
       \/ \E c \in Client : Cleared(c, g, r)
    ]_<<rows, policy, serving, keeper>>

\* The maintenance thread deletes only under a policy that is in force when it deletes, though
\* the user may change it at any moment between its transactions (maintain_history,
\* cleanup_history).
PolicyInForce ==
  [][keeper.step = "cleanup" /\ keeper'.step = "idle" =>
       \A g \in Gateway : Left(g) # {} => Prunes(policy[g])
    ]_<<rows, policy, serving, keeper>>

\* A preview that is confirmed again deletes nothing more, and a clean-up is confirmed only
\* for the gateway its preview was made of (_history_request).
ConfirmedOnce ==
  /\ \A t \in 1..MaxTokens : ran[t] <= 1
  /\ \A c \in Client : serving[c].step = "cleanup" => serving[c].plan.gateway = serving[c].gateway
=============================================================================
