---------------------------- MODULE GatewayHistory ----------------------------
(***************************************************************************)
(* Retention and clean-up of the gateways' histories: previews that a      *)
(* client confirms with a token (_history_request in ipc.py, on one thread *)
(* for each request), the hourly maintenance thread of the daemon, and the *)
(* policy both read, while messages and node actions go on arriving,       *)
(* messages are pruned by their number or cleared, and the selected        *)
(* gateway changes.                                                        *)
(*                                                                         *)
(* Abstractions.  A row keeps what decides its fate: its table, the key a  *)
(* preview remembers, whether its outcome is open (an unresolved message,  *)
(* a running action) and whether it is older than the days in question.    *)
(* Telemetry and positions are cleaned up like messages that are never     *)
(* open, and left out.  One transaction of SQLite is one step.             *)
(***************************************************************************)
EXTENDS FiniteSetsExt, Cleanups

CONSTANTS
  None,         \* no preview
  MaxPreviews,  \* MAX_HISTORY_PREVIEWS
  MaxSnapshot,  \* MAX_HISTORY_SNAPSHOT_ROWS
  MaxBatch,     \* MAINTENANCE_BATCH_RECORDS
  MaxRows,      \* bound: rows ever stored
  MaxPolicies,  \* bound: calls of set_history_policy
  MaxSwitches,  \* bound: changes of the selected gateway
  Arrivals      \* bound: the rows that arrive, <<table, open, gateway>>

VARIABLES
  selected,  \* what history_local_node_id() returns
  previews,  \* _history_previews; the greater its token the later a preview was made
  stored,    \* observed: rows ever stored
  minted,    \* observed: tokens ever handed out
  changes,   \* observed: policies ever set
  switches   \* observed: changes of the selected gateway

vars == <<rows, policy, selected, previews, serving, keeper, stored, minted, ran, changes,
          switches>>

Table == {"messages", "actions"}
Row == [number : 1..MaxRows, table : Table, key : 1..MaxRows, open : BOOLEAN, old : BOOLEAN]
Policy == [days : {0, 30}, review : BOOLEAN]

(* A plan of rows to delete: the keys, and the fingerprints of the actions.*)
(* shown holds the rows themselves, for the properties only.               *)
Plan(g, chosen) ==
  [gateway |-> g,
   keys |-> {<<r.table, r.key>> : r \in chosen},
   prints |-> {<<r.key, r.number>> : r \in {r \in chosen : r.table = "actions"}},
   shown |-> {r.number : r \in chosen}]
Saved == [token : 1..MaxTokens, live : BOOLEAN, gateway : Gateway,
          keys : SUBSET (Table \X (1..MaxRows)),
          prints : SUBSET ((1..MaxRows) \X (1..MaxRows)), shown : SUBSET (1..MaxRows)]

(* A preview under its token.                                              *)
Kept(token, plan) ==
  [token |-> token, live |-> TRUE, gateway |-> plan.gateway, keys |-> plan.keys,
   prints |-> plan.prints, shown |-> plan.shown]

Idle == [step |-> "idle", gateway |-> None, plan |-> None, days |-> 0]
Size(plan) == Cardinality(plan.keys)
(* The rows of all previews, each counted once for every preview.          *)
Total(saved) == Cardinality(UNION {{p.token} \X p.keys : p \in saved})

TypeOK ==
  /\ rows \in [Gateway -> SUBSET Row] /\ policy \in [Gateway -> Policy]
  /\ selected \in Gateway /\ previews \subseteq Saved
  /\ \A c \in Client : serving[c].step \in {"idle", "preview", "confirm", "cleanup", "delete"}
  /\ keeper.step \in {"idle", "preview", "cleanup"}
  /\ \A g \in Gateway : \A r, s \in rows[g] :
       r.table = s.table /\ r.key = s.key => r = s

Init ==
  /\ rows = [g \in Gateway |-> {}]
  /\ \E p \in {[days |-> 30, review |-> FALSE], [days |-> 0, review |-> TRUE]} :
       policy = [g \in Gateway |-> p]
  /\ selected \in Gateway /\ previews = {}
  /\ serving = [c \in Client |-> Idle] /\ keeper = Idle
  /\ stored = 0 /\ minted = 0 /\ ran = [t \in 1..MaxTokens |-> 0]
  /\ changes = 0 /\ switches = 0

-----------------------------------------------------------------------------

\* Mutant: the new key is the number of rows there are.
NextKeyCounted(g, table) ==
  IF table = "messages" THEN stored + 1
  ELSE Max({1, Cardinality({r \in rows[g] : r.table = table})})

(* messages.id is never used twice; node_actions has a text key, and its   *)
(* rowid is one more than the largest there is.                            *)
NextKey(g, table) ==
  IF table = "messages" THEN stored + 1
  ELSE 1 + Max({0} \cup {r.key : r \in {r \in rows[g] : r.table = table}})

(* _prune_messages: all but the newest messages, of those with an outcome. *)
TooMany(all) ==
  {r \in all : r.table = "messages" /\ ~r.open /\ Cardinality(Newer(all, r)) >= MaxHistory}

(* Every hundredth message stored prunes, here any.                        *)
Insert(g, table, open) ==
  /\ <<table, open, g>> \in Arrivals
  /\ stored < MaxRows /\ stored' = stored + 1
  /\ LET all == rows[g] \cup
            {[number |-> stored + 1, table |-> table, key |-> NextKey(g, table),
              open |-> open, old |-> FALSE]}
     IN  \/ rows' = [rows EXCEPT ![g] = all]
         \/ table = "messages" /\ rows' = [rows EXCEPT ![g] = all \ TooMany(all)]
  /\ UNCHANGED <<policy, selected, previews, serving, keeper, minted, ran, changes, switches>>

(* An acknowledgement, an answer or a timeout settles a row.               *)
Settle(g, r) ==
  /\ r \in rows[g] /\ r.open
  /\ rows' = [rows EXCEPT ![g] = (@ \ {r}) \cup {[r EXCEPT !.open = FALSE]}]
  /\ UNCHANGED <<policy, selected, previews, serving, keeper, stored, minted, ran, changes,
                 switches>>

Age(g, r) ==
  /\ r \in rows[g] /\ ~r.old
  /\ rows' = [rows EXCEPT ![g] = (@ \ {r}) \cup {[r EXCEPT !.old = TRUE]}]
  /\ UNCHANGED <<policy, selected, previews, serving, keeper, stored, minted, ran, changes,
                 switches>>

(* The user connects to another radio.                                     *)
SelectGateway(g) ==
  /\ selected # g /\ selected' = g
  /\ switches < MaxSwitches /\ switches' = switches + 1
  /\ UNCHANGED <<rows, policy, previews, serving, keeper, stored, minted, ran, changes>>

(* The request's expected_local_node_id is compared with the gateway read  *)
(* at its start; the rest of the request uses that gateway.                *)
Expects(c, g) == serving[c].step = "idle" /\ g = selected

SetPolicy(c, g, days) ==
  /\ Expects(c, g) /\ changes < MaxPolicies /\ changes' = changes + 1
  /\ policy' = [policy EXCEPT ![g] = [days |-> days, review |-> FALSE]]
  /\ UNCHANGED <<rows, selected, previews, serving, keeper, stored, minted, ran, switches>>

AskPreview(c, g) ==
  /\ Expects(c, g) /\ minted < MaxTokens
  /\ serving' = [serving EXCEPT ![c] = [Idle EXCEPT !.step = "preview", !.gateway = g]]
  /\ UNCHANGED <<rows, policy, selected, previews, keeper, stored, minted, ran, changes, switches>>

(* The user clears messages (delete_messages), of the gateway selected at  *)
(* the start of the request: of any scope, those that are open too.        *)
AskDelete(c, g) ==
  /\ Expects(c, g)
  /\ serving' = [serving EXCEPT ![c] = [Idle EXCEPT !.step = "delete", !.gateway = g]]
  /\ UNCHANGED <<rows, policy, selected, previews, keeper, stored, minted, ran, changes, switches>>

DeleteMessages(c) ==
  /\ serving[c].step = "delete"
  /\ LET g == serving[c].gateway IN
       \E gone \in SUBSET {r \in rows[g] : r.table = "messages"} :
         rows' = [rows EXCEPT ![g] = @ \ gone]
  /\ serving' = [serving EXCEPT ![c] = Idle]
  /\ UNCHANGED <<policy, selected, previews, keeper, stored, minted, ran, changes, switches>>

Deletable(g, all) == {r \in rows[g] : ~r.open /\ (all \/ r.old)}

Since(saved, n) == {p \in saved : p.token > n}

\* Mutant: only the number of previews is limited.
TrimmedByNumber(saved, size) ==
  Since(saved, CHOOSE n \in 0..minted :
                 /\ Cardinality(Since(saved, n)) < MaxPreviews
                 /\ \A k \in 0..(n - 1) : Cardinality(Since(saved, k)) >= MaxPreviews)

(* The oldest previews make room, for their number and for their rows.     *)
Trimmed(saved, size) ==
  LET Fits(n) == LET rest == Since(saved, n) IN
                 rest = {} \/ (Cardinality(rest) < MaxPreviews /\ size + Total(rest) <= MaxSnapshot)
  IN  Since(saved, CHOOSE n \in 0..minted : Fits(n) /\ \A k \in 0..(n - 1) : ~Fits(k))

Live(saved) == {p \in saved : p.live}

(* Under _history_lock: select the rows, forget expired previews, save.    *)
Preview(c, all) ==
  /\ serving[c].step = "preview" /\ minted < MaxTokens
  /\ LET plan == Plan(serving[c].gateway, Deletable(serving[c].gateway, all))
     IN  IF Size(plan) > MaxSnapshot
         THEN previews' = Live(previews) /\ UNCHANGED minted
         ELSE /\ previews' = Trimmed(Live(previews), Size(plan)) \cup {Kept(minted + 1, plan)}
              /\ minted' = minted + 1
  /\ serving' = [serving EXCEPT ![c] = Idle]
  /\ UNCHANGED <<rows, policy, selected, keeper, stored, ran, changes, switches>>

(* Five minutes pass.                                                      *)
Expire(p) ==
  /\ p \in previews /\ p.live
  /\ previews' = (previews \ {p}) \cup {[p EXCEPT !.live = FALSE]}
  /\ UNCHANGED <<rows, policy, selected, serving, keeper, stored, minted, ran, changes, switches>>

AskCleanup(c, g) ==
  /\ Expects(c, g) /\ minted > 0
  /\ serving' = [serving EXCEPT ![c] = [Idle EXCEPT !.step = "confirm", !.gateway = g]]
  /\ UNCHANGED <<rows, policy, selected, previews, keeper, stored, minted, ran, changes, switches>>

\* Mutant: a token is good for any gateway.
UsableAnywhere(p, c) == p.live

Usable(p, c) == p.live /\ p.gateway = serving[c].gateway

(* Under _history_lock: the token is used up before anything is deleted.   *)
TakeToken(c, t) ==
  /\ serving[c].step = "confirm"
  /\ LET found == {p \in previews : p.token = t /\ Usable(p, c)} IN
       IF found = {} THEN serving' = [serving EXCEPT ![c] = Idle] /\ UNCHANGED previews
       ELSE \E p \in found :
              /\ serving' = [serving EXCEPT ![c].step = "cleanup", ![c].plan = p]
              /\ previews' = {q \in previews : q.token # t}
  /\ UNCHANGED <<rows, policy, selected, keeper, stored, minted, ran, changes, switches>>

\* Mutant: an action is deleted by its rowid alone.
DoomedByKey(plan) ==
  {r \in rows[plan.gateway] : ~r.open /\ <<r.table, r.key>> \in plan.keys}

(* cleanup_history: what the statements of one transaction delete.         *)
Doomed(plan) ==
  {r \in rows[plan.gateway] :
     /\ ~r.open /\ <<r.table, r.key>> \in plan.keys
     /\ r.table = "actions" => <<r.key, r.number>> \in plan.prints}

Cleanup(c) ==
  /\ serving[c].step = "cleanup"
  /\ LET plan == serving[c].plan IN
       /\ rows' = [rows EXCEPT ![plan.gateway] = @ \ Doomed(plan)]
       /\ ran' = [ran EXCEPT ![plan.token] = @ + 1]
  /\ serving' = [serving EXCEPT ![c] = Idle]
  /\ UNCHANGED <<policy, selected, previews, keeper, stored, minted, changes, switches>>

(* SQLite raises: the request fails, and its token is gone.                *)
CleanupFails(c) ==
  /\ serving[c].step = "cleanup" /\ serving' = [serving EXCEPT ![c] = Idle]
  /\ UNCHANGED <<rows, policy, selected, previews, keeper, stored, minted, ran, changes, switches>>

-----------------------------------------------------------------------------

(* maintain_history reads a gateway's policy, previews a batch and deletes *)
(* it in three transactions.                                               *)
KeeperReads(g) ==
  /\ keeper.step = "idle" /\ Prunes(policy[g])
  /\ keeper' = [Idle EXCEPT !.step = "preview", !.gateway = g, !.days = policy[g].days]
  /\ UNCHANGED <<rows, policy, selected, previews, serving, stored, minted, ran, changes, switches>>

\* Mutant: a batch is filled with the oldest rows, open or not.
BatchOfAll(old) ==
  {r \in old : Cardinality({s \in rows[keeper.gateway] : s.number < r.number}) < MaxBatch}

(* In the order of the keys, at most MaxBatch rows.                        *)
Batch(old) ==
  {r \in old : Cardinality({s \in old : s.number < r.number}) < MaxBatch}

KeeperPreviews ==
  /\ keeper.step = "preview"
  /\ keeper' = [keeper EXCEPT !.step = "cleanup",
                  !.plan = Plan(keeper.gateway, Batch(Deletable(keeper.gateway, FALSE)))]
  /\ UNCHANGED <<rows, policy, selected, previews, serving, stored, minted, ran, changes, switches>>

\* Mutant: the policy is not read again in the deleting transaction.
InForceAlways(plan, days) == days > 0

InForce(plan, days) == ~policy[plan.gateway].review /\ policy[plan.gateway].days = days

KeeperCleans ==
  /\ keeper.step = "cleanup" /\ keeper' = Idle
  /\ rows' = IF InForce(keeper.plan, keeper.days)
             THEN [rows EXCEPT ![keeper.gateway] = @ \ Doomed(keeper.plan)]
             ELSE rows
  /\ UNCHANGED <<policy, selected, previews, serving, stored, minted, ran, changes, switches>>

Keeper == KeeperPreviews \/ KeeperCleans \/ \E g \in Gateway : KeeperReads(g)

Request(c) ==
  \/ \E g \in Gateway :
       \/ AskPreview(c, g) \/ AskCleanup(c, g) \/ AskDelete(c, g)
       \/ \E days \in {0, 30} : SetPolicy(c, g, days)
  \/ \E all \in BOOLEAN : Preview(c, all)
  \/ \E t \in 1..minted : TakeToken(c, t)
  \/ Cleanup(c) \/ CleanupFails(c) \/ DeleteMessages(c)

World ==
  \/ \E g \in Gateway :
       \/ SelectGateway(g)
       \/ \E table \in Table, open \in BOOLEAN : Insert(g, table, open)
       \/ \E r \in rows[g] : Settle(g, r) \/ Age(g, r)
  \/ \E p \in previews : Expire(p)

Next == Keeper \/ World \/ \E c \in Client : Request(c)

Spec == Init /\ [][Next]_vars
(* The maintenance thread comes back every hour, to every open gateway.    *)
FairSpec ==
  /\ Spec
  /\ WF_vars(KeeperPreviews \/ KeeperCleans)
  /\ \A g \in Gateway : SF_vars(KeeperReads(g))

-----------------------------------------------------------------------------

(* However many previews are asked for, those kept are few and small.      *)
PreviewsBounded ==
  Cardinality(previews) <= MaxPreviews /\ Total(previews) <= MaxSnapshot

(* Old history goes away, in as many batches as it takes, unless the user  *)
(* wants it kept.                                                          *)
OldHistoryGoes ==
  \A g \in Gateway : []<>(~Prunes(policy[g]) \/ Deletable(g, FALSE) = {})
=============================================================================
