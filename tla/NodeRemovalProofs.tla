--------------------------- MODULE NodeRemovalProofs ---------------------------
(***************************************************************************)
(* Proofs about NodeRemoval, for every set of contacts and batches and     *)
(* every number of interfaces.                                             *)
(***************************************************************************)
EXTENDS NodeRemoval, TLAPS

\* There is a first interface, and what is heard again is bounded.
Bounds == MaxLinks \in Nat \ {0} /\ MaxHears \in Nat

\* A batch whose worker runs, refreshes a registry or waits for a download, and one that
\* still uses its link, by its worker or by a call of the SDK that has not returned.
Live(b) == w[b].at \notin {"none", "done"}
Refreshing(b) == w[b].at \in {"barrier", "restore", "restoreFailed"}
Waiting(b) == w[b].at \in {"barrier", "restoreFailed"} /\ ~ w[b].done
Engaged(b) == Live(b) \/ Calling(b)

\* A call whose worker no longer waits for it has lost its link; one batch is started.
CallFits(b) ==
  Calling(b) => w[b].at = "send" \/ (w[b].at \in {"except", "done"} /\ ~ Usable(w[b].i))
CallsInv ==
  /\ \A b \in Batch : CallFits(b)
  /\ \A b, e \in Batch : status[b] = "started" /\ status[e] = "started" => b = e

\* A link has one worker, whose last call it still has, and as long as the link can be used,
\* the worker's batch is started.
WorkersInv ==
  /\ \A b \in Batch :
       /\ w[b].at = "none" => status[b] = "none"
       /\ w[b].at = "done" => status[b] # "started"
       /\ Engaged(b) => w[b].i # 0
       /\ Live(b) /\ Usable(w[b].i) => status[b] = "started"
  /\ \A b, e \in Batch : Engaged(b) /\ Engaged(e) /\ w[b].i = w[e].i => b = e

\* A link's handler is wrapped by the worker that refreshes it and by nobody else; on the
\* link in use _startConfig is still to run only before that, and while its registry is
\* partly downloaded, somebody waits for the rest.
RefreshInv ==
  /\ \A i \in 1..MaxLinks : handler[i] # <<>> => \E b \in Batch : Refreshing(b) /\ w[b].i = i
  /\ \A b \in Batch : Refreshing(b) =>
       /\ handler[w[b].i] = <<b>> /\ w[b].saved = <<>>
       /\ Usable(w[b].i) => refreshOf = w[b].i
  /\ \A b \in Batch : cfg[b] = "starting" /\ Usable(w[b].i) => Waiting(b) /\ reg[w[b].i].whole
  /\ Usable(iface) /\ ~ reg[iface].whole => \E b \in Batch : Waiting(b) /\ w[b].i = iface
  /\ \A i \in 1..MaxLinks : i > links => reg[i].whole

\* What is left open in a list, in the copy that is still to be stored and in the row.
AllClosed(f) == \A c \in DOMAIN f : f[c] \notin Open
BooksAgree(b) ==
  /\ status[b] \in {"failed", "completed"} => AllClosed(item[b])
  /\ status[b] = "started" =>
       \A c \in DOMAIN item[b] : item[b][c] = "sent" => c = w[b].c /\ w[b].at # "next"
  /\ late[b] # None =>
       /\ late[b].status = "failed" /\ AllClosed(late[b].item)
       /\ DOMAIN late[b].item = DOMAIN item[b] /\ status[b] # "started"
  /\ w[b].at = "done" =>
       /\ row[b].status # "started" /\ AllClosed(row[b].item)
       /\ DOMAIN row[b].item = DOMAIN item[b]
BooksInv == \A b \in Batch : BooksAgree(b)

-----------------------------------------------------------------------------
(* Types *)

Ats == {"none", "next", "send", "refresh", "barrier", "restore", "restoreFailed", "confirm",
        "except", "done"}
WorkerState == [at : Ats, c : Contact \cup {None}, i : 0..MaxLinks, saved : Seq(Batch), was : Nat,
                left : BOOLEAN, done : BOOLEAN]
Registry == [names : SUBSET Contact, id : Nat, whole : BOOLEAN, coming : SUBSET Contact]
Lists == UNION {[S -> Statuses] : S \in SUBSET Contact}
Copy == [status : {"none", "started", "failed", "completed"}, item : Lists]
Calls == {"none", "due", "calling", "out", "returned", "raised"}
Configs == {"none", "starting", "started", "raised"}

\* A batch that has not begun has no threads and nothing to store; a call was made for
\* one of its contacts.
BatchFits(b) ==
  /\ w[b].i <= links
  /\ sdk[b] # "none" => w[b].c \in Contact
  /\ status[b] = "none" =>
       w[b].at = "none" /\ sdk[b] = "none" /\ cfg[b] = "none" /\ late[b] = None

BatchesOK ==
  /\ w \in [Batch -> WorkerState]
  /\ sdk \in [Batch -> Calls] /\ cfg \in [Batch -> Configs]
  /\ \A b \in Batch : BatchFits(b)

BooksOK ==
  /\ status \in [Batch -> {"none", "started", "failed", "completed"}]
  /\ item \in [Batch -> Lists] /\ row \in [Batch -> Copy]
  /\ late \in [Batch -> Copy \cup {None}]
  /\ listed \subseteq Contact /\ newer \subseteq Contact

LinksOK ==
  /\ links \in 1..MaxLinks /\ iface \in {0, links}
  /\ lost \in BOOLEAN /\ refreshOf \in 0..MaxLinks /\ active \in BOOLEAN
  /\ reg \in [1..MaxLinks -> Registry]
  /\ handler \in [1..MaxLinks -> Seq(Batch)]
  /\ wire \in Seq(Contact \cup {"config"})
  /\ radio \subseteq Contact /\ lacked \subseteq Contact

Types == BatchesOK /\ BooksOK /\ LinksOK

\* The other workers stay as they are.
Others(b) == \A e \in Batch : e # b => w'[e] = w[e]

\* A step takes worker b from its state to s.
Becomes(b, s) == w' = [w EXCEPT ![b] = s]

LEMMA BecomesTo ==
  ASSUME BatchesOK, NEW b \in Batch, NEW s \in WorkerState, Becomes(b, s)
  PROVE  w' \in [Batch -> WorkerState] /\ w'[b] = s /\ Others(b)
BY DEF BatchesOK, Becomes, Others

\* Nearly every step of a worker only takes it to another place.
LEMMA AtTo ==
  ASSUME BatchesOK, NEW b \in Batch, NEW at \in Ats, At(b, at)
  PROVE  /\ w' \in [Batch -> WorkerState] /\ Others(b) /\ w'[b].at = at
         /\ w'[b].c = w[b].c /\ w'[b].i = w[b].i /\ w'[b].saved = w[b].saved
         /\ w'[b].done = w[b].done
<1> DEFINE s == [w[b] EXCEPT !.at = at]
<1>1. w[b] \in WorkerState
  BY DEF BatchesOK
<1>2. s \in WorkerState
  BY <1>1 DEF WorkerState
<1>3. Becomes(b, s)
  BY DEF At, Becomes
<1>4. w' \in [Batch -> WorkerState] /\ w'[b] = s /\ Others(b)
  BY <1>2, <1>3, BecomesTo
<1> QED BY <1>1, <1>4 DEF WorkerState

\* A thread that does nothing.
LEMMA IdleIs == Bounds => Idle \in WorkerState /\ Idle.c = None /\ Idle.i = 0
<1> SUFFICES ASSUME Bounds PROVE Idle \in WorkerState /\ Idle.c = None /\ Idle.i = 0
  OBVIOUS
<1>1. <<>> \in Seq(Batch) /\ 0 \in Nat /\ 0 \in 0..MaxLinks
  BY DEF Bounds
<1> QED BY <1>1 DEF WorkerState, Idle, Ats

\* The worker's state at the beginning of a batch and at its end.
LEMMA IdleType ==
  ASSUME NEW at \in Ats, NEW c \in Contact \cup {None}, NEW i \in 0..MaxLinks, Bounds
  PROVE  /\ [Idle EXCEPT !.at = at, !.c = c, !.i = i] \in WorkerState
         /\ [Idle EXCEPT !.at = at, !.i = i] \in WorkerState
<1>1. Idle \in WorkerState
  BY IdleIs
<1>2. PICK s \in WorkerState : s = [Idle EXCEPT !.at = at]
  BY <1>1 DEF WorkerState
<1>5. [s EXCEPT !.i = i] \in WorkerState
  BY DEF WorkerState
<1>3. PICK r \in WorkerState : r = [s EXCEPT !.c = c]
  BY DEF WorkerState
<1>4. [r EXCEPT !.i = i] \in WorkerState
  BY DEF WorkerState
<1> QED BY <1>2, <1>3, <1>4, <1>5

\* A worker that ends keeps its contact and its link for the threads it has started.
LEMMA GoneTo ==
  ASSUME Bounds, BatchesOK, NEW b \in Batch, Gone(b)
  PROVE  /\ w' \in [Batch -> WorkerState] /\ Others(b) /\ w'[b].at = "done"
         /\ w'[b].c = w[b].c /\ w'[b].i = w[b].i
<1> DEFINE s == [Idle EXCEPT !.at = "done", !.c = w[b].c, !.i = w[b].i]
<1>1. w[b] \in WorkerState
  BY DEF BatchesOK
<1>2. s \in WorkerState
  <2>1. w[b].c \in Contact \cup {None} /\ w[b].i \in 0..MaxLinks /\ "done" \in Ats
    BY <1>1 DEF WorkerState, Ats
  <2> QED BY <2>1, IdleType
<1>3. Becomes(b, s)
  BY DEF Gone, Becomes
<1>4. w' \in [Batch -> WorkerState] /\ w'[b] = s /\ Others(b)
  BY <1>2, <1>3, BecomesTo
<1> QED BY <1>1, <1>4 DEF Idle

\* A new worker begins with no contact, on the link in use.
LEMMA StartTo ==
  ASSUME Bounds, Types, NEW b \in Batch, NEW S, Start(b, S)
  PROVE  /\ w' \in [Batch -> WorkerState] /\ Others(b) /\ w'[b].at = "next"
         /\ w'[b].i = iface
<1> DEFINE s == [Idle EXCEPT !.at = "next", !.i = iface]
<1>1. s \in WorkerState
  <2>1. iface \in 0..MaxLinks /\ "next" \in Ats /\ None \in Contact \cup {None}
    BY DEF Types, LinksOK, Ats, Bounds
  <2> QED BY <2>1, IdleType
<1>2. w' \in [Batch -> WorkerState] /\ w'[b] = s /\ Others(b)
  BY <1>1, BecomesTo DEF Start, Becomes, Types
<1> QED BY <1>2 DEF Idle

\* A worker takes a contact, and sends or raises.
LEMMA PickTo ==
  ASSUME BatchesOK, BooksOK, NEW b \in Batch, Pick(b)
  PROVE  /\ w' \in [Batch -> WorkerState] /\ Others(b) /\ w'[b].at \in {"send", "except"}
         /\ w'[b].c \in Queued(b) /\ Queued(b) \subseteq Contact /\ w'[b].i = w[b].i
         /\ w'[b].at = "send" <=> Usable(w[b].i)
<1>1. PICK c \in Queued(b), at \in {"send", "except"} :
        /\ w' = [w EXCEPT ![b] = [@ EXCEPT !.at = at, !.c = c]]
        /\ at = "send" <=> Usable(w[b].i)
  BY DEF Pick
<1> DEFINE s == [w[b] EXCEPT !.at = at, !.c = c]
<1>2. Queued(b) \subseteq Contact
  <2>1. item[b] \in Lists
    BY DEF BooksOK
  <2> QED BY <2>1 DEF Lists, Queued
<1>3. w[b] \in WorkerState
  BY DEF BatchesOK
<1>4. s \in WorkerState
  BY <1>2, <1>3 DEF WorkerState, Ats
<1>5. Becomes(b, s)
  BY <1>1, <1>3 DEF Becomes, BatchesOK
<1>6. w' \in [Batch -> WorkerState] /\ w'[b] = s /\ Others(b)
  BY <1>4, <1>5, BecomesTo
<1> QED BY <1>1, <1>2, <1>3, <1>6 DEF WorkerState

\* A worker begins to refresh the registry of its link.
LEMMA BeginTo ==
  ASSUME Types, NEW b \in Batch, BeginRefresh(b), Usable(w[b].i)
  PROVE  /\ w' \in [Batch -> WorkerState] /\ Others(b) /\ w'[b].at = "barrier"
         /\ w'[b].i = w[b].i /\ w'[b].c = w[b].c /\ w'[b].saved = handler[w[b].i]
         /\ w'[b].done = FALSE
<1> DEFINE i == w[b].i
           s == [w[b] EXCEPT !.at = "barrier", !.saved = handler[i], !.was = reg[i].id,
                             !.left = FALSE, !.done = FALSE]
<1>1. w[b] \in WorkerState
  BY DEF Types, BatchesOK
<1>2. handler[i] \in Seq(Batch) /\ reg[i].id \in Nat
  BY DEF Usable, Types, LinksOK, Registry
<1>3. s \in WorkerState
  <2>1. PICK saved \in Seq(Batch), was \in Nat : saved = handler[i] /\ was = reg[i].id
    BY <1>2
  <2>2. PICK r \in WorkerState : r = [w[b] EXCEPT !.at = "barrier", !.saved = saved]
    BY <1>1 DEF WorkerState, Ats
  <2>3. PICK q \in WorkerState : q = [r EXCEPT !.was = was, !.left = FALSE]
    BY <2>2 DEF WorkerState
  <2>4. PICK t \in WorkerState : t = [q EXCEPT !.done = FALSE]
    BY <2>3 DEF WorkerState
  <2>5. t = s
    BY <1>1, <2>1, <2>2, <2>3, <2>4 DEF WorkerState
  <2> QED BY <2>5
<1>4. Becomes(b, s)
  BY DEF BeginRefresh, Becomes
<1>5. w' \in [Batch -> WorkerState] /\ w'[b] = s /\ Others(b)
  BY <1>3, <1>4, BecomesTo DEF Types
<1> HIDE DEF i
<1>6. w'[b].at = "barrier" /\ w'[b].i = w[b].i /\ w'[b].c = w[b].c /\ w'[b].done = FALSE
  BY <1>1, <1>5 DEF WorkerState
<1>7. w'[b].saved = handler[i]
  BY <1>1, <1>5 DEF WorkerState
<1> QED BY <1>5, <1>6, <1>7 DEF i

\* The end of the wait: the worker restores the handler, after a refresh or without one.
LEMMA BarrierTo ==
  ASSUME Types, NEW b \in Batch, Barrier(b)
  PROVE  /\ w' \in [Batch -> WorkerState] /\ Others(b)
         /\ w'[b].at \in {"restore", "restoreFailed"}
         /\ w'[b].c = w[b].c /\ w'[b].i = w[b].i /\ w'[b].saved = w[b].saved
         /\ w'[b].done = w[b].done
         /\ w'[b].at = "restore" => w[b].done
<1>1. CASE At(b, "restoreFailed")
  BY <1>1, AtTo DEF Types, Ats
<1>2. CASE ~ At(b, "restoreFailed")
  <2> DEFINE s == [w[b] EXCEPT !.at = "restore", !.left = w[b].c \in reg[w[b].i].names,
                               !.done = TRUE]
  <2>1. w[b] \in WorkerState
    BY DEF Types, BatchesOK
  <2>2. s \in WorkerState
    <3> DEFINE left == w[b].c \in reg[w[b].i].names
    <3>1. left \in BOOLEAN
      OBVIOUS
    <3> HIDE DEF left
    <3>2. PICK r \in WorkerState : r = [w[b] EXCEPT !.at = "restore", !.left = left]
      BY <2>1, <3>1 DEF WorkerState, Ats
    <3>3. [r EXCEPT !.done = TRUE] \in WorkerState
      BY DEF WorkerState
    <3> QED BY <3>2, <3>3 DEF left
  <2>3. Becomes(b, s) /\ w[b].done
    BY <1>2 DEF Barrier, Becomes, Answered
  <2>4. w' \in [Batch -> WorkerState] /\ w'[b] = s /\ Others(b)
    BY <2>2, <2>3, BecomesTo DEF Types
  <2> QED BY <2>1, <2>3, <2>4 DEF WorkerState
<1> QED BY <1>1, <1>2

\* start() raises while the worker waits for it.
LEMMA ConfigTo ==
  ASSUME Types, NEW b \in Batch, StartConfig(b)
  PROVE  /\ w' \in [Batch -> WorkerState] /\ Others(b)
         /\ w'[b].at = w[b].at /\ w'[b].c = w[b].c /\ w'[b].i = w[b].i
         /\ w'[b].saved = w[b].saved
         /\ cfg'[b] = "started" => w' = w
<1>1. CASE w' = w
  BY <1>1 DEF Types, BatchesOK, Others
<1>2. CASE w' # w
  <2> DEFINE s == [w[b] EXCEPT !.done = TRUE]
  <2>1. w[b] \in WorkerState
    BY DEF Types, BatchesOK
  <2>2. s \in WorkerState
    BY <2>1 DEF WorkerState
  <2>3. Becomes(b, s) /\ cfg'[b] = "raised"
    BY <1>2 DEF StartConfig, Becomes, Types, BatchesOK
  <2>4. w' \in [Batch -> WorkerState] /\ w'[b] = s /\ Others(b)
    BY <2>2, <2>3, BecomesTo DEF Types
  <2> QED BY <2>1, <2>3, <2>4 DEF WorkerState
<1> QED BY <1>1, <1>2

\* config_complete tells the workers whose wrapper runs.
LEMMA CompleteTo ==
  ASSUME Types, ConfigComplete
  PROVE  /\ w' \in [Batch -> WorkerState]
         /\ \A b \in Batch :
              /\ w'[b].at = w[b].at /\ w'[b].c = w[b].c /\ w'[b].i = w[b].i
              /\ w'[b].saved = w[b].saved /\ (w[b].done => w'[b].done)
<1> DEFINE told(b) == \E k \in DOMAIN handler[iface] : handler[iface][k] = b
<1>1. w' = [b \in Batch |-> IF told(b) THEN [w[b] EXCEPT !.done = TRUE] ELSE w[b]]
  BY DEF ConfigComplete
<1> HIDE DEF told
<1>2. \A b \in Batch : w[b] \in WorkerState
  BY DEF Types, BatchesOK
<1>3. \A b \in Batch : [w[b] EXCEPT !.done = TRUE] \in WorkerState
  BY <1>2 DEF WorkerState
<1> QED BY <1>1, <1>2, <1>3 DEF WorkerState

\* A step that concerns one batch leaves the others fitting.
LEMMA OneBatch ==
  ASSUME Types, NEW b \in Batch, w' \in [Batch -> WorkerState], Others(b),
         sdk' \in [Batch -> Calls], cfg' \in [Batch -> Configs], links' = links,
         \A e \in Batch : e # b => /\ sdk'[e] = sdk[e] /\ cfg'[e] = cfg[e]
                                  /\ late'[e] = late[e] /\ status'[e] = status[e],
         w'[b].i <= links, sdk'[b] # "none" => w'[b].c \in Contact, status'[b] # "none"
  PROVE  BatchesOK'
<1>1. ASSUME NEW e \in Batch PROVE BatchFits(e)'
  <2>1. CASE e = b
    BY <2>1 DEF BatchFits
  <2>2. CASE e # b
    BY <2>2 DEF Others, Types, BatchesOK, BatchFits
  <2> QED BY <2>1, <2>2
<1> QED BY <1>1 DEF BatchesOK

\* A list of contacts with other statuses is one.
LEMMA ListTo ==
  ASSUME NEW f \in Lists, NEW g, DOMAIN g = DOMAIN f, g = [c \in DOMAIN f |-> g[c]],
         \A c \in DOMAIN f : g[c] \in Statuses
  PROVE  g \in Lists
<1>1. PICK S \in SUBSET Contact : f \in [S -> Statuses]
  BY DEF Lists
<1>2. g \in [S -> Statuses]
  BY <1>1
<1> QED BY <1>2 DEF Lists

\* The lists that the steps make of a list.
LEMMA ClosedIs ==
  ASSUME NEW f \in Lists
  PROVE  /\ Closed(f) \in Lists /\ DOMAIN Closed(f) = DOMAIN f
         /\ \A c \in DOMAIN f : Closed(f)[c] \notin Open
<1>1. f \in [DOMAIN f -> Statuses]
  BY DEF Lists
<1>2. \A c \in DOMAIN f : Closed(f)[c] \in Statuses \ Open
  BY <1>1 DEF Closed, Statuses, Open
<1>3. DOMAIN Closed(f) = DOMAIN f /\ Closed(f) = [c \in DOMAIN f |-> Closed(f)[c]]
  BY DEF Closed
<1>4. Closed(f) \in Lists
  BY <1>2, <1>3, ListTo
<1> QED BY <1>2, <1>3, <1>4

\* The durable row and the list of a batch that a step stores.
LEMMA StoreTo ==
  ASSUME Types, NEW b \in Batch, status' \in [Batch -> {"none", "started", "failed", "completed"}],
         item' \in [Batch -> Lists], Store(b)
  PROVE  row' \in [Batch -> Copy] /\ row'[b] = [status |-> status'[b], item |-> item'[b]]
<1>1. status'[b] \in {"none", "started", "failed", "completed"} /\ item'[b] \in Lists
  OBVIOUS
<1>2. [status |-> status'[b], item |-> item'[b]] \in Copy
  BY <1>1 DEF Copy
<1> QED BY <1>2 DEF Store, Types, BooksOK

\* Opening, closing and confirming a contact in a batch's list.
LEMMA ItemTo ==
  ASSUME Types, NEW b \in Batch, NEW c \in DOMAIN item[b], NEW s \in Statuses,
         item' = [item EXCEPT ![b][c] = s]
  PROVE  /\ item' \in [Batch -> Lists] /\ DOMAIN item'[b] = DOMAIN item[b]
         /\ item'[b][c] = s
         /\ \A d \in DOMAIN item[b] : d # c => item'[b][d] = item[b][d]
         /\ \A e \in Batch : e # b => item'[e] = item[e]
<1>1. item \in [Batch -> Lists] /\ item[b] \in Lists
  BY DEF Types, BooksOK
<1>2. PICK S \in SUBSET Contact : item[b] \in [S -> Statuses]
  BY <1>1 DEF Lists
<1> DEFINE f == [item[b] EXCEPT ![c] = s]
<1>3. f \in [S -> Statuses]
  BY <1>2
<1>4. f \in Lists
  BY <1>3 DEF Lists
<1>5. item' = [item EXCEPT ![b] = f]
  BY <1>1
<1> QED BY <1>1, <1>2, <1>4, <1>5

LEMMA TypesStart ==
  ASSUME Bounds, Types, NEW b \in Batch, NEW S \in Selections, Start(b, S)
  PROVE  Types'
<1> DEFINE f == [c \in S |-> "queued"]
<1>1. f \in Lists
  <2>1. S \in SUBSET Contact /\ "queued" \in Statuses
    BY DEF Start, Types, BooksOK, Statuses
  <2>2. f \in [S -> Statuses]
    BY <2>1
  <2> QED BY <2>1, <2>2 DEF Lists
<1>2. item' = [item EXCEPT ![b] = f] /\ status' = [status EXCEPT ![b] = "started"]
  BY DEF Start
<1>3. item' \in [Batch -> Lists]
      /\ status' \in [Batch -> {"none", "started", "failed", "completed"}]
  BY <1>1, <1>2 DEF Types, BooksOK
<1>4. row' \in [Batch -> Copy]
  BY <1>3, StoreTo DEF Start
<1>5. sdk[b] = "none" /\ iface <= links
  BY DEF Start, Types, BatchesOK, BatchFits, LinksOK, Usable
<1>6. BatchesOK'
  <2>1. w' \in [Batch -> WorkerState] /\ Others(b) /\ w'[b].i <= links
    BY <1>5, StartTo
  <2>2. UNCHANGED <<sdk, cfg, late, links>> /\ status'[b] # "none"
        /\ \A e \in Batch : e # b => status'[e] = status[e]
    BY <1>2 DEF Start, Types, BooksOK, conn
  <2>3. sdk \in [Batch -> Calls] /\ cfg \in [Batch -> Configs]
    BY DEF Types, BatchesOK
  <2> QED BY <1>5, <2>1, <2>2, <2>3, OneBatch
<1> QED BY <1>3, <1>4, <1>6 DEF Start, Types, BooksOK, LinksOK, conn, radioVars

LEMMA TypesPick ==
  ASSUME Types, NEW b \in Batch, Pick(b)
  PROVE  Types'
<1>1. PICK c \in Queued(b) :
        \/ /\ item' = [item EXCEPT ![b][c] = "sent"] /\ Store(b)
           /\ sdk' = [sdk EXCEPT ![b] = "due"] /\ lacked' = lacked \ {c}
        \/ UNCHANGED <<item, row, sdk, lacked>>
  BY DEF Pick
<1>2. /\ w' \in [Batch -> WorkerState] /\ Others(b) /\ w'[b].c \in Contact
      /\ w'[b].i = w[b].i
  BY PickTo DEF Types
<1>3. c \in DOMAIN item[b] /\ "sent" \in Statuses /\ "due" \in Calls
  BY DEF Queued, Statuses, Calls
<1>4. item' \in [Batch -> Lists] /\ row' \in [Batch -> Copy]
      /\ sdk' \in [Batch -> Calls] /\ lacked' \subseteq Contact
      /\ \A e \in Batch : e # b => sdk'[e] = sdk[e]
  <2>1. CASE UNCHANGED <<item, row, sdk, lacked>>
    BY <2>1 DEF Types, BatchesOK, BooksOK, LinksOK
  <2>2. CASE ~ UNCHANGED <<item, row, sdk, lacked>>
    <3>1. item' \in [Batch -> Lists]
      BY <1>1, <1>3, <2>2, ItemTo
    <3>2. status' \in [Batch -> {"none", "started", "failed", "completed"}]
      BY DEF Pick, Types, BooksOK
    <3>3. row' \in [Batch -> Copy]
      BY <1>1, <2>2, <3>1, <3>2, StoreTo
    <3> QED BY <1>1, <1>3, <2>2, <3>1, <3>3 DEF Types, BatchesOK, LinksOK
  <2> QED BY <2>1, <2>2
<1>5. status[b] # "none" /\ w[b].i <= links
  BY DEF Pick, Types, BatchesOK, BatchFits
<1>6. BatchesOK'
  BY <1>2, <1>4, <1>5, OneBatch DEF Pick, Types, BatchesOK, conn
<1> QED BY <1>4, <1>6 DEF Pick, Types, BooksOK, LinksOK, conn, radioVars

\* The thread in removeNode, and its start.
LEMMA TypesSdk ==
  ASSUME Types, NEW b \in Batch, Call(b) \/ SdkSends(b) \/ SdkReturns(b)
  PROVE  Types'
<1>1. sdk[b] # "none" /\ w[b].c \in Contact /\ status[b] # "none" /\ w[b].i <= links
  BY DEF Call, SdkSends, SdkReturns, Types, BatchesOK, BatchFits
<1>2. sdk' \in [Batch -> Calls] /\ \A e \in Batch : e # b => sdk'[e] = sdk[e]
  BY DEF Call, SdkSends, SdkReturns, Types, BatchesOK, Calls
<1>3. wire' \in Seq(Contact \cup {"config"}) /\ active' \in BOOLEAN
  <2>1. wire \in Seq(Contact \cup {"config"}) /\ active \in BOOLEAN
    BY DEF Types, LinksOK
  <2>2. Append(wire, w[b].c) \in Seq(Contact \cup {"config"})
    BY <1>1, <2>1
  <2> QED BY <2>1, <2>2 DEF Call, SdkSends, SdkReturns, radioVars
<1>4. BatchesOK'
  BY <1>1, <1>2, OneBatch DEF Call, SdkSends, SdkReturns, Types, BatchesOK, Others, conn
<1> QED BY <1>3, <1>4 DEF Call, SdkSends, SdkReturns, Types, BooksOK, LinksOK, conn, radioVars

\* A worker that only goes on: what it does not touch is unchanged.
LEMMA WorkerGoes ==
  ASSUME Types, NEW b \in Batch, w' \in [Batch -> WorkerState], Others(b),
         w'[b].i = w[b].i, w'[b].c = w[b].c, w[b].at # "none",
         UNCHANGED <<sdk, cfg, late, links, status>>
  PROVE  BatchesOK'
<1>1. w[b].i <= links /\ status[b] # "none" /\ (sdk[b] # "none" => w[b].c \in Contact)
  BY DEF Types, BatchesOK, BatchFits
<1>2. sdk \in [Batch -> Calls] /\ cfg \in [Batch -> Configs]
  BY DEF Types, BatchesOK
<1> QED BY <1>1, <1>2, OneBatch

LEMMA TypesWaited ==
  ASSUME Types, NEW b \in Batch, SendWaited(b)
  PROVE  Types'
<1>1. /\ w' \in [Batch -> WorkerState] /\ Others(b) /\ w'[b].i = w[b].i /\ w'[b].c = w[b].c
  BY AtTo DEF SendWaited, Types, Ats
<1>2. BatchesOK'
  BY <1>1, WorkerGoes DEF SendWaited
<1> QED BY <1>2 DEF SendWaited, Types, BooksOK, LinksOK, radioVars

LEMMA TypesBegin ==
  ASSUME Bounds, Types, NEW b \in Batch, BeginRefresh(b)
  PROVE  Types'
<1>1. CASE ~ Usable(w[b].i)
  <2>1. At(b, "except") /\ UNCHANGED <<handler, refreshOf, cfg>>
    BY <1>1 DEF BeginRefresh
  <2>2. BatchesOK'
    BY <2>1, AtTo, WorkerGoes DEF BeginRefresh, Types, Ats, conn
  <2> QED BY <2>1, <2>2 DEF BeginRefresh, Types, BooksOK, LinksOK, conn, radioVars
<1>2. CASE Usable(w[b].i)
  <2>1. w' \in [Batch -> WorkerState] /\ Others(b) /\ w'[b].i = w[b].i /\ w'[b].c = w[b].c
    BY <1>2, BeginTo
  <2>2. cfg' = [cfg EXCEPT ![b] = "starting"] /\ refreshOf' = w[b].i
        /\ handler' = [handler EXCEPT ![w[b].i] = <<b>> \o @]
    BY <1>2 DEF BeginRefresh
  <2>3. w[b].i \in 1..MaxLinks
    BY <1>2 DEF Usable, Types, LinksOK, Bounds
  <2>4. <<b>> \o handler[w[b].i] \in Seq(Batch)
    BY <2>3 DEF Types, LinksOK
  <2>5. handler' \in [1..MaxLinks -> Seq(Batch)]
    BY <2>2, <2>4 DEF Types, LinksOK
  <2>6. cfg' \in [Batch -> Configs] /\ \A e \in Batch : e # b => cfg'[e] = cfg[e]
    BY <2>2 DEF Types, BatchesOK, Configs
  <2>7. sdk \in [Batch -> Calls] /\ w[b].i <= links /\ status[b] # "none"
        /\ (sdk[b] # "none" => w[b].c \in Contact)
    BY DEF BeginRefresh, Types, BatchesOK, BatchFits
  <2>8. UNCHANGED <<sdk, late, links, status>>
    BY DEF BeginRefresh, conn
  <2>9. BatchesOK'
    BY <2>1, <2>6, <2>7, <2>8, OneBatch
  <2> QED BY <2>2, <2>3, <2>5, <2>9, Bounds
             DEF BeginRefresh, Types, BooksOK, LinksOK, conn, radioVars
<1> QED BY <1>1, <1>2

\* One link's registry is another one.
LEMMA RegistryTo ==
  ASSUME Types, NEW i, NEW r \in Registry, reg' = [reg EXCEPT ![i] = r]
  PROVE  reg' \in [1..MaxLinks -> Registry]
BY DEF Types, LinksOK

LEMMA TypesConfig ==
  ASSUME Bounds, Types, NEW b \in Batch, StartConfig(b)
  PROVE  Types'
<1>1. /\ w' \in [Batch -> WorkerState] /\ Others(b) /\ w'[b].c = w[b].c /\ w'[b].i = w[b].i
  BY ConfigTo
<1>2. cfg' \in [Batch -> Configs] /\ \A e \in Batch : e # b => cfg'[e] = cfg[e]
  BY DEF StartConfig, Types, BatchesOK, Configs
<1>3. sdk \in [Batch -> Calls] /\ w[b].i <= links /\ status[b] # "none"
      /\ (sdk[b] # "none" => w[b].c \in Contact) /\ UNCHANGED <<sdk, late, links, status>>
  BY DEF StartConfig, Types, BatchesOK, BatchFits, conn
<1>4. BatchesOK'
  BY <1>1, <1>2, <1>3, OneBatch
<1>5. wire' \in Seq(Contact \cup {"config"})
  <2>1. wire \in Seq(Contact \cup {"config"})
    BY DEF Types, LinksOK
  <2>2. Append(wire, "config") \in Seq(Contact \cup {"config"})
    BY <2>1
  <2> QED BY <2>1, <2>2 DEF StartConfig
<1>6. reg' \in [1..MaxLinks -> Registry]
  <2>1. CASE reg' = reg
    BY <2>1 DEF Types, LinksOK
  <2>2. CASE w[b].i \in 1..MaxLinks /\ reg' # reg
    <3> DEFINE r == [names |-> {}, id |-> reg[w[b].i].id + 1, whole |-> FALSE, coming |-> {}]
    <3>1. reg[w[b].i] \in Registry
      BY <2>2 DEF Types, LinksOK
    <3>2. r \in Registry
      BY <3>1 DEF Registry
    <3>3. reg' = [reg EXCEPT ![w[b].i] = r]
      BY <2>2 DEF StartConfig
    <3> QED BY <3>2, <3>3, RegistryTo
  <2>3. w[b].i \notin 1..MaxLinks => reg' = reg
    BY DEF StartConfig, Types, LinksOK
  <2> QED BY <2>1, <2>2, <2>3
<1> QED BY <1>4, <1>5, <1>6 DEF StartConfig, Types, BooksOK, LinksOK, conn

LEMMA TypesBarrier ==
  ASSUME Types, NEW b \in Batch, Barrier(b)
  PROVE  Types'
<1>1. BatchesOK'
  BY BarrierTo, WorkerGoes DEF Barrier, conn
<1> QED BY <1>1 DEF Barrier, Types, BooksOK, LinksOK, conn, radioVars

LEMMA TypesRestore ==
  ASSUME Bounds, Types, NEW b \in Batch, Restore(b)
  PROVE  Types'
<1>1. BatchesOK'
  BY AtTo, WorkerGoes DEF Restore, Types, Ats, conn
<1>2. w[b].saved \in Seq(Batch)
  BY DEF Types, BatchesOK, WorkerState
<1>3. handler' \in [1..MaxLinks -> Seq(Batch)]
  BY <1>2 DEF Restore, Types, LinksOK
<1>4. refreshOf' \in 0..MaxLinks /\ lost' \in BOOLEAN
  BY Bounds DEF Restore, Types, LinksOK, Broken, Bounds
<1> QED BY <1>1, <1>3, <1>4 DEF Restore, Types, BooksOK, LinksOK, radioVars

LEMMA TypesConfirm ==
  ASSUME Types, NEW b \in Batch, Confirm(b)
  PROVE  Types'
<1>1. At(b, "next") \/ At(b, "except")
  BY DEF Confirm
<1>2. BatchesOK'
  BY <1>1, AtTo, WorkerGoes DEF Confirm, Types, Ats, conn
<1>3. newer' \subseteq Contact /\ listed' \subseteq Contact
  BY DEF Confirm, Types, BooksOK
<1>4. item' \in [Batch -> Lists] /\ row' \in [Batch -> Copy]
  <2>1. CASE UNCHANGED <<item, row>>
    BY <2>1 DEF Types, BooksOK
  <2>2. CASE item' = [item EXCEPT ![b][w[b].c] = "removed"] /\ Store(b)
    <3>1. item' \in [Batch -> Lists]
      <4>1. CASE w[b].c \in DOMAIN item[b]
        BY <2>2, <4>1, ItemTo DEF Statuses
      <4>2. CASE w[b].c \notin DOMAIN item[b]
        <5>1. item[b] \in Lists
          BY DEF Types, BooksOK
        <5>2. [item[b] EXCEPT ![w[b].c] = "removed"] = item[b]
          BY <4>2, <5>1 DEF Lists
        <5> QED BY <2>2, <5>1, <5>2 DEF Types, BooksOK
      <4> QED BY <4>1, <4>2
    <3>2. status' \in [Batch -> {"none", "started", "failed", "completed"}]
      BY DEF Confirm, Types, BooksOK
    <3> QED BY <2>2, <3>1, <3>2, StoreTo
  <2> QED BY <2>1, <2>2 DEF Confirm
<1> QED BY <1>2, <1>3, <1>4 DEF Confirm, Types, BooksOK, LinksOK, conn, radioVars

\* Except closes the contacts of its batch as well.
LEMMA ExceptList ==
  ASSUME Types, NEW b \in Batch, Except(b)
  PROVE  /\ item' = [item EXCEPT ![b] = item'[b]] /\ item'[b] \in Lists
         /\ DOMAIN item'[b] = DOMAIN item[b]
         /\ \A c \in DOMAIN item[b] : c = w[b].c \/ item[b][c] # "sent" => item'[b][c] \notin Open
<1> DEFINE f == [c \in DOMAIN item[b] |->
                   IF c = w[b].c
                   THEN (IF item[b][c] = "sent" THEN "sent_unverified" ELSE "failed")
                   ELSE IF item[b][c] = "queued" THEN "skipped" ELSE item[b][c]]
<1>1. item[b] \in Lists /\ item[b] \in [DOMAIN item[b] -> Statuses]
  BY DEF Types, BooksOK, Lists
<1>2. \A c \in DOMAIN item[b] :
        f[c] \in Statuses /\ (c = w[b].c \/ item[b][c] # "sent" => f[c] \notin Open)
  BY <1>1 DEF Statuses, Open
<1>3. f = [c \in DOMAIN item[b] |-> f[c]] /\ DOMAIN f = DOMAIN item[b]
  OBVIOUS
<1>4. f \in Lists
  <2> HIDE DEF f
  <2> QED BY <1>1, <1>2, <1>3, ListTo
<1>5. item' = [item EXCEPT ![b] = f]
  BY DEF Except, Types, BooksOK
<1> HIDE DEF f
<1> QED BY <1>2, <1>3, <1>4, <1>5 DEF Types, BooksOK

\* A batch that ends has a closed list, stores it and keeps its threads' contact.
LEMMA TypesEnds ==
  ASSUME Bounds, Types, NEW b \in Batch, Except(b) \/ Finish(b)
  PROVE  Types'
<1>1. status' \in [Batch -> {"none", "started", "failed", "completed"}]
      /\ \A e \in Batch : e # b => status'[e] = status[e]
  BY DEF Except, Finish, Types, BooksOK
<1>2. item' \in [Batch -> Lists]
  <2>1. CASE Except(b)
    BY <2>1, ExceptList DEF Types, BooksOK
  <2>2. CASE Finish(b)
    <3>1. item[b] \in Lists /\ Closed(item[b]) \in Lists
      BY ClosedIs DEF Types, BooksOK
    <3>2. item' = item \/ item' = [item EXCEPT ![b] = Closed(item[b])]
      BY <2>2 DEF Finish, Types, BooksOK
    <3> QED BY <3>1, <3>2 DEF Types, BooksOK
  <2> QED BY <2>1, <2>2
<1>3. row' \in [Batch -> Copy]
  BY <1>1, <1>2, StoreTo DEF Except, Finish
<1>4. w' \in [Batch -> WorkerState] /\ Others(b) /\ w'[b].c = w[b].c /\ w'[b].i = w[b].i
  BY GoneTo DEF Except, Finish, Types
<1>5. status[b] # "none" /\ status'[b] # "none" /\ w[b].i <= links
      /\ (sdk[b] # "none" => w[b].c \in Contact)
  BY DEF Except, Finish, Types, BatchesOK, BatchFits, BooksOK
<1>6. sdk \in [Batch -> Calls] /\ cfg \in [Batch -> Configs] /\ UNCHANGED <<sdk, cfg, late, links>>
  BY DEF Except, Finish, Types, BatchesOK, conn
<1>7. BatchesOK'
  BY <1>1, <1>4, <1>5, <1>6, OneBatch
<1> QED BY <1>1, <1>2, <1>3, <1>7
           DEF Except, Finish, Types, BooksOK, LinksOK, conn, radioVars

\* The batch is failed from outside, and its copy stored later.
LEMMA TypesFail ==
  ASSUME Types, NEW b \in Batch, FailPending(b) \/ StoreFailed(b)
  PROVE  Types'
<1>1. status' \in [Batch -> {"none", "started", "failed", "completed"}] /\ status'[b] # "none"
      /\ \A e \in Batch : e # b => status'[e] = status[e] /\ late'[e] = late[e]
  BY DEF FailPending, StoreFailed, Types, BooksOK, BatchesOK, BatchFits
<1>2. item[b] \in Lists /\ Closed(item[b]) \in Lists
  BY ClosedIs DEF Types, BooksOK
<1>3. item' \in [Batch -> Lists] /\ late' \in [Batch -> Copy \cup {None}]
      /\ row' \in [Batch -> Copy]
  <2>1. CASE FailPending(b)
    <3>1. item' = [item EXCEPT ![b] = Closed(item[b])]
      BY <2>1 DEF FailPending
    <3>2. item' \in [Batch -> Lists]
      BY <1>2, <3>1 DEF Types, BooksOK
    <3>3. item'[b] \in Lists
      BY <3>2
    <3>4. [status |-> "failed", item |-> item'[b]] \in Copy
      BY <3>3 DEF Copy
    <3> QED BY <2>1, <3>2, <3>4 DEF FailPending, Types, BooksOK
  <2>2. CASE StoreFailed(b)
    <3>1. late[b] \in Copy
      BY <2>2 DEF StoreFailed, Types, BooksOK
    <3> QED BY <2>2, <3>1 DEF StoreFailed, Types, BooksOK
  <2> QED BY <2>1, <2>2
<1>4. UNCHANGED <<w, sdk, cfg, links>>
  BY DEF FailPending, StoreFailed, conn
<1>5. w \in [Batch -> WorkerState] /\ w[b].i <= links /\ (sdk[b] # "none" => w[b].c \in Contact)
      /\ sdk \in [Batch -> Calls] /\ cfg \in [Batch -> Configs]
  BY DEF Types, BatchesOK, BatchFits
<1>6. BatchesOK'
  BY <1>1, <1>4, <1>5, OneBatch DEF Others
<1> QED BY <1>1, <1>3, <1>6
           DEF FailPending, StoreFailed, Types, BooksOK, LinksOK, conn, radioVars

\* The connection is lost, taken away and replaced.
LEMMA TypesLink ==
  ASSUME Bounds, Types, Lose \/ Take \/ Reconnect
  PROVE  Types'
<1>1. UNCHANGED <<w, sdk, cfg, status, late>> /\ links <= links' /\ links \in Nat /\ links' \in Nat
  BY DEF Lose, Take, Reconnect, Types, LinksOK, Bounds
<1>2. BatchesOK'
  <2>1. ASSUME NEW b \in Batch PROVE BatchFits(b) /\ w[b].i \in Nat
    <3>1. w[b] \in WorkerState
      BY DEF Types, BatchesOK
    <3>2. w[b].i \in Nat
      BY <3>1 DEF WorkerState
    <3> QED BY <3>2 DEF Types, BatchesOK
  <2>2. \A b \in Batch : BatchFits(b)'
    BY <1>1, <2>1 DEF BatchFits
  <2> QED BY <1>1, <2>2 DEF Types, BatchesOK
<1>3. reg' \in [1..MaxLinks -> Registry]
  <2>1. CASE reg' = reg
    BY <2>1 DEF Types, LinksOK
  <2>2. CASE Reconnect
    <3>1. links + 1 \in 1..MaxLinks
      BY <2>2 DEF Reconnect, Types, LinksOK, Bounds
    <3> DEFINE r == [reg[links + 1] EXCEPT !.names = radio]
    <3>2. r \in Registry
      BY <3>1 DEF Types, LinksOK, Registry
    <3>3. reg' = [reg EXCEPT ![links + 1] = r]
      BY <2>2 DEF Reconnect
    <3> QED BY <3>2, <3>3, RegistryTo
  <2> QED BY <2>1, <2>2 DEF Lose, Take
<1>4. links' \in 1..MaxLinks /\ iface' \in {0, links'} /\ lost' \in BOOLEAN
  <2>1. links \in 1..MaxLinks /\ iface \in {0, links} /\ lost \in BOOLEAN
    BY DEF Types, LinksOK
  <2>2. CASE Lose
    BY <2>1, <2>2 DEF Lose
  <2>3. CASE Take
    BY <2>1, <2>3 DEF Take
  <2>4. CASE Reconnect
    <3>1. links' = links + 1 /\ iface' = links + 1 /\ lost' = FALSE /\ links < MaxLinks
      BY <2>4 DEF Reconnect
    <3>2. links + 1 \in 1..MaxLinks
      BY <2>1, <3>1 DEF Bounds
    <3> QED BY <3>1, <3>2
  <2> QED BY <2>2, <2>3, <2>4
<1>5. wire' \in Seq(Contact \cup {"config"}) /\ radio' = radio
  <2>1. wire \in Seq(Contact \cup {"config"}) /\ <<>> \in Seq(Contact \cup {"config"})
    BY DEF Types, LinksOK
  <2> QED BY <2>1 DEF Lose, Take, Reconnect, radioVars
<1> QED BY <1>2, <1>3, <1>4, <1>5 DEF Lose, Take, Reconnect, Types, BooksOK, LinksOK

\* The radio, the download and the node list.
LEMMA TypesRadio ==
  ASSUME Bounds, Types,
         RadioTakes \/ ConfigComplete \/ SyncNodes \/ \E c \in Contact : NodeInfo(c) \/ Hear(c)
  PROVE  Types'
<1>1. UNCHANGED <<sdk, cfg, status, late, conn>>
  BY DEF RadioTakes, ConfigComplete, SyncNodes, NodeInfo, Hear
<1>2. BatchesOK'
  <2>1. w' \in [Batch -> WorkerState]
        /\ \A b \in Batch : w'[b].at = w[b].at /\ w'[b].c = w[b].c /\ w'[b].i = w[b].i
    <3>1. CASE ConfigComplete
      BY <3>1, CompleteTo
    <3>2. CASE w' = w
      BY <3>2 DEF Types, BatchesOK
    <3> QED BY <3>1, <3>2 DEF RadioTakes, SyncNodes, NodeInfo, Hear
  <2>2. \A b \in Batch : BatchFits(b)'
    BY <1>1, <2>1 DEF Types, BatchesOK, BatchFits, conn
  <2> QED BY <1>1, <2>1, <2>2 DEF Types, BatchesOK
<1>3. iface # 0 => iface \in 1..MaxLinks /\ reg[iface] \in Registry
  BY DEF Types, LinksOK
<1>4. /\ wire' \in Seq(Contact \cup {"config"})
      /\ radio' \subseteq Contact /\ lacked' \subseteq Contact
      /\ listed' \subseteq Contact /\ newer' \subseteq Contact
  <2>1. /\ wire \in Seq(Contact \cup {"config"})
        /\ wire # <<>> => Tail(wire) \in Seq(Contact \cup {"config"})
    BY DEF Types, LinksOK
  <2>2. radio \subseteq Contact /\ lacked \subseteq Contact /\ listed \subseteq Contact
        /\ newer \subseteq Contact
    BY DEF Types, LinksOK, BooksOK
  <2>3. CASE RadioTakes
    <3>1. wire # <<>> => Head(wire) \in Contact \cup {"config"}
      BY <2>1
    <3> QED BY <2>1, <2>2, <2>3, <3>1 DEF RadioTakes
  <2> QED BY <2>1, <2>2, <2>3 DEF ConfigComplete, SyncNodes, NodeInfo, Hear, radioVars
<1>5. reg' \in [1..MaxLinks -> Registry]
  <2>1. CASE reg' = reg
    BY <2>1 DEF Types, LinksOK
  <2>2. CASE RadioTakes /\ reg' # reg
    <3> DEFINE r == [reg[iface] EXCEPT !.coming = radio]
    <3>1. reg' = [reg EXCEPT ![iface] = r]
      BY <2>2 DEF RadioTakes
    <3>2. iface \in 1..MaxLinks => r \in Registry
      BY DEF Types, LinksOK, Registry
    <3> QED BY <2>2, <3>1, <3>2, RegistryTo DEF Types, LinksOK
  <2>3. CASE ConfigComplete
    <3> DEFINE r == [reg[iface] EXCEPT !.whole = TRUE]
    <3>1. reg' = [reg EXCEPT ![iface] = r] /\ iface # 0
      BY <2>3 DEF ConfigComplete, Downloads
    <3>2. r \in Registry
      BY <1>3, <3>1 DEF Registry
    <3> QED BY <3>1, <3>2, RegistryTo
  <2>4. ASSUME NEW c \in Contact, NodeInfo(c) PROVE reg' \in [1..MaxLinks -> Registry]
    <3> DEFINE r == [reg[iface] EXCEPT !.names = @ \cup {c}, !.coming = @ \ {c}]
    <3>1. iface # 0
      BY <2>4 DEF NodeInfo, Downloads
    <3>2. r \in Registry
      BY <1>3, <3>1 DEF Registry
    <3>3. reg' = [reg EXCEPT ![iface] = r]
      BY <1>3, <2>4, <3>1 DEF NodeInfo, Types, LinksOK
    <3> QED BY <3>2, <3>3, RegistryTo
  <2>5. ASSUME NEW c \in Contact, Hear(c) PROVE reg' \in [1..MaxLinks -> Registry]
    <3> DEFINE r == [reg[iface] EXCEPT !.names = @ \cup {c}]
    <3>1. reg' = [reg EXCEPT ![iface] = r] /\ iface # 0
      BY <2>5 DEF Hear
    <3>2. r \in Registry
      BY <1>3, <3>1 DEF Registry
    <3> QED BY <3>1, <3>2, RegistryTo
  <2> QED BY <2>1, <2>2, <2>3, <2>4, <2>5 DEF SyncNodes
<1> QED BY <1>1, <1>2, <1>4, <1>5
           DEF RadioTakes, ConfigComplete, SyncNodes, NodeInfo, Hear, Types, BooksOK, LinksOK, conn

LEMMA TypesInit == Bounds /\ Init => Types
<1> SUFFICES ASSUME Bounds, Init PROVE Types
  OBVIOUS
<1>1. BatchesOK
  BY IdleIs DEF Init, BatchesOK, BatchFits, Calls, Configs, Idle
<1>2. BooksOK
  <2>1. <<>> \in Lists
    <3>1. <<>> \in [{} -> Statuses]
      OBVIOUS
    <3> QED BY <3>1 DEF Lists
  <2>2. [status |-> "none", item |-> <<>>] \in Copy
    BY <2>1 DEF Copy
  <2> QED BY <2>1, <2>2 DEF Init, BooksOK
<1>3. LinksOK
  <2>1. [names |-> Contact, id |-> 0, whole |-> TRUE, coming |-> {}] \in Registry
    BY DEF Registry
  <2>2. <<>> \in Seq(Batch) /\ <<>> \in Seq(Contact \cup {"config"})
    OBVIOUS
  <2>3. 1 \in 1..MaxLinks /\ 0 \in 0..MaxLinks
    BY DEF Bounds
  <2>4. reg \in [1..MaxLinks -> Registry] /\ handler \in [1..MaxLinks -> Seq(Batch)]
    BY <2>1, <2>2 DEF Init
  <2> QED BY <2>2, <2>3, <2>4 DEF Init, LinksOK
<1> QED BY <1>1, <1>2, <1>3 DEF Types

LEMMA TypesNext == Bounds /\ Types /\ [Next]_vars => Types'
<1> SUFFICES ASSUME Bounds, Types, [Next]_vars PROVE Types'
  OBVIOUS
<1>1. ASSUME NEW b \in Batch, NEW S \in Selections, Start(b, S) PROVE Types'
  BY <1>1, TypesStart
<1>2. ASSUME NEW b \in Batch, Worker(b) PROVE Types'
  BY <1>2, TypesPick, TypesSdk, TypesWaited, TypesBegin, TypesBarrier, TypesRestore, TypesConfirm,
     TypesEnds DEF Worker
<1>3. ASSUME NEW b \in Batch, SdkSends(b) \/ SdkReturns(b) \/ StartConfig(b) PROVE Types'
  BY <1>3, TypesSdk, TypesConfig
<1>4. ASSUME NEW b \in Batch, FailPending(b) \/ StoreFailed(b) PROVE Types'
  BY <1>4, TypesFail
<1>5. CASE UNCHANGED vars
  BY <1>5 DEF vars, Types, BatchesOK, BatchFits, BooksOK, LinksOK
<1> QED BY <1>1, <1>2, <1>3, <1>4, <1>5, TypesLink, TypesRadio DEF Next

-----------------------------------------------------------------------------
(* Calls to the SDK *)

\* Calls, workers and links stay as they are, or calls return and links are lost.
LEMMA CallsStay ==
  ASSUME CallsInv, \A b \in Batch : Calling(b)' => Calling(b),
         \A b \in Batch : w'[b].at = w[b].at /\ (Usable(w[b].i)' => Usable(w[b].i)),
         \A b \in Batch : w'[b].i = w[b].i,
         \A b \in Batch : status'[b] = "started" => status[b] = "started"
  PROVE  CallsInv'
<1>1. ASSUME NEW b \in Batch PROVE CallFits(b)'
  BY DEF CallsInv, CallFits, Usable
<1> QED BY <1>1 DEF CallsInv

\* A step of one worker, on its link.
LEMMA CallsGo ==
  ASSUME Types, CallsInv, NEW b \in Batch, Others(b), CallFits(b)',
         UNCHANGED iface, lost => lost',
         \A e \in Batch : e # b => sdk'[e] = sdk[e],
         \A e \in Batch : status'[e] = "started" => status[e] = "started"
  PROVE  CallsInv'
<1>1. ASSUME NEW e \in Batch, e # b PROVE CallFits(e)'
  <2>1. CallFits(e) /\ w'[e] = w[e] /\ sdk'[e] = sdk[e]
    BY <1>1 DEF CallsInv, Others
  <2> QED BY <2>1 DEF CallFits, Calling, Usable
<1> QED BY <1>1 DEF CallsInv

\* A worker that does not wait for a call has none.
LEMMA CallsWorker ==
  ASSUME Bounds, Types, CallsInv, NEW b \in Batch, Worker(b)
  PROVE  CallsInv'
<1>1. /\ sdk \in [Batch -> Calls] /\ lost \in BOOLEAN
      /\ status \in [Batch -> {"none", "started", "failed", "completed"}]
  BY DEF Types, BatchesOK, BooksOK, LinksOK
<1>2. CallFits(b)
  BY DEF CallsInv
<1>3. CASE Pick(b)
  <2>1. Others(b) /\ w'[b].i = w[b].i /\ ~ Calling(b)
    BY <1>2, <1>3, PickTo DEF Types, Pick, CallFits
  <2>2. sdk' = sdk \/ sdk' = [sdk EXCEPT ![b] = "due"]
    BY <1>3 DEF Pick
  <2>3. UNCHANGED <<iface, lost, status>>
    BY <1>3 DEF Pick, conn
  <2>4. CallFits(b)' /\ \A e \in Batch : e # b => sdk'[e] = sdk[e]
    BY <1>1, <2>1, <2>2 DEF CallFits, Calling
  <2> QED BY <2>1, <2>3, <2>4, CallsGo
<1>4. CASE Call(b)
  <2>1. Others(b) /\ w' = w /\ w[b].at = "send" /\ UNCHANGED <<iface, lost, status>>
    BY <1>4 DEF Call, conn, Others
  <2>2. \A e \in Batch : e # b => sdk'[e] = sdk[e]
    BY <1>1, <1>4 DEF Call
  <2> QED BY <2>1, <2>2, CallsGo DEF CallFits
<1>5. CASE SendWaited(b)
  <2>1. PICK at \in {"refresh", "except"} :
          /\ At(b, at) /\ (at = "refresh" => sdk[b] = "returned")
          /\ (sdk[b] \in {"calling", "out"} => lost' = (lost \/ iface = w[b].i))
    BY <1>5 DEF SendWaited
  <2>2. Others(b) /\ w'[b].at = at /\ w'[b].i = w[b].i
    BY <2>1, AtTo DEF Types, Ats
  <2>3. UNCHANGED <<iface, sdk, status>> /\ (lost => lost')
    BY <1>1, <1>5 DEF SendWaited
  <2>4. CallFits(b)'
    BY <1>1, <2>1, <2>2, <2>3 DEF CallFits, Calling, Usable
  <2> QED BY <2>2, <2>3, <2>4, CallsGo
<1>6. CASE BeginRefresh(b) \/ Barrier(b) \/ Restore(b) \/ Confirm(b)
  <2>1. w[b].at \in {"refresh", "barrier", "restore", "restoreFailed", "confirm"}
    BY <1>6 DEF BeginRefresh, Barrier, Restore, Confirm
  <2>2. UNCHANGED <<iface, sdk, status>> /\ (lost => lost')
    BY <1>1, <1>6 DEF BeginRefresh, Barrier, Restore, Confirm, conn
  <2>3. CallFits(b)'
    BY <1>2, <2>1, <2>2 DEF CallFits, Calling
  <2>4. Others(b)
    <3>1. ASSUME NEW at \in {"except", "confirm", "next"}, At(b, at) PROVE Others(b)
      BY <3>1, AtTo DEF Types, Ats
    <3>2. CASE BeginRefresh(b) /\ Usable(w[b].i)
      BY <3>2, BeginTo
    <3>3. CASE Barrier(b)
      BY <3>3, BarrierTo
    <3> QED BY <1>6, <3>1, <3>2, <3>3 DEF BeginRefresh, Restore, Confirm
  <2> QED BY <2>2, <2>3, <2>4, CallsGo
<1>7. CASE Except(b) \/ Finish(b)
  <2>1. Others(b) /\ w'[b].at = "done" /\ w'[b].i = w[b].i
    BY <1>7, GoneTo DEF Except, Finish, Types
  <2>2. UNCHANGED <<iface, lost, sdk>> /\ w[b].at \in {"except", "next"}
    BY <1>7 DEF Except, Finish, conn
  <2>3. \A e \in Batch : status'[e] = "started" => status[e] = "started"
    BY <1>1, <1>7 DEF Except, Finish
  <2>4. CallFits(b)'
    BY <1>2, <2>1, <2>2 DEF CallFits, Calling, Usable
  <2> QED BY <2>1, <2>2, <2>3, <2>4, CallsGo
<1> QED BY <1>3, <1>4, <1>5, <1>6, <1>7 DEF Worker

\* A batch starts when none is, and has made no call.
LEMMA CallsStart ==
  ASSUME Bounds, Types, CallsInv, NEW b \in Batch, NEW S \in Selections, Start(b, S)
  PROVE  CallsInv'
<1>1. status' = [status EXCEPT ![b] = "started"] /\ \A e \in Batch : status[e] # "started"
  BY DEF Start, MayStart
<1>2. status \in [Batch -> {"none", "started", "failed", "completed"}]
  BY DEF Types, BooksOK
<1>3. Others(b) /\ UNCHANGED <<sdk, iface, lost>> /\ sdk[b] = "none"
  BY StartTo DEF Start, conn, Types, BatchesOK, BatchFits
<1>4. ASSUME NEW e \in Batch PROVE CallFits(e)'
  <2>1. CallFits(e) /\ (e # b => w'[e] = w[e])
    BY <1>3 DEF CallsInv, Others
  <2> QED BY <1>3, <2>1 DEF CallFits, Calling, Usable
<1> QED BY <1>1, <1>2, <1>4 DEF CallsInv

LEMMA CallsNext == Bounds /\ Types /\ CallsInv /\ [Next]_vars => CallsInv'
<1> SUFFICES ASSUME Bounds, Types, CallsInv, [Next]_vars PROVE CallsInv'
  OBVIOUS
<1>1. /\ sdk \in [Batch -> Calls]
      /\ status \in [Batch -> {"none", "started", "failed", "completed"}]
  BY DEF Types, BatchesOK, BooksOK
<1>2. ASSUME NEW b \in Batch, SdkSends(b) \/ SdkReturns(b) \/ StoreFailed(b) \/ FailPending(b)
      PROVE  CallsInv'
  <2>1. UNCHANGED <<w, iface, lost>>
    BY <1>2 DEF SdkSends, SdkReturns, StoreFailed, FailPending, conn
  <2>2. \A e \in Batch : Calling(e)' => Calling(e)
    BY <1>1, <1>2 DEF SdkSends, SdkReturns, StoreFailed, FailPending, Calling
  <2>3. \A e \in Batch : status'[e] = "started" => status[e] = "started"
    BY <1>1, <1>2 DEF SdkSends, SdkReturns, StoreFailed, FailPending
  <2> QED BY <2>1, <2>2, <2>3, CallsStay DEF Usable
<1>3. ASSUME NEW b \in Batch, StartConfig(b) PROVE CallsInv'
  <2>1. UNCHANGED <<sdk, status, iface, lost>>
    BY <1>3 DEF StartConfig, conn
  <2>2. \A e \in Batch : w'[e].at = w[e].at /\ w'[e].i = w[e].i
    BY <1>3, ConfigTo DEF Others
  <2> QED BY <2>1, <2>2, CallsStay DEF Usable, Calling
<1>4. CASE Lose \/ Take
  <2>1. UNCHANGED <<w, sdk, status>> /\ \A b \in Batch : Usable(w[b].i)' => Usable(w[b].i)
    BY <1>4 DEF Lose, Take, Usable
  <2> QED BY <2>1, CallsStay DEF Calling
<1>5. CASE Reconnect
  <2>1. UNCHANGED <<w, sdk, status>> /\ iface' = links + 1
    BY <1>5 DEF Reconnect
  <2>2. \A b \in Batch : w[b].i # links + 1
    <3>1. \A b \in Batch : w[b].i \in Nat /\ w[b].i <= links
      BY DEF Types, BatchesOK, BatchFits, WorkerState
    <3> QED BY <3>1 DEF Types, LinksOK
  <2> QED BY <2>1, <2>2, CallsStay DEF Usable, Calling
<1>6. CASE \/ RadioTakes \/ ConfigComplete \/ SyncNodes \/ UNCHANGED vars
           \/ \E c \in Contact : NodeInfo(c) \/ Hear(c)
  <2>1. UNCHANGED <<sdk, status, iface, lost>>
    BY <1>6 DEF RadioTakes, ConfigComplete, SyncNodes, NodeInfo, Hear, conn, vars
  <2>2. \A b \in Batch : w'[b].at = w[b].at /\ w'[b].i = w[b].i
    BY <1>6, CompleteTo DEF RadioTakes, SyncNodes, NodeInfo, Hear, vars
  <2> QED BY <2>1, <2>2, CallsStay DEF Usable, Calling
<1> QED BY <1>2, <1>3, <1>4, <1>5, <1>6, CallsStart, CallsWorker DEF Next

-----------------------------------------------------------------------------
(* Workers *)

\* A worker goes on, on its link, while the connection stays or is lost.
LEMMA WorkersGo ==
  ASSUME WorkersInv, NEW b \in Batch, Others(b), Live(b), w'[b].i = w[b].i,
         w'[b].at # "none", w'[b].at = "done" => status'[b] # "started",
         UNCHANGED <<iface>>, lost => lost',
         \A e \in Batch : e # b => status'[e] = status[e] /\ sdk'[e] = sdk[e],
         w'[b].at # "done" => status'[b] = status[b]
  PROVE  WorkersInv'
<1>1. \A e \in Batch : Engaged(e)' => Engaged(e)
  BY DEF Engaged, Calling, Live, Others
<1>2. \A e \in Batch : w'[e].i = w[e].i
  BY DEF Others
<1> QED BY <1>1, <1>2 DEF WorkersInv, Others, Live, Usable

\* Nothing about the workers changes but what they wait for, or the link in use is lost.
LEMMA WorkersStay ==
  ASSUME WorkersInv, \A b \in Batch : w'[b].at = w[b].at /\ w'[b].i = w[b].i,
         \A b \in Batch : Usable(w[b].i)' /\ Live(b) => status'[b] = status[b] /\ Usable(w[b].i),
         \A b \in Batch : Calling(b)' => Calling(b),
         \A b \in Batch : status'[b] # status[b] => status[b] = "started" /\ status'[b] = "failed"
  PROVE  WorkersInv'
<1>1. \A b \in Batch : Engaged(b)' => Engaged(b)
  BY DEF Engaged, Live
<1> QED BY <1>1 DEF WorkersInv, Live, Usable

LEMMA WorkersStart ==
  ASSUME Bounds, Types, CallsInv, WorkersInv, NEW b \in Batch, NEW S \in Selections, Start(b, S)
  PROVE  WorkersInv'
<1>1. Others(b) /\ w'[b].at = "next" /\ w'[b].i = iface
  BY StartTo
<1>2. status' = [status EXCEPT ![b] = "started"] /\ UNCHANGED <<iface, lost>> /\ Usable(iface)
      /\ \A e \in Batch : status[e] # "started"
  BY DEF Start, MayStart, conn
<1>3. ASSUME NEW e \in Batch, Engaged(e) PROVE w[e].i # iface
  <2>1. CASE Live(e)
    BY <1>2, <2>1 DEF WorkersInv, Usable
  <2>2. CASE ~ Live(e)
    BY <1>2, <1>3, <2>2 DEF Engaged, Live, CallsInv, CallFits
  <2> QED BY <2>1, <2>2
<1>4. status \in [Batch -> {"none", "started", "failed", "completed"}]
  BY DEF Types, BooksOK
<1>5. \A e \in Batch : e # b => w'[e] = w[e] /\ (Engaged(e)' <=> Engaged(e))
  BY <1>1 DEF Start, Others, Engaged, Live, Calling
<1>6. \A e, f \in Batch : Engaged(e)' /\ Engaged(f)' /\ w'[e].i = w'[f].i => e = f
  BY <1>1, <1>3, <1>5 DEF WorkersInv
<1> QED BY <1>1, <1>2, <1>3, <1>4, <1>5, <1>6 DEF WorkersInv, Others, Engaged, Live, Usable

\* The steps of a worker.
LEMMA WorkersWorker ==
  ASSUME Bounds, Types, WorkersInv, NEW b \in Batch, Worker(b)
  PROVE  WorkersInv'
<1>0. \A e \in Batch : e # b => sdk'[e] = sdk[e]
  BY DEF Worker, Pick, Call, SendWaited, BeginRefresh, Barrier, Restore, Confirm, Except, Finish,
         Types, BatchesOK
<1>1. Live(b) /\ (lost => lost') /\ iface' = iface
  <2>1. CASE \/ Pick(b) \/ Call(b) \/ BeginRefresh(b) \/ Barrier(b) \/ Confirm(b)
             \/ Except(b) \/ Finish(b)
    <3>1. w[b].at \in {"next", "send", "refresh", "barrier", "confirm", "except"}
      BY <2>1 DEF Pick, Call, BeginRefresh, Barrier, Confirm, Except, Finish
    <3>2. UNCHANGED conn
      BY <2>1 DEF Pick, Call, BeginRefresh, Barrier, Confirm, Except, Finish
    <3> QED BY <3>1, <3>2 DEF Live, conn
  <2>2. CASE SendWaited(b) \/ Restore(b)
    <3>1. w[b].at \in {"send", "restore", "restoreFailed"} /\ iface' = iface
      BY <2>2 DEF SendWaited, Restore
    <3>2. lost \in BOOLEAN
      BY DEF Types, LinksOK
    <3>3. lost => lost'
      BY <2>2, <3>2 DEF SendWaited, Restore
    <3> QED BY <3>1, <3>3 DEF Live
  <2> QED BY <2>1, <2>2 DEF Worker
<1>2. CASE Except(b) \/ Finish(b)
  <2>1. Others(b) /\ w'[b].at = "done" /\ w'[b].i = w[b].i
    BY <1>2, GoneTo DEF Except, Finish, Types
  <2>2. status'[b] # "started" /\ \A e \in Batch : e # b => status'[e] = status[e]
    BY <1>2 DEF Except, Finish, Types, BooksOK
  <2> QED BY <1>0, <1>1, <2>1, <2>2, WorkersGo
<1>3. CASE ~ (Except(b) \/ Finish(b))
  <2>1. Others(b) /\ w'[b].i = w[b].i /\ w'[b].at \notin {"none", "done"}
    <3>1. CASE Pick(b)
      BY <3>1, PickTo DEF Types
    <3>5. CASE Call(b)
      BY <1>1, <3>5 DEF Call, Others, Live
    <3>2. CASE BeginRefresh(b) /\ Usable(w[b].i)
      BY <3>2, BeginTo
    <3>3. CASE Barrier(b)
      BY <3>3, BarrierTo
    <3>4. ASSUME NEW at \in {"refresh", "except", "confirm", "next"}, At(b, at)
          PROVE  Others(b) /\ w'[b].i = w[b].i /\ w'[b].at \notin {"none", "done"}
      BY <3>4, AtTo DEF Types, Ats
    <3> QED BY <1>3, <3>1, <3>2, <3>3, <3>4, <3>5
               DEF Worker, SendWaited, BeginRefresh, Restore, Confirm
  <2>2. status' = status
    BY <1>3 DEF Worker, Pick, Call, SendWaited, BeginRefresh, Barrier, Restore, Confirm
  <2> QED BY <1>0, <1>1, <2>1, <2>2, WorkersGo
<1> QED BY <1>2, <1>3

LEMMA WorkersNext == Bounds /\ Types /\ CallsInv /\ WorkersInv /\ [Next]_vars => WorkersInv'
<1> SUFFICES ASSUME Bounds, Types, CallsInv, WorkersInv, [Next]_vars PROVE WorkersInv'
  OBVIOUS
<1>1. ASSUME NEW b \in Batch, SdkSends(b) \/ SdkReturns(b) \/ StoreFailed(b) PROVE WorkersInv'
  <2>1. UNCHANGED <<w, status, iface, lost>>
    BY <1>1 DEF SdkSends, SdkReturns, StoreFailed, conn
  <2>2. \A e \in Batch : Calling(e)' => Calling(e)
    BY <1>1 DEF SdkSends, SdkReturns, StoreFailed, Calling, Types, BatchesOK
  <2> QED BY <2>1, <2>2, WorkersStay DEF Usable
<1>2. ASSUME NEW b \in Batch, StartConfig(b) PROVE WorkersInv'
  <2>1. UNCHANGED <<sdk, status, iface, lost>>
    BY <1>2 DEF StartConfig, conn
  <2>2. \A e \in Batch : w'[e].at = w[e].at /\ w'[e].i = w[e].i
    BY <1>2, ConfigTo DEF Others
  <2> QED BY <2>1, <2>2, WorkersStay DEF Usable, Calling
<1>3. ASSUME NEW b \in Batch, FailPending(b) PROVE WorkersInv'
  <2>1. UNCHANGED <<w, sdk, iface, lost>> /\ (lost \/ iface = 0)
    BY <1>3 DEF FailPending, conn
  <2>2. status' = [status EXCEPT ![b] = "failed"] /\ status[b] = "started"
    BY <1>3 DEF FailPending
  <2>3. status \in [Batch -> {"none", "started", "failed", "completed"}]
    BY DEF Types, BooksOK
  <2> QED BY <2>1, <2>2, <2>3, WorkersStay DEF Usable, Calling
<1>4. CASE Lose \/ Take
  BY <1>4, WorkersStay DEF Lose, Take, Usable, Calling
<1>5. CASE Reconnect
  <2>1. UNCHANGED <<w, sdk, status>> /\ iface' = links + 1
    BY <1>5 DEF Reconnect
  <2>2. \A b \in Batch : w[b].i # links + 1
    <3>1. \A b \in Batch : w[b].i \in Nat /\ w[b].i <= links
      BY DEF Types, BatchesOK, BatchFits, WorkerState
    <3> QED BY <3>1 DEF Types, LinksOK
  <2> QED BY <2>1, <2>2, WorkersStay DEF Usable, Calling
<1>6. CASE \/ RadioTakes \/ ConfigComplete \/ SyncNodes \/ UNCHANGED vars
           \/ \E c \in Contact : NodeInfo(c) \/ Hear(c)
  <2>1. UNCHANGED <<sdk, status, iface, lost>>
    BY <1>6 DEF RadioTakes, ConfigComplete, SyncNodes, NodeInfo, Hear, conn, vars
  <2>2. \A b \in Batch : w'[b].at = w[b].at /\ w'[b].i = w[b].i
    BY <1>6, CompleteTo DEF RadioTakes, SyncNodes, NodeInfo, Hear, vars
  <2> QED BY <2>1, <2>2, WorkersStay DEF Usable, Calling
<1> QED BY <1>1, <1>2, <1>3, <1>4, <1>5, <1>6, WorkersStart, WorkersWorker DEF Next

-----------------------------------------------------------------------------
(* Refreshes *)

\* Nothing a refresh depends on changes, unless the link in use is lost.
WorkerKept(b) ==
  /\ Refreshing(b)' = Refreshing(b) /\ Waiting(b)' = Waiting(b)
  /\ Refreshing(b) => w'[b].saved = w[b].saved
  /\ Refreshing(b) \/ cfg[b] = "starting" => w'[b].i = w[b].i
RefreshKept ==
  /\ UNCHANGED <<handler, refreshOf, links>>
  /\ \A b \in Batch : WorkerKept(b) /\ (cfg'[b] = "starting" => cfg[b] = "starting")
  /\ \A i \in 1..MaxLinks : reg'[i].whole = reg[i].whole
  /\ iface' # 0 /\ ~ lost' => iface' = iface /\ ~ lost

LEMMA RefreshStays ==
  ASSUME Bounds, Types, RefreshInv, RefreshKept
  PROVE  RefreshInv'
<1>1. \A b \in Batch : w[b].i \in 0..MaxLinks /\ (Waiting(b) => Refreshing(b))
  BY DEF Types, BatchesOK, WorkerState, Waiting, Refreshing
<1>2. iface # 0 => iface \in 1..MaxLinks
  BY DEF Types, LinksOK
<1>3. \A i \in 1..MaxLinks : handler'[i] # <<>> => \E b \in Batch : Refreshing(b)' /\ w'[b].i = i
  BY DEF RefreshKept, WorkerKept, RefreshInv
<1>4. ASSUME NEW b \in Batch, Refreshing(b)'
      PROVE  /\ handler'[w'[b].i] = <<b>> /\ w'[b].saved = <<>>
             /\ Usable(w[b].i)' => refreshOf' = w'[b].i
  <2>1. Refreshing(b) /\ w'[b].i = w[b].i /\ w'[b].saved = w[b].saved
    BY <1>4 DEF RefreshKept, WorkerKept
  <2> QED BY <2>1 DEF RefreshKept, RefreshInv, Usable
<1>5. ASSUME NEW b \in Batch, cfg'[b] = "starting", Usable(w[b].i)'
      PROVE  Waiting(b)' /\ reg'[w'[b].i].whole
  <2>1. cfg[b] = "starting" /\ w'[b].i = w[b].i /\ Usable(w[b].i)
    BY <1>5 DEF RefreshKept, WorkerKept, Usable
  <2>2. Waiting(b) /\ reg[w[b].i].whole /\ w[b].i \in 1..MaxLinks
    BY <1>2, <2>1 DEF RefreshInv, Usable
  <2> QED BY <2>1, <2>2 DEF RefreshKept, WorkerKept
<1>6. ASSUME Usable(iface)', ~ reg'[iface'].whole
      PROVE  \E b \in Batch : Waiting(b)' /\ w'[b].i = iface'
  <2>1. iface' = iface /\ Usable(iface) /\ iface \in 1..MaxLinks
    BY <1>2, <1>6 DEF RefreshKept, Usable
  <2>2. ~ reg[iface].whole
    BY <1>6, <2>1 DEF RefreshKept
  <2>3. PICK b \in Batch : Waiting(b) /\ w[b].i = iface
    BY <2>1, <2>2 DEF RefreshInv
  <2> QED BY <1>1, <2>1, <2>3 DEF RefreshKept, WorkerKept
<1>7. \A i \in 1..MaxLinks : i > links' => reg'[i].whole
  BY DEF RefreshKept, RefreshInv
<1> QED BY <1>3, <1>4, <1>5, <1>6, <1>7 DEF RefreshInv

\* A worker that neither was refreshing nor begins to.
LEMMA RefreshAside ==
  ASSUME Bounds, Types, RefreshInv, NEW b \in Batch, Others(b), ~ Refreshing(b), ~ Refreshing(b)',
         w'[b].i = w[b].i \/ cfg[b] = "none",
         UNCHANGED <<handler, refreshOf, links, reg, cfg, iface>>, lost => lost'
  PROVE  RefreshInv'
<1>1. \A e \in Batch : WorkerKept(e)
  <2>1. ASSUME NEW e \in Batch, e # b PROVE WorkerKept(e)
    BY <2>1 DEF Others, WorkerKept, Refreshing, Waiting
  <2>2. WorkerKept(b)
    BY DEF WorkerKept, Refreshing, Waiting
  <2> QED BY <2>1, <2>2
<1> QED BY <1>1, RefreshStays DEF RefreshKept

\* The steps that leave the workers, the handlers and what is whole as they are.
LEMMA RefreshQuiet ==
  ASSUME Bounds, Types, RefreshInv, UNCHANGED <<w, cfg, handler, refreshOf, links>>,
         \A i \in 1..MaxLinks : reg'[i].whole = reg[i].whole,
         iface' # 0 /\ ~ lost' => iface' = iface /\ ~ lost
  PROVE  RefreshInv'
<1>1. \A b \in Batch : WorkerKept(b)
  BY DEF WorkerKept, Refreshing, Waiting
<1> QED BY <1>1, RefreshStays DEF RefreshKept

LEMMA RefreshWorker ==
  ASSUME Bounds, Types, RefreshInv, NEW b \in Batch,
         \/ \E S \in Selections : Start(b, S)
         \/ Pick(b) \/ Call(b) \/ SendWaited(b) \/ (BeginRefresh(b) /\ ~ Usable(w[b].i))
         \/ Confirm(b) \/ Except(b) \/ Finish(b)
  PROVE  RefreshInv'
<1>1. CASE \E S \in Selections : Start(b, S)
  <2>1. Others(b) /\ w'[b].at = "next"
    BY <1>1, StartTo
  <2>2. cfg[b] = "none" /\ w[b].at = "none"
    BY <1>1 DEF Start, Types, BatchesOK, BatchFits
  <2>3. UNCHANGED <<handler, refreshOf, links, reg, cfg, iface, lost>>
    BY <1>1 DEF Start, conn
  <2> QED BY <2>1, <2>2, <2>3, RefreshAside DEF Refreshing
<1>2. CASE Pick(b)
  <2>1. Others(b) /\ w'[b].at \in {"send", "except"} /\ w'[b].i = w[b].i
    BY <1>2, PickTo DEF Types
  <2>2. UNCHANGED <<handler, refreshOf, links, reg, cfg, iface, lost>> /\ w[b].at = "next"
    BY <1>2 DEF Pick, conn
  <2> QED BY <2>1, <2>2, RefreshAside DEF Refreshing
<1>3. CASE SendWaited(b) \/ (BeginRefresh(b) /\ ~ Usable(w[b].i)) \/ Confirm(b)
  <2>1. PICK at \in {"refresh", "except", "next"} : At(b, at)
    BY <1>3 DEF SendWaited, BeginRefresh, Confirm
  <2>2. Others(b) /\ w'[b].at = at /\ w'[b].i = w[b].i
    BY <2>1, AtTo DEF Types, Ats
  <2>3. w[b].at \in {"send", "refresh", "confirm"} /\ UNCHANGED <<handler, refreshOf, reg, cfg>>
    BY <1>3 DEF SendWaited, BeginRefresh, Confirm
  <2>4. UNCHANGED <<links, iface>> /\ (lost => lost')
    BY <1>3 DEF SendWaited, BeginRefresh, Confirm, conn, Types, LinksOK
  <2> QED BY <2>1, <2>2, <2>3, <2>4, RefreshAside DEF Refreshing
<1>4. CASE Except(b) \/ Finish(b)
  <2>1. Others(b) /\ w'[b].at = "done" /\ w'[b].i = w[b].i
    BY <1>4, GoneTo DEF Except, Finish, Types
  <2>2. w[b].at \in {"except", "next"}
    BY <1>4 DEF Except, Finish
  <2>3. UNCHANGED <<handler, refreshOf, links, reg, cfg, iface, lost>>
    BY <1>4 DEF Except, Finish, conn
  <2> QED BY <2>1, <2>2, <2>3, RefreshAside DEF Refreshing
<1>5. CASE Call(b)
  <2>1. UNCHANGED <<w, cfg, handler, refreshOf, links, iface, lost, reg>>
    BY <1>5 DEF Call, conn
  <2> QED BY <2>1, RefreshQuiet
<1> QED BY <1>1, <1>2, <1>3, <1>4, <1>5

LEMMA RefreshBarrier ==
  ASSUME Bounds, Types, RefreshInv, NEW b \in Batch, Barrier(b)
  PROVE  RefreshInv'
<1>1. /\ Others(b) /\ w'[b].at \in {"restore", "restoreFailed"} /\ w'[b].i = w[b].i
      /\ w'[b].saved = w[b].saved /\ w'[b].done = w[b].done
      /\ w'[b].at = "restore" => w[b].done
  BY BarrierTo
<1>2. w[b].at = "barrier" /\ UNCHANGED <<handler, refreshOf, links, reg, cfg, iface, lost>>
  BY DEF Barrier, conn
<1>3. \A e \in Batch : WorkerKept(e)
  <2>1. ASSUME NEW e \in Batch, e # b PROVE WorkerKept(e)
    BY <1>1, <2>1 DEF Others, WorkerKept, Refreshing, Waiting
  <2>2. WorkerKept(b)
    BY <1>1, <1>2 DEF WorkerKept, Refreshing, Waiting
  <2> QED BY <2>1, <2>2
<1> QED BY <1>2, <1>3, RefreshStays DEF RefreshKept

\* The worker takes the handler of a link that nobody else refreshes.
LEMMA RefreshBegin ==
  ASSUME Bounds, Types, WorkersInv, RefreshInv, NEW b \in Batch, BeginRefresh(b), Usable(w[b].i)
  PROVE  RefreshInv'
<1> DEFINE i == w[b].i
<1>1. /\ Others(b) /\ w'[b].at = "barrier" /\ w'[b].i = i /\ w'[b].saved = handler[i]
      /\ w'[b].done = FALSE
  BY BeginTo
<1>2. /\ handler' = [handler EXCEPT ![i] = <<b>> \o @] /\ refreshOf' = i
      /\ cfg' = [cfg EXCEPT ![b] = "starting"] /\ UNCHANGED <<reg, links, iface, lost>>
      /\ w[b].at = "refresh"
  BY DEF BeginRefresh, conn
<1>3. i \in 1..MaxLinks /\ i = iface /\ cfg \in [Batch -> Configs]
      /\ handler \in [1..MaxLinks -> Seq(Batch)]
  BY DEF Usable, Types, LinksOK, BatchesOK
<1>4. ASSUME NEW e \in Batch, e # b, Refreshing(e) \/ Waiting(e) PROVE w[e].i # i
  BY <1>2, <1>4 DEF WorkersInv, Engaged, Live, Refreshing, Waiting
<1>5. handler[i] = <<>> /\ handler'[i] = <<b>>
  <2>1. handler[i] = <<>>
    BY <1>2, <1>3, <1>4 DEF RefreshInv, Refreshing
  <2> QED BY <1>2, <1>3, <2>1
<1>6. reg[i].whole
  <2>1. ~ \E e \in Batch : Waiting(e) /\ w[e].i = i
    BY <1>2, <1>4 DEF Waiting
  <2> QED BY <1>3, <2>1 DEF RefreshInv
<1>7. \A e \in Batch : e # b =>
        /\ w'[e] = w[e] /\ cfg'[e] = cfg[e] /\ Refreshing(e)' = Refreshing(e)
        /\ Waiting(e)' = Waiting(e)
  BY <1>1, <1>2, <1>3 DEF Others, Refreshing, Waiting
<1>8. Refreshing(b)' /\ Waiting(b)'
  BY <1>1 DEF Refreshing, Waiting
<1>9. \A e : Usable(e)' = Usable(e)
  BY <1>2 DEF Usable
<1> HIDE DEF i
<1>10. \A k \in 1..MaxLinks : handler'[k] # <<>> => \E e \in Batch : Refreshing(e)' /\ w'[e].i = k
  <2>1. ASSUME NEW k \in 1..MaxLinks, handler'[k] # <<>>, k # i
        PROVE  \E e \in Batch : Refreshing(e)' /\ w'[e].i = k
    <3>1. handler[k] # <<>>
      BY <1>2, <1>3, <2>1
    <3>2. PICK e \in Batch : Refreshing(e) /\ w[e].i = k
      BY <3>1 DEF RefreshInv
    <3> QED BY <1>2, <1>7, <3>2 DEF Refreshing
  <2> QED BY <1>1, <1>8, <2>1
<1>11. ASSUME NEW e \in Batch, Refreshing(e)'
       PROVE  /\ handler'[w'[e].i] = <<e>> /\ w'[e].saved = <<>>
              /\ Usable(w[e].i)' => refreshOf' = w'[e].i
  <2>1. CASE e = b
    BY <1>1, <1>2, <1>5, <2>1
  <2>2. CASE e # b
    <3>1. Refreshing(e) /\ w[e].i # i /\ w'[e] = w[e]
      BY <1>4, <1>7, <1>11, <2>2
    <3>2. ~ Usable(w[e].i)
      BY <1>3, <3>1 DEF Usable
    <3> QED BY <1>2, <1>3, <3>1, <3>2 DEF RefreshInv, Usable
  <2> QED BY <2>1, <2>2
<1>12. ASSUME NEW e \in Batch, cfg'[e] = "starting", Usable(w[e].i)'
       PROVE  Waiting(e)' /\ reg'[w'[e].i].whole
  BY <1>1, <1>2, <1>6, <1>7, <1>8, <1>9, <1>12 DEF RefreshInv, Usable
<1>13. reg'[i].whole
  BY <1>2, <1>6
<1> QED BY <1>2, <1>3, <1>10, <1>11, <1>12, <1>13 DEF RefreshInv

\* The worker gives the handler back; if it was still waiting, it gives the link up.
LEMMA RefreshRestore ==
  ASSUME Bounds, Types, WorkersInv, RefreshInv, NEW b \in Batch, Restore(b)
  PROVE  RefreshInv'
<1> DEFINE i == w[b].i
<1>1. /\ Refreshing(b) /\ handler' = [handler EXCEPT ![i] = w[b].saved]
      /\ refreshOf' = IF refreshOf = i THEN 0 ELSE refreshOf
      /\ UNCHANGED <<reg, links, iface, cfg>> /\ lost' = (lost \/ Broken(b))
  BY DEF Restore, Refreshing
<1>2. PICK at \in {"confirm", "except"} : At(b, at)
  BY DEF Restore
<1>3. Others(b) /\ w'[b].at = at /\ w'[b].i = i
  BY <1>2, AtTo DEF Types, Ats
<1>4. ~ Refreshing(b)' /\ ~ Waiting(b)'
  BY <1>3 DEF Refreshing, Waiting
<1>5. i \in 1..MaxLinks /\ w[b].saved = <<>>
  <2>1. Live(b) /\ i # 0
    BY <1>1 DEF Refreshing, Engaged, Live, WorkersInv
  <2>2. i \in 0..MaxLinks
    BY DEF Types, BatchesOK, WorkerState
  <2> QED BY <1>1, <2>1, <2>2 DEF Bounds, RefreshInv
<1>6. handler \in [1..MaxLinks -> Seq(Batch)]
  BY DEF Types, LinksOK
<1>7. Waiting(b) /\ iface = i => lost'
  BY <1>1 DEF Waiting, Broken
<1>8. ASSUME NEW e \in Batch, e # b
      PROVE  /\ w'[e] = w[e] /\ cfg'[e] = cfg[e] /\ Refreshing(e)' = Refreshing(e)
             /\ Waiting(e)' = Waiting(e)
  BY <1>1, <1>3, <1>8 DEF Others, Refreshing, Waiting
<1>9. \A k : Usable(k)' => Usable(k) /\ iface' = iface
  BY <1>1 DEF Usable
<1>10. ASSUME NEW e \in Batch, e # b, Refreshing(e) PROVE w[e].i # i
  BY <1>1, <1>10 DEF WorkersInv, Engaged, Live, Refreshing
<1> HIDE DEF i
<1>11. ASSUME NEW k \in 1..MaxLinks, handler'[k] # <<>>
       PROVE  \E e \in Batch : Refreshing(e)' /\ w'[e].i = k
  <2>1. k # i /\ handler[k] # <<>>
    BY <1>1, <1>5, <1>6, <1>11
  <2>2. PICK e \in Batch : Refreshing(e) /\ w[e].i = k
    BY <2>1 DEF RefreshInv
  <2>3. e # b
    BY <2>1, <2>2 DEF i
  <2> QED BY <1>8, <2>2, <2>3
<1>12. ASSUME NEW e \in Batch, Refreshing(e)'
       PROVE  /\ handler'[w'[e].i] = <<e>> /\ w'[e].saved = <<>>
              /\ Usable(w[e].i)' => refreshOf' = w'[e].i
  <2>1. e # b
    BY <1>4, <1>12
  <2>2. Refreshing(e) /\ w'[e] = w[e] /\ w[e].i # i
    BY <1>8, <1>10, <1>12, <2>1
  <2>3. handler[w[e].i] = <<e>> /\ w[e].saved = <<>> /\ (Usable(w[e].i) => refreshOf = w[e].i)
    BY <2>2 DEF RefreshInv
  <2>4. handler'[w[e].i] = <<e>>
    <3>1. w[e].i \in 1..MaxLinks
      <4>1. w[e].i # 0
        BY <2>2 DEF Refreshing, Engaged, Live, WorkersInv
      <4>2. w[e].i \in 0..MaxLinks
        BY DEF Types, BatchesOK, WorkerState
      <4> QED BY <4>1, <4>2 DEF Bounds
    <3> QED BY <1>1, <1>6, <2>2, <2>3, <3>1
  <2>5. Usable(w[e].i)' => refreshOf' = w[e].i
    <3>1. Usable(w[e].i)' => Usable(w[e].i)
      BY <1>1, <2>2 DEF Usable
    <3> QED BY <1>1, <2>2, <2>3, <3>1
  <2> QED BY <2>2, <2>3, <2>4, <2>5
<1>13. ASSUME NEW e \in Batch, cfg'[e] = "starting", Usable(w[e].i)'
       PROVE  Waiting(e)' /\ reg'[w'[e].i].whole
  <2>1. w'[e].i = w[e].i /\ cfg[e] = "starting" /\ Usable(w[e].i) /\ ~ lost' /\ iface = w[e].i
    BY <1>1, <1>3, <1>8, <1>13 DEF Usable, i
  <2>2. Waiting(e) /\ reg[w[e].i].whole
    BY <2>1 DEF RefreshInv
  <2>3. e # b
    BY <1>7, <2>1, <2>2 DEF i
  <2> QED BY <1>1, <1>8, <2>1, <2>2, <2>3
<1>14. ASSUME Usable(iface)', ~ reg'[iface'].whole
       PROVE  \E e \in Batch : Waiting(e)' /\ w'[e].i = iface'
  <2>1. Usable(iface) /\ ~ reg[iface].whole /\ iface' = iface /\ ~ lost'
    BY <1>1, <1>14 DEF Usable
  <2>2. PICK e \in Batch : Waiting(e) /\ w[e].i = iface
    BY <2>1 DEF RefreshInv
  <2>3. e # b
    BY <1>7, <2>1, <2>2 DEF i
  <2> QED BY <1>8, <2>1, <2>2, <2>3
<1>15. \A k \in 1..MaxLinks : k > links' => reg'[k].whole
  BY <1>1 DEF RefreshInv
<1> QED BY <1>11, <1>12, <1>13, <1>14, <1>15 DEF RefreshInv

\* _startConfig empties a registry that somebody waits for, or one that is not in use.
LEMMA RefreshConfig ==
  ASSUME Bounds, Types, WorkersInv, RefreshInv, NEW b \in Batch, StartConfig(b)
  PROVE  RefreshInv'
<1> DEFINE i == w[b].i
<1>1. /\ cfg[b] = "starting" /\ UNCHANGED <<handler, refreshOf, links, iface, lost>>
      /\ \/ cfg' = [cfg EXCEPT ![b] = "started"] /\ w' = w
         \/ cfg' = [cfg EXCEPT ![b] = "raised"] /\ reg' = reg
  BY DEF StartConfig, conn
<1>2. \A e \in Batch : /\ w'[e].at = w[e].at /\ w'[e].i = w[e].i /\ w'[e].saved = w[e].saved
                       /\ (Refreshing(e)' = Refreshing(e))
  BY ConfigTo DEF Others, Refreshing
<1>3. \A e \in Batch : e # b => w'[e] = w[e] /\ (Waiting(e)' = Waiting(e)) /\ cfg'[e] = cfg[e]
  <2>1. Others(b)
    BY ConfigTo
  <2> QED BY <1>1, <2>1 DEF Others, Waiting, Types, BatchesOK
<1>4. cfg'[b] # "starting" /\ (cfg'[b] = "started" => w' = w)
  BY <1>1, ConfigTo DEF Types, BatchesOK
<1>5. Usable(i) => Waiting(b) /\ reg[i].whole
  BY <1>1 DEF RefreshInv
<1>6. \A k \in 1..MaxLinks : k # i => reg'[k] = reg[k]
  BY DEF StartConfig, Types, LinksOK
<1>7. \A e : Usable(e)' = Usable(e)
  BY <1>1 DEF Usable
<1>8. i <= links /\ i \in 0..MaxLinks
  BY DEF Types, BatchesOK, BatchFits, WorkerState
<1>9. iface # 0 => iface \in 1..MaxLinks
  BY DEF Types, LinksOK
<1> HIDE DEF i
<1>10. \A k \in 1..MaxLinks : handler'[k] # <<>> => \E e \in Batch : Refreshing(e)' /\ w'[e].i = k
  BY <1>1, <1>2 DEF RefreshInv
<1>11. ASSUME NEW e \in Batch, Refreshing(e)'
       PROVE  /\ handler'[w'[e].i] = <<e>> /\ w'[e].saved = <<>>
              /\ Usable(w[e].i)' => refreshOf' = w'[e].i
  <2>1. Refreshing(e) /\ w'[e].i = w[e].i
    BY <1>2, <1>11
  <2> QED BY <1>1, <1>2, <2>1 DEF RefreshInv, Usable
<1>12. ASSUME NEW e \in Batch, cfg'[e] = "starting", Usable(w[e].i)'
       PROVE  Waiting(e)' /\ reg'[w'[e].i].whole
  <2>1. e # b /\ cfg[e] = "starting" /\ w'[e].i = w[e].i /\ Usable(w[e].i)
    BY <1>1, <1>2, <1>3, <1>4, <1>12 DEF Usable
  <2>2. Waiting(e) /\ reg[w[e].i].whole
    BY <2>1 DEF RefreshInv
  <2>3. w[e].i # i
    <3>1. ASSUME w[e].i = i PROVE FALSE
      <4>1. Waiting(b)
        BY <1>5, <2>1, <3>1
      <4> QED BY <2>1, <2>2, <3>1, <4>1 DEF WorkersInv, Engaged, Live, Waiting, i
    <3> QED BY <3>1
  <2>4. w[e].i \in 1..MaxLinks
    BY <1>9, <2>1 DEF Usable
  <2> QED BY <1>3, <1>6, <2>1, <2>2, <2>3, <2>4
<1>13. ASSUME Usable(iface)', ~ reg'[iface'].whole
       PROVE  \E e \in Batch : Waiting(e)' /\ w'[e].i = iface'
  <2>1. Usable(iface) /\ iface' = iface /\ iface \in 1..MaxLinks
    BY <1>1, <1>9, <1>13 DEF Usable
  <2>2. CASE iface = i
    <3>1. Waiting(b) /\ reg[iface].whole
      BY <1>5, <2>1, <2>2
    <3>2. w' = w
      BY <1>1, <1>13, <2>1, <3>1
    <3> QED BY <2>1, <2>2, <3>1, <3>2 DEF Waiting, i
  <2>3. CASE iface # i
    <3>1. PICK e \in Batch : Waiting(e) /\ w[e].i = iface
      BY <1>6, <1>13, <2>1, <2>3 DEF RefreshInv
    <3> QED BY <1>3, <2>1, <2>3, <3>1 DEF i
  <2> QED BY <2>2, <2>3
<1>14. \A k \in 1..MaxLinks : k > links' => reg'[k].whole
  BY <1>1, <1>6, <1>8 DEF RefreshInv, Types, LinksOK
<1> QED BY <1>10, <1>11, <1>12, <1>13, <1>14 DEF RefreshInv

\* The download ends: the registry of the link in use is whole.
LEMMA RefreshComplete ==
  ASSUME Bounds, Types, RefreshInv, ConfigComplete
  PROVE  RefreshInv'
<1>1. /\ iface # 0 /\ ~ reg[iface].whole
      /\ UNCHANGED <<handler, refreshOf, links, iface, lost, cfg>>
      /\ reg' = [reg EXCEPT ![iface].whole = TRUE]
  BY DEF ConfigComplete, Downloads, conn
<1>2. iface \in 1..MaxLinks /\ reg \in [1..MaxLinks -> Registry]
  BY <1>1 DEF Types, LinksOK
<1>3. reg'[iface].whole /\ \A k \in 1..MaxLinks : k # iface => reg'[k] = reg[k]
  BY <1>1, <1>2 DEF Registry
<1>4. \A b \in Batch : /\ w'[b].at = w[b].at /\ w'[b].i = w[b].i /\ w'[b].saved = w[b].saved
                       /\ (Refreshing(b)' = Refreshing(b))
  BY CompleteTo DEF Refreshing
<1>5. \A k : Usable(k)' = Usable(k)
  BY <1>1 DEF Usable
<1>6. \A k \in 1..MaxLinks : handler'[k] # <<>> => \E e \in Batch : Refreshing(e)' /\ w'[e].i = k
  BY <1>1, <1>4 DEF RefreshInv
<1>7. ASSUME NEW e \in Batch, Refreshing(e)'
      PROVE  /\ handler'[w'[e].i] = <<e>> /\ w'[e].saved = <<>>
             /\ Usable(w[e].i)' => refreshOf' = w'[e].i
  <2>1. Refreshing(e) /\ w'[e].i = w[e].i
    BY <1>4, <1>7
  <2> QED BY <1>1, <1>4, <2>1 DEF RefreshInv, Usable
<1>8. ASSUME NEW e \in Batch, cfg'[e] = "starting", Usable(w[e].i)' PROVE FALSE
  <2>1. cfg[e] = "starting" /\ Usable(w[e].i) /\ w[e].i = iface
    BY <1>1, <1>4, <1>8 DEF Usable
  <2> QED BY <1>1, <2>1 DEF RefreshInv
<1>9. \A k \in 1..MaxLinks : k > links' => reg'[k].whole
  BY <1>1, <1>3 DEF RefreshInv
<1> QED BY <1>1, <1>3, <1>6, <1>7, <1>8, <1>9 DEF RefreshInv

\* A new link's registry is whole and has no worker yet.
LEMMA RefreshReconnect ==
  ASSUME Bounds, Types, RefreshInv, Reconnect
  PROVE  RefreshInv'
<1>1. /\ links < MaxLinks /\ links' = links + 1 /\ iface' = links + 1
      /\ reg' = [reg EXCEPT ![links + 1].names = radio]
      /\ UNCHANGED <<handler, refreshOf, cfg, w>>
  BY DEF Reconnect
<1>2. links \in 1..MaxLinks /\ MaxLinks \in Nat /\ reg \in [1..MaxLinks -> Registry]
  BY DEF Types, LinksOK, Bounds
<1>3. \A k \in 1..MaxLinks : reg'[k].whole = reg[k].whole
  BY <1>1, <1>2 DEF Registry
<1>4. \A b \in Batch : w[b].i # iface'
  <2>1. \A b \in Batch : w[b].i \in 0..MaxLinks /\ w[b].i <= links
    BY DEF Types, BatchesOK, BatchFits, WorkerState
  <2> QED BY <1>1, <1>2, <2>1
<1>5. \A k \in 1..MaxLinks : k > links => reg'[k].whole
  BY <1>3 DEF RefreshInv
<1>6. \A k \in 1..MaxLinks : handler'[k] # <<>> => \E e \in Batch : Refreshing(e)' /\ w'[e].i = k
  BY <1>1 DEF RefreshInv, Refreshing
<1>7. ASSUME NEW e \in Batch, Refreshing(e)'
      PROVE  /\ handler'[w'[e].i] = <<e>> /\ w'[e].saved = <<>> /\ ~ Usable(w[e].i)'
  BY <1>1, <1>4, <1>7 DEF RefreshInv, Refreshing, Usable
<1>8. \A e \in Batch : ~ Usable(w[e].i)'
  BY <1>1, <1>4 DEF Usable
<1>9. reg'[iface'].whole
  BY <1>1, <1>2, <1>5
<1>10. \A k \in 1..MaxLinks : k > links' => reg'[k].whole
  BY <1>1, <1>2, <1>5
<1> QED BY <1>6, <1>7, <1>8, <1>9, <1>10 DEF RefreshInv

LEMMA RefreshNext == Bounds /\ Types /\ WorkersInv /\ RefreshInv /\ [Next]_vars => RefreshInv'
<1> SUFFICES ASSUME Bounds, Types, WorkersInv, RefreshInv, [Next]_vars PROVE RefreshInv'
  OBVIOUS
<1>1. ASSUME NEW b \in Batch, Worker(b) PROVE RefreshInv'
  BY <1>1, RefreshWorker, RefreshBarrier, RefreshBegin, RefreshRestore DEF Worker
<1>2. ASSUME NEW b \in Batch,
             SdkSends(b) \/ SdkReturns(b) \/ FailPending(b) \/ StoreFailed(b)
      PROVE  RefreshInv'
  <2>1. UNCHANGED <<w, cfg, handler, refreshOf, links, iface, lost, reg>>
    BY <1>2 DEF SdkSends, SdkReturns, FailPending, StoreFailed, conn
  <2> QED BY <2>1, RefreshQuiet
<1>3. CASE Lose \/ Take
  <2>1. UNCHANGED <<w, cfg, handler, refreshOf, links, reg>>
    BY <1>3 DEF Lose, Take
  <2>2. iface' # 0 /\ ~ lost' => iface' = iface /\ ~ lost
    BY <1>3 DEF Lose, Take
  <2> QED BY <2>1, <2>2, RefreshQuiet
<1>4. CASE RadioTakes \/ SyncNodes \/ \E c \in Contact : NodeInfo(c) \/ Hear(c)
  <2>1. UNCHANGED <<w, cfg, handler, refreshOf, links, iface, lost>>
    BY <1>4 DEF RadioTakes, SyncNodes, NodeInfo, Hear, conn
  <2>2. reg \in [1..MaxLinks -> Registry]
    BY DEF Types, LinksOK
  <2>3. \A i \in 1..MaxLinks : reg'[i].whole = reg[i].whole
    <3>1. CASE RadioTakes
      <4>1. reg' = reg \/ reg' = [reg EXCEPT ![iface].coming = radio]
        BY <3>1 DEF RadioTakes
      <4> QED BY <2>2, <4>1 DEF Registry
    <3>2. CASE SyncNodes
      BY <3>2 DEF SyncNodes
    <3>3. ASSUME NEW c \in Contact, NodeInfo(c)
          PROVE  \A i \in 1..MaxLinks : reg'[i].whole = reg[i].whole
      BY <2>2, <3>3 DEF NodeInfo, Registry
    <3>4. ASSUME NEW c \in Contact, Hear(c)
          PROVE  \A i \in 1..MaxLinks : reg'[i].whole = reg[i].whole
      BY <2>2, <3>4 DEF Hear, Registry
    <3> QED BY <1>4, <3>1, <3>2, <3>3, <3>4
  <2> QED BY <2>1, <2>3, RefreshQuiet
<1>5. CASE UNCHANGED vars
  BY <1>5, RefreshQuiet DEF vars
<1> QED BY <1>1, <1>2, <1>3, <1>4, <1>5, RefreshWorker, RefreshConfig, RefreshComplete,
           RefreshReconnect DEF Next

-----------------------------------------------------------------------------
(* Books *)

\* The books of a batch do not change, and its worker goes on with the same contact.
BooksKept(b) ==
  /\ status'[b] = status[b] /\ item'[b] = item[b] /\ late'[b] = late[b] /\ row'[b] = row[b]
  /\ w'[b].c = w[b].c
  /\ w'[b].at = "next" /\ status[b] = "started" => w[b].at = "next"
  /\ w'[b].at = "done" => w[b].at = "done"

LEMMA BooksStay == ASSUME NEW b \in Batch, BooksAgree(b), BooksKept(b) PROVE BooksAgree(b)'
BY DEF BooksAgree, BooksKept, AllClosed

\* The other batches are not concerned.
LEMMA BooksAside ==
  ASSUME BooksInv, NEW b \in Batch, Others(b), BooksAgree(b)',
         \A e \in Batch : e # b => /\ status'[e] = status[e] /\ item'[e] = item[e]
                                  /\ late'[e] = late[e] /\ row'[e] = row[e]
  PROVE  BooksInv'
<1>1. ASSUME NEW e \in Batch PROVE BooksAgree(e)'
  <2>1. CASE e # b
    <3>1. BooksKept(e)
      BY <2>1 DEF BooksKept, Others
    <3> QED BY <3>1, BooksStay DEF BooksInv
  <2> QED BY <2>1
<1> QED BY <1>1 DEF BooksInv

\* Steps that only take a worker to another place.
LEMMA BooksGo ==
  ASSUME BooksInv, UNCHANGED <<status, item, late, row>>,
         \A b \in Batch : /\ w'[b].c = w[b].c
                          /\ w'[b].at = "next" /\ status[b] = "started" => w[b].at = "next"
                          /\ w'[b].at = "done" => w[b].at = "done"
  PROVE  BooksInv'
<1>1. \A b \in Batch : BooksKept(b)
  BY DEF BooksKept
<1> QED BY <1>1, BooksStay DEF BooksInv

LEMMA BooksStart ==
  ASSUME Bounds, Types, BooksInv, NEW b \in Batch, NEW S \in Selections, Start(b, S)
  PROVE  BooksInv'
<1>1. Others(b) /\ w'[b].at = "next"
  BY StartTo
<1>2. late[b] = None
  BY DEF Start, Types, BatchesOK, BatchFits
<1>3. /\ status' = [status EXCEPT ![b] = "started"] /\ late' = late
      /\ item' = [item EXCEPT ![b] = [c \in S |-> "queued"]]
      /\ row' = [row EXCEPT ![b] = [status |-> status'[b], item |-> item'[b]]]
  BY DEF Start, Store
<1>4. status \in [Batch -> {"none", "started", "failed", "completed"}]
      /\ item \in [Batch -> Lists] /\ row \in [Batch -> Copy]
  BY DEF Types, BooksOK
<1>5. status'[b] = "started" /\ item'[b] = [c \in S |-> "queued"] /\ late'[b] = None
      /\ \A e \in Batch : e # b => /\ status'[e] = status[e] /\ item'[e] = item[e]
                                  /\ late'[e] = late[e] /\ row'[e] = row[e]
  BY <1>2, <1>3, <1>4
<1>6. BooksAgree(b)'
  BY <1>1, <1>5 DEF BooksAgree
<1> QED BY <1>1, <1>5, <1>6, BooksAside

\* The contact a worker takes is the only one sent.
LEMMA BooksPick ==
  ASSUME Types, BooksInv, NEW b \in Batch, Pick(b)
  PROVE  BooksInv'
<1>1. /\ Others(b) /\ w'[b].at \in {"send", "except"} /\ w'[b].c \in Queued(b)
      /\ (w'[b].at = "send" <=> Usable(w[b].i))
  BY PickTo DEF Types
<1>2. w[b].at = "next" /\ status[b] = "started" /\ UNCHANGED <<status, late>>
  BY DEF Pick
<1>3. late[b] = None /\ \A c \in DOMAIN item[b] : item[b][c] # "sent"
  BY <1>2 DEF BooksInv, BooksAgree
<1>4. \/ UNCHANGED <<item, row>>
      \/ /\ item' = [item EXCEPT ![b][w'[b].c] = "sent"]
         /\ row' = [row EXCEPT ![b] = [status |-> status'[b], item |-> item'[b]]]
  <2>1. CASE ~ Usable(w[b].i)
    BY <2>1 DEF Pick
  <2>2. CASE Usable(w[b].i)
    <3>1. PICK c \in Queued(b) : /\ item' = [item EXCEPT ![b][c] = "sent"] /\ Store(b)
                                 /\ w' = [w EXCEPT ![b] = [@ EXCEPT !.at = "send", !.c = c]]
      BY <2>2 DEF Pick
    <3>2. w'[b].c = c
      BY <3>1 DEF Types, BatchesOK, WorkerState
    <3> QED BY <3>1, <3>2 DEF Store
  <2> QED BY <2>1, <2>2
<1>5. /\ \A c \in DOMAIN item'[b] : item'[b][c] = "sent" => c = w'[b].c
      /\ \A e \in Batch : e # b => item'[e] = item[e] /\ row'[e] = row[e]
  <2>1. CASE UNCHANGED <<item, row>>
    BY <1>3, <2>1
  <2>2. CASE ~ UNCHANGED <<item, row>>
    <3>1. w'[b].c \in DOMAIN item[b] /\ "sent" \in Statuses
      BY <1>1 DEF Queued, Statuses
    <3>2. /\ DOMAIN item'[b] = DOMAIN item[b]
          /\ \A d \in DOMAIN item[b] : d # w'[b].c => item'[b][d] = item[b][d]
          /\ \A e \in Batch : e # b => item'[e] = item[e]
      <4>1. PICK c \in DOMAIN item[b] : c = w'[b].c
        BY <3>1
      <4>2. item' = [item EXCEPT ![b][c] = "sent"]
        BY <1>4, <2>2, <4>1
      <4> QED BY <3>1, <4>1, <4>2, ItemTo
    <3> QED BY <1>3, <1>4, <2>2, <3>2 DEF Types, BooksOK
  <2> QED BY <2>1, <2>2
<1>6. late'[b] = None /\ status'[b] = "started" /\ w'[b].at \notin {"next", "done"}
  BY <1>1, <1>2, <1>3
<1>7. BooksAgree(b)'
  BY <1>5, <1>6 DEF BooksAgree
<1> QED BY <1>1, <1>2, <1>5, <1>7, BooksAside

\* The contact that is confirmed was the one sent.
LEMMA BooksConfirm ==
  ASSUME Types, BooksInv, NEW b \in Batch, Confirm(b)
  PROVE  BooksInv'
<1>1. PICK at \in {"next", "except"} : At(b, at) /\ (at = "next" \/ status[b] = "started")
  BY DEF Confirm
<1>2. Others(b) /\ w'[b].at = at /\ w'[b].c = w[b].c
  BY <1>1, AtTo DEF Types, Ats
<1>3. UNCHANGED <<status, late>>
  BY DEF Confirm
<1>4. CASE status[b] = "started" /\ item' = [item EXCEPT ![b][w[b].c] = "removed"] /\ Store(b)
  <2>1. late[b] = None /\ \A c \in DOMAIN item[b] : item[b][c] = "sent" => c = w[b].c
    BY <1>4 DEF BooksInv, BooksAgree
  <2>2. /\ \A c \in DOMAIN item'[b] : item'[b][c] # "sent"
        /\ \A e \in Batch : e # b => item'[e] = item[e]
    <3>1. CASE w[b].c \in DOMAIN item[b]
      <4>1. /\ DOMAIN item'[b] = DOMAIN item[b] /\ item'[b][w[b].c] = "removed"
            /\ \A d \in DOMAIN item[b] : d # w[b].c => item'[b][d] = item[b][d]
            /\ \A e \in Batch : e # b => item'[e] = item[e]
        <5>1. PICK c \in DOMAIN item[b] : c = w[b].c
          BY <3>1
        <5>2. item' = [item EXCEPT ![b][c] = "removed"] /\ "removed" \in Statuses
          BY <1>4, <5>1 DEF Statuses
        <5> QED BY <5>1, <5>2, ItemTo
      <4> QED BY <2>1, <4>1
    <3>2. CASE w[b].c \notin DOMAIN item[b]
      <4>1. item[b] \in Lists /\ item \in [Batch -> Lists]
        BY DEF Types, BooksOK
      <4>2. [item[b] EXCEPT ![w[b].c] = "removed"] = item[b]
        BY <3>2, <4>1 DEF Lists
      <4>3. item' = item
        BY <1>4, <4>1, <4>2
      <4> QED BY <2>1, <3>2, <4>3
    <3> QED BY <3>1, <3>2
  <2>3. \A e \in Batch : e # b => row'[e] = row[e]
    BY <1>4 DEF Store, Types, BooksOK
  <2>4. status'[b] = "started" /\ late'[b] = None /\ w'[b].at # "done"
    BY <1>2, <1>3, <1>4, <2>1
  <2>5. BooksAgree(b)'
    BY <2>2, <2>4 DEF BooksAgree
  <2> QED BY <1>2, <1>3, <2>2, <2>3, <2>5, BooksAside
<1>5. CASE UNCHANGED <<item, row>> /\ ~ (status[b] = "started" /\ at = "next")
  <2>1. BooksKept(b)
    BY <1>2, <1>3, <1>5 DEF BooksKept
  <2>2. BooksAgree(b)'
    BY <2>1, BooksStay DEF BooksInv
  <2> QED BY <1>2, <1>3, <1>5, <2>2, BooksAside
<1>6. \/ status[b] = "started" /\ item' = [item EXCEPT ![b][w[b].c] = "removed"] /\ Store(b)
      \/ UNCHANGED <<item, row>> /\ status[b] = "started" /\ At(b, "except")
      \/ UNCHANGED <<item, row>> /\ status[b] # "started"
  BY DEF Confirm
<1>7. CASE UNCHANGED <<item, row>> /\ status[b] = "started" /\ At(b, "except")
  <2>1. at = "except"
    BY <1>2, <1>7, AtTo DEF Types, Ats
  <2> QED BY <1>5, <1>7, <2>1
<1> QED BY <1>4, <1>5, <1>6, <1>7

\* A worker that ends leaves a list without an open contact, and stores it.
LEMMA BooksEnds ==
  ASSUME Bounds, Types, BooksInv, NEW b \in Batch, Except(b) \/ Finish(b)
  PROVE  BooksInv'
<1>1. Others(b) /\ w'[b].at = "done"
  BY GoneTo DEF Except, Finish, Types
<1>2. status[b] # "none" /\ status'[b] \in {"failed", "completed"}
      /\ \A e \in Batch : e # b => status'[e] = status[e]
  BY DEF Except, Finish, Types, BatchesOK, BatchFits, BooksOK
<1>3. item[b] \in Lists /\ item \in [Batch -> Lists]
      /\ status[b] \in {"none", "started", "failed", "completed"}
  BY DEF Types, BooksOK
<1>4. /\ DOMAIN item'[b] = DOMAIN item[b] /\ AllClosed(item'[b])
      /\ \A e \in Batch : e # b => item'[e] = item[e]
  <2>1. CASE Except(b)
    <3>1. /\ item' = [item EXCEPT ![b] = item'[b]] /\ DOMAIN item'[b] = DOMAIN item[b]
          /\ \A c \in DOMAIN item[b] : c = w[b].c \/ item[b][c] # "sent" => item'[b][c] \notin Open
      BY <2>1, ExceptList
    <3>2. \A c \in DOMAIN item[b] : c = w[b].c \/ item[b][c] # "sent"
      <4>1. CASE status[b] = "started"
        BY <4>1 DEF BooksInv, BooksAgree
      <4>2. CASE status[b] # "started"
        BY <1>2, <1>3, <4>2 DEF BooksInv, BooksAgree, AllClosed, Open
      <4> QED BY <4>1, <4>2
    <3>3. \A e \in Batch : e # b => item'[e] = item[e]
      BY <1>3, <2>1 DEF Except
    <3> QED BY <3>1, <3>2, <3>3 DEF AllClosed
  <2>2. CASE Finish(b) /\ status[b] = "started"
    <3>1. Queued(b) = {} /\ item' = item /\ w[b].at = "next"
      BY <2>2 DEF Finish
    <3>2. \A c \in DOMAIN item[b] : item[b][c] # "sent" /\ item[b][c] # "queued"
      BY <2>2, <3>1 DEF BooksInv, BooksAgree, Queued
    <3> QED BY <3>1, <3>2 DEF AllClosed, Open
  <2>3. CASE Finish(b) /\ status[b] # "started"
    <3>1. item' = [item EXCEPT ![b] = Closed(item[b])]
      BY <2>3 DEF Finish
    <3>2. item'[b] = Closed(item[b]) /\ \A e \in Batch : e # b => item'[e] = item[e]
      BY <1>3, <3>1
    <3> QED BY <1>3, <3>2, ClosedIs DEF AllClosed
  <2> QED BY <2>1, <2>2, <2>3
<1>5. row' = [row EXCEPT ![b] = [status |-> status'[b], item |-> item'[b]]] /\ late' = late
  BY DEF Except, Finish, Store
<1>6. row'[b] = [status |-> status'[b], item |-> item'[b]]
      /\ \A e \in Batch : e # b => row'[e] = row[e]
  BY <1>5 DEF Types, BooksOK
<1>7. BooksAgree(b)'
  <2>1. late[b] # None => /\ late[b].status = "failed" /\ AllClosed(late[b].item)
                          /\ DOMAIN late[b].item = DOMAIN item[b]
    BY DEF BooksInv, BooksAgree
  <2>2. row'[b].status = status'[b] /\ row'[b].item = item'[b]
    BY <1>6
  <2> QED BY <1>2, <1>4, <1>5, <2>1, <2>2 DEF BooksAgree, AllClosed
<1> QED BY <1>1, <1>2, <1>4, <1>5, <1>6, <1>7, BooksAside

\* A batch that is failed from outside is closed, and so is the copy stored later.
LEMMA BooksFail ==
  ASSUME Types, WorkersInv, BooksInv, NEW b \in Batch, FailPending(b) \/ StoreFailed(b)
  PROVE  BooksInv'
<1>1. Others(b) /\ w' = w
  BY DEF FailPending, StoreFailed, Others
<1>2. item[b] \in Lists /\ item \in [Batch -> Lists] /\ row \in [Batch -> Copy]
      /\ late \in [Batch -> Copy \cup {None}]
      /\ status \in [Batch -> {"none", "started", "failed", "completed"}]
  BY DEF Types, BooksOK
<1>3. CASE FailPending(b)
  <2>1. /\ status' = [status EXCEPT ![b] = "failed"] /\ row' = row /\ status[b] = "started"
        /\ item' = [item EXCEPT ![b] = Closed(item[b])]
        /\ late' = [late EXCEPT ![b] = [status |-> "failed", item |-> item'[b]]]
    BY <1>3 DEF FailPending
  <2>2. item'[b] = Closed(item[b]) /\ DOMAIN item'[b] = DOMAIN item[b] /\ AllClosed(item'[b])
    BY <1>2, <2>1, ClosedIs DEF AllClosed
  <2>3. late'[b] = [status |-> "failed", item |-> item'[b]] /\ status'[b] = "failed"
    BY <1>2, <2>1
  <2>4. late'[b].status = "failed" /\ late'[b].item = item'[b]
    BY <2>3
  <2>5. w'[b].at # "done"
    BY <1>1, <2>1 DEF WorkersInv
  <2>6. BooksAgree(b)'
    BY <2>2, <2>3, <2>4, <2>5 DEF BooksAgree, AllClosed
  <2> QED BY <1>1, <1>2, <2>1, <2>6, BooksAside
<1>4. CASE StoreFailed(b)
  <2>1. /\ row' = [row EXCEPT ![b] = late[b]] /\ late' = [late EXCEPT ![b] = None]
        /\ late[b] # None /\ UNCHANGED <<status, item>>
    BY <1>4 DEF StoreFailed
  <2>2. row'[b] = late[b] /\ late'[b] = None
    BY <1>2, <2>1
  <2>3. late[b].status = "failed" /\ AllClosed(late[b].item) /\ DOMAIN late[b].item = DOMAIN item[b]
    BY <2>1 DEF BooksInv, BooksAgree
  <2>4. BooksAgree(b)'
    <3>1. BooksAgree(b)
      BY DEF BooksInv
    <3> QED BY <1>1, <2>1, <2>2, <2>3, <3>1 DEF BooksAgree, AllClosed
  <2> QED BY <1>1, <1>2, <2>1, <2>4, BooksAside
<1> QED BY <1>3, <1>4

LEMMA BooksNext == Bounds /\ Types /\ WorkersInv /\ BooksInv /\ [Next]_vars => BooksInv'
<1> SUFFICES ASSUME Bounds, Types, WorkersInv, BooksInv, [Next]_vars PROVE BooksInv'
  OBVIOUS
<1>1. ASSUME NEW b \in Batch,
             SendWaited(b) \/ BeginRefresh(b) \/ Barrier(b) \/ Restore(b) \/ StartConfig(b)
      PROVE  BooksInv'
  <2>1. UNCHANGED <<status, item, late, row>>
    BY <1>1 DEF SendWaited, BeginRefresh, Barrier, Restore, StartConfig
  <2>2. Others(b) /\ w'[b].c = w[b].c
        /\ (w'[b].at \notin {"next", "done"} \/ w'[b].at = w[b].at)
    <3>1. CASE BeginRefresh(b) /\ Usable(w[b].i)
      BY <3>1, BeginTo
    <3>2. CASE Barrier(b)
      BY <3>2, BarrierTo
    <3>3. CASE StartConfig(b)
      BY <3>3, ConfigTo
    <3>4. ASSUME NEW at \in {"refresh", "except", "confirm"}, At(b, at)
          PROVE  Others(b) /\ w'[b].c = w[b].c /\ w'[b].at \notin {"next", "done"}
      BY <3>4, AtTo DEF Types, Ats
    <3> QED BY <1>1, <3>1, <3>2, <3>3, <3>4 DEF SendWaited, BeginRefresh, Restore
  <2> QED BY <2>1, <2>2, BooksGo DEF Others
<1>2. ASSUME NEW b \in Batch, Call(b) \/ SdkSends(b) \/ SdkReturns(b) PROVE BooksInv'
  BY <1>2, BooksGo DEF Call, SdkSends, SdkReturns
<1>3. CASE ConfigComplete
  <2>1. UNCHANGED <<status, item, late, row>>
    BY <1>3 DEF ConfigComplete
  <2> QED BY <1>3, <2>1, CompleteTo, BooksGo
<1>4. CASE \/ Lose \/ Take \/ Reconnect \/ RadioTakes \/ SyncNodes \/ UNCHANGED vars
           \/ \E c \in Contact : NodeInfo(c) \/ Hear(c)
  <2>1. UNCHANGED <<status, item, late, row, w>>
    BY <1>4 DEF Lose, Take, Reconnect, RadioTakes, SyncNodes, NodeInfo, Hear, vars
  <2> QED BY <2>1, BooksGo
<1> QED BY <1>1, <1>2, <1>3, <1>4, BooksStart, BooksPick, BooksConfirm, BooksEnds, BooksFail
           DEF Next, Worker

\* What holds of calls, workers, refreshes and books in every state.
RemovalInv == Types /\ CallsInv /\ WorkersInv /\ RefreshInv /\ BooksInv

-----------------------------------------------------------------------------
(* The proof of absence *)

\* The worker's contact is one of its batch and still marked as sent.
Asked(b) == w[b].at \in {"send", "refresh", "barrier", "restore", "restoreFailed", "confirm"}
ListFits(b) ==
  /\ status[b] = "none" => DOMAIN item[b] = {}
  /\ status[b] = "started" /\ Asked(b) => w[b].c \in DOMAIN item[b] /\ item[b][w[b].c] = "sent"
ListInv == \A b \in Batch : ListFits(b)

\* While a batch can still report something: once the radio has taken the request for the
\* list, a contact is listed, is yet to come, or was lacking; and once the worker has been
\* told, nothing is to come.
Proving(b) == status[b] = "started" /\ Usable(w[b].i)
NoConfig == \A k \in DOMAIN wire : wire[k] # "config"
Downloaded(b) ==
  \/ w[b].at = "barrier" /\ w[b].done /\ cfg[b] # "raised"
  \/ w[b].at \in {"restore", "confirm"}
ProofFits(b) ==
  Proving(b) =>
    /\ w[b].at = "barrier" => cfg[b] # "none"
    /\ w[b].at \in {"barrier", "restore", "confirm"} /\ cfg[b] = "started" /\ NoConfig
         => w[b].c \in reg[w[b].i].names \cup reg[w[b].i].coming \cup lacked
    /\ Downloaded(b) => cfg[b] = "started" /\ NoConfig /\ reg[w[b].i].coming = {}
ProofInv == \A b \in Batch : ProofFits(b)

\* A batch whose list stays, and whose worker does not begin to ask.
LEMMA ListStays ==
  ASSUME NEW b \in Batch, ListFits(b), item'[b] = item[b],
         status'[b] \in {"none", "started"} => status'[b] = status[b],
         Asked(b)' => Asked(b) /\ w'[b].c = w[b].c
  PROVE  ListFits(b)'
BY DEF ListFits

\* A batch that is not the first to begin, or whose worker asks nothing.
LEMMA ListAside ==
  ASSUME NEW b \in Batch, status'[b] # "none", ~ Asked(b)'
  PROVE  ListFits(b)'
BY DEF ListFits

LEMMA ListNext == Bounds /\ Types /\ ListInv /\ [Next]_vars => ListInv'
<1> SUFFICES ASSUME Bounds, Types, ListInv, [Next]_vars PROVE ListInv'
  OBVIOUS
<1>1. \A b \in Batch : ListFits(b)
  BY DEF ListInv
<1>2. /\ status \in [Batch -> {"none", "started", "failed", "completed"}]
      /\ item \in [Batch -> Lists]
  BY DEF Types, BooksOK
<1>3. ASSUME NEW b \in Batch, Others(b), ListFits(b)',
             \A e \in Batch : e # b => status'[e] = status[e] /\ item'[e] = item[e]
      PROVE  ListInv'
  <2>1. ASSUME NEW e \in Batch, e # b PROVE ListFits(e)'
    BY <1>1, <1>3, <2>1, ListStays DEF Others, Asked
  <2> QED BY <1>3, <2>1 DEF ListInv
<1>4. ASSUME NEW b \in Batch, NEW S \in Selections, Start(b, S) PROVE ListInv'
  <2>1. Others(b) /\ w'[b].at = "next"
    BY <1>4, StartTo
  <2>2. /\ status' = [status EXCEPT ![b] = "started"]
        /\ item' = [item EXCEPT ![b] = [c \in S |-> "queued"]]
    BY <1>4 DEF Start
  <2>3. ListFits(b)'
    BY <1>2, <2>1, <2>2, ListAside DEF Asked
  <2> QED BY <1>2, <1>3, <2>1, <2>2, <2>3
<1>5. ASSUME NEW b \in Batch, Pick(b) PROVE ListInv'
  <2>1. /\ Others(b) /\ w'[b].at \in {"send", "except"} /\ w'[b].c \in Queued(b)
        /\ (w'[b].at = "send" <=> Usable(w[b].i))
    BY <1>5, PickTo DEF Types
  <2>2. status' = status /\ status[b] = "started"
    BY <1>5 DEF Pick
  <2>3. CASE ~ Usable(w[b].i)
    <3>1. item' = item /\ ~ Asked(b)'
      BY <1>5, <2>1, <2>3 DEF Pick, Asked
    <3> QED BY <1>3, <2>1, <2>2, <3>1, ListAside
  <2>4. CASE Usable(w[b].i)
    <3>1. PICK c \in Queued(b) : /\ item' = [item EXCEPT ![b][c] = "sent"]
                                 /\ w' = [w EXCEPT ![b] = [@ EXCEPT !.at = "send", !.c = c]]
      BY <1>5, <2>4 DEF Pick
    <3>2. w'[b].c = c
      BY <3>1 DEF Types, BatchesOK, WorkerState
    <3>3. c \in DOMAIN item[b] /\ "sent" \in Statuses
      BY DEF Queued, Statuses
    <3>4. /\ DOMAIN item'[b] = DOMAIN item[b] /\ item'[b][c] = "sent"
          /\ \A e \in Batch : e # b => item'[e] = item[e]
      BY <3>1, <3>3, ItemTo
    <3>5. ListFits(b)'
      BY <2>2, <3>2, <3>3, <3>4 DEF ListFits
    <3> QED BY <1>3, <2>1, <2>2, <3>4, <3>5
  <2> QED BY <2>3, <2>4
<1>6. ASSUME NEW b \in Batch,
             SendWaited(b) \/ BeginRefresh(b) \/ Barrier(b) \/ Restore(b) \/ StartConfig(b)
      PROVE  ListInv'
  <2>1. UNCHANGED <<status, item>>
    BY <1>6 DEF SendWaited, BeginRefresh, Barrier, Restore, StartConfig
  <2>2. Others(b) /\ w'[b].c = w[b].c /\ (Asked(b)' => Asked(b))
    <3>1. CASE BeginRefresh(b) /\ Usable(w[b].i)
      <4>1. w[b].at = "refresh"
        BY <3>1 DEF BeginRefresh
      <4> QED BY <3>1, <4>1, BeginTo DEF Asked
    <3>2. CASE Barrier(b)
      <4>1. w[b].at = "barrier"
        BY <3>2 DEF Barrier
      <4> QED BY <3>2, <4>1, BarrierTo DEF Asked
    <3>3. CASE StartConfig(b)
      BY <3>3, ConfigTo DEF Asked
    <3>4. ASSUME NEW at \in {"refresh", "except", "confirm"}, At(b, at),
                 w[b].at \in {"send", "refresh", "restore", "restoreFailed"}
          PROVE  Others(b) /\ w'[b].c = w[b].c /\ (Asked(b)' => Asked(b))
      BY <3>4, AtTo DEF Types, Ats, Asked
    <3> QED BY <1>6, <3>1, <3>2, <3>3, <3>4 DEF SendWaited, BeginRefresh, Restore
  <2>3. ListFits(b)'
    BY <1>1, <2>1, <2>2, ListStays
  <2> QED BY <1>3, <2>1, <2>2, <2>3
<1>7. ASSUME NEW b \in Batch, Confirm(b) \/ Except(b) \/ Finish(b) PROVE ListInv'
  <2>1. Others(b) /\ w'[b].at \in {"next", "except", "done"}
    <3>1. CASE Confirm(b)
      <4>1. PICK at \in {"next", "except"} : At(b, at)
        BY <3>1 DEF Confirm
      <4> QED BY <4>1, AtTo DEF Types, Ats
    <3>2. CASE Except(b) \/ Finish(b)
      BY <3>2, GoneTo DEF Except, Finish, Types
    <3> QED BY <1>7, <3>1, <3>2
  <2>2. status[b] # "none" /\ status'[b] # "none"
        /\ \A e \in Batch : e # b => status'[e] = status[e] /\ item'[e] = item[e]
    <3>1. status[b] # "none"
      BY <1>7 DEF Confirm, Except, Finish, Types, BatchesOK, BatchFits
    <3>2. CASE Confirm(b)
      BY <1>2, <3>1, <3>2 DEF Confirm
    <3>3. CASE Except(b)
      BY <1>2, <3>1, <3>3 DEF Except
    <3>4. CASE Finish(b)
      BY <1>2, <3>1, <3>4 DEF Finish
    <3> QED BY <1>7, <3>1, <3>2, <3>3, <3>4
  <2>3. ListFits(b)'
    BY <2>1, <2>2, ListAside DEF Asked
  <2> QED BY <1>3, <2>1, <2>2, <2>3
<1>8. ASSUME NEW b \in Batch, FailPending(b) PROVE ListInv'
  <2>1. w' = w /\ status' = [status EXCEPT ![b] = "failed"]
        /\ item' = [item EXCEPT ![b] = Closed(item[b])]
    BY <1>8 DEF FailPending
  <2>2. ListFits(b)'
    BY <1>2, <2>1 DEF ListFits
  <2> QED BY <1>2, <1>3, <2>1, <2>2 DEF Others
<1>9. CASE \/ Lose \/ Take \/ Reconnect \/ RadioTakes \/ SyncNodes \/ UNCHANGED vars
           \/ \E c \in Contact : NodeInfo(c) \/ Hear(c)
           \/ \E b \in Batch : Call(b) \/ SdkSends(b) \/ SdkReturns(b) \/ StoreFailed(b)
  <2>1. UNCHANGED <<status, item, w>>
    BY <1>9 DEF Lose, Take, Reconnect, RadioTakes, SyncNodes, NodeInfo, Hear, vars, Call, SdkSends,
                SdkReturns, StoreFailed
  <2> QED BY <1>1, <2>1, ListStays DEF ListInv, Asked
<1>10. CASE ConfigComplete
  <2>1. UNCHANGED <<status, item>>
    BY <1>10 DEF ConfigComplete
  <2>2. \A b \in Batch : w'[b].c = w[b].c /\ (Asked(b)' => Asked(b))
    BY <1>10, CompleteTo DEF Asked
  <2> QED BY <1>1, <2>1, <2>2, ListStays DEF ListInv
<1> QED BY <1>4, <1>5, <1>6, <1>7, <1>8, <1>9, <1>10 DEF Next, Worker

\* Nothing takes away from what is known of the contact a worker asks for.
ProofSame(b) ==
  /\ Proving(b) /\ w'[b].at = w[b].at /\ w'[b].c = w[b].c /\ w'[b].i = w[b].i
  /\ w'[b].done = w[b].done /\ cfg'[b] = cfg[b]
  /\ NoConfig' = NoConfig /\ lacked \subseteq lacked'
  /\ reg[w[b].i].names \cup reg[w[b].i].coming
       \subseteq reg'[w[b].i].names \cup reg'[w[b].i].coming
  /\ reg'[w[b].i].coming \subseteq reg[w[b].i].coming

LEMMA ProofStays ==
  ASSUME NEW b \in Batch, ProofFits(b), Proving(b)' => ProofSame(b)
  PROVE  ProofFits(b)'
<1> SUFFICES ASSUME Proving(b)', ProofSame(b) PROVE ProofFits(b)'
  BY DEF ProofFits
<1>1. Downloaded(b)' = Downloaded(b)
  BY DEF ProofSame, Downloaded
<1>2. /\ w[b].at = "barrier" => cfg[b] # "none"
      /\ w[b].at \in {"barrier", "restore", "confirm"} /\ cfg[b] = "started" /\ NoConfig
           => w[b].c \in reg[w[b].i].names \cup reg[w[b].i].coming \cup lacked
      /\ Downloaded(b) => cfg[b] = "started" /\ NoConfig /\ reg[w[b].i].coming = {}
  BY DEF ProofFits, ProofSame
<1>3. w'[b].at \in {"barrier", "restore", "confirm"} /\ cfg'[b] = "started" /\ NoConfig'
        => w'[b].c \in reg'[w'[b].i].names \cup reg'[w'[b].i].coming \cup lacked'
  BY <1>2 DEF ProofSame
<1>4. Downloaded(b)' => cfg'[b] = "started" /\ NoConfig' /\ reg'[w'[b].i].coming = {}
  BY <1>1, <1>2 DEF ProofSame
<1> QED BY <1>2, <1>3, <1>4 DEF ProofFits, ProofSame

\* A worker that is not between its download and its report has nothing to prove.
LEMMA ProofAside ==
  ASSUME NEW b \in Batch, w'[b].at \notin {"barrier", "restore", "confirm"}
  PROVE  ProofFits(b)'
BY DEF ProofFits, Downloaded

\* Steps that change neither the registries nor what the radio has still to do.
LEMMA ProofQuiet ==
  ASSUME NEW b \in Batch, ProofFits(b), w'[b] = w[b], cfg'[b] = cfg[b], UNCHANGED <<reg, wire>>,
         lacked \subseteq lacked', Proving(b)' => Proving(b)
  PROVE  ProofFits(b)'
<1>1. NoConfig' = NoConfig
  BY DEF NoConfig
<1> QED BY <1>1, ProofStays DEF ProofSame

\* The steps of a worker.  While it may start or go on, no other batch has anything to
\* report.
LEMMA ProofWorker ==
  ASSUME Bounds, Types, CallsInv, ProofInv, NEW b \in Batch,
         Worker(b) \/ \E S \in Selections : Start(b, S)
  PROVE  ProofInv'
<1>1. Others(b)
  <2>1. ASSUME NEW at \in Ats, At(b, at) PROVE Others(b)
    BY <2>1, AtTo DEF Types
  <2>2. CASE \E at \in Ats : At(b, at)
    BY <2>1, <2>2
  <2>3. CASE SendWaited(b) \/ Restore(b) \/ Confirm(b) \/ (BeginRefresh(b) /\ ~ Usable(w[b].i))
    <3>1. \E at \in {"refresh", "except", "confirm", "next"} : At(b, at)
      BY <2>3 DEF SendWaited, Restore, Confirm, BeginRefresh
    <3> QED BY <2>1, <3>1 DEF Ats
  <2>4. CASE Pick(b)
    BY <2>4, PickTo DEF Types
  <2>5. CASE BeginRefresh(b) /\ Usable(w[b].i)
    BY <2>5, BeginTo
  <2>6. CASE Barrier(b)
    BY <2>6, BarrierTo
  <2>7. CASE Except(b) \/ Finish(b)
    BY <2>7, GoneTo DEF Except, Finish, Types
  <2>8. ASSUME NEW S \in Selections, Start(b, S) PROVE Others(b)
    BY <2>8, StartTo
  <2>9. CASE Call(b)
    BY <2>9 DEF Call, Others
  <2> QED BY <2>3, <2>4, <2>5, <2>6, <2>7, <2>8, <2>9 DEF Worker
<1>2. UNCHANGED <<reg, wire, iface>> /\ (lost => lost')
      /\ \A e \in Batch : e # b => cfg'[e] = cfg[e]
  <2>1. CASE \/ Pick(b) \/ Call(b) \/ BeginRefresh(b) \/ Barrier(b) \/ Confirm(b) \/ Except(b)
             \/ Finish(b) \/ \E S \in Selections : Start(b, S)
    <3>1. UNCHANGED <<reg, wire, iface, lost>>
      BY <2>1 DEF Pick, Call, BeginRefresh, Barrier, Confirm, Except, Finish, Start, conn,
                  radioVars
    <3>2. UNCHANGED cfg \/ cfg' = [cfg EXCEPT ![b] = "starting"]
      BY <2>1 DEF Pick, Call, BeginRefresh, Barrier, Confirm, Except, Finish, Start
    <3>3. cfg \in [Batch -> Configs]
      BY DEF Types, BatchesOK
    <3> QED BY <3>1, <3>2, <3>3
  <2>2. CASE SendWaited(b) \/ Restore(b)
    <3>1. lost \in BOOLEAN
      BY DEF Types, LinksOK
    <3> QED BY <2>2, <3>1 DEF SendWaited, Restore, radioVars
  <2> QED BY <2>1, <2>2 DEF Worker
<1>3. \A e \in Batch : e # b =>
        (status'[e] = "started" => status[e] = "started" /\ ~ Pick(b)
                                   /\ \A S \in Selections : ~ Start(b, S))
  <2>1. \A e \in Batch : e # b => status'[e] = status[e]
    BY DEF Worker, Pick, Call, SendWaited, BeginRefresh, Barrier, Restore, Confirm, Except, Finish,
           Start, Types, BooksOK
  <2>2. \A e \in Batch : e # b /\ status[e] = "started" => ~ Pick(b)
    BY DEF Pick, CallsInv
  <2>3. \A e \in Batch : \A S \in Selections : status[e] = "started" => ~ Start(b, S)
    BY DEF Start, MayStart
  <2> QED BY <2>1, <2>2, <2>3
<1>4. Pick(b) \/ (\E S \in Selections : Start(b, S)) \/ UNCHANGED lacked
  BY DEF Worker, Pick, Call, SendWaited, BeginRefresh, Barrier, Restore, Confirm, Except, Finish
<1>5. ASSUME NEW e \in Batch, e # b PROVE ProofFits(e)'
  <2>1. Proving(e)' => Proving(e) /\ UNCHANGED lacked
    BY <1>1, <1>2, <1>3, <1>4, <1>5 DEF Proving, Usable, Others
  <2>2. CASE ~ Proving(e)'
    BY <2>2 DEF ProofFits
  <2>3. CASE Proving(e)'
    BY <1>1, <1>2, <1>5, <2>1, <2>3, ProofQuiet DEF ProofInv, Others
  <2> QED BY <2>2, <2>3
<1>6. ProofFits(b)'
  <2>1. ASSUME NEW at \in {"refresh", "except", "next"}, At(b, at) PROVE ProofFits(b)'
    BY <2>1, AtTo, ProofAside DEF Types, Ats
  <2>2. CASE SendWaited(b) \/ Confirm(b) \/ (BeginRefresh(b) /\ ~ Usable(w[b].i))
    <3>1. \E at \in {"refresh", "except", "next"} : At(b, at)
      BY <2>2 DEF SendWaited, Confirm, BeginRefresh
    <3> QED BY <2>1, <3>1
  <2>3. CASE Pick(b)
    BY <2>3, PickTo, ProofAside DEF Types
  <2>4. CASE Except(b) \/ Finish(b)
    BY <2>4, GoneTo, ProofAside DEF Except, Finish, Types
  <2>5. ASSUME NEW S \in Selections, Start(b, S) PROVE ProofFits(b)'
    BY <2>5, StartTo, ProofAside
  <2>6. CASE BeginRefresh(b) /\ Usable(w[b].i)
    <3>1. w'[b].at = "barrier" /\ w'[b].done = FALSE
      BY <2>6, BeginTo
    <3>2. cfg'[b] = "starting"
      BY <2>6 DEF BeginRefresh, Types, BatchesOK
    <3> QED BY <3>1, <3>2 DEF ProofFits, Downloaded
  <2>7. CASE Barrier(b)
    <3>1. w'[b].at \in {"restore", "restoreFailed"} /\ w'[b].c = w[b].c /\ w'[b].i = w[b].i
      BY <2>7, BarrierTo
    <3>2. CASE w'[b].at = "restoreFailed"
      BY <3>2, ProofAside
    <3>3. CASE w'[b].at = "restore"
      <4>1. ~ At(b, "restoreFailed")
        BY <3>3, AtTo DEF Types, Ats
      <4>2. /\ w[b].at = "barrier" /\ w[b].done /\ cfg[b] # "raised"
            /\ UNCHANGED <<cfg, lacked, status>>
        BY <2>7, <4>1 DEF Barrier, Answered
      <4>3. Proving(b)' => Proving(b)
        BY <1>2, <3>1, <4>2 DEF Proving, Usable
      <4>4. ProofFits(b) /\ NoConfig' = NoConfig
        BY <1>2 DEF ProofInv, NoConfig
      <4>5. Proving(b) => /\ cfg[b] = "started" /\ NoConfig /\ reg[w[b].i].coming = {}
                          /\ w[b].c \in reg[w[b].i].names \cup reg[w[b].i].coming \cup lacked
        BY <4>2, <4>4 DEF ProofFits, Downloaded
      <4> QED BY <1>2, <3>1, <3>3, <4>2, <4>3, <4>4, <4>5 DEF ProofFits
    <3> QED BY <3>1, <3>2, <3>3
  <2>8. CASE Restore(b)
    <3>1. CASE At(b, "except")
      BY <2>1, <3>1
    <3>2. CASE At(b, "confirm") /\ w[b].at = "restore"
      <4>1. w'[b].at = "confirm" /\ w'[b].c = w[b].c /\ w'[b].i = w[b].i
        BY <3>2, AtTo DEF Types, Ats
      <4>2. UNCHANGED <<cfg, lacked, status>>
        BY <2>8 DEF Restore
      <4>3. Proving(b)' => Proving(b)
        BY <1>2, <4>1, <4>2 DEF Proving, Usable
      <4>4. ProofFits(b) /\ NoConfig' = NoConfig
        BY <1>2 DEF ProofInv, NoConfig
      <4>5. Proving(b) => /\ cfg[b] = "started" /\ NoConfig /\ reg[w[b].i].coming = {}
                          /\ w[b].c \in reg[w[b].i].names \cup reg[w[b].i].coming \cup lacked
        BY <3>2, <4>4 DEF ProofFits, Downloaded
      <4> QED BY <1>2, <4>1, <4>2, <4>3, <4>4, <4>5 DEF ProofFits
    <3> QED BY <2>8, <3>1, <3>2 DEF Restore
  <2>9. CASE Call(b)
    <3>1. UNCHANGED <<w, cfg, status, lacked>>
      BY <2>9 DEF Call
    <3>2. Proving(b)' => Proving(b)
      BY <1>2, <3>1 DEF Proving, Usable
    <3> QED BY <1>2, <3>1, <3>2, ProofQuiet DEF ProofInv
  <2> QED BY <2>2, <2>3, <2>4, <2>5, <2>6, <2>7, <2>8, <2>9 DEF Worker
<1> QED BY <1>5, <1>6 DEF ProofInv

\* What the threads append to the radio's work, and what the radio takes from it.
LEMMA WireTo ==
  ASSUME NEW s \in Seq(Contact \cup {"config"}), NEW x \in Contact \cup {"config"}
  PROVE  /\ (\A k \in DOMAIN Append(s, x) : Append(s, x)[k] # "config")
              <=> (\A k \in DOMAIN s : s[k] # "config") /\ x # "config"
         /\ s # <<>> =>
              ((\A k \in DOMAIN s : s[k] # "config")
                 <=> (\A k \in DOMAIN Tail(s) : Tail(s)[k] # "config") /\ Head(s) # "config")
<1>1. /\ DOMAIN s = 1..Len(s) /\ Len(s) \in Nat /\ DOMAIN Append(s, x) = 1..(Len(s) + 1)
      /\ \A k \in 1..Len(s) : Append(s, x)[k] = s[k]
      /\ Append(s, x)[Len(s) + 1] = x
  OBVIOUS
<1>2. (\A k \in DOMAIN Append(s, x) : Append(s, x)[k] # "config")
        <=> (\A k \in DOMAIN s : s[k] # "config") /\ x # "config"
  BY <1>1
<1>3. ASSUME s # <<>>
      PROVE  (\A k \in DOMAIN s : s[k] # "config")
               <=> (\A k \in DOMAIN Tail(s) : Tail(s)[k] # "config") /\ Head(s) # "config"
  <2>1. /\ Len(s) \in Nat \ {0} /\ Len(Tail(s)) = Len(s) - 1 /\ DOMAIN Tail(s) = 1..(Len(s) - 1)
        /\ \A k \in 1..(Len(s) - 1) : Tail(s)[k] = s[k + 1]
        /\ Head(s) = s[1]
    BY <1>3
  <2>2. ASSUME \A k \in DOMAIN Tail(s) : Tail(s)[k] # "config", Head(s) # "config",
               NEW k \in DOMAIN s
        PROVE  s[k] # "config"
    <3>1. CASE k = 1
      BY <2>1, <2>2, <3>1
    <3>2. CASE k # 1
      <4>1. k - 1 \in 1..(Len(s) - 1) /\ (k - 1) + 1 = k
        BY <1>1, <2>1, <3>2
      <4> QED BY <2>1, <2>2, <4>1
    <3> QED BY <3>1, <3>2
  <2>3. ASSUME \A k \in DOMAIN s : s[k] # "config", NEW k \in DOMAIN Tail(s)
        PROVE  Tail(s)[k] # "config"
    <3>1. k + 1 \in DOMAIN s /\ Tail(s)[k] = s[k + 1]
      BY <1>1, <2>1
    <3> QED BY <2>3, <3>1
  <2>4. 1 \in DOMAIN s
    BY <1>1, <2>1
  <2> QED BY <2>1, <2>2, <2>3, <2>4
<1> QED BY <1>2, <1>3

\* The request for the list goes out while nothing is claimed of it, and nobody else asks
\* on a link that is used.
LEMMA ProofConfig ==
  ASSUME Bounds, Types, WorkersInv, RefreshInv, ProofInv, NEW b \in Batch, StartConfig(b)
  PROVE  ProofInv'
<1>1. /\ cfg[b] = "starting" /\ UNCHANGED <<status, iface, lost, lacked>>
      /\ \/ /\ cfg' = [cfg EXCEPT ![b] = "started"] /\ w' = w
            /\ wire' = IF iface = w[b].i THEN Append(wire, "config") ELSE wire
         \/ cfg' = [cfg EXCEPT ![b] = "raised"] /\ UNCHANGED <<reg, wire>>
      /\ \A k \in 1..MaxLinks : k # w[b].i => reg'[k] = reg[k]
  BY DEF StartConfig, conn, Types, LinksOK
<1>2. Others(b) /\ w'[b].at = w[b].at /\ w'[b].c = w[b].c /\ w'[b].i = w[b].i
  BY ConfigTo
<1>3. \A e \in Batch : w'[e].i = w[e].i /\ (Proving(e)' = Proving(e))
  BY <1>1, <1>2 DEF Others, Proving, Usable
<1>4. iface # 0 => iface \in 1..MaxLinks
  BY DEF Types, LinksOK
<1>5. cfg \in [Batch -> Configs] /\ wire \in Seq(Contact \cup {"config"})
  BY DEF Types, BatchesOK, LinksOK
<1>6. ASSUME NEW e \in Batch, e # b PROVE ProofFits(e)'
  <2>1. CASE ~ Proving(e) \/ w[e].at \notin {"barrier", "restore", "confirm"}
    BY <1>2, <1>3, <1>6, <2>1, ProofAside DEF ProofFits, Others
  <2>2. CASE Proving(e) /\ w[e].at \in {"barrier", "restore", "confirm"}
    <3>1. w[b].i # w[e].i
      <4>1. ASSUME w[b].i = w[e].i PROVE FALSE
        <5>1. Waiting(b)
          BY <1>1, <2>2, <4>1 DEF RefreshInv, Proving
        <5> QED BY <1>6, <2>2, <4>1, <5>1 DEF WorkersInv, Engaged, Live, Waiting
      <4> QED BY <4>1
    <3>2. w[e].i = iface /\ w[e].i \in 1..MaxLinks
      BY <1>4, <2>2 DEF Proving, Usable
    <3>3. wire' = wire /\ reg'[w[e].i] = reg[w[e].i]
      BY <1>1, <3>1, <3>2
    <3>4. NoConfig' = NoConfig
      BY <3>3 DEF NoConfig
    <3>5. ProofSame(e)
      BY <1>1, <1>2, <1>5, <1>6, <2>2, <3>3, <3>4 DEF ProofSame, Others
    <3> QED BY <3>5, ProofStays DEF ProofInv
  <2> QED BY <2>1, <2>2
<1>7. ProofFits(b)'
  <2>1. CASE ~ Proving(b)
    BY <1>3, <2>1 DEF ProofFits
  <2>2. CASE Proving(b)
    <3>1. Waiting(b) /\ iface = w[b].i
      BY <1>1, <2>2 DEF RefreshInv, Proving, Usable
    <3>2. w'[b].at \notin {"restore", "confirm"}
      BY <1>2, <3>1 DEF Waiting
    <3>3. CASE cfg' = [cfg EXCEPT ![b] = "started"] /\ w' = w
      <4>1. wire' = Append(wire, "config")
        BY <1>1, <1>5, <3>1, <3>3
      <4>2. ~ NoConfig'
        BY <1>5, <4>1, WireTo DEF NoConfig
      <4>3. ~ w'[b].done /\ cfg'[b] = "started"
        BY <1>5, <3>1, <3>3 DEF Waiting
      <4> QED BY <3>2, <4>2, <4>3 DEF ProofFits, Downloaded
    <3>4. CASE cfg' = [cfg EXCEPT ![b] = "raised"]
      <4>1. cfg'[b] = "raised"
        BY <1>5, <3>4
      <4> QED BY <3>2, <4>1 DEF ProofFits, Downloaded
    <3> QED BY <1>1, <3>3, <3>4
  <2> QED BY <2>1, <2>2
<1> QED BY <1>6, <1>7 DEF ProofInv

\* The radio carries out a removal, or takes the request and will send what it has.
LEMMA ProofRadio ==
  ASSUME Bounds, Types, ListInv, ProofInv, RadioTakes
  PROVE  ProofInv'
<1>1. wire # <<>> /\ wire' = Tail(wire) /\ UNCHANGED <<iface, lost, status, w, cfg>>
  BY DEF RadioTakes, conn
<1>2. wire \in Seq(Contact \cup {"config"}) /\ reg \in [1..MaxLinks -> Registry]
      /\ radio \subseteq Contact
  BY DEF Types, LinksOK
<1>3. NoConfig <=> NoConfig' /\ Head(wire) # "config"
  <2>1. wire # <<>> => ((\A k \in DOMAIN wire : wire[k] # "config")
          <=> (\A k \in DOMAIN Tail(wire) : Tail(wire)[k] # "config") /\ Head(wire) # "config")
    BY <1>2, WireTo
  <2> QED BY <1>1, <2>1 DEF NoConfig
<1>4. ASSUME NEW b \in Batch PROVE ProofFits(b)'
  <2>1. Proving(b)' = Proving(b)
    BY <1>1 DEF Proving, Usable
  <2>2. CASE Head(wire) # "config"
    <3>1. reg' = reg /\ lacked \subseteq lacked'
      BY <2>2 DEF RadioTakes
    <3>2. NoConfig' = NoConfig
      BY <1>3, <2>2 DEF NoConfig
    <3>3. Proving(b)' => ProofSame(b)
      BY <1>1, <2>1, <3>1, <3>2 DEF ProofSame
    <3> QED BY <3>3, ProofStays DEF ProofInv
  <2>3. CASE Head(wire) = "config" /\ Proving(b)
    <3>1. /\ reg' = [reg EXCEPT ![iface].coming = radio]
          /\ lacked' = lacked \cup (Contact \ radio)
      BY <2>3 DEF RadioTakes
    <3>2. iface = w[b].i /\ iface \in 1..MaxLinks
      BY <2>3 DEF Proving, Usable, Types, LinksOK
    <3>3. reg'[w[b].i].coming = radio
      BY <1>2, <3>1, <3>2 DEF Registry
    <3>4. ~ NoConfig
      BY <1>3, <2>3
    <3>5. ~ Downloaded(b) /\ (w[b].at = "barrier" => cfg[b] # "none")
      BY <2>3, <3>4 DEF ProofInv, ProofFits
    <3>6. w[b].at \in {"barrier", "restore", "confirm"} => w[b].c \in Contact
      <4>1. DOMAIN item[b] \subseteq Contact
        BY DEF Types, BooksOK, Lists
      <4> QED BY <2>3, <4>1 DEF ListInv, ListFits, Asked, Proving
    <3>7. w[b].at \in {"barrier", "restore", "confirm"}
            => w'[b].c \in reg'[w'[b].i].names \cup reg'[w'[b].i].coming \cup lacked'
      BY <1>1, <3>1, <3>3, <3>6
    <3> QED BY <1>1, <3>5, <3>7 DEF ProofFits, Downloaded
  <2>4. CASE ~ Proving(b)
    BY <2>1, <2>4 DEF ProofFits
  <2> QED BY <2>2, <2>3, <2>4
<1> QED BY <1>4 DEF ProofInv

\* Nodes of the answer, its end, and nodes that are heard besides.
LEMMA ProofAnswers ==
  ASSUME Bounds, Types, RefreshInv, ProofInv,
         ConfigComplete \/ \E c \in Contact : NodeInfo(c) \/ Hear(c)
  PROVE  ProofInv'
<1>1. iface # 0 /\ UNCHANGED <<wire, iface, lost, status, cfg, lacked>>
  BY DEF ConfigComplete, NodeInfo, Hear, Downloads, conn, radioVars
<1>2. iface \in 1..MaxLinks /\ reg \in [1..MaxLinks -> Registry]
  BY <1>1 DEF Types, LinksOK
<1>3. NoConfig' = NoConfig
  BY <1>1 DEF NoConfig
<1>4. CASE \E c \in Contact : NodeInfo(c) \/ Hear(c)
  <2>1. /\ w' = w
        /\ reg[iface].names \cup reg[iface].coming
             \subseteq reg'[iface].names \cup reg'[iface].coming
        /\ reg'[iface].coming \subseteq reg[iface].coming
    <3>1. ASSUME NEW c \in Contact, NodeInfo(c)
          PROVE  /\ w' = w
                 /\ reg[iface].names \cup reg[iface].coming
                      \subseteq reg'[iface].names \cup reg'[iface].coming
                 /\ reg'[iface].coming \subseteq reg[iface].coming
      <4> DEFINE r == [reg[iface] EXCEPT !.names = @ \cup {c}, !.coming = @ \ {c}]
      <4>1. reg'[iface] = r /\ w' = w
        BY <1>2, <3>1 DEF NodeInfo
      <4>2. r.names = reg[iface].names \cup {c} /\ r.coming = reg[iface].coming \ {c}
        BY <1>2 DEF Registry
      <4> QED BY <4>1, <4>2
    <3>2. ASSUME NEW c \in Contact, Hear(c)
          PROVE  /\ w' = w
                 /\ reg[iface].names \cup reg[iface].coming
                      \subseteq reg'[iface].names \cup reg'[iface].coming
                 /\ reg'[iface].coming \subseteq reg[iface].coming
      <4>1. reg'[iface] = [reg[iface] EXCEPT !.names = @ \cup {c}] /\ w' = w
        BY <1>2, <3>2 DEF Hear
      <4> QED BY <1>2, <4>1 DEF Registry
    <3> QED BY <1>4, <3>1, <3>2
  <2>2. ASSUME NEW b \in Batch PROVE ProofFits(b)'
    <3>1. Proving(b)' => Proving(b) /\ w[b].i = iface
      BY <1>1, <2>1 DEF Proving, Usable
    <3>2. Proving(b)' => ProofSame(b)
      BY <1>1, <1>3, <2>1, <3>1 DEF ProofSame
    <3> QED BY <3>2, ProofStays DEF ProofInv
  <2> QED BY <2>2 DEF ProofInv
<1>5. CASE ConfigComplete
  <2>1. /\ ~ reg[iface].whole /\ NoConfig /\ reg[iface].coming = {}
        /\ reg' = [reg EXCEPT ![iface].whole = TRUE]
    BY <1>5 DEF ConfigComplete, Downloads, NoConfig
  <2>2. reg'[iface].coming = {} /\ reg'[iface].names = reg[iface].names
    BY <1>2, <2>1 DEF Registry
  <2>3. ASSUME NEW b \in Batch PROVE ProofFits(b)'
    <3>1. w'[b].at = w[b].at /\ w'[b].c = w[b].c /\ w'[b].i = w[b].i
      BY <1>5, CompleteTo
    <3>2. CASE ~ Proving(b)
      BY <1>1, <3>1, <3>2 DEF ProofFits, Proving, Usable
    <3>3. CASE Proving(b)
      <4>1. w[b].i = iface /\ Usable(w[b].i)
        BY <3>3 DEF Proving, Usable
      <4>2. cfg[b] # "starting"
        BY <2>1, <4>1 DEF RefreshInv
      <4>3. Downloaded(b)' => cfg[b] = "started"
        <5>1. cfg[b] \in Configs
          BY DEF Types, BatchesOK
        <5>2. ProofFits(b)
          BY DEF ProofInv
        <5> QED BY <1>1, <3>1, <3>3, <4>2, <5>1, <5>2 DEF ProofFits, Downloaded, Configs
      <4>4. ProofFits(b)
        BY DEF ProofInv
      <4>5. w[b].at \in {"barrier", "restore", "confirm"} /\ cfg[b] = "started"
              => w[b].c \in reg'[iface].names \cup reg'[iface].coming \cup lacked'
        BY <1>1, <2>1, <2>2, <3>3, <4>1, <4>4 DEF ProofFits
      <4>6. w[b].at = "barrier" => cfg[b] # "none"
        BY <3>3, <4>4 DEF ProofFits
      <4> QED BY <1>1, <1>3, <2>1, <2>2, <3>1, <4>1, <4>3, <4>5, <4>6 DEF ProofFits
    <3> QED BY <3>2, <3>3
  <2> QED BY <2>3 DEF ProofInv
<1> QED BY <1>4, <1>5

LEMMA ProofNext ==
  "config" \notin Contact /\ Bounds /\ RemovalInv /\ ListInv /\ ProofInv /\ [Next]_vars => ProofInv'
<1> SUFFICES ASSUME "config" \notin Contact, Bounds, RemovalInv, ListInv, ProofInv, [Next]_vars
             PROVE  ProofInv'
  OBVIOUS
<1>0. Types /\ CallsInv /\ WorkersInv /\ RefreshInv
  BY DEF RemovalInv
<1>1. ASSUME NEW b \in Batch, SdkSends(b) PROVE ProofInv'
  <2>1. /\ UNCHANGED <<w, cfg, reg, lacked, iface, lost, status>>
        /\ wire' = IF iface = w[b].i THEN Append(wire, w[b].c) ELSE wire
    BY <1>1 DEF SdkSends, conn
  <2>2. w[b].c \in Contact /\ wire \in Seq(Contact \cup {"config"})
    BY <1>0, <1>1 DEF SdkSends, Types, BatchesOK, BatchFits, LinksOK
  <2>3. NoConfig' = NoConfig
    <3>1. CASE wire' = wire
      BY <3>1 DEF NoConfig
    <3>2. CASE wire' = Append(wire, w[b].c)
      <4>1. PICK c \in Contact \cup {"config"} : c = w[b].c /\ c # "config"
        BY <2>2
      <4>2. (\A k \in DOMAIN Append(wire, c) : Append(wire, c)[k] # "config")
              <=> (\A k \in DOMAIN wire : wire[k] # "config")
        BY <2>2, <4>1, WireTo
      <4> QED BY <3>2, <4>1, <4>2 DEF NoConfig
    <3> QED BY <2>1, <3>1, <3>2
  <2>4. ASSUME NEW e \in Batch PROVE ProofFits(e)'
    <3>1. Proving(e)' => ProofSame(e)
      BY <2>1, <2>3 DEF ProofSame, Proving, Usable
    <3> QED BY <3>1, ProofStays DEF ProofInv
  <2> QED BY <2>4 DEF ProofInv
<1>2. ASSUME UNCHANGED <<w, cfg, reg, wire, lacked>>, \A b \in Batch : Proving(b)' => Proving(b)
      PROVE  ProofInv'
  BY <1>2, ProofQuiet DEF ProofInv
<1>3. ASSUME NEW b \in Batch, SdkReturns(b) \/ FailPending(b) \/ StoreFailed(b) PROVE ProofInv'
  <2>1. UNCHANGED <<w, cfg, reg, wire, lacked, iface, lost>>
    BY <1>3 DEF SdkReturns, FailPending, StoreFailed, conn, radioVars
  <2>2. \A e \in Batch : status'[e] = "started" => status[e] = "started"
    BY <1>0, <1>3 DEF SdkReturns, FailPending, StoreFailed, Types, BooksOK
  <2> QED BY <1>2, <2>1, <2>2 DEF Proving, Usable
<1>4. CASE Lose \/ SyncNodes \/ UNCHANGED vars
  BY <1>2, <1>4 DEF Lose, SyncNodes, vars, conn, radioVars, Proving, Usable
<1>5. CASE Take \/ Reconnect
  <2>1. \A b \in Batch : ~ Proving(b)'
    <3>1. CASE Take
      BY <3>1 DEF Take, Proving, Usable
    <3>2. CASE Reconnect
      <4>1. \A b \in Batch : w[b].i \in 0..MaxLinks /\ w[b].i <= links
        BY <1>0 DEF Types, BatchesOK, BatchFits, WorkerState
      <4>2. iface' = links + 1 /\ w' = w /\ links \in Nat
        BY <1>0, <3>2 DEF Reconnect, Types, LinksOK
      <4> QED BY <4>1, <4>2 DEF Proving, Usable, Bounds
    <3> QED BY <1>5, <3>1, <3>2
  <2> QED BY <2>1 DEF ProofInv, ProofFits
<1> QED BY <1>0, <1>1, <1>3, <1>4, <1>5, ProofWorker, ProofConfig, ProofRadio, ProofAnswers DEF Next

\* A contact becomes "removed" only by the confirmation, and it was lacking.
LEMMA RemovedLacked ==
  ASSUME RemovalInv, ListInv, ProofInv, Next, NEW b \in Batch, NEW c \in DOMAIN item[b],
         item'[b][c] = "removed"
  PROVE  item[b][c] = "removed" \/ c \in lacked
<1>1. Types
  BY DEF RemovalInv
<1>2. item \in [Batch -> Lists] /\ item[b] \in Lists /\ item[b] \in [DOMAIN item[b] -> Statuses]
  BY <1>1 DEF Types, BooksOK, Lists
<1>3. ASSUME NEW e \in Batch, NEW S \in Selections, Start(e, S) PROVE item'[b][c] = item[b][c]
  <2>1. b # e
    BY <1>3 DEF Start, ListInv, ListFits
  <2> QED BY <1>2, <1>3, <2>1 DEF Start
<1>4. ASSUME NEW e \in Batch, Pick(e) PROVE item[b][c] = "removed"
  <2>1. CASE item' = item
    BY <2>1
  <2>2. CASE item' # item
    <3>1. PICK d \in Queued(e) : item' = [item EXCEPT ![e][d] = "sent"]
      BY <1>4, <2>2 DEF Pick
    <3>2. d \in DOMAIN item[e] /\ "sent" \in Statuses
      BY DEF Queued, Statuses
    <3> QED BY <1>1, <3>1, <3>2, ItemTo
  <2> QED BY <2>1, <2>2
<1>5. ASSUME NEW e \in Batch, Confirm(e) PROVE item[b][c] = "removed" \/ c \in lacked
  <2>1. CASE item' = item
    BY <2>1
  <2>2. CASE item' # item
    <3>1. /\ w[e].at = "confirm" /\ status[e] = "started" /\ Usable(w[e].i)
          /\ w[e].c \notin reg[w[e].i].names
          /\ item' = [item EXCEPT ![e][w[e].c] = "removed"]
      BY <1>5, <2>2 DEF Confirm
    <3>2. w[e].c \in lacked
      BY <3>1 DEF ProofInv, ProofFits, Proving, Downloaded
    <3>3. (b = e /\ c = w[e].c) \/ item'[b][c] = item[b][c]
      BY <1>2, <3>1
    <3> QED BY <3>2, <3>3
  <2> QED BY <2>1, <2>2
<1>6. ASSUME NEW e \in Batch, Except(e) PROVE item[b][c] = "removed"
  <2>1. item' = [item EXCEPT ![e] =
                   [d \in DOMAIN item[e] |->
                      IF d = w[e].c
                      THEN (IF item[e][d] = "sent" THEN "sent_unverified" ELSE "failed")
                      ELSE IF item[e][d] = "queued" THEN "skipped" ELSE item[e][d]]]
    BY <1>6 DEF Except
  <2> QED BY <1>2, <2>1
<1>7. ASSUME NEW e \in Batch, Finish(e) \/ FailPending(e) PROVE item[b][c] = "removed"
  <2>1. item' = item \/ item' = [item EXCEPT ![e] = Closed(item[e])]
    BY <1>7 DEF Finish, FailPending
  <2> QED BY <1>2, <2>1 DEF Closed
<1>8. \/ UNCHANGED item
      \/ \E e \in Batch : Pick(e) \/ Confirm(e) \/ Except(e) \/ Finish(e) \/ FailPending(e)
                          \/ \E S \in Selections : Start(e, S)
  BY DEF Next, Worker, Call, SendWaited, BeginRefresh, Barrier, Restore, SdkSends, SdkReturns,
         StartConfig, StoreFailed, Lose, Take, Reconnect, RadioTakes, ConfigComplete, SyncNodes,
         NodeInfo, Hear
<1> QED BY <1>3, <1>4, <1>5, <1>6, <1>7, <1>8

\* A contact leaves the list only by the confirmation, which reports it.
LEMMA HiddenRemoved ==
  ASSUME RemovalInv, ListInv, Next, NEW c \in listed \ listed'
  PROVE  \E b \in Batch : c \in DOMAIN item[b] /\ item'[b][c] = "removed" /\ item[b][c] # "removed"
<1>1. PICK b \in Batch : Confirm(b) /\ listed' # listed
  <2>1. ASSUME NEW b \in Batch, Worker(b), ~ Confirm(b) PROVE listed' = listed
    BY <2>1 DEF Worker, Pick, Call, SendWaited, BeginRefresh, Barrier, Restore, Except, Finish
  <2>2. ASSUME NEW b \in Batch,
               \/ \E S \in Selections : Start(b, S)
               \/ SdkSends(b) \/ SdkReturns(b) \/ StartConfig(b) \/ FailPending(b)
               \/ StoreFailed(b)
        PROVE  listed' = listed
    BY <2>2 DEF Start, SdkSends, SdkReturns, StartConfig, FailPending, StoreFailed
  <2>3. Lose \/ Take \/ Reconnect \/ RadioTakes \/ ConfigComplete => listed' = listed
    BY DEF Lose, Take, Reconnect, RadioTakes, ConfigComplete
  <2>4. SyncNodes => listed \subseteq listed'
    BY DEF SyncNodes
  <2>5. ASSUME NEW d \in Contact, NodeInfo(d) \/ Hear(d) PROVE listed \subseteq listed'
    BY <2>5 DEF NodeInfo, Hear
  <2> QED BY <2>1, <2>2, <2>3, <2>4, <2>5 DEF Next
<1>2. /\ w[b].at = "confirm" /\ status[b] = "started" /\ c = w[b].c
      /\ item' = [item EXCEPT ![b][w[b].c] = "removed"]
  BY <1>1 DEF Confirm
<1>3. c \in DOMAIN item[b] /\ item[b][c] = "sent"
  BY <1>2 DEF ListInv, ListFits, Asked
<1>4. item'[b][c] = "removed"
  BY <1>2, <1>3 DEF RemovalInv, Types, BooksOK, Lists
<1> QED BY <1>3, <1>4

-----------------------------------------------------------------------------
(* The theorems *)

LEMMA RemovalInit == Bounds /\ Init => RemovalInv
<1> SUFFICES ASSUME Bounds, Init PROVE RemovalInv
  OBVIOUS
<1>1. /\ \A b \in Batch : w[b].at = "none" /\ w[b].i = 0
      /\ \A b \in Batch : status[b] = "none" /\ sdk[b] = "none" /\ cfg[b] = "none"
                          /\ late[b] = None
      /\ \A i \in 1..MaxLinks : reg[i].whole /\ handler[i] = <<>>
      /\ iface = 1 /\ 1 \in 1..MaxLinks
  BY DEF Init, Idle, Bounds
<1>2. CallsInv /\ WorkersInv
  BY <1>1 DEF CallsInv, CallFits, Calling, WorkersInv, Engaged, Live
<1>3. RefreshInv
  BY <1>1 DEF RefreshInv, Refreshing
<1>4. BooksInv
  BY <1>1 DEF BooksInv, BooksAgree
<1> QED BY <1>2, <1>3, <1>4, TypesInit DEF RemovalInv

\* The strengthening holds in every state.
LEMMA RemovalAlways == ASSUME Bounds PROVE Spec => []RemovalInv
<1>1. Init => RemovalInv
  BY RemovalInit
<1>2. RemovalInv /\ [Next]_vars => RemovalInv'
  BY TypesNext, CallsNext, WorkersNext, RefreshNext, BooksNext DEF RemovalInv
<1> QED BY <1>1, <1>2, PTL DEF Spec

\* A wrapped handler belongs to one worker, so wrappers do not nest.
LEMMA TypesAre == Bounds /\ RemovalInv => TypeOK
<1> SUFFICES ASSUME Bounds, RemovalInv PROVE TypeOK
  OBVIOUS
<1>1. ASSUME NEW i \in 1..MaxLinks PROVE Len(handler[i]) <= 1
  <2>1. CASE handler[i] = <<>>
    BY <2>1
  <2>2. CASE handler[i] # <<>>
    <3>1. PICK b \in Batch : Refreshing(b) /\ w[b].i = i
      BY <2>2 DEF RemovalInv, RefreshInv
    <3>2. handler[i] = <<b>>
      BY <3>1 DEF RemovalInv, RefreshInv
    <3> QED BY <3>2
  <2> QED BY <2>1, <2>2
<1>2. ASSUME NEW i \in 1..MaxLinks PROVE \A k \in DOMAIN handler[i] : handler[i][k] \in Batch
  <2>1. handler[i] \in Seq(Batch)
    BY DEF RemovalInv, Types, LinksOK
  <2> QED BY <2>1
<1>3. \A i \in 1..MaxLinks : /\ reg[i].names \subseteq Contact /\ reg[i].coming \subseteq Contact
                             /\ reg[i].whole \in BOOLEAN
  BY DEF RemovalInv, Types, LinksOK, Registry
<1>4. \A b \in Batch : item[b] \in Lists /\ row[b].item \in Lists
  BY DEF RemovalInv, Types, BooksOK, Copy
<1>5. links \in 0..MaxLinks /\ iface \in 0..MaxLinks
  BY DEF RemovalInv, Types, LinksOK, Bounds
<1> QED BY <1>1, <1>2, <1>3, <1>4, <1>5
           DEF TypeOK, RemovalInv, Types, BooksOK, LinksOK, Lists

\* Two calls that have not returned and ask the same link are the same call.
LEMMA CallsAlone == RemovalInv => OneCallPerLink
<1> SUFFICES ASSUME RemovalInv, NEW b \in Batch, Calling(b)
             PROVE  /\ \A e \in Batch : Calling(e) /\ w[e].i = w[b].i => e = b
                    /\ w[b].at # "send" => iface # w[b].i \/ lost
  BY DEF OneCallPerLink
<1>1. \A e \in Batch : Calling(e) /\ w[e].i = w[b].i => e = b
  BY DEF RemovalInv, WorkersInv, Engaged
<1>2. w[b].i # 0 /\ (w[b].at # "send" => ~ Usable(w[b].i))
  BY DEF RemovalInv, WorkersInv, Engaged, CallsInv, CallFits
<1> QED BY <1>1, <1>2 DEF Usable

\* Somebody waits for what is missing from the registry in use, and refreshes its link.
LEMMA PartialIsKnown == Bounds /\ RemovalInv => PartialIsNotTrusted
<1> SUFFICES ASSUME Bounds, RemovalInv, iface # 0, ~ reg[iface].whole, ~ lost
             PROVE  refreshOf = iface
  BY DEF PartialIsNotTrusted
<1>1. PICK b \in Batch : Waiting(b) /\ w[b].i = iface
  BY DEF RemovalInv, RefreshInv, Usable
<1>2. Refreshing(b) /\ Usable(w[b].i)
  BY <1>1 DEF Waiting, Refreshing, Usable
<1> QED BY <1>1, <1>2 DEF RemovalInv, RefreshInv

\* A handler is wrapped only by a worker that refreshes, and a worker that has ended has
\* stored a list without an open contact.
LEMMA NoTrace == RemovalInv => LeavesNoTrace
<1> SUFFICES ASSUME RemovalInv PROVE LeavesNoTrace
  OBVIOUS
<1>1. \A i \in 1..MaxLinks : handler[i] # <<>> =>
        \E b \in Batch : w[b].i = i /\ w[b].at \in {"barrier", "restore", "restoreFailed"}
  BY DEF RemovalInv, RefreshInv, Refreshing
<1>2. ASSUME NEW b \in Batch, w[b].at = "done"
      PROVE  /\ status[b] # "started" /\ row[b].status # "started"
             /\ \A c \in DOMAIN item[b] : item[b][c] \notin Open /\ row[b].item[c] \notin Open
  <2>1. status[b] \in {"failed", "completed"}
    <3>1. status[b] # "started" /\ status[b] # "none"
      BY <1>2 DEF RemovalInv, WorkersInv, Types, BatchesOK, BatchFits
    <3> QED BY <3>1 DEF RemovalInv, Types, BooksOK
  <2>2. BooksAgree(b)
    BY DEF RemovalInv, BooksInv
  <2> QED BY <1>2, <2>1, <2>2 DEF BooksAgree, AllClosed
<1> QED BY <1>1, <1>2 DEF LeavesNoTrace

\* The service, the radio and the batches keep their types, and wrappers of a handler
\* do not nest, however many batches, links and late returns of the SDK there are.
THEOREM TypeCorrect == ASSUME Bounds PROVE Spec => []TypeOK
<1>1. RemovalInv => TypeOK
  BY TypesAre
<1> QED BY <1>1, RemovalAlways, PTL

\* A link is never asked for two removals at once, and a hung or late call whose worker has
\* given it up belongs to a link that is lost; a registry that is only partly downloaded is
\* never taken for a whole one, and a batch that has ended leaves neither its wrapper nor an
\* open contact behind (remove_nodes, _remove_nodes_worker, _refresh_node_registry).  That
\* calls of two links do not overlap is not claimed: they may.
THEOREM RemovalStaysOrderly == ASSUME Bounds PROVE Spec => []RemovalIsOrderly
<1>1. RemovalInv => RemovalIsOrderly
  BY CallsAlone, PartialIsKnown, NoTrace DEF RemovalIsOrderly
<1> QED BY <1>1, RemovalAlways, PTL

\* A contact is reported as removed, or hidden, only when the radio has lacked it since it
\* was marked as sent: neither a late return of the SDK, nor a partial or an earlier list,
\* nor a new link stands in for the proof (_remove_nodes_worker, _refresh_node_registry).
\* "config" is the request for the list, and no contact.
THEOREM RemovedWasProved ==
  ASSUME Bounds, "config" \notin Contact PROVE Spec => RemovedWasAbsent
<1>1. Init => ListInv /\ ProofInv
  <2>1. ASSUME Init, NEW b \in Batch
        PROVE  status[b] = "none" /\ DOMAIN item[b] = {}
    BY <2>1 DEF Init
  <2> QED BY <2>1 DEF ListInv, ListFits, ProofInv, ProofFits, Proving
<1>2. RemovalInv /\ ListInv /\ ProofInv /\ [Next]_vars => ListInv' /\ ProofInv'
  BY ListNext, ProofNext DEF RemovalInv
<1>3. RemovalInv /\ ListInv /\ ProofInv /\ [Next]_vars =>
        [/\ \A b \in Batch : \A c \in DOMAIN item[b] :
               item'[b][c] = "removed" => item[b][c] = "removed" \/ c \in lacked
         /\ \A c \in listed \ listed' : \E b \in Batch :
               c \in DOMAIN item[b] /\ item'[b][c] = "removed" /\ item[b][c] # "removed"]_vars
  BY RemovedLacked, HiddenRemoved
<1> QED BY <1>1, <1>2, <1>3, RemovalAlways, PTL DEF Spec, RemovedWasAbsent
=============================================================================
