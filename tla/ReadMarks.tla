------------------------------- MODULE ReadMarks -------------------------------
(* What has been read: the is_read mark of the messages (database.py), who sets   *)
(* it, and the number of unread messages that the terminals show beside each      *)
(* conversation (tui.py).  The daemon answers each request on a thread of its     *)
(* own, and the terminal asks from several workers at once, so answers overtake   *)
(* one another.                                                                   *)
(*                                                                               *)
(* Only received messages matter; one is its place in the order of their ids.    *)
(* A conversation stands for the routes that are merged in it.  Nothing is        *)
(* closed or cleared here (MessageStore), and no event is missed (EventStream).   *)
EXTENDS Naturals, Sequences, FiniteSets

CONSTANTS
  Reader,        \* terminals, each with its own selection
  Conversation,
  Home,          \* the conversation that is current at the start
  MaxMessages, MaxSelects, MaxErrors,  \* bounds
  MaxWorkers     \* bound: workers that run at once

VARIABLES
  filed,     \* the table: the conversation of each message
  read,      \* messages with is_read = 1
  published, \* messages whose event has been put on the stream
  taken,     \* Reader -> the events it has taken
  current,   \* Reader -> current_conversation
  unread,    \* Reader -> the number shown beside each conversation
  workers,   \* workers that wait for the daemon or for the drawing thread
  selects,   \* selections so far
  errors     \* requests that failed so far

vars == <<filed, read, published, taken, current, unread, workers, selects, errors>>

Id == 1..MaxMessages
Stored == DOMAIN filed
Counts == [Conversation -> 0..MaxMessages]
Zeros == [c \in Conversation |-> 0]
Worker == [reader : Reader, task : {"load", "mark", "refresh"}, conv : Conversation,
           number : 0..(MaxSelects + MaxMessages),
           step : {"messages", "lists", "answered"}, counts : Counts]

TypeOK ==
  /\ filed \in Seq(Conversation) /\ Len(filed) <= MaxMessages
  /\ read \subseteq Stored
  /\ published \in 0..Len(filed)
  /\ \A r \in Reader : taken[r] \in 0..published
  /\ current \in [Reader -> Conversation] /\ unread \in [Reader -> Counts]
  /\ workers \subseteq Worker
  /\ selects \in 0..MaxSelects /\ errors \in 0..MaxErrors

FirstStep(task) == IF task = "refresh" THEN "lists" ELSE "messages"
Asks(r, task, conv, number) ==
  [reader |-> r, task |-> task, conv |-> conv, number |-> number,
   step |-> FirstStep(task), counts |-> Zeros]

\* _apply_initial has shown the lists and selected a conversation.
Init ==
  /\ filed = <<>> /\ read = {} /\ published = 0
  /\ taken = [r \in Reader |-> 0]
  /\ current = [r \in Reader |-> Home] /\ unread = [r \in Reader |-> Zeros]
  /\ workers = {Asks(r, "load", Home, 0) : r \in Reader}
  /\ selects = 0 /\ errors = 0

-----------------------------------------------------------------------------
(* The daemon *)

\* _on_receive stores a message, and then publishes it.
Receive(conv) ==
  /\ Len(filed) < MaxMessages /\ published = Len(filed)
  /\ filed' = Append(filed, conv)
  /\ UNCHANGED <<read, published, taken, current, unread, workers, selects, errors>>

Announce ==
  /\ published < Len(filed) /\ published' = published + 1
  /\ UNCHANGED <<filed, read, taken, current, unread, workers, selects, errors>>

In(conv) == {i \in Stored : filed[i] = conv}
Replaced(w, next) == (workers \ {w}) \cup {next}

\* Mutant: what is returned is marked, and a mark-read worker asks for one message.
MarkedReturned(w) ==
  {i \in In(w.conv) : w.task = "mark" => \A j \in In(w.conv) : j <= i}
Marked(w) == In(w.conv)

\* list_messages marks the conversation as read.  What it returns is Terminal's matter.
MarkRead(w) ==
  /\ w.step = "messages"
  /\ read' = read \cup Marked(w)
  /\ workers' = Replaced(w, [w EXCEPT !.step = IF w.task = "load" THEN "answered" ELSE "lists"])
  /\ UNCHANGED <<filed, published, taken, current, unread, selects, errors>>

\* conversations counts what is unread.
Conversations(w) ==
  /\ w.step = "lists"
  /\ workers' = Replaced(w, [w EXCEPT !.step = "answered",
                  !.counts = [c \in Conversation |-> Cardinality(In(c) \ read)]])
  /\ UNCHANGED <<filed, read, published, taken, current, unread, selects, errors>>

\* A request fails: mark-read and refresh workers say nothing about it.
Fails(w) ==
  /\ w.step # "answered" /\ errors < MaxErrors
  /\ errors' = errors + 1 /\ workers' = workers \ {w}
  /\ UNCHANGED <<filed, read, published, taken, current, unread, selects>>

-----------------------------------------------------------------------------
(* The terminals *)

\* run_worker with exclusive=True: an older worker of the group is cancelled.  Its thread
\* may then never begin, but one that has begun goes on.
Starts(new) ==
  LET older == {w \in workers : w.step = FirstStep(w.task)
                  /\ \E n \in new : n.reader = w.reader /\ n.task = w.task}
  IN \E cancelled \in SUBSET older : workers' = (workers \ cancelled) \cup new

\* select_conversation starts a conversation worker.
Select(r, conv) ==
  /\ selects < MaxSelects
  /\ selects' = selects + 1
  /\ current' = [current EXCEPT ![r] = conv]
  /\ Starts({Asks(r, "load", conv, selects')})
  /\ Cardinality(workers') <= MaxWorkers
  /\ UNCHANGED <<filed, read, published, taken, unread, errors>>

\* _show_conversation takes the number away.
Show(w) ==
  /\ w.task = "load" /\ w.step = "answered"
  /\ workers' = workers \ {w}
  /\ unread' = IF w.conv = current[w.reader]
               THEN [unread EXCEPT ![w.reader][w.conv] = 0] ELSE unread
  /\ UNCHANGED <<filed, read, published, taken, current, selects, errors>>

\* _apply_conversations.
Apply(w) ==
  /\ w.task # "load" /\ w.step = "answered"
  /\ workers' = workers \ {w}
  /\ unread' = [unread EXCEPT ![w.reader] = w.counts]
  /\ UNCHANGED <<filed, read, published, taken, current, selects, errors>>

\* live_event: a message of the current conversation is shown and marked as read by
\* a worker; the lists are asked for by another one.
Live(r) ==
  LET i == taken[r] + 1 IN
  /\ taken[r] < published
  /\ taken' = [taken EXCEPT ![r] = i]
  /\ Starts({Asks(r, "refresh", filed[i], i)}
            \cup {Asks(r, "mark", c, i) : c \in {filed[i]} \cap {current[r]}})
  /\ Cardinality(workers') <= MaxWorkers
  /\ UNCHANGED <<filed, read, published, current, unread, selects, errors>>

-----------------------------------------------------------------------------

Work ==
  \/ Announce
  \/ \E w \in workers :
       MarkRead(w) \/ Conversations(w) \/ Show(w) \/ Apply(w)
  \/ \E r \in Reader : Live(r)

Next ==
  \/ Work
  \/ \E c \in Conversation : Receive(c) \/ \E r \in Reader : Select(r, c)
  \/ \E w \in workers : Fails(w)

Spec == Init /\ [][Next]_vars
\* Events and answers are handled.  Nothing is assumed of the mesh or of the users.
FairSpec == Spec /\ WF_vars(Work)

-----------------------------------------------------------------------------
(* Properties *)

\* A visible conversation is marked as read: whatever comes in while a conversation stays
\* current is marked in the end, although each worker asks for one message only and the
\* conversation was loaded before it came (live_event, _mark_conversation_read_worker,
\* list_messages).  A request that fails is not repeated, and may leave it unread.
VisibleBecomesRead ==
  \A r \in Reader, c \in Conversation, i \in Id :
    (i \in Stored /\ filed[i] = c /\ current[r] = c)
      ~> (i \in read \/ current[r] # c \/ errors > 0)

AtRest == workers = {} /\ \A r \in Reader : taken[r] = Len(filed)

\* DEVELOPMENT.md:258: unread conversations are highlighted.  Once everything is handled,
\* what has unread messages has a number (ConversationItem, _apply_conversations).
UnreadIsHighlighted ==
  AtRest /\ errors = 0 =>
    \A r \in Reader, c \in Conversation : In(c) \ read # {} => unread[r][c] > 0
=============================================================================
