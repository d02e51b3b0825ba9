------------------------------- MODULE Terminal ------------------------------
(* The terminal interface (tui.py): one thread draws and handles keys and        *)
(* events, worker threads ask the daemon and hand their answers to it, and one    *)
(* thread reads the event stream.  A newer worker of the same group does not      *)
(* stop an older one: its answer may come later.  (One that has not begun may be  *)
(* dropped for the newer one; that is left out.)                                 *)
(*                                                                              *)
(* The daemon is what the workers see of it: stored messages, the status of       *)
(* traceroutes, the conversations it would list.  Drawing, focus, names, times    *)
(* and the other dialogs are left out.                                           *)
EXTENDS Naturals, Sequences, FiniteSets, Screens

CONSTANTS
  Public,                     \* the conversation that cannot be closed
  Message, ConversationOf,    \* received messages
  PeerOf,                     \* the conversation with the node of a traceroute
  None,
  MaxSelects, MaxRequests, MaxMishaps   \* bounds on what happens outside

VARIABLES
  routes,          \* the daemon: conversations that it lists
  progress,        \* the daemon: status of each traceroute
  listed,          \* self.conversations, which can be sent on
  loaded,          \* _message_history_loaded
  refreshes,       \* refresh workers, and those that close a conversation
  replies,         \* node_action requests whose reply is still to be handled
  budget           \* what is left of the bounds

vars == <<stored, routes, progress, stream, current, view, listed, entries, history,
          loaded, loads, refreshes, sends, replies, told, budget>>

Item == (Message \cup Text) \X Conversation
Status == {"started", "ended"}                  \* "completed" or "failed"
Log == [Action -> Status \cup {None}]
Load == [conv: Conversation, step: {"asking", "messages", "actions"}, items: SUBSET Item,
         actions: Log]
Refresh == [step: {"asking", "answered"}, routes: SUBSET Conversation,
            closing: Conversation \cup {None}, opening: Conversation \cup {None}]
Event == [type: {"message"}, item: Item]
         \cup [type: {"action"}, action: Action, status: Status]
         \cup [type: {"history_changed"}]

TypeOK ==
  /\ stored \subseteq Item /\ view \subseteq Item
  /\ progress \in Log /\ entries \in Log
  /\ stream \in Seq(Event)
  /\ current \in Conversation /\ {Public, current} \subseteq listed /\ listed \subseteq Conversation
  /\ routes \subseteq Conversation
  /\ history \in [Conversation -> SUBSET Text]
  /\ loaded \subseteq Conversation
  /\ loads \subseteq Load /\ refreshes \subseteq Refresh /\ sends \subseteq Text \X Conversation
  /\ replies \subseteq Action /\ told \subseteq Text \cup Conversation

Nothing == [a \in Action |-> None]

Asking(conv) == [conv |-> conv, step |-> "asking", items |-> {}, actions |-> Nothing]
AskingLists(closing, opening) ==
  [step |-> "asking", routes |-> {}, closing |-> closing, opening |-> opening]

\* _apply_initial has loaded the lists and selects the public conversation.
Init ==
  /\ stored = {} /\ routes = {Public} /\ stream = <<>>
  /\ progress = Nothing /\ entries = Nothing
  /\ current = Public /\ view = {} /\ listed = {Public}
  /\ history = [c \in Conversation |-> {}] /\ loaded = {}
  /\ loads = {Asking(Public)} /\ refreshes = {} /\ sends = {} /\ replies = {} /\ told = {}
  /\ budget = [select |-> MaxSelects, request |-> MaxRequests, mishap |-> MaxMishaps]

Spend(what) == budget[what] > 0 /\ budget' = [budget EXCEPT ![what] = @ - 1]

daemon == <<stored, routes, progress>>
workers == <<loads, refreshes, sends, replies>>
memory == <<entries, history, loaded>>

----------------------------------------------------------------------------
(* The daemon, as far as the terminal can tell.                              *)

Post(event) == stream' = Append(stream, event)

Store(item) ==
  /\ stored' = stored \cup {item} /\ routes' = routes \cup {item[2]}
  /\ Post([type |-> "message", item |-> item])

Arrive(m) ==
  /\ \A item \in stored : item[1] # m
  /\ Spend("request") /\ Store(<<m, ConversationOf[m]>>)
  /\ UNCHANGED <<progress, current, view, listed, memory, told, workers>>

\* A traceroute gets its answer, or times out.
Finish(a) ==
  /\ progress[a] = "started"
  /\ progress' = [progress EXCEPT ![a] = "ended"]
  /\ Post([type |-> "action", action |-> a, status |-> "ended"])
  /\ UNCHANGED <<stored, routes, current, view, listed, memory, told, workers, budget>>

\* A cleanup of the history.
Clear ==
  /\ Spend("mishap") /\ stored' = {} /\ Post([type |-> "history_changed"])
  /\ UNCHANGED <<routes, progress, current, view, listed, memory, told, workers>>

\* The event stream breaks, and is opened again after two seconds (_watch_worker).
Gap ==
  /\ stream # <<>> /\ Spend("mishap") /\ stream' = <<>>
  /\ UNCHANGED <<daemon, current, view, listed, memory, told, workers>>

----------------------------------------------------------------------------
(* Selecting a conversation, and its worker.                                 *)

\* Mutant: a worker that is running is not joined by another.
LoadingAlone(conv) == IF loads # {} THEN loads ELSE {Asking(conv)}
\* select_conversation: the screen keeps what it shows until the worker has its answer.
Loading(conv) == loads \cup {Asking(conv)}

Select(conv) ==
  /\ conv \in listed /\ conv # current /\ Spend("select")
  /\ current' = conv /\ loads' = Loading(conv) /\ told' = told \ {conv}
  /\ UNCHANGED <<daemon, stream, view, listed, memory, refreshes, sends, replies>>

\* _open_node_dm: the conversation is listed before it has a message.
OpenDirect(conv) ==
  /\ conv # Public /\ conv # current /\ Spend("select")
  /\ current' = conv /\ listed' = listed \cup {conv} /\ told' = told \ {conv}
  /\ loads' = Loading(conv)
  /\ refreshes' = refreshes \cup {AskingLists(None, conv)}
  /\ UNCHANGED <<daemon, stream, view, memory, sends, replies>>

\* The requests of _conversation_worker: messages, then node_actions of a direct message.
Answer(w) ==
  /\ w.step # "actions"
  /\ loads' = (loads \ {w}) \cup
       {IF w.step = "asking"
        THEN [w EXCEPT !.step = IF w.conv = Public THEN "actions" ELSE "messages",
                       !.items = {item \in stored : item[2] = w.conv}]
        ELSE [w EXCEPT !.step = "actions",
                       !.actions = [a \in Action |-> IF PeerOf[a] = w.conv THEN progress[a]
                                                                          ELSE None]]}
  /\ UNCHANGED <<daemon, stream, current, view, listed, memory, told, refreshes, sends,
                 replies, budget>>

LoadFails(w) ==
  /\ Spend("mishap") /\ loads' = loads \ {w} /\ told' = told \cup {w.conv}
  /\ UNCHANGED <<daemon, stream, current, view, listed, memory, refreshes, sends, replies>>

\* Mutant: the last word is believed.
NewerLast(old, new) == IF new = None THEN old ELSE new
\* A traceroute that has ended is not started again by a late answer.
Newer(old, new) ==
  IF new = None \/ (old # None /\ Rank(old) > Rank(new)) THEN old ELSE new

\* Mutant: the texts of the daemon replace those typed meanwhile.
RememberedOnly(conv, items) ==
  [history EXCEPT ![conv] = {i[1] : i \in {j \in items : j[1] \in Text}}]
\* Texts of the daemon, and those typed before they were there.
Remembered(conv, items) ==
  IF conv \in loaded THEN history
  ELSE [history EXCEPT ![conv] = @ \cup {i[1] : i \in {j \in items : j[1] \in Text}}]

\* Mutant: an answer is shown whatever is selected now.
WantedAlways(conv) == TRUE
Wanted(conv) == conv = current

\* _show_conversation.
Show(w) ==
  /\ w.step = "actions" /\ loads' = loads \ {w}
  /\ IF Wanted(w.conv)
     THEN /\ view' = w.items
          /\ history' = Remembered(w.conv, w.items) /\ loaded' = loaded \cup {w.conv}
          /\ entries' = [a \in Action |-> Newer(entries[a], w.actions[a])]
     ELSE UNCHANGED <<view, memory>>
  /\ UNCHANGED <<daemon, stream, current, listed, told, refreshes, sends, replies, budget>>

----------------------------------------------------------------------------
(* The lists.                                                                *)

Refreshing == refreshes \cup {AskingLists(None, None)}

\* _unarchive_and_refresh_worker: the daemon lists a closed conversation again.
Unarchived(r) == routes \cup {c \in {r.opening} : \E item \in stored : item[2] = c}

\* _refresh_lists_worker; an error is ignored.
AskLists(r) ==
  /\ r.step = "asking" /\ routes' = Unarchived(r)
  /\ \/ /\ refreshes' = (refreshes \ {r}) \cup {[r EXCEPT !.step = "answered", !.routes = routes',
                                                !.opening = None]}
        /\ UNCHANGED budget
     \/ Spend("mishap") /\ refreshes' = refreshes \ {r}
  /\ UNCHANGED <<stored, progress, stream, current, view, listed, memory, told, loads, sends, replies>>

\* _with_public keeps the selected conversation in the list.
ListedWith(answer) == answer \cup {Public, current}

Lists(r) ==
  /\ r.step = "answered" /\ r.closing = None /\ refreshes' = refreshes \ {r}
  /\ listed' = ListedWith(r.routes)
  /\ UNCHANGED <<daemon, stream, current, view, memory, told, loads, sends, replies, budget>>

\* _archive_conversation_worker: the conversation is closed, then the lists are asked for.
Close(conv) ==
  /\ conv \in routes \ {Public} /\ Spend("select") /\ routes' = routes \ {conv}
  /\ refreshes' = refreshes \cup {AskingLists(conv, None)}
  /\ UNCHANGED <<stored, progress, stream, current, view, listed, memory, told, loads, sends,
                 replies>>

\* _finish_archive.
Closed(r) ==
  /\ r.step = "answered" /\ r.closing # None /\ refreshes' = refreshes \ {r}
  /\ current' = IF current = r.closing THEN Public ELSE current
  /\ listed' = r.routes \cup {Public, current'}
  /\ loads' = loads \cup {Asking(current')}
  /\ UNCHANGED <<daemon, stream, view, memory, told, sends, replies, budget>>

----------------------------------------------------------------------------
(* Sending, and traceroutes.                                                 *)

\* message_submitted.
Submit(t) ==
  /\ Spend("request")
  /\ history' = [history EXCEPT ![current] = @ \cup {t}]
  /\ sends' = sends \cup {<<t, current>>}
  /\ UNCHANGED <<daemon, stream, current, view, listed, entries, loaded, told, loads,
                 refreshes, replies>>

\* Mutant: the conversation that is selected when the worker starts.
RouteOfNow(s) == <<s[1], current>>
\* _send_worker: the conversation in which the text was typed.
RouteOf(s) == s

Send(s) ==
  /\ sends' = sends \ {s}
  /\ \/ /\ RouteOf(s)[2] \in listed /\ Store(RouteOf(s))
        /\ UNCHANGED <<told, budget>>
     \/ /\ RouteOf(s)[2] \notin listed /\ told' = told \cup {s[1]}
        /\ UNCHANGED <<stored, routes, stream, budget>>
     \/ /\ Spend("mishap") /\ told' = told \cup {s[1]}
        /\ UNCHANGED <<stored, routes, stream>>
  /\ UNCHANGED <<progress, current, view, listed, memory, loads, refreshes, replies>>

\* _start_node_action_worker: the daemon announces the start, and says it in its reply.
Trace(a) ==
  /\ progress[a] = None /\ Spend("request")
  /\ progress' = [progress EXCEPT ![a] = "started"]
  /\ Post([type |-> "action", action |-> a, status |-> "started"])
  /\ replies' = replies \cup {a}
  /\ UNCHANGED <<stored, routes, current, view, listed, memory, told, loads, refreshes, sends>>

\* _handle_node_action.
HandleAction(a, status) ==
  LET new == Newer(entries[a], status)
  IN /\ entries' = [entries EXCEPT ![a] = new]
     /\ loads' = IF new # entries[a] /\ PeerOf[a] = current THEN Loading(current) ELSE loads

Reply(a) ==
  /\ a \in replies /\ replies' = replies \ {a}
  /\ HandleAction(a, "started")
  /\ UNCHANGED <<daemon, stream, current, view, listed, history, loaded, told, refreshes,
                 sends, budget>>

----------------------------------------------------------------------------
(* live_event.                                                               *)

LiveMessage(e) ==
  /\ e.type = "message"
  /\ view' = IF e.item[2] = current THEN view \cup {e.item} ELSE view
  /\ refreshes' = Refreshing
  /\ UNCHANGED <<memory, loads>>

LiveAction(e) ==
  /\ e.type = "action" /\ HandleAction(e.action, e.status)
  /\ UNCHANGED <<view, history, loaded, refreshes>>

\* history_changed.
LiveHistory(e) ==
  /\ e.type = "history_changed"
  /\ history' = [c \in Conversation |-> {}] /\ loaded' = {}
  /\ entries' = [a \in Action |-> IF entries[a] = "ended" THEN None ELSE entries[a]]
  /\ refreshes' = Refreshing /\ loads' = Loading(current)
  /\ UNCHANGED view

LiveEvent ==
  /\ stream # <<>> /\ stream' = Tail(stream)
  /\ LiveMessage(Head(stream)) \/ LiveAction(Head(stream)) \/ LiveHistory(Head(stream))
  /\ UNCHANGED <<daemon, current, listed, told, sends, replies, budget>>

----------------------------------------------------------------------------
Work ==
  \/ \E w \in loads : Answer(w) \/ Show(w)
  \/ \E r \in refreshes : AskLists(r) \/ Lists(r) \/ Closed(r)
  \/ \E s \in sends : Send(s)
  \/ \E a \in Action : Reply(a)
  \/ LiveEvent

User ==
  \/ \E c \in Conversation : Select(c) \/ OpenDirect(c) \/ Close(c)
  \/ \E t \in Text : Submit(t)
  \/ \E a \in Action : Trace(a)

Next ==
  \/ Work \/ User \/ Gap \/ Clear
  \/ \E w \in loads : LoadFails(w)
  \/ \E m \in Message : Arrive(m)
  \/ \E a \in Action : Finish(a)

Spec == Init /\ [][Next]_vars
\* Workers get an answer or an error, and the drawing thread handles what it is given.
FairSpec == Spec /\ WF_vars(Work)

----------------------------------------------------------------------------
\* The selected conversation is loaded in the end, or the user is told that it cannot be.
Loaded == loads = {} /\ current \in told \cup loaded
SelectionIsLoaded == []<>Loaded

\* A message that is stored in the selected conversation is shown there: README.md:513-514.
NewMessagesAreShown ==
  \A item \in Item :
    (item \in stored /\ item[2] = current)
      ~> (item \in view \/ item \notin stored \/ item[2] # current \/ current \in told)
==============================================================================
