-------------------------------- MODULE Screens --------------------------------
(* What the terminal shows and remembers, and what must be true of it although    *)
(* answers and events come late; Terminal says how they come.                     *)
EXTENDS Sequences

CONSTANTS
  Conversation,
  Text,      \* texts the user types
  Action     \* traceroutes

VARIABLES
  stored,    \* the daemon: messages and texts, each with its conversation
  stream,    \* events on their way to the terminal
  current,   \* current_conversation
  view,      \* _visible_timeline
  entries,   \* node_action_entries
  history,   \* _message_history and _pending_message_history, together by conversation
  loads,     \* conversation workers
  sends,     \* send workers
  told       \* errors shown: texts, and conversations that could not be loaded

Rank(status) == IF status = "ended" THEN 1 ELSE 0

----------------------------------------------------------------------------
\* Once no worker is under way and none has failed, the screen shows messages of the
\* selected conversation only, in whatever order the answers came (_show_conversation).
SettledViewIsCurrent ==
  loads = {} /\ current \notin told => \A item \in view : item[2] = current

\* A text is only ever sent in the conversation in which it was typed, although another one
\* is selected before its worker runs (message_submitted, _send_worker).
SentWhereTyped ==
  [][\A item \in stored' \ stored : item[1] \in Text => item \in sends]_<<stored, sends>>

NothingForgotten == \A c \in Conversation : history[c] \subseteq history'[c]
CleanedUp == stream' # stream /\ Head(stream).type = "history_changed"

\* What was typed is remembered until the history is cleaned up, although it was typed while
\* the texts of its conversation were being loaded: README.md:560-561 (message_submitted,
\* _show_conversation).
TypedIsRemembered == [][NothingForgotten \/ CleanedUp]_<<history, stream>>

\* An ended traceroute is not shown as running by an answer that comes late.
EndedStaysEnded ==
  [][\A a \in Action : Rank(entries[a]) = 1 => entries'[a] # "started"]_entries

\* Answers and events that come late, after the user has gone on, change nothing else.
LateIsHarmless == SentWhereTyped /\ TypedIsRemembered /\ EndedStaysEnded
==============================================================================
