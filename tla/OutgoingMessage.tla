--------------------------- MODULE OutgoingMessage ---------------------------
(***************************************************************************)
(* What MeshPi promises about the text messages it is asked to send,       *)
(* independent of threads, locks, callbacks and restarts.  Every message   *)
(* has an automaton of its own: a durable record exists before the radio   *)
(* is used, the radio is used at most once, the status only climbs         *)
(* towards "levert" and only on a report that the mesh really made, and a  *)
(* record whose fate is still open leaves the database only when the user  *)
(* clears the whole scope it belongs to.                                   *)
(*                                                                         *)
(* MessageDelivery implements this module; see its refinement mapping.     *)
(***************************************************************************)
EXTENDS Naturals

CONSTANTS
  Message,   \* the send requests
  Dm         \* those addressed to one node, which ask for an ACK

VARIABLES
  state,          \* Message -> the status of the message's durable record
  transmissions,  \* Message -> how often sendText was entered for it
  heard           \* Message -> the delivery reports the mesh has made on it

vars == <<state, transmissions, heard>>

\* MessageStatus of models.py: the statuses a delivery report can lead to.
Report == {"ACK", "feila", "levert"}

\* The order update_message_status enforces through its allowed statuses.
Rank(s) == CASE s = "sendt"  -> 1
             [] s = "ACK"    -> 2
             [] s = "feila"  -> 3
             [] s = "levert" -> 4
             [] OTHER        -> 0

Recorded == {"uviss", "sendt"} \cup Report

\* An outgoing record that the retention limit has to leave alone.
Open(m, s) == s = "uviss" \/ (s = "sendt" /\ m \in Dm)

\* The scopes of delete_messages: dm, public and all.
Scopes == {Dm, Message \ Dm, Message}

Init ==
  /\ state = [m \in Message |-> "unsent"]
  /\ transmissions = [m \in Message |-> 0]
  /\ heard = [m \in Message |-> {}]

Moves(m) ==
  \/ state'[m] = state[m]
  \/ state[m] = "unsent" /\ state'[m] = "uviss"
  \/ state[m] = "uviss" /\ state'[m] = "sendt" /\ transmissions[m] = 1
  \/ /\ state[m] \in {"sendt", "ACK", "feila"}
     /\ state'[m] \in heard[m]
     /\ Rank(state[m]) < Rank(state'[m])
  \/ /\ state[m] \in Recorded
     /\ ~ Open(m, state[m])
     /\ state'[m] = "gone"

Transmits(m) ==
  \/ transmissions'[m] = transmissions[m]
  \/ /\ state[m] \in {"uviss", "gone"}
     /\ transmissions[m] = 0
     /\ transmissions'[m] = 1

Hears(m) ==
  /\ heard[m] \subseteq heard'[m]
  /\ heard'[m] # heard[m] => transmissions[m] = 1 /\ m \in Dm

Purge(scope) ==
  /\ state' = [m \in Message |->
                 IF m \in scope /\ state[m] \in Recorded THEN "gone" ELSE state[m]]
  /\ UNCHANGED <<transmissions, heard>>

Next ==
  \/ /\ DOMAIN state' = Message
     /\ \A m \in Message : Moves(m) /\ Transmits(m) /\ Hears(m)
  \/ \E scope \in Scopes : Purge(scope)

Spec == Init /\ [][Next]_vars
=============================================================================
