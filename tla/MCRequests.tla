----------------------------- MODULE MCRequests -----------------------------
(* An instance for TLC of three kinds of requests of the daemon's clients:      *)
(* cleaning up a gateway's history, the operations of web.py, and reading       *)
(* conversations.  They share no variable, so a behaviour is about one of them, *)
(* its part, and the others keep their initial values: one run checks each as a *)
(* run of its own would.                                                        *)
EXTENDS Requests

CONSTANTS
  MaxPreviews, MaxSnapshot, MaxBatch, MaxRows, MaxPolicies, MaxSwitches,
  Arrivals,                                                         \* GatewayHistory
  first, second, \* two gateways, which also name the threads of WebOperations
  MaxSteps,      \* bound: rows, previews, policies and changes of gateway together
  Reader, Conversation, Home, MaxMessages, MaxSelects, MaxErrors,
  MaxWorkers                                                        \* ReadMarks

\* Traceroutes of one gateway, whose rowids are used again, and sent messages of the other,
\* which is selected at first.
ArrivingRows == {<<"actions", TRUE, first>>, <<"messages", TRUE, second>>}

VARIABLES
  part,
  selected, previews, stored, minted, changes, switches,
  filed, read, published, taken, current, unread, workers, selects, errors

historyVars == <<rows, policy, selected, previews, serving, keeper, stored, minted, ran,
                 changes, switches>>
readVars == <<filed, read, published, taken, current, unread, workers, selects, errors>>
everything == <<part, historyVars, vars, readVars>>

H == INSTANCE GatewayHistory
R == INSTANCE ReadMarks

InitPart ==
  /\ part \in {"history", "operations", "reading"}
  /\ H!Init /\ Init /\ R!Init
  /\ selected = second
  /\ part # "history" => ~policy[first].review

OnlyHistory == UNCHANGED <<part, vars, readVars>>
OnlyOperations == UNCHANGED <<part, historyVars, readVars>>
OnlyReading == UNCHANGED <<part, historyVars, vars>>

NextPart ==
  \/ /\ part = "history" /\ H!Next /\ OnlyHistory
     /\ stored' + minted' + changes' + switches' <= MaxSteps
  \/ part = "operations" /\ Next /\ OnlyOperations
  \/ part = "reading" /\ R!Next /\ OnlyReading

\* What GatewayHistory, WebOperations and ReadMarks assume in their FairSpec.
Fairness ==
  /\ WF_everything(part = "history" /\ (H!KeeperPreviews \/ H!KeeperCleans) /\ OnlyHistory)
  /\ \A i \in Gateway :
       /\ WF_everything(part = "operations" /\ (Execute(i) \/ Record(i) \/ Wake(i))
                        /\ OnlyOperations)
       /\ SF_everything(
            \/ part = "history" /\ H!KeeperReads(i) /\ OnlyHistory
            \/ part = "operations" /\ Lock(i) /\ OnlyOperations)
  /\ WF_everything(part = "reading" /\ R!Work /\ OnlyReading)

SpecPart == InitPart /\ [][NextPart]_everything /\ Fairness

-----------------------------------------------------------------------------
(* The components' properties, where they are stated and explained;           *)
(* ExecutedOnce, OnlyWhatWasShown and PolicyInForce are those of Requests.    *)

TypesOK ==
  /\ part = "history" => H!TypeOK /\ H!PreviewsBounded
  /\ part = "operations" => TypeOK /\ ResultsBounded
  /\ part = "reading" => R!TypeOK

RequestsEnd == H!OldHistoryGoes /\ EveryoneIsAnswered /\ R!VisibleBecomesRead
=============================================================================
