------------------------------ MODULE MCActions ------------------------------
(* An instance of NodeActions for TLC.  A behaviour is about one of two things,  *)
(* its part: traceroutes, with every loss, switch and restart, which must end;   *)
(* and exchanges of positions that race while SQLite may fail, with the losses   *)
(* that the SDK reports.  The actions of the other kind are never started.       *)
EXTENDS NodeActions

VARIABLE part

everything == <<part, vars>>

OnlyTraceroutes == part = "traceroutes" /\ table' \subseteq Traceroute /\ UNCHANGED part
OnlyPositions ==
  /\ part = "positions" /\ table' \cap Traceroute = {} /\ restarts' = 0
  /\ \A t \in Breaker : t[1] # "lost" => at'[t] = Idle
  /\ UNCHANGED part

InitPart == Init /\ part \in {"traceroutes", "positions"}
NextPart == Next /\ (OnlyTraceroutes \/ OnlyPositions)

\* What NodeActions assumes in its FairSpec, of the traceroutes.
FairPart ==
  /\ \A a \in Traceroute :
       /\ WF_everything(Starting(a) /\ OnlyTraceroutes)
       /\ WF_everything(Timeout(a) /\ OnlyTraceroutes)
  /\ \A t \in Thread :
       /\ WF_everything(Ending(t) /\ OnlyTraceroutes)
       /\ WF_everything(Breaking(t) /\ OnlyTraceroutes)

SpecPart == InitPart /\ [][NextPart]_everything /\ FairPart
=============================================================================
