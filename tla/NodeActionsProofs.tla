--------------------------- MODULE NodeActionsProofs ---------------------------
(***************************************************************************)
(* Proofs about NodeActions, for every set of actions and every bound.     *)
(***************************************************************************)
EXTENDS NodeActions, TLAPS, FiniteSetTheorems

\* The timer of a pending action is registered from before it starts until the
\* action is finished: without it Arm could start a timer that nobody cancels.
TimersKnown == \A a \in Action : timer[a] \in {"set", "running"} => a \in timers

\* The inductive invariant.
Inv == TypeOK /\ TimersArePending /\ TimersKnown

ThreadState == [step : Steps, action : Action \cup {NoAction}, outcome : Final,
                snapshot : Dict, pending : SUBSET Action]

\* A thread that finishes an action has one, and stores how it ended.
Fits(s) ==
  /\ s.step \in {"finish", "store", "publish"} => s.action \in Action
  /\ s.step \in {"store", "publish"} => s.snapshot.status \in Final

ThreadsFit == \A t \in Thread : Fits(at[t])

\* What the threads do to everything but themselves.
SharedOK ==
  /\ action \in [Action -> Dict] /\ rows \in [Action -> Dict]
  /\ table \subseteq Action /\ timers \subseteq table /\ waiting \subseteq Action
  /\ born \in [Action -> Nat]
  /\ timer \in [Action -> {"none", "set", "running", "over"}]
  /\ cooling \in [Kind -> BOOLEAN]
  /\ link \in 0..MaxLinks /\ sentOn \in [Action -> 0..MaxLinks]
  /\ announced \in [Action -> {"none", "started"} \cup Final]
  /\ recent \subseteq Action
  /\ restarts \in 0..MaxRestarts
  /\ TimersArePending
  /\ TimersKnown

\* An action takes one thread from its state to another that fits.
ThreadMoves ==
  \E t \in Thread, s \in ThreadState : Fits(s) /\ at' = [at EXCEPT ![t] = s]

-----------------------------------------------------------------------------
(* Lemmas *)

\* The invariant is what holds of the threads and of all the rest.
LEMMA Parts == Inv <=> SharedOK /\ at \in [Thread -> ThreadState] /\ ThreadsFit
BY DEF Inv, SharedOK, ThreadsFit, Fits, ThreadState, TypeOK, TimersArePending, Started

LEMMA PartsNext == Inv' <=> (SharedOK /\ at \in [Thread -> ThreadState] /\ ThreadsFit)'
BY Parts, PTL

\* A step that moves one thread and keeps all the rest in order keeps Inv.
LEMMA OneThreadMoves ==
  ASSUME Inv, ThreadMoves, SharedOK'
  PROVE  Inv'
<1>1. PICK t \in Thread, s \in ThreadState : Fits(s) /\ at' = [at EXCEPT ![t] = s]
  BY DEF ThreadMoves
<1>2. at \in [Thread -> ThreadState] /\ ThreadsFit
  BY Parts
<1>3. at' \in [Thread -> ThreadState]
  BY <1>1, <1>2
<1>4. ThreadsFit'
  BY <1>1, <1>2 DEF ThreadsFit
<1> QED
  BY <1>3, <1>4, PartsNext

\* The threads that the actions of the model name.
LEMMA NamedThreads ==
  /\ \A a \in Action : Starter(a) \in Thread /\ Timer(a) \in Thread
  /\ Reader \in Thread /\ Worker \in Thread /\ Worker \in Breaker
  /\ Breaker \subseteq Thread
BY DEF Starter, Timer, Reader, Worker, Thread, Breaker

\* A thread's state is replaced by another.
LEMMA BecomeMoves ==
  ASSUME NEW t \in Thread, NEW s \in ThreadState, Fits(s), at' = [at EXCEPT ![t] = s]
  PROVE  ThreadMoves
BY DEF ThreadMoves

\* A thread goes to a step at which it need not have an action, or on from "store".
LEMMA StepMoves ==
  ASSUME Inv, NEW t \in Thread, NEW step \in Steps,
         step \notin {"finish", "store", "publish"} \/ at[t].step = "store",
         at' = Step(t, step)
  PROVE  ThreadMoves
<1> DEFINE s == [at[t] EXCEPT !.step = step]
<1>1. at[t] \in ThreadState /\ Fits(at[t])
  BY Parts DEF ThreadsFit
<1>2. s \in ThreadState /\ Fits(s)
  BY <1>1 DEF ThreadState, Fits
<1>3. at' = [at EXCEPT ![t] = s]
  BY DEF Step
<1> QED
  BY <1>2, <1>3, BecomeMoves

\* A thread calls _finish_node_action.
LEMMA FinishesMoves ==
  ASSUME Inv, NEW t \in Thread, NEW a \in Action, NEW outcome \in Final,
         at' = Finishes(t, a, outcome)
  PROVE  ThreadMoves
<1> DEFINE s == [at[t] EXCEPT !.step = "finish", !.action = a, !.outcome = outcome]
<1>1. at[t] \in ThreadState
  BY Parts
<1>2. s \in ThreadState /\ Fits(s)
  BY <1>1 DEF ThreadState, Fits, Steps
<1>3. at' = [at EXCEPT ![t] = s]
  BY DEF Finishes
<1> QED
  BY <1>2, <1>3, BecomeMoves

\* A thread that is idle has a thread's state.
LEMMA IdleType ==
  ASSUME NEW step \in Steps
  PROVE  [Idle EXCEPT !.step = step] \in ThreadState /\ Idle \in ThreadState
BY DEF Idle, ThreadState, Steps, Final, Dict, Unknown

\* A thread returns from _finish_node_action.
LEMMA LeavesMoves ==
  ASSUME Inv, NEW t \in Thread, at' = Leaves(t)
  PROVE  ThreadMoves
<1>1. at[t] \in ThreadState
  BY Parts
<1>2. Unknown \in Dict
  BY DEF Unknown, Dict
<1>3. CASE t \in Breaker
  <2> DEFINE s == [Idle EXCEPT !.step = "failing", !.pending = at[t].pending]
  <2>1. s \in ThreadState /\ Fits(s)
    BY <1>1, <1>2 DEF ThreadState, Idle, Steps, Final, Fits
  <2>2. t[1] # "starter"
    BY <1>3 DEF Breaker
  <2>3. at' = [at EXCEPT ![t] = s]
    BY <1>3, <2>2 DEF Leaves
  <2> QED BY <2>1, <2>3, BecomeMoves
<1>4. CASE t \notin Breaker /\ t[1] = "starter"
  <2> DEFINE s == [at[t] EXCEPT !.step = "returned", !.snapshot = Unknown]
  <2>1. s \in ThreadState /\ Fits(s)
    BY <1>1, <1>2 DEF ThreadState, Steps, Fits
  <2>2. at' = [at EXCEPT ![t] = s]
    BY <1>4 DEF Leaves
  <2> QED BY <2>1, <2>2, BecomeMoves
<1>5. CASE t \notin Breaker /\ t[1] # "starter"
  <2>1. Idle \in ThreadState /\ Fits(Idle)
    BY <1>2 DEF ThreadState, Idle, Steps, Final, Fits
  <2>2. at' = [at EXCEPT ![t] = Idle]
    BY <1>5 DEF Leaves
  <2> QED BY <2>1, <2>2, BecomeMoves
<1> QED
  BY <1>3, <1>4, <1>5

\* Eviction leaves the pending actions where they are.
LEMMA TrimmedKeeps ==
  ASSUME NEW kept \in SUBSET Action
  PROVE  /\ Trimmed(kept) \subseteq kept
         /\ \A a \in kept : action[a].status \notin Final => a \in Trimmed(kept)
BY DEF Trimmed

-----------------------------------------------------------------------------
(* The actions of the model *)

\* A new action is pending, and no pending action is evicted for it.
LEMMA StartInv == ASSUME Inv, NEW a \in Action, Start(a) PROVE Inv'
<1>1. at[Starter(a)] \in ThreadState /\ Starter(a) \in Thread
  BY NamedThreads, Parts
<1>2. ThreadMoves
  <2> DEFINE s == [at[Starter(a)] EXCEPT !.step = "read", !.action = a]
  <2>1. s \in ThreadState /\ Fits(s)
    BY <1>1 DEF ThreadState, Steps, Fits
  <2>2. at' = [at EXCEPT ![Starter(a)] = s]
    BY <1>1, Parts DEF Start
  <2> QED BY <1>1, <2>1, <2>2, BecomeMoves
<1>3. New \in Dict
  BY DEF New, Dict
<1>4. born' \in [Action -> Nat]
  <2>1. {b \in Action : born[b] # 0} \subseteq Action
    OBVIOUS
  <2>2. Cardinality({b \in Action : born[b] # 0}) \in Nat
    BY <2>1, ActionAssumption, FS_Subset, FS_CardinalityType
  <2> QED BY <2>2 DEF Start, Inv, TypeOK
<1>5. /\ table' \subseteq Action
      /\ \A b \in table : action[b].status = "started" => b \in table'
      /\ a \in table'
  <2>1. table \cup {a} \subseteq Action
    BY DEF Inv, TypeOK
  <2> QED BY <2>1, TrimmedKeeps DEF Start, Final
<1>6. timers' \subseteq table' /\ TimersArePending' /\ TimersKnown'
  <2>1. timers' = timers /\ timer' = timer /\ timers \subseteq Started
    BY DEF Start, Inv, TimersArePending
  <2>2. \A b \in Started : b \in table' /\ action'[b].status = "started"
    BY <1>5 DEF Started, Start, New, Inv, TypeOK
  <2> QED BY <2>1, <2>2 DEF TimersArePending, TimersKnown, Started, Inv
<1>7. SharedOK'
  BY <1>3, <1>4, <1>5, <1>6 DEF Start, Inv, TypeOK, SharedOK, observed, Kind
<1> QED BY <1>2, <1>7, OneThreadMoves

\* The first upsert and the entry of sendData change no status.
LEMMA WriteInv ==
  ASSUME Inv, NEW a \in Action, ReadDict(a) \/ WriteDict(a) \/ Send(a) \/ Arm(a)
  PROVE  Inv'
<1> DEFINE t == Starter(a)
<1>1. at[t] \in ThreadState /\ t \in Thread /\ at \in [Thread -> ThreadState]
  BY NamedThreads, Parts
<1>2. CASE ReadDict(a)
  <2> DEFINE s == [at[t] EXCEPT !.step = "write", !.snapshot = action[a]]
  <2>1. s \in ThreadState /\ Fits(s)
    BY <1>1 DEF ThreadState, Steps, Fits, Inv, TypeOK
  <2>2. at' = [at EXCEPT ![t] = s]
    BY <1>1, <1>2 DEF ReadDict
  <2>3. ThreadMoves
    BY <1>1, <2>1, <2>2, BecomeMoves
  <2>4. SharedOK'
    BY <1>2, Parts DEF ReadDict, SharedOK, memory, radio, observed, TimersArePending,
       TimersKnown, Started
  <2> QED BY <2>3, <2>4, OneThreadMoves
<1>3. CASE WriteDict(a)
  <2> DEFINE s == [at[t] EXCEPT !.step = "send", !.snapshot = Unknown]
  <2>1. s \in ThreadState /\ Fits(s)
    BY <1>1 DEF ThreadState, Steps, Fits, Unknown, Dict
  <2>2. at' = [at EXCEPT ![t] = s]
    BY <1>1, <1>3 DEF WriteDict
  <2>3. ThreadMoves
    BY <1>1, <2>1, <2>2, BecomeMoves
  <2>4. at[t].snapshot \in Dict
    BY <1>1 DEF ThreadState
  <2>5. SharedOK'
    BY <1>3, <2>4, Parts DEF WriteDict, SharedOK, memory, radio, observed,
       TimersArePending, TimersKnown, Started
  <2> QED BY <2>3, <2>5, OneThreadMoves
<1>4. CASE Send(a)
  <2>1. ThreadMoves
    BY <1>1, <1>4, StepMoves DEF Send, Steps
  <2>2. SharedOK'
    BY <1>4, Parts DEF Send, SharedOK, memory, TimersArePending, TimersKnown, Started
  <2> QED BY <2>1, <2>2, OneThreadMoves
<1>5. CASE Arm(a)
  <2>1. ThreadMoves
    BY <1>1, <1>5, StepMoves DEF Arm, Steps
  <2>2. timer' \in [Action -> {"none", "set", "running", "over"}]
    BY <1>5 DEF Arm, Inv, TypeOK
  <2>3. TimersArePending' /\ TimersKnown'
    BY <1>5 DEF Arm, Inv, TypeOK, TimersArePending, TimersKnown, Started
  <2>4. SharedOK'
    BY <1>5, <2>2, <2>3, Parts DEF Arm, SharedOK, radio, observed
  <2> QED BY <2>1, <2>4, OneThreadMoves
<1> QED BY <1>2, <1>3, <1>4, <1>5

\* A send that raises takes a position's cooldown back and fails the action.
LEMMA SendRaisesInv == ASSUME Inv, NEW a \in Action, SendRaises(a) PROVE Inv'
<1>1. ThreadMoves
  BY NamedThreads, FinishesMoves DEF SendRaises, Final
<1>2. cooling' \in [Kind -> BOOLEAN] /\ recent' \subseteq Action
  BY DEF SendRaises, Inv, TypeOK, Kind
<1>3. SharedOK'
  BY <1>2, Parts DEF SendRaises, SharedOK, radio, TimersArePending, TimersKnown, Started
<1> QED BY <1>1, <1>3, OneThreadMoves

\* After sendData a timer is registered for a pending action only.
LEMMA SettleInv == ASSUME Inv, NEW a \in Action, Settle(a) PROVE Inv'
<1> DEFINE pending == a \in table /\ action[a].status = "started"
           current == [action[a] EXCEPT !.packet = TRUE]
<1>1. ThreadMoves
  BY NamedThreads, StepMoves DEF Settle, Steps
<1>2. current \in Dict /\ current.status = action[a].status
  <2>1. action[a] \in Dict
    BY DEF Inv, TypeOK
  <2> QED BY <2>1 DEF Dict
<1>3. action' = [action EXCEPT ![a] = IF a \in table THEN current ELSE @]
  BY DEF Settle
<1>4. /\ action' \in [Action -> Dict]
      /\ \A b \in Action : action'[b].status = action[b].status
  <2> HIDE DEF current
  <2> QED BY <1>2, <1>3 DEF Inv, TypeOK
<1>5. rows' \in [Action -> Dict] /\ announced' \in [Action -> {"none", "started"} \cup Final]
  <2>1. rows' = [rows EXCEPT ![a] = action'[a]] \/ rows' = rows
    BY DEF Settle
  <2>2. announced' = [announced EXCEPT ![a] = "started"] \/ announced' = announced
    BY DEF Settle
  <2> QED BY <1>4, <2>1, <2>2 DEF Inv, TypeOK
<1>6. cooling' \in [Kind -> BOOLEAN]
  BY DEF Settle, Inv, TypeOK, Kind
<1>7. /\ timers' = IF pending THEN timers \cup {a} ELSE timers
      /\ timer' = IF pending THEN [timer EXCEPT ![a] = "set"] ELSE timer
      /\ table' = table
  BY DEF Settle
<1>8. /\ timers' \subseteq table' /\ timer' \in [Action -> {"none", "set", "running", "over"}]
      /\ TimersArePending' /\ TimersKnown'
  <2>1. Started' = Started
    <3> HIDE DEF pending, current
    <3> QED BY <1>4, <1>7 DEF Started, Inv, TypeOK
  <2>2. pending => a \in Started
    BY DEF Started
  <2>3. CASE pending
    <3>1. timers' = timers \cup {a} /\ timer' = [timer EXCEPT ![a] = "set"] /\ a \in table
      BY <1>7, <2>3
    <3>2. timers' \subseteq table' /\ timer' \in [Action -> {"none", "set", "running", "over"}]
      BY <1>7, <3>1 DEF Inv, TypeOK
    <3>3. TimersArePending' /\ TimersKnown'
      BY <2>1, <2>2, <2>3, <3>1 DEF TimersArePending, TimersKnown, Inv, TypeOK
    <3> QED BY <3>2, <3>3
  <2>4. CASE ~ pending
    <3>1. timers' = timers /\ timer' = timer
      BY <1>7, <2>4
    <3> QED BY <1>7, <2>1, <3>1 DEF TimersArePending, TimersKnown, Inv, TypeOK
  <2> QED BY <2>3, <2>4
<1>9. SharedOK'
  <2>1. UNCHANGED <<table, born, radio, recent, restarts>>
    BY DEF Settle
  <2> HIDE DEF pending, current
  <2> QED BY <1>4, <1>5, <1>6, <1>8, <2>1, Parts DEF SharedOK, radio
<1> QED BY <1>1, <1>9, OneThreadMoves

\* A pending action is finished together with its timer.
LEMMA FinishInv == ASSUME Inv, NEW t \in Thread, Finish(t) PROVE Inv'
<1> DEFINE a == at[t].action
<1>1. at[t] \in ThreadState /\ at \in [Thread -> ThreadState] /\ a \in Action
  BY Parts DEF Finish, ThreadsFit, Fits
<1>2. CASE a \notin Started
  <2>1. ThreadMoves
    BY <1>2, LeavesMoves DEF Finish
  <2>2. SharedOK'
    BY <1>2, Parts DEF Finish, SharedOK, radio, observed, TimersArePending, TimersKnown, Started
  <2> QED BY <2>1, <2>2, OneThreadMoves
<1>3. CASE a \in Started
  <2>1. /\ action' = [action EXCEPT ![a].status = at[t].outcome]
        /\ timers' = timers \ {a}
        /\ timer' = [timer EXCEPT ![a] = IF @ \in {"set", "running"} THEN "over" ELSE @]
        /\ at' = [at EXCEPT ![t].step = "store", ![t].snapshot = action'[a]]
        /\ UNCHANGED <<table, born, cooling, radio, rows, observed, restarts>>
    BY <1>3 DEF Finish
  <2>2. action' \in [Action -> Dict]
    <3> DEFINE ended == [action[a] EXCEPT !.status = at[t].outcome]
    <3>1. action[a] \in Dict /\ at[t].outcome \in Final
      BY <1>1 DEF Inv, TypeOK, ThreadState
    <3>2. ended \in Dict
      BY <3>1 DEF Dict
    <3>3. action' = [action EXCEPT ![a] = ended]
      BY <2>1
    <3> HIDE DEF ended, a
    <3> QED BY <1>1, <3>2, <3>3 DEF Inv, TypeOK
  <2>3. ThreadMoves
    <3>1. PICK snapshot \in Dict : snapshot = action'[a] /\ snapshot.status \in Final
      <4>1. action'[a].status = at[t].outcome
        BY <1>1, <2>1 DEF Inv, TypeOK, Dict
      <4> QED BY <1>1, <2>2, <4>1 DEF ThreadState
    <3> DEFINE s == [at[t] EXCEPT !.step = "store", !.snapshot = snapshot]
    <3>2. s \in ThreadState /\ Fits(s)
      BY <1>1, <3>1 DEF ThreadState, Steps, Fits
    <3>3. at' = [at EXCEPT ![t].step = "store", ![t].snapshot = snapshot]
      BY <2>1, <3>1
    <3>4. at' = [at EXCEPT ![t] = s]
      <4> HIDE DEF a
      <4> QED BY <1>1, <3>3
    <3> QED BY <3>2, <3>4, BecomeMoves
  <2>4. /\ timers' \subseteq table' /\ timer' \in [Action -> {"none", "set", "running", "over"}]
        /\ \A b \in Action : b # a => action'[b] = action[b] /\ timer'[b] = timer[b]
        /\ timer'[a] \notin {"set", "running"}
    BY <1>1, <2>1 DEF Inv, TypeOK
  <2>5. TimersArePending' /\ TimersKnown'
    <3>1. \A b \in Started : b # a => b \in Started'
      BY <2>1, <2>4 DEF Started, Inv, TypeOK
    <3> QED BY <2>1, <2>4, <3>1 DEF TimersArePending, TimersKnown, Inv
  <2>6. SharedOK'
    BY <2>1, <2>2, <2>4, <2>5, Parts DEF SharedOK, radio, observed
  <2> QED BY <2>3, <2>6, OneThreadMoves
<1> QED BY <1>2, <1>3

\* The upsert and the event after it, and SQLite raising.
LEMMA StoreInv ==
  ASSUME Inv, NEW t \in Thread, Store(t) \/ Publish(t) \/ StoreRaises(t)
  PROVE  Inv'
<1>1. at[t] \in ThreadState
  BY Parts
<1>2. CASE Store(t)
  <2>1. at[t].action \in Action /\ at[t].snapshot \in Dict
    BY <1>1, <1>2, Parts DEF Store, ThreadsFit, Fits, ThreadState
  <2>2. ThreadMoves
    BY <1>2, StepMoves DEF Store, Steps
  <2>3. SharedOK'
    BY <1>2, <2>1, Parts DEF Store, SharedOK, memory, radio, observed, TimersArePending,
       TimersKnown, Started
  <2> QED BY <2>2, <2>3, OneThreadMoves
<1>3. CASE Publish(t)
  <2>1. ThreadMoves
    BY <1>3, LeavesMoves DEF Publish
  <2>2. announced' \in [Action -> {"none", "started"} \cup Final]
    <3>1. at[t].action \in Action /\ at[t].snapshot.status \in Final
      BY <1>3, Parts DEF Publish, ThreadsFit, Fits
    <3> QED BY <1>3, <3>1 DEF Publish, Inv, TypeOK
  <2>3. SharedOK'
    BY <1>3, <2>2, Parts DEF Publish, SharedOK, memory, radio, TimersArePending,
       TimersKnown, Started
  <2> QED BY <2>1, <2>3, OneThreadMoves
<1>4. CASE StoreRaises(t)
  <2> DEFINE step == CASE t = Worker -> "dead" [] t[1] = "starter" -> "returned"
                       [] OTHER -> "idle"
             s == [Idle EXCEPT !.step = step]
  <2>1. step \in {"dead", "returned", "idle"}
    <3>1. Worker[1] # "starter"
      BY DEF Worker
    <3> QED BY <3>1
  <2>2. s \in ThreadState /\ s.step = step
    <3>1. step \in Steps
      BY <2>1 DEF Steps
    <3> HIDE DEF step
    <3> QED BY <3>1, IdleType DEF Idle
  <2>3. Fits(s)
    BY <2>1, <2>2 DEF Fits
  <2>4. at' = [at EXCEPT ![t] = s]
    BY <1>4 DEF StoreRaises
  <2>5. ThreadMoves
    BY <2>2, <2>3, <2>4, BecomeMoves
  <2>6. SharedOK'
    BY <1>4, Parts DEF StoreRaises, SharedOK, memory, radio, observed, TimersArePending,
       TimersKnown, Started
  <2> QED BY <2>5, <2>6, OneThreadMoves
<1> QED BY <1>2, <1>3, <1>4

\* An answer takes its handler away; a timeout does so too and uses up the timer.
LEMMA EndInv == ASSUME Inv, NEW a \in Action, Respond(a) \/ Timeout(a) PROVE Inv'
<1>1. CASE Respond(a)
  <2>1. PICK outcome \in Final : at' = Finishes(Reader, a, outcome)
    BY <1>1 DEF Respond, Final
  <2>2. ThreadMoves
    BY <2>1, NamedThreads, FinishesMoves
  <2>3. SharedOK'
    BY <1>1, Parts DEF Respond, SharedOK, memory, observed, TimersArePending, TimersKnown, Started
  <2> QED BY <2>2, <2>3, OneThreadMoves
<1>2. CASE Timeout(a)
  <2>1. ThreadMoves
    BY <1>2, NamedThreads, FinishesMoves DEF Timeout, Final
  <2>2. /\ timer' \in [Action -> {"none", "set", "running", "over"}]
        /\ TimersArePending' /\ TimersKnown'
    BY <1>2 DEF Timeout, Inv, TypeOK, TimersArePending, TimersKnown, Started
  <2>3. SharedOK'
    BY <1>2, <2>2, Parts DEF Timeout, SharedOK, observed
  <2> QED BY <2>1, <2>3, OneThreadMoves
<1> QED BY <1>1, <1>2

\* A cooldown passes; no thread moves.
LEMMA CooldownInv == ASSUME Inv, NEW k \in Kind, CooldownEnds(k) PROVE Inv'
<1>1. SharedOK'
  BY Parts DEF CooldownEnds, SharedOK, radio, TimersArePending, TimersKnown, Started
<1>2. (at \in [Thread -> ThreadState] /\ ThreadsFit)'
  BY Parts DEF CooldownEnds, ThreadsFit
<1> QED BY <1>1, <1>2, PartsNext

\* A thread lists what is pending, or takes the next of its list.
LEMMA BreakInv ==
  ASSUME Inv, NEW t \in Thread, List(t) \/ FailNext(t) \/ (t \in Breaker /\ Lost(t))
  PROVE  Inv'
<1>1. at[t] \in ThreadState /\ Started \subseteq Action
  BY Parts DEF Started, Inv, TypeOK
<1>2. SharedOK'
  BY Parts DEF List, FailNext, Lost, SharedOK, memory, radio, observed, TimersArePending,
     TimersKnown, Started
<1>3. CASE List(t) \/ Lost(t)
  <2> DEFINE s == [at[t] EXCEPT !.step = "failing", !.pending = Started]
  <2>1. s \in ThreadState /\ Fits(s)
    BY <1>1 DEF ThreadState, Steps, Fits
  <2>2. at' = [at EXCEPT ![t] = s]
    BY <1>3, Parts DEF List, Lost
  <2>3. ThreadMoves
    BY <2>1, <2>2, BecomeMoves
  <2> QED BY <1>2, <2>3, OneThreadMoves
<1>4. CASE FailNext(t)
  <2>1. CASE at' = Step(t, IF t = Worker THEN "take" ELSE "idle")
    <3>1. ThreadMoves
      BY <2>1, StepMoves DEF Steps
    <3> QED BY <1>2, <3>1, OneThreadMoves
  <2>2. CASE \E a \in at[t].pending :
               at' = [Finishes(t, a, "failed") EXCEPT ![t].pending = @ \ {a}]
    <3>1. PICK a \in at[t].pending :
            at' = [Finishes(t, a, "failed") EXCEPT ![t].pending = @ \ {a}]
      BY <2>2
    <3>2. a \in Action
      BY <1>1 DEF ThreadState
    <3> DEFINE s == [at[t] EXCEPT !.step = "finish", !.action = a, !.outcome = "failed",
                                  !.pending = @ \ {a}]
    <3>3. s \in ThreadState /\ Fits(s)
      BY <1>1, <3>2 DEF ThreadState, Steps, Fits, Final
    <3>4. at' = [at EXCEPT ![t] = s]
      BY <1>1, <3>1, Parts DEF Finishes
    <3>5. ThreadMoves
      BY <3>3, <3>4, BecomeMoves
    <3> QED BY <1>2, <3>5, OneThreadMoves
  <2> QED BY <1>4, <2>1, <2>2 DEF FailNext
<1> QED BY <1>3, <1>4

\* The interface is taken, or the next one published.
LEMMA LinkInv ==
  ASSUME Inv, Take \/ (\E n \in 1..MaxLinks : Connect(n)) \/ (\E t \in Breaker : Switch(t))
  PROVE  Inv'
<1>1. ThreadMoves
  BY NamedThreads, StepMoves DEF Take, Connect, Switch, Steps
<1>2. link' \in 0..MaxLinks
  BY BoundAssumption DEF Take, Connect, Switch
<1>3. SharedOK'
  BY <1>2, Parts DEF Take, Connect, Switch, SharedOK, memory, observed, TimersArePending,
     TimersKnown, Started
<1> QED BY <1>1, <1>3, OneThreadMoves

\* A restart leaves no action and no timer in memory.
LEMMA RestartInv == ASSUME Inv, Restart PROVE Inv'
<1>1. at' \in [Thread -> ThreadState] /\ ThreadsFit'
  <2>1. \A step \in {"connect", "returned", "idle"} :
          [Idle EXCEPT !.step = step] \in ThreadState /\ Fits([Idle EXCEPT !.step = step])
    BY IdleType DEF Steps, Fits, Idle
  <2>2. Idle \in ThreadState /\ Fits(Idle)
    BY IdleType DEF Steps, Fits, Idle
  <2> QED BY <2>1, <2>2 DEF Restart, ThreadsFit
<1>2. rows' \in [Action -> Dict] /\ action' \in [Action -> Dict]
  <2>1. Unknown \in Dict /\ Gone \in Dict
    BY DEF Unknown, Gone, Dict
  <2>2. \A a \in Action : [rows[a] EXCEPT !.status = "failed"] \in Dict /\ rows[a] \in Dict
    BY DEF Inv, TypeOK, Dict, Final
  <2> QED BY <2>1, <2>2 DEF Restart
<1>3. restarts' \in 0..MaxRestarts /\ link' \in 0..MaxLinks
  BY BoundAssumption DEF Restart, Inv, TypeOK
<1>4. TimersArePending' /\ TimersKnown'
  BY DEF Restart, TimersArePending, TimersKnown
<1>5. SharedOK'
  BY <1>2, <1>3, <1>4, Parts DEF Restart, SharedOK
<1> QED BY <1>1, <1>5, PartsNext

-----------------------------------------------------------------------------
(* Types and timers *)

\* The daemon starts without actions.
LEMMA InitInv == Init => Inv
<1> SUFFICES ASSUME Init PROVE Inv
  OBVIOUS
<1>1. at \in [Thread -> ThreadState] /\ ThreadsFit
  <2>1. Idle \in ThreadState /\ Fits(Idle)
    BY IdleType DEF Steps, Fits, Idle
  <2> QED BY <2>1 DEF Init, ThreadsFit
<1>2. SharedOK
  <2>1. Unknown \in Dict /\ 1 \in 0..MaxLinks /\ 0 \in 0..MaxLinks /\ 0 \in 0..MaxRestarts
    BY BoundAssumption DEF Unknown, Dict
  <2> QED BY <2>1 DEF Init, SharedOK, TimersArePending, TimersKnown
<1> QED BY <1>1, <1>2, Parts

\* Every step preserves the invariant.
LEMMA NextInv == Inv /\ [Next]_vars => Inv'
<1> SUFFICES ASSUME Inv, [Next]_vars PROVE Inv'
  OBVIOUS
<1>1. ASSUME NEW a \in Action, Start(a) \/ Starting(a) \/ Respond(a) \/ Timeout(a)
      PROVE  Inv'
  BY <1>1, StartInv, WriteInv, SendRaisesInv, SettleInv, EndInv DEF Starting
<1>2. ASSUME NEW t \in Thread, Ending(t) \/ Breaking(t) PROVE Inv'
  BY <1>2, FinishInv, StoreInv, BreakInv DEF Ending, Breaking
<1>3. ASSUME NEW t \in Breaker, Lost(t) \/ Switch(t) PROVE Inv'
  BY <1>3, NamedThreads, BreakInv, LinkInv
<1>4. ASSUME NEW k \in Kind, CooldownEnds(k) PROVE Inv'
  BY <1>4, CooldownInv
<1>5. CASE Reconnect
  BY <1>5, LinkInv DEF Reconnect
<1>6. CASE Restart
  BY <1>6, RestartInv
<1>7. CASE UNCHANGED vars
  <2>1. (SharedOK /\ at \in [Thread -> ThreadState] /\ ThreadsFit)'
    BY <1>7, Parts DEF vars, memory, radio, observed, SharedOK, TimersArePending,
       TimersKnown, Started, ThreadsFit
  <2> QED BY <2>1, PartsNext
<1> QED BY <1>1, <1>2, <1>3, <1>4, <1>5, <1>6, <1>7 DEF Next

\* The actions, their timers, their threads and their rows keep their types, and
\* no action that has a timer is ever evicted from the table.
THEOREM TypeCorrect == Spec => []TypeOK
<1>1. Inv => TypeOK
  BY DEF Inv
<1> QED BY InitInv, NextInv, <1>1, PTL DEF Spec

\* Whichever thread ends an action, no timer is left that waits for it or runs.
THEOREM TimersFollowActions == Spec => []TimersArePending
<1>1. Inv => TimersArePending
  BY DEF Inv
<1> QED BY InitInv, NextInv, <1>1, PTL DEF Spec
-----------------------------------------------------------------------------
(* How an action ends, and what is kept of it *)

InFinish == {"finish", "store", "publish"}
Working(t) == at[t].step \in {"store", "publish"}

\* At most one thread stores and announces how an action ended.  It does so as the
\* dict has it, and nothing final has been announced before; what is announced as
\* final is final in memory too, unless the daemon was restarted.
EndsOnce ==
  /\ \A t \in Thread : Working(t) =>
       /\ action[at[t].action].status \in Final
       /\ announced[at[t].action] \notin Final
       /\ at[t].snapshot.status = action[at[t].action].status
  /\ \A t, u \in Thread :
       Working(t) /\ Working(u) /\ at[t].action = at[u].action => t = u
  /\ \A a \in Action : announced[a] \in Final => action[a].status \in Final \cup {"gone"}

\* Only the threads of the connection fail what is pending; a handler thread works on its
\* own action and only fails it, after its send raised, a timer thread that of its timer.
InRole(t) ==
  /\ t \notin Breaker => at[t].step \notin {"list", "failing", "take", "connect", "dead"}
  /\ t[1] = "starter" /\ at[t].step \notin {"idle", "returned"} => at[t].action = t[2]
  /\ t[1] = "starter" /\ at[t].step \in InFinish => at[t].outcome = "failed"
  /\ t[1] = "timer" /\ at[t].step \in InFinish => at[t].action = t[2]
RolesKept == \A t \in Thread : InRole(t)

\* What was started has a handler thread that is at work or has returned.
StartersStarted == \A a \in Action : action[a] # Unknown => at[Starter(a)].step # "idle"

\* The actions of an earlier daemon are over for its threads and in the rows.
GoneIsSettled ==
  \A a \in Action : action[a].status = "gone" =>
    at[Starter(a)].step = "returned" /\ rows[a].status # "started"

\* From the time a request that was sent is stored by its own thread, the row, if SQLite
\* writes it, says how it ended or a thread is about to write it.
Settled(a) == at[Starter(a)].step \in {"arm", "returned"} /\ ~ Raised(a)
Kept(a) ==
  \/ rows[a].status = action[a].status
  \/ \E t \in Thread : at[t].step = "store" /\ at[t].action = a
RowsAgree ==
  \A a \in Action \ StoreFails : Settled(a) /\ action[a].status \in Final => Kept(a)

\* The inductive invariant.
EndsInv == EndsOnce /\ RolesKept /\ StartersStarted /\ GoneIsSettled /\ RowsAgree

\* The other threads stay where they are.
Others(t) == \A u \in Thread : u # t => at'[u] = at[u]

Over == Final \cup {"gone"}

\* A step that ends nothing: it moves one thread, which does not come to store an
\* end, changes the status of no action that is over, and announces no end.
Calm(t) ==
  /\ Others(t) /\ ~ Working(t)' /\ InRole(t)'
  /\ t[1] = "starter" => at[t].step # "returned" /\ at'[t].step # "idle"
  /\ \A a \in Action : action'[a] # Unknown =>
       action[a] # Unknown \/ at'[Starter(a)].step # "idle"
  /\ \A a \in Action : action[a].status \in Over \/ action'[a].status \in Over =>
       action'[a].status = action[a].status
  /\ \A a \in Action : announced'[a] \in Final => announced[a] \in Final
  /\ \A a \in Action : rows'[a].status = "started" =>
       rows[a].status = "started" \/ at[Starter(a)].step # "returned"
  /\ at[t].step = "store" => at[t].action \in StoreFails
  /\ \A a \in Action \ StoreFails : Settled(a)' =>
       (Settled(a) /\ rows'[a] = rows[a]) \/ rows'[a].status = action'[a].status

\* The threads that the actions name are known by their roles.
LEMMA Roles ==
  /\ \A a \in Action : Starter(a)[1] = "starter" /\ Timer(a)[1] = "timer" /\ Timer(a)[2] = a
  /\ \A a, b \in Action : Starter(a) = Starter(b) => a = b
  /\ Reader[1] \notin {"starter", "timer"} /\ Worker[1] \notin {"starter", "timer"}
  /\ \A t \in Breaker : t[1] \notin {"starter", "timer"}
  /\ \A t \in Thread : t[1] = "starter" => \E a \in Action : t = Starter(a)
  /\ \A t \in Thread : t[1] = "timer" => \E a \in Action : t = Timer(a)
BY DEF Starter, Timer, Reader, Worker, Thread, Breaker

\* A calm step keeps the invariant.
LEMMA CalmStep ==
  ASSUME Inv, EndsInv, NEW t \in Thread, Calm(t)
  PROVE  EndsInv'
<1> USE NamedThreads
<1>1. EndsOnce'
  <2>1. \A u \in Thread : Working(u)' => Working(u) /\ u # t /\ at'[u] = at[u]
    BY DEF Calm, Others, Working
  <2>2. \A u \in Thread : Working(u) => at[u].action \in Action
    BY DEF Inv, TypeOK, Working
  <2>3. \A u \in Thread : Working(u)' =>
          /\ action'[at'[u].action].status \in Final
          /\ announced'[at'[u].action] \notin Final
          /\ at'[u].snapshot.status = action'[at'[u].action].status
    <3> SUFFICES ASSUME NEW u \in Thread, Working(u)'
                 PROVE  /\ action'[at'[u].action].status \in Final
                        /\ announced'[at'[u].action] \notin Final
                        /\ at'[u].snapshot.status = action'[at'[u].action].status
      OBVIOUS
    <3>1. PICK a \in Action : a = at[u].action
      BY <2>1, <2>2
    <3>2. action[a].status \in Final /\ announced[a] \notin Final
          /\ at[u].snapshot.status = action[a].status
      BY <2>1, <3>1 DEF EndsInv, EndsOnce
    <3>3. action'[a].status = action[a].status /\ announced'[a] \notin Final
      BY <3>2 DEF Calm, Over
    <3> QED BY <2>1, <3>1, <3>2, <3>3
  <2>4. \A u, v \in Thread :
          Working(u)' /\ Working(v)' /\ at'[u].action = at'[v].action => u = v
    BY <2>1 DEF EndsInv, EndsOnce
  <2>5. \A a \in Action : announced'[a] \in Final => action'[a].status \in Over
    BY DEF Calm, Over, EndsInv, EndsOnce
  <2> QED BY <2>3, <2>4, <2>5 DEF EndsOnce, Over
<1>2. RolesKept'
  BY DEF Calm, Others, EndsInv, RolesKept, InRole
<1>3. StartersStarted'
  BY Roles DEF Calm, Others, EndsInv, StartersStarted
<1>4. GoneIsSettled'
  <2> SUFFICES ASSUME NEW a \in Action, action'[a].status = "gone"
               PROVE  at'[Starter(a)].step = "returned" /\ rows'[a].status # "started"
    BY DEF GoneIsSettled
  <2>1. action[a].status = "gone"
    BY DEF Calm, Over
  <2>2. at[Starter(a)].step = "returned" /\ rows[a].status # "started"
    BY <2>1 DEF EndsInv, GoneIsSettled
  <2> QED BY <2>2, Roles DEF Calm, Others
<1>5. RowsAgree'
  <2> SUFFICES ASSUME NEW a \in Action \ StoreFails, Settled(a)', action'[a].status \in Final,
                      rows'[a].status # action'[a].status
               PROVE  \E u \in Thread : at'[u].step = "store" /\ at'[u].action = a
    BY DEF RowsAgree, Kept
  <2>1. /\ Settled(a) /\ rows'[a] = rows[a] /\ action[a].status = action'[a].status
        /\ at[t].step = "store" => at[t].action # a
    BY DEF Calm, Over
  <2>2. Kept(a)
    BY <2>1 DEF EndsInv, RowsAgree
  <2>3. PICK u \in Thread : at[u].step = "store" /\ at[u].action = a
    BY <2>1, <2>2 DEF Kept
  <2>4. at'[u] = at[u]
    BY <2>1, <2>3 DEF Calm, Others
  <2> QED BY <2>3, <2>4
<1> QED BY <1>1, <1>2, <1>3, <1>4, <1>5 DEF EndsInv

\* What a thread's next state is, when it only takes a step, ...
LEMMA StepTo ==
  ASSUME Inv, NEW t \in Thread, NEW step, at' = Step(t, step)
  PROVE  /\ Others(t) /\ at'[t].step = step /\ at'[t].action = at[t].action
         /\ at'[t].outcome = at[t].outcome /\ at'[t].snapshot = at[t].snapshot
<1>1. at \in [Thread -> ThreadState] /\ at[t] \in ThreadState
  BY Parts
<1>2. at'[t] = [at[t] EXCEPT !.step = step] /\ Others(t)
  BY <1>1 DEF Step, Others
<1> QED BY <1>1, <1>2 DEF ThreadState

\* ... when it calls _finish_node_action ...
LEMMA FinishesTo ==
  ASSUME Inv, NEW t \in Thread, NEW a, NEW outcome, at' = Finishes(t, a, outcome)
  PROVE  /\ Others(t) /\ at'[t].step = "finish" /\ at'[t].action = a
         /\ at'[t].outcome = outcome
<1>1. at \in [Thread -> ThreadState] /\ at[t] \in ThreadState
  BY Parts
<1>2. at'[t] = [at[t] EXCEPT !.step = "finish", !.action = a, !.outcome = outcome] /\ Others(t)
  BY <1>1 DEF Finishes, Others
<1> QED BY <1>1, <1>2 DEF ThreadState

\* ... and when it returns from there.
LEMMA LeavesTo ==
  ASSUME Inv, NEW t \in Thread, at' = Leaves(t)
  PROVE  /\ Others(t)
         /\ t[1] = "starter" => at'[t].step = "returned" /\ at'[t].outcome = at[t].outcome
         /\ t[1] # "starter" => at'[t].step = IF t \in Breaker THEN "failing" ELSE "idle"
<1>1. at \in [Thread -> ThreadState] /\ at[t] \in ThreadState
  BY Parts
<1>2. Others(t)
  BY <1>1 DEF Leaves, Others
<1>3. CASE t \in Breaker
  <2>1. at'[t] = [Idle EXCEPT !.step = "failing", !.pending = at[t].pending]
    BY <1>1, <1>3, Roles DEF Leaves
  <2> QED BY <1>2, <1>3, <2>1, Roles DEF Idle
<1>4. CASE t \notin Breaker /\ t[1] = "starter"
  <2>1. at'[t] = [at[t] EXCEPT !.step = "returned", !.snapshot = Unknown]
    BY <1>1, <1>4 DEF Leaves
  <2> QED BY <1>1, <1>2, <1>4, <2>1 DEF ThreadState
<1>5. CASE t \notin Breaker /\ t[1] # "starter"
  <2>1. at'[t] = Idle
    BY <1>1, <1>5 DEF Leaves
  <2> QED BY <1>2, <1>5, <2>1 DEF Idle
<1> QED BY <1>3, <1>4, <1>5

-----------------------------------------------------------------------------
(* The steps that are calm *)

\* The handler thread's way to the radio.
LEMMA StartCalm == ASSUME Inv, EndsInv, NEW a \in Action, Start(a) PROVE Calm(Starter(a))
<1> DEFINE t == Starter(a)
<1>1. t \in Thread /\ at \in [Thread -> ThreadState] /\ at[t] \in ThreadState
  BY NamedThreads, Parts
<1>2. Others(t) /\ at'[t].step = "read" /\ at'[t].action = a /\ at[t].step = "idle"
  <2>1. at'[t] = [at[t] EXCEPT !.step = "read", !.action = a] /\ Others(t)
    BY <1>1 DEF Start, Others
  <2> QED BY <1>1, <2>1 DEF ThreadState, Start, Idle
<1>3. \A b \in Action : b # a => action'[b] = action[b] /\ (Settled(b)' => Settled(b))
  BY <1>2, Roles, NamedThreads DEF Start, Inv, TypeOK, Settled, Raised, Others
<1>4. action'[a] = New /\ action[a].status = "none" /\ announced' = announced /\ rows' = rows
  BY DEF Start, observed, Inv, TypeOK
<1>5. at'[t].action = t[2]
  BY <1>2 DEF Starter
<1> QED BY <1>1, <1>2, <1>3, <1>4, <1>5, Roles
        DEF Calm, Working, InRole, InFinish, Over, Final, New, Settled

\* The way to the radio and the timer's start change no row but the request's own.
LEMMA WriteCalm ==
  ASSUME Inv, EndsInv, NEW a \in Action, ReadDict(a) \/ WriteDict(a) \/ Send(a) \/ Arm(a)
  PROVE  Calm(Starter(a))
<1> DEFINE t == Starter(a)
<1>1. t \in Thread /\ at \in [Thread -> ThreadState] /\ at[t] \in ThreadState
  BY NamedThreads, Parts
<1>2. /\ Others(t) /\ at[t].step \in {"read", "write", "send", "arm"}
      /\ at'[t].step \in {"write", "send", "sending", "returned"}
      /\ at'[t].outcome = at[t].outcome
      /\ at'[t].step = "returned" <=> at[t].step = "arm"
      /\ at'[t].action = at[t].action
  <2>1. CASE ReadDict(a)
    <3>1. at'[t] = [at[t] EXCEPT !.step = "write", !.snapshot = action[a]] /\ Others(t)
      BY <1>1, <2>1 DEF ReadDict, Others
    <3> QED BY <1>1, <2>1, <3>1 DEF ThreadState, ReadDict
  <2>2. CASE WriteDict(a)
    <3>1. at'[t] = [at[t] EXCEPT !.step = "send", !.snapshot = Unknown] /\ Others(t)
      BY <1>1, <2>2 DEF WriteDict, Others
    <3> QED BY <1>1, <2>2, <3>1 DEF ThreadState, WriteDict
  <2>3. CASE Send(a)
    BY <1>1, <2>3, StepTo DEF Send
  <2>4. CASE Arm(a)
    BY <1>1, <2>4, StepTo DEF Arm
  <2> QED BY <2>1, <2>2, <2>3, <2>4
<1>3. action' = action /\ announced' = announced
  BY DEF ReadDict, WriteDict, Send, Arm, memory, observed
<1>4. \A b \in Action : b # a => rows'[b] = rows[b]
  BY DEF ReadDict, WriteDict, Send, Arm, Inv, TypeOK
<1>5. at[t].step = "arm" => rows' = rows
  BY DEF ReadDict, WriteDict, Send, Arm
<1>6. \A b \in Action : Settled(b)' => Settled(b) /\ rows'[b] = rows[b]
  <2> SUFFICES ASSUME NEW b \in Action, Settled(b)' PROVE Settled(b) /\ rows'[b] = rows[b]
    OBVIOUS
  <2>1. CASE b = a
    BY <1>2, <1>5, <2>1 DEF Settled, Raised
  <2>2. CASE b # a
    BY <1>2, <1>4, <2>2, Roles, NamedThreads DEF Settled, Raised, Others
  <2> QED BY <2>1, <2>2
<1>7. at'[t].action = a
  BY <1>1, <1>2 DEF EndsInv, RolesKept, InRole, Starter
<1> QED BY <1>1, <1>2, <1>3, <1>4, <1>6, <1>7, Roles DEF Calm, Working, InRole, InFinish, Starter

\* A send that raises begins to fail the action.
LEMMA SendRaisesCalm ==
  ASSUME Inv, EndsInv, NEW a \in Action, SendRaises(a) PROVE Calm(Starter(a))
<1> DEFINE t == Starter(a)
<1>1. /\ t \in Thread /\ Others(t) /\ at'[t].step = "finish" /\ at'[t].outcome = "failed"
      /\ at[t].step = "sending" /\ at'[t].action = t[2]
  BY NamedThreads, FinishesTo DEF SendRaises, Starter
<1>2. action' = action /\ announced' = announced /\ rows' = rows
  BY DEF SendRaises
<1>3. \A b \in Action : Settled(b)' => Settled(b)
  BY <1>1, Roles, NamedThreads DEF Settled, Raised, Others
<1> QED BY <1>1, <1>2, <1>3, Roles DEF Calm, Working, InRole

\* The dict is stored as it is then, under the lock.
LEMMA SettleCalm == ASSUME Inv, EndsInv, NEW a \in Action, Settle(a) PROVE Calm(Starter(a))
<1> DEFINE t == Starter(a)
<1>1. /\ t \in Thread /\ Others(t) /\ at'[t].step \in {"arm", "returned"}
      /\ at[t].step = "sending" /\ at'[t].outcome = at[t].outcome
      /\ at'[t].action = at[t].action
  <2>1. at' = Step(t, "arm") \/ at' = Step(t, "returned")
    BY DEF Settle
  <2> QED BY <2>1, NamedThreads, StepTo DEF Settle
<1>2. \A b \in Action : /\ b # a => action'[b] = action[b]
                        /\ action'[b].status = action[b].status
  <2>1. action' = [action EXCEPT ![a] = IF a \in table
                                        THEN [action[a] EXCEPT !.packet = TRUE] ELSE @]
    BY DEF Settle
  <2>2. [action[a] EXCEPT !.packet = TRUE].status = action[a].status
    BY DEF Inv, TypeOK, Dict
  <2> QED BY <2>1, <2>2 DEF Inv, TypeOK
<1>3. \A b \in Action : announced'[b] \in Final => announced[b] \in Final
  <2>1. announced' = announced \/ announced' = [announced EXCEPT ![a] = "started"]
    BY DEF Settle
  <2> QED BY <2>1 DEF Inv, TypeOK, Final
<1>4. /\ \A b \in Action : b # a => rows'[b] = rows[b]
      /\ a \notin StoreFails => rows'[a] = action'[a]
  <2>1. rows' = [rows EXCEPT ![a] = action'[a]] \/ (a \in StoreFails /\ rows' = rows)
    BY DEF Settle
  <2> QED BY <2>1 DEF Inv, TypeOK
<1>5. \A b \in Action \ StoreFails :
        Settled(b)' => (Settled(b) /\ rows'[b] = rows[b]) \/ rows'[b].status = action'[b].status
  BY <1>1, <1>4, Roles, NamedThreads DEF Settled, Raised, Others
<1>6. at'[t].action = a
  BY <1>1, NamedThreads DEF EndsInv, RolesKept, InRole, Starter
<1> QED BY <1>1, <1>2, <1>3, <1>4, <1>5, <1>6, Roles DEF Calm, Working, InRole, InFinish, Starter

\* An answer or a timeout begins to finish the action; the thread of a timer that
\* runs is not finishing it already.
LEMMA EndCalm ==
  ASSUME Inv, EndsInv, NEW a \in Action, Respond(a) \/ Timeout(a)
  PROVE  Calm(Reader) \/ Calm(Timer(a))
<1>1. ASSUME NEW t \in Thread, Others(t), at'[t].step = "finish", at'[t].action = a,
             at[t].step # "store", t[1] # "starter",
             t[1] = "timer" => t = Timer(a)
      PROVE  Calm(t)
  <2>1. action' = action /\ announced' = announced /\ rows' = rows
    BY DEF Respond, Timeout, memory, observed
  <2>2. \A b \in Action : Settled(b)' => Settled(b)
    BY <1>1, Roles, NamedThreads DEF Settled, Raised, Others
  <2> QED BY <1>1, <2>1, <2>2, Roles DEF Calm, Working, InRole
<1>2. CASE Respond(a)
  <2>1. PICK outcome \in Final : at' = Finishes(Reader, a, outcome)
    BY <1>2 DEF Respond, Final
  <2>2. Others(Reader) /\ at'[Reader].step = "finish" /\ at'[Reader].action = a
    BY <2>1, NamedThreads, FinishesTo
  <2> QED BY <1>1, <1>2, <2>2, NamedThreads, Roles DEF Respond
<1>3. CASE Timeout(a)
  <2>1. Others(Timer(a)) /\ at'[Timer(a)].step = "finish" /\ at'[Timer(a)].action = a
    BY <1>3, NamedThreads, FinishesTo DEF Timeout
  <2>2. action[a].status = "started"
    BY <1>3 DEF Timeout, Inv, TimersArePending, Started
  <2>3. at[Timer(a)].step # "store"
    <3> SUFFICES ASSUME at[Timer(a)].step = "store" PROVE FALSE
      OBVIOUS
    <3>1. at[Timer(a)].action = a
      BY NamedThreads, Roles DEF EndsInv, RolesKept, InRole, InFinish
    <3>2. action[a].status \in Final
      BY <3>1, NamedThreads DEF EndsInv, EndsOnce, Working
    <3> QED BY <2>2, <3>2 DEF Final
  <2> QED BY <1>1, <2>1, <2>3, NamedThreads, Roles
<1> QED BY <1>2, <1>3

\* A thread of the connection takes a step, or a thread gives up.
LEMMA AsideCalm ==
  ASSUME Inv, EndsInv, NEW t \in Thread, Others(t),
         at'[t].step \notin {"store", "publish"},
         t \notin Breaker => at'[t].step \in {"returned", "idle"},
         t[1] = "starter" => at[t].step # "returned" /\ at'[t].step = "returned",
         t[1] = "starter" =>
           t[2] \in StoreFails \/ (Raised(t[2]) /\ at'[t].outcome = at[t].outcome),
         at[t].step = "store" => at[t].action \in StoreFails,
         action' = action, announced' = announced, rows' = rows
  PROVE  Calm(t)
<1>1. \A a \in Action \ StoreFails : Settled(a)' => Settled(a)
  <2> SUFFICES ASSUME NEW a \in Action \ StoreFails, Settled(a)' PROVE Settled(a)
    OBVIOUS
  <2>1. Starter(a)[2] = a
    BY DEF Starter
  <2>2. CASE Starter(a) = t
    BY <2>1, <2>2, Roles DEF Settled, Raised
  <2>3. CASE Starter(a) # t
    BY <2>3, NamedThreads DEF Settled, Raised, Others
  <2> QED BY <2>2, <2>3
<1> QED BY <1>1, Roles DEF Calm, Working, InRole, InFinish

\* What is over is not finished again; SQLite raises.
LEMMA GiveUpCalm ==
  ASSUME Inv, EndsInv, NEW t \in Thread,
         (Finish(t) /\ at[t].action \notin Started) \/ StoreRaises(t)
  PROVE  Calm(t)
<1>1. action' = action /\ announced' = announced /\ rows' = rows
  BY DEF Finish, StoreRaises, memory, observed
<1>2. t[1] = "starter" => Starter(t[2]) = t
  BY DEF Starter, Thread, Reader, Breaker
<1>3. CASE Finish(t)
  <2>1. at' = Leaves(t) /\ at[t].step = "finish"
    BY <1>3 DEF Finish, StoreRaises
  <2>2. t[1] = "starter" => Raised(t[2])
    BY <1>2, <2>1 DEF EndsInv, RolesKept, InRole, InFinish, Raised
  <2> QED BY <1>1, <2>1, <2>2, Roles, LeavesTo, AsideCalm
<1>4. CASE StoreRaises(t)
  <2> DEFINE step == CASE t = Worker -> "dead" [] t[1] = "starter" -> "returned"
                       [] OTHER -> "idle"
  <2>1. at'[t] = [Idle EXCEPT !.step = step] /\ Others(t)
    BY <1>4, Parts DEF StoreRaises, Others
  <2>2. at'[t].step = step
    BY <2>1 DEF Idle
  <2>3. step \in {"dead", "returned", "idle"} /\ (t[1] = "starter" => step = "returned")
        /\ (t \notin Breaker => step # "dead")
    BY Roles, NamedThreads
  <2>4. at[t].action \in StoreFails /\ at[t].step # "returned"
    BY <1>4 DEF StoreRaises
  <2>5. t[1] = "starter" => at[t].action = t[2]
    BY <1>4 DEF StoreRaises, EndsInv, RolesKept, InRole
  <2> HIDE DEF step
  <2> QED BY <1>1, <2>1, <2>2, <2>3, <2>4, <2>5, AsideCalm
<1> QED
  BY <1>3, <1>4

\* The threads that fail what is pending, and the worker's other steps.
LEMMA BreakCalm ==
  ASSUME Inv, EndsInv, NEW t \in Thread, List(t) \/ FailNext(t) \/ (t \in Breaker /\ Lost(t))
  PROVE  Calm(t)
<1>1. action' = action /\ announced' = announced /\ rows' = rows
  BY DEF List, FailNext, Lost, memory, observed
<1>2. at \in [Thread -> ThreadState] /\ at[t] \in ThreadState
  BY Parts
<1>3. t \in Breaker
  BY DEF List, FailNext, EndsInv, RolesKept, InRole
<1>4. at[t].step \in {"list", "failing", "idle"}
  BY DEF List, FailNext, Lost
<1>5. Others(t) /\ at'[t].step \in {"failing", "take", "idle", "finish"}
  <2>1. CASE List(t) \/ Lost(t)
    <3>1. at'[t] = [at[t] EXCEPT !.step = "failing", !.pending = Started] /\ Others(t)
      BY <1>2, <2>1 DEF List, Lost, Others
    <3> QED BY <1>2, <3>1 DEF ThreadState
  <2>2. CASE FailNext(t)
    <3>1. CASE at' = Step(t, IF t = Worker THEN "take" ELSE "idle")
      BY <3>1, StepTo
    <3>2. CASE \E a \in at[t].pending :
                 at' = [Finishes(t, a, "failed") EXCEPT ![t].pending = @ \ {a}]
      <4>1. PICK a \in at[t].pending :
              at' = [Finishes(t, a, "failed") EXCEPT ![t].pending = @ \ {a}]
        BY <3>2
      <4>2. at'[t] = [at[t] EXCEPT !.step = "finish", !.action = a, !.outcome = "failed",
                                   !.pending = @ \ {a}] /\ Others(t)
        BY <1>2, <4>1 DEF Finishes, Others
      <4> QED BY <1>2, <4>2 DEF ThreadState
    <3> QED BY <2>2, <3>1, <3>2 DEF FailNext
  <2> QED BY <2>1, <2>2
<1> QED BY <1>1, <1>3, <1>4, <1>5, Roles, AsideCalm

\* The interface is taken, or the next one published.
LEMMA LinkCalm ==
  ASSUME Inv, EndsInv, NEW t \in Thread,
         \/ t = Worker /\ (Take \/ \E n \in 1..MaxLinks : Connect(n))
         \/ t \in Breaker /\ Switch(t)
  PROVE  Calm(t)
<1>1. action' = action /\ announced' = announced /\ rows' = rows
  BY DEF Take, Connect, Switch, memory, observed
<1>2. t \in Breaker /\ Others(t) /\ at'[t].step \in {"connect", "idle", "list"}
      /\ at[t].step # "store"
  BY NamedThreads, StepTo DEF Take, Connect, Switch
<1> QED BY <1>1, <1>2, Roles, AsideCalm

-----------------------------------------------------------------------------
(* The steps that end an action *)

\* Finishing a pending action leaves one thread that stores and announces it.
LEMMA FinishEnds ==
  ASSUME Inv, EndsInv, NEW t \in Thread, Finish(t), at[t].action \in Started
  PROVE  EndsInv'
<1>1. PICK a \in Action : a = at[t].action /\ action[a].status = "started"
  BY Parts DEF Finish, ThreadsFit, Fits, Started
<1>2. at \in [Thread -> ThreadState] /\ at[t] \in ThreadState /\ at[t].step = "finish"
  BY Parts DEF Finish
<1>3. /\ action' = [action EXCEPT ![a].status = at[t].outcome]
      /\ at' = [at EXCEPT ![t].step = "store", ![t].snapshot = action'[a]]
      /\ rows' = rows /\ announced' = announced
  BY <1>1, <1>2 DEF Finish, observed, Started, Inv, TypeOK
<1>4. /\ \A b \in Action : b # a => action'[b] = action[b]
      /\ action'[a].status = at[t].outcome /\ at[t].outcome \in Final
  BY <1>1, <1>2, <1>3 DEF Inv, TypeOK, Dict, ThreadState
<1>5. /\ Others(t) /\ at'[t].step = "store" /\ at'[t].action = a
      /\ at'[t].outcome = at[t].outcome /\ at'[t].snapshot.status = action'[a].status
  <2>1. at'[t] = [at[t] EXCEPT !.step = "store", !.snapshot = action'[a]] /\ Others(t)
    BY <1>2, <1>3 DEF Others
  <2> QED BY <1>1, <1>2, <2>1 DEF ThreadState
<1>6. \A u \in Thread : Working(u) => at[u].action \in Action /\ at[u].action # a
  BY <1>1 DEF EndsInv, EndsOnce, Working, Inv, TypeOK, Final
<1>7. \A u \in Thread : u # t => (Working(u)' <=> Working(u)) /\ at'[u] = at[u]
  BY <1>5 DEF Others, Working
<1>8. EndsOnce'
  <2>1. announced[a] \notin Final
    BY <1>1 DEF EndsInv, EndsOnce, Final
  <2>2. \A u \in Thread : Working(u)' =>
          /\ action'[at'[u].action].status \in Final
          /\ announced'[at'[u].action] \notin Final
          /\ at'[u].snapshot.status = action'[at'[u].action].status
    <3> SUFFICES ASSUME NEW u \in Thread, Working(u)', u # t
                 PROVE  /\ action'[at'[u].action].status \in Final
                        /\ announced'[at'[u].action] \notin Final
                        /\ at'[u].snapshot.status = action'[at'[u].action].status
      BY <1>3, <1>4, <1>5, <2>1
    <3>1. Working(u) /\ at'[u] = at[u] /\ action'[at[u].action] = action[at[u].action]
      BY <1>4, <1>6, <1>7
    <3> QED BY <1>3, <3>1 DEF EndsInv, EndsOnce
  <2>3. \A u, v \in Thread :
          Working(u)' /\ Working(v)' /\ at'[u].action = at'[v].action => u = v
    BY <1>5, <1>6, <1>7 DEF EndsInv, EndsOnce
  <2>4. \A b \in Action : announced'[b] \in Final => action'[b].status \in Over
    BY <1>3, <1>4 DEF EndsInv, EndsOnce, Over
  <2> QED BY <2>2, <2>3, <2>4 DEF EndsOnce, Over
<1>9. RolesKept'
  <2>1. InRole(t)'
    BY <1>1, <1>2, <1>5 DEF EndsInv, RolesKept, InRole, InFinish
  <2> QED BY <1>7, <2>1 DEF EndsInv, RolesKept, InRole
<1>10. StartersStarted'
  BY <1>1, <1>4, <1>5, <1>7, NamedThreads DEF EndsInv, StartersStarted, Unknown
<1>11. GoneIsSettled'
  BY <1>2, <1>3, <1>4, <1>7, NamedThreads DEF EndsInv, GoneIsSettled, Final
<1>12. RowsAgree'
  <2> SUFFICES ASSUME NEW b \in Action \ StoreFails, Settled(b)', action'[b].status \in Final
               PROVE  Kept(b)'
    BY DEF RowsAgree
  <2>1. CASE b = a
    BY <1>5, <2>1 DEF Kept
  <2>2. CASE b # a
    <3>1. Settled(b) /\ action'[b] = action[b]
      BY <1>4, <1>5, <1>7, <2>2, NamedThreads DEF Settled, Raised
    <3>2. Kept(b)
      BY <3>1 DEF EndsInv, RowsAgree
    <3> QED BY <1>2, <1>3, <1>7, <3>1, <3>2 DEF Kept
  <2> QED BY <2>1, <2>2
<1> QED BY <1>8, <1>9, <1>10, <1>11, <1>12 DEF EndsInv

\* The row is written as the action ended.
LEMMA StoreEnds ==
  ASSUME Inv, EndsInv, NEW t \in Thread, Store(t)
  PROVE  EndsInv'
<1>1. /\ Others(t) /\ at[t].step = "store" /\ at'[t].step = "publish"
      /\ at'[t].action = at[t].action /\ at'[t].outcome = at[t].outcome
      /\ at'[t].snapshot = at[t].snapshot
  BY StepTo DEF Store
<1>2. PICK a \in Action : a = at[t].action
  BY <1>1, Parts DEF ThreadsFit, Fits
<1>3. action' = action /\ announced' = announced
  BY DEF Store, memory, observed
<1>4. \A u \in Thread :
        /\ Working(u)' <=> Working(u)
        /\ at'[u].action = at[u].action /\ at'[u].snapshot = at[u].snapshot
        /\ u # t => at'[u] = at[u]
  BY <1>1 DEF Others, Working
<1>5. rows'[a] = at[t].snapshot /\ \A b \in Action : b # a => rows'[b] = rows[b]
  BY <1>2 DEF Store, Inv, TypeOK
<1>6. action[a].status \in Final /\ at[t].snapshot.status = action[a].status
  BY <1>1, <1>2 DEF EndsInv, EndsOnce, Working
<1>7. EndsOnce'
  BY <1>3, <1>4 DEF EndsInv, EndsOnce
<1>8. RolesKept'
  <2>1. InRole(t)'
    BY <1>1 DEF EndsInv, RolesKept, InRole, InFinish
  <2> QED BY <1>4, <2>1 DEF EndsInv, RolesKept, InRole
<1>9. StartersStarted'
  BY <1>1, <1>3, <1>4, NamedThreads DEF EndsInv, StartersStarted
<1>10. GoneIsSettled'
  BY <1>1, <1>3, <1>4, <1>5, <1>6, NamedThreads DEF EndsInv, GoneIsSettled, Final
<1>11. RowsAgree'
  <2> SUFFICES ASSUME NEW b \in Action \ StoreFails, Settled(b)', action'[b].status \in Final
               PROVE  Kept(b)'
    BY DEF RowsAgree
  <2>1. CASE b = a
    BY <1>3, <1>5, <1>6, <2>1 DEF Kept
  <2>2. CASE b # a
    <3>1. Settled(b)
      BY <1>1, <1>4, NamedThreads DEF Settled, Raised
    <3>2. Kept(b)
      BY <1>3, <3>1 DEF EndsInv, RowsAgree
    <3> QED BY <1>2, <1>3, <1>4, <1>5, <2>2, <3>2 DEF Kept
  <2> QED BY <2>1, <2>2
<1> QED BY <1>7, <1>8, <1>9, <1>10, <1>11 DEF EndsInv

\* The end is announced, by the only thread that has it to announce.
LEMMA PublishEnds ==
  ASSUME Inv, EndsInv, NEW t \in Thread, Publish(t)
  PROVE  EndsInv'
<1>1. /\ Others(t) /\ at[t].step = "publish"
      /\ at'[t].step \in {"returned", "failing", "idle"}
      /\ t \notin Breaker => at'[t].step # "failing"
      /\ t[1] = "starter" => at'[t].step = "returned" /\ at'[t].outcome = at[t].outcome
  BY LeavesTo DEF Publish
<1>2. PICK a \in Action : a = at[t].action
  BY <1>1, Parts DEF ThreadsFit, Fits
<1>3. action' = action /\ rows' = rows
  BY DEF Publish, memory
<1>4. /\ \A b \in Action : b # a => announced'[b] = announced[b]
      /\ action[a].status \in Final
  BY <1>1, <1>2 DEF Publish, Inv, TypeOK, EndsInv, EndsOnce, Working
<1>5. \A u \in Thread :
        /\ Working(u)' => Working(u) /\ at[u].action \in Action /\ at[u].action # a
        /\ u # t => at'[u] = at[u]
  <2>1. \A u \in Thread : Working(u)' => u # t /\ Working(u)
    BY <1>1 DEF Others, Working
  <2>2. Working(t)
    BY <1>1 DEF Working
  <2>3. \A u \in Thread : Working(u) => at[u].action \in Action
    BY DEF Working, Inv, TypeOK
  <2> QED BY <1>1, <1>2, <2>1, <2>2, <2>3 DEF EndsInv, EndsOnce, Others
<1>6. EndsOnce'
  <2>1. \A u \in Thread : Working(u)' => at'[u] = at[u]
    BY <1>1, <1>5 DEF Working
  <2>2. \A u \in Thread : Working(u)' =>
          /\ action'[at'[u].action].status \in Final
          /\ announced'[at'[u].action] \notin Final
          /\ at'[u].snapshot.status = action'[at'[u].action].status
    BY <1>3, <1>4, <1>5, <2>1 DEF EndsInv, EndsOnce
  <2>3. \A u, v \in Thread :
          Working(u)' /\ Working(v)' /\ at'[u].action = at'[v].action => u = v
    BY <1>5, <2>1 DEF EndsInv, EndsOnce
  <2>4. \A b \in Action : announced'[b] \in Final => action'[b].status \in Over
    BY <1>3, <1>4 DEF EndsInv, EndsOnce, Over
  <2> QED BY <2>2, <2>3, <2>4 DEF EndsOnce, Over
<1>7. RolesKept'
  <2>1. InRole(t)'
    BY <1>1 DEF InRole, InFinish
  <2> QED BY <1>5, <2>1 DEF EndsInv, RolesKept, InRole
<1>8. StartersStarted'
  BY <1>1, <1>3, <1>5, NamedThreads, Roles DEF EndsInv, StartersStarted
<1>9. GoneIsSettled'
  BY <1>1, <1>3, <1>5, NamedThreads DEF EndsInv, GoneIsSettled
<1>10. RowsAgree'
  <2> SUFFICES ASSUME NEW b \in Action \ StoreFails, Settled(b)', action'[b].status \in Final
               PROVE  Kept(b)'
    BY DEF RowsAgree
  <2>1. Settled(b)
    <3>1. CASE Starter(b) = t
      <4>1. Raised(b)
        BY <1>1, <3>1, Roles DEF EndsInv, RolesKept, InRole, InFinish, Raised
      <4> QED BY <1>1, <3>1, <4>1, Roles DEF Settled, Raised
    <3>2. CASE Starter(b) # t
      BY <1>5, <3>2, NamedThreads DEF Settled, Raised
    <3> QED BY <3>1, <3>2
  <2>2. Kept(b)
    BY <1>3, <2>1 DEF EndsInv, RowsAgree
  <2> QED BY <1>1, <1>3, <1>5, <2>2 DEF Kept
<1> QED BY <1>6, <1>7, <1>8, <1>9, <1>10 DEF EndsInv

\* A restart ends every action, in memory and in the rows.
LEMMA RestartEnds == ASSUME Inv, EndsInv, Restart PROVE EndsInv'
<1>1. \A t \in Thread : at'[t].step \in {"idle", "connect", "returned"}
  BY DEF Restart, Idle
<1>2. \A t \in Thread : at'[t].step = "connect" => t = Worker
  BY DEF Restart, Idle
<1>3. \A a \in Action : at[Starter(a)].step # "idle" => at'[Starter(a)].step = "returned"
  BY NamedThreads, Roles DEF Restart, Idle
<1>4. \A a \in Action : /\ action[a] = Unknown => action'[a] = Unknown
                        /\ action[a] # Unknown => action'[a] = Gone
  BY DEF Restart
<1>5. \A a \in Action : rows'[a].status # "started"
  <2> SUFFICES ASSUME NEW a \in Action PROVE rows'[a].status # "started"
    OBVIOUS
  <2>1. [rows[a] EXCEPT !.status = "failed"].status = "failed"
    BY DEF Inv, TypeOK, Dict
  <2> QED BY <2>1 DEF Restart
<1>6. EndsOnce'
  <2>1. \A a \in Action : announced'[a] \in Final => action'[a].status = "gone"
    <3> SUFFICES ASSUME NEW a \in Action, announced[a] \in Final
                 PROVE  action'[a].status = "gone"
      BY DEF Restart
    <3>1. action[a].status \in Final \cup {"gone"}
      BY DEF EndsInv, EndsOnce
    <3>2. action[a] # Unknown
      BY <3>1 DEF Unknown, Final
    <3> QED BY <1>4, <3>2 DEF Gone
  <2> QED BY <1>1, <2>1 DEF EndsOnce, Working
<1>7. RolesKept'
  BY <1>1, <1>2, NamedThreads, Roles DEF RolesKept, InRole, InFinish
<1>8. StartersStarted'
  BY <1>3, <1>4 DEF StartersStarted, EndsInv
<1>9. GoneIsSettled'
  BY <1>3, <1>4, <1>5 DEF GoneIsSettled, StartersStarted, EndsInv, Unknown
<1>10. RowsAgree'
  BY <1>4 DEF RowsAgree, Unknown, Gone, Final
<1> QED BY <1>6, <1>7, <1>8, <1>9, <1>10 DEF EndsInv

-----------------------------------------------------------------------------

\* The daemon starts without actions that end.
LEMMA EndsInit == Init => EndsInv
<1> SUFFICES ASSUME Init PROVE EndsInv
  OBVIOUS
<1>1. \A t \in Thread : at[t] = Idle
  BY DEF Init
<1>2. \A a \in Action : action[a] = Unknown /\ announced[a] = "none"
  BY DEF Init
<1> QED BY <1>1, <1>2 DEF EndsInv, EndsOnce, RolesKept, InRole, InFinish, StartersStarted,
           GoneIsSettled, RowsAgree, Working, Idle, Unknown, Final

\* A step that moves no thread and ends nothing.
LEMMA EndsFrame ==
  ASSUME EndsInv, at' = at, action' = action, announced' = announced, rows' = rows
  PROVE  EndsInv'
BY DEF EndsInv, EndsOnce, RolesKept, InRole, StartersStarted, GoneIsSettled, RowsAgree, Working,
   Settled, Raised, Kept

\* Every step preserves the invariant.
LEMMA EndsNext == Inv /\ EndsInv /\ [Next]_vars => EndsInv'
<1> SUFFICES ASSUME Inv, EndsInv, [Next]_vars PROVE EndsInv'
  OBVIOUS
<1> USE NamedThreads
<1>1. ASSUME NEW a \in Action, Start(a) \/ Starting(a) \/ Respond(a) \/ Timeout(a)
      PROVE  EndsInv'
  <2>1. Calm(Starter(a)) \/ Calm(Reader) \/ Calm(Timer(a))
    BY <1>1, StartCalm, WriteCalm, SendRaisesCalm, SettleCalm, EndCalm DEF Starting
  <2> QED BY <2>1, CalmStep
<1>2. ASSUME NEW t \in Thread, Ending(t) \/ Breaking(t) PROVE EndsInv'
  <2>1. CASE (Finish(t) /\ at[t].action \notin Started) \/ StoreRaises(t)
    BY <2>1, GiveUpCalm, CalmStep
  <2>2. CASE Breaking(t)
    BY <2>2, BreakCalm, CalmStep DEF Breaking
  <2>3. CASE Finish(t) /\ at[t].action \in Started
    BY <2>3, FinishEnds
  <2>4. CASE Store(t)
    BY <2>4, StoreEnds
  <2>5. CASE Publish(t)
    BY <2>5, PublishEnds
  <2> QED BY <1>2, <2>1, <2>2, <2>3, <2>4, <2>5 DEF Ending
<1>3. ASSUME NEW t \in Breaker, Lost(t) \/ Switch(t) PROVE EndsInv'
  BY <1>3, BreakCalm, LinkCalm, CalmStep
<1>4. ASSUME NEW k \in Kind, CooldownEnds(k) PROVE EndsInv'
  BY <1>4, EndsFrame DEF CooldownEnds
<1>5. CASE Reconnect
  <2>1. Calm(Worker)
    BY <1>5, LinkCalm DEF Reconnect
  <2> QED BY <2>1, CalmStep
<1>6. CASE Restart
  BY <1>6, RestartEnds
<1>7. CASE UNCHANGED vars
  BY <1>7, EndsFrame DEF vars, memory, observed
<1> QED BY <1>1, <1>2, <1>3, <1>4, <1>5, <1>6, <1>7 DEF Next

\* Whichever step announces something, nothing follows an end.
LEMMA FinalStays ==
  Inv /\ EndsInv /\ [Next]_vars =>
    [\A a \in Action : announced[a] \in Final => announced'[a] = announced[a]]_announced
<1> SUFFICES ASSUME Inv, EndsInv, [Next]_vars, announced' # announced,
                    NEW a \in Action, announced[a] \in Final
             PROVE  announced'[a] = announced[a]
  OBVIOUS
<1>1. announced \in [Action -> {"none", "started"} \cup Final]
  BY DEF Inv, TypeOK
<1>2. PICK b \in Action, t \in Thread : Settle(b) \/ Publish(t)
  <2>1. UNCHANGED vars => announced' = announced
    BY DEF vars, observed
  <2>2. \A k \in Kind : CooldownEnds(k) => announced' = announced
    BY DEF CooldownEnds
  <2>3. \A b \in Action : Start(b) \/ Respond(b) \/ Timeout(b) => announced' = announced
    BY DEF Start, Respond, Timeout, observed
  <2>4. \A b \in Action : Starting(b) => announced' = announced \/ Settle(b)
    BY DEF Starting, ReadDict, WriteDict, Send, SendRaises, Arm, observed
  <2>5. \A t \in Thread : Ending(t) \/ Breaking(t) => announced' = announced \/ Publish(t)
    BY DEF Ending, Breaking, Finish, Store, StoreRaises, List, FailNext, observed
  <2>6. \A t \in Breaker : Lost(t) \/ Switch(t) => announced' = announced
    BY DEF Lost, Switch, observed
  <2>7. Reconnect \/ Restart => announced' = announced
    BY DEF Reconnect, Take, Connect, Restart, observed
  <2>8. Worker \in Thread
    BY NamedThreads
  <2>9. (\E b \in Action : Settle(b)) \/ (\E t \in Thread : Publish(t))
    BY <2>1, <2>2, <2>3, <2>4, <2>5, <2>6, <2>7 DEF Next
  <2> QED BY <2>8, <2>9
<1>3. CASE Settle(b)
  <2>1. action[a].status # "started"
    BY DEF EndsInv, EndsOnce, Final
  <2> QED BY <1>1, <1>3, <2>1 DEF Settle
<1>4. CASE Publish(t)
  <2>1. announced[at[t].action] \notin Final
    BY <1>4 DEF Publish, EndsInv, EndsOnce, Working
  <2> QED BY <1>1, <1>4, <2>1 DEF Publish
<1> QED BY <1>2, <1>3, <1>4

\* What the invariant says of an action that no thread works on any more.
LEMMA EndsAgree == ASSUME Inv, EndsInv PROVE LogAgrees
<1> SUFFICES ASSUME NEW a \in Action
             PROVE  /\ a \notin StoreFails /\ Returned(a) /\ ~ Raised(a) /\ action[a].status \in Final
                         => rows[a].status = action[a].status
                    /\ action[a] = Gone => rows[a].status # "started"
  BY DEF LogAgrees
<1>1. ASSUME a \notin StoreFails, Returned(a), ~ Raised(a), action[a].status \in Final
      PROVE  rows[a].status = action[a].status
  <2>1. Kept(a)
    BY <1>1 DEF Returned, EndsInv, RowsAgree, Settled
  <2>2. \A t \in Thread : ~ (at[t].step = "store" /\ at[t].action = a)
    BY <1>1 DEF Returned, WorkingOn
  <2> QED BY <2>1, <2>2 DEF Kept
<1>2. action[a] = Gone => rows[a].status # "started"
  BY DEF EndsInv, GoneIsSettled, Gone
<1> QED BY <1>1, <1>2

-----------------------------------------------------------------------------
(* The cooldown of the position button *)

\* A request is on its way to the radio or was sent in this cooldown.
Under(a) == at[Starter(a)].step \in {"read", "write", "send", "sending"} \/ a \in recent
Position == Action \ Traceroute

\* While one is, its cooldown runs, which keeps the next one from being started.
CoolInv ==
  ~ SlowSends =>
    /\ \A a \in Position : Under(a) => cooling["position"]
    /\ \A a, b \in Position : Under(a) /\ Under(b) => a = b

\* A step that begins no request and ends no cooldown of positions.
Mild ==
  /\ \A a \in Position : Under(a)' => Under(a)
  /\ cooling["position"] => cooling'["position"]

\* A mild step keeps the invariant.
LEMMA MildStep == ASSUME CoolInv, Mild PROVE CoolInv'
BY DEF CoolInv, Mild

\* A thread that does not come to read the dict of a new action begins no request.
LEMMA MildMove ==
  ASSUME NEW t \in Thread, Others(t), cooling' = cooling, recent' = recent,
         t[1] = "starter" => \/ at[t].step \in {"read", "write", "send", "sending"}
                             \/ at'[t].step \notin {"read", "write", "send", "sending"}
  PROVE  Mild
BY NamedThreads, Roles DEF Mild, Others, Under, Position

\* Every step preserves the invariant.
LEMMA CoolNext == Inv /\ EndsInv /\ CoolInv /\ [Next]_vars => CoolInv'
<1> SUFFICES ASSUME Inv, EndsInv, CoolInv, [Next]_vars PROVE CoolInv'
  OBVIOUS
<1> USE NamedThreads
<1>0. at \in [Thread -> ThreadState] /\ cooling \in [Kind -> BOOLEAN]
  BY Parts DEF Inv, TypeOK
<1>1. ASSUME NEW a \in Action, Start(a) PROVE CoolInv'
  <2>1. Others(Starter(a)) /\ recent' = recent
    BY <1>1, StartCalm DEF Calm, Start, observed
  <2>2. \A b \in Action : b # a => (Under(b)' <=> Under(b))
    BY <2>1, Roles DEF Others, Under
  <2>3. CASE a \in Traceroute
    <3>1. cooling'["position"] = cooling["position"]
      BY <1>0, <1>1, <2>3 DEF Start, Kind
    <3> QED BY <2>2, <2>3, <3>1 DEF CoolInv, Position
  <2>4. CASE a \notin Traceroute
    <3>1. ~ cooling["position"] /\ cooling'["position"]
      BY <1>0, <1>1, <2>4 DEF Start, KindOf, Kind
    <3> QED BY <2>2, <2>4, <3>1 DEF CoolInv, Position
  <2> QED BY <2>3, <2>4
<1>2. ASSUME NEW a \in Action, Starting(a) \/ Respond(a) \/ Timeout(a) PROVE CoolInv'
  <2>1. CASE ReadDict(a) \/ WriteDict(a) \/ Arm(a)
    <3>1. Others(Starter(a))
      BY <2>1, WriteCalm DEF Calm
    <3>2. at'[Starter(a)].step = "returned" \/ at[Starter(a)].step \in {"read", "write"}
      BY <2>1, StepTo DEF ReadDict, WriteDict, Arm
    <3> QED BY <2>1, <3>1, <3>2, MildMove, MildStep
            DEF ReadDict, WriteDict, Arm, memory, observed
  <2>2. CASE Send(a)
    <3>1. Others(Starter(a)) /\ at[Starter(a)].step = "send" /\ recent' = recent \cup {a}
      BY <2>2, StepTo DEF Send
    <3>2. \A b \in Action : Under(b)' => Under(b)
      BY <3>1 DEF Others, Under
    <3> QED BY <2>2, <3>2, MildStep DEF Mild, Position, Send, memory
  <2>3. CASE SendRaises(a)
    <3>1. /\ Others(Starter(a)) /\ at'[Starter(a)].step = "finish"
          /\ at[Starter(a)].step = "sending" /\ recent' = recent \ {a}
      BY <2>3, FinishesTo DEF SendRaises
    <3>2. \A b \in Action : Under(b)' => Under(b) /\ b # a
      BY <3>1 DEF Others, Under
    <3>3. Under(a)
      BY <3>1 DEF Under
    <3>4. CASE a \in Traceroute
      <4>1. cooling'["position"] = cooling["position"]
        BY <1>0, <2>3, <3>4 DEF SendRaises, Kind
      <4> QED BY <3>2, <4>1, MildStep DEF Mild, Position
    <3>5. CASE a \notin Traceroute
      BY <3>2, <3>3, <3>5 DEF CoolInv, Position
    <3> QED BY <3>4, <3>5
  <2>4. CASE Settle(a)
    <3>1. /\ Others(Starter(a)) /\ at[Starter(a)].step = "sending" /\ recent' = recent
      BY <2>4, SettleCalm DEF Settle, Calm
    <3>2. \A b \in Action : Under(b)' => Under(b)
      BY <3>1 DEF Others, Under
    <3>3. cooling["position"] => cooling'["position"]
      BY <1>0, <2>4 DEF Settle, Kind
    <3> QED BY <3>2, <3>3, MildStep DEF Mild, Position
  <2>5. CASE Respond(a)
    <3>1. Others(Reader) /\ at'[Reader].step = "finish"
      BY <2>5, FinishesTo DEF Respond
    <3> QED BY <2>5, <3>1, MildMove, MildStep DEF Respond, memory, observed
  <2>6. CASE Timeout(a)
    <3>1. Others(Timer(a)) /\ at'[Timer(a)].step = "finish"
      BY <2>6, FinishesTo DEF Timeout
    <3> QED BY <2>6, <3>1, MildMove, MildStep DEF Timeout, observed
  <2> QED BY <1>2, <2>1, <2>2, <2>3, <2>4, <2>5, <2>6 DEF Starting
<1>3. ASSUME NEW t \in Thread,
             \/ Ending(t) \/ Breaking(t)
             \/ t \in Breaker /\ (Lost(t) \/ Switch(t))
             \/ t = Worker /\ Reconnect
      PROVE  CoolInv'
  <2>1. cooling' = cooling /\ recent' = recent
    BY <1>3 DEF Ending, Breaking, Finish, Store, Publish, StoreRaises, List, FailNext, Lost,
       Switch, Reconnect, Take, Connect, memory, observed
  <2>2. Others(t) /\ (t[1] = "starter" => at'[t].step \in {"returned", "store", "publish"})
    <3>1. CASE Breaking(t) \/ (t \in Breaker /\ (Lost(t) \/ Switch(t))) \/ (t = Worker /\ Reconnect)
      <4>1. Calm(t)
        BY <3>1, BreakCalm, LinkCalm DEF Breaking, Reconnect
      <4>2. t \in Breaker
        BY <3>1 DEF Breaking, List, FailNext, EndsInv, RolesKept, InRole
      <4> QED BY <4>1, <4>2, Roles DEF Calm
    <3>2. CASE Store(t)
      BY <3>2, StepTo DEF Store
    <3>3. CASE Publish(t) \/ (Finish(t) /\ at[t].action \notin Started)
      BY <3>3, LeavesTo DEF Publish, Finish
    <3>4. CASE StoreRaises(t)
      <4>1. Others(t)
        BY <3>4, GiveUpCalm DEF Calm
      <4>2. t[1] = "starter" => at'[t] = [Idle EXCEPT !.step = "returned"]
        BY <1>0, <3>4, Roles DEF StoreRaises
      <4> QED BY <4>1, <4>2 DEF Idle
    <3>5. CASE Finish(t) /\ at[t].action \in Started
      <4> DEFINE ended == action'[at[t].action]
      <4>1. at' = [at EXCEPT ![t].step = "store", ![t].snapshot = ended]
        BY <3>5 DEF Finish
      <4>2. at'[t] = [at[t] EXCEPT !.step = "store", !.snapshot = ended] /\ Others(t)
        <5> HIDE DEF ended
        <5> QED BY <1>0, <4>1 DEF Others
      <4> QED BY <1>0, <4>2 DEF ThreadState
    <3> QED BY <1>3, <3>1, <3>2, <3>3, <3>4, <3>5 DEF Ending
  <2> QED BY <2>1, <2>2, MildMove, MildStep
<1>4. ASSUME NEW k \in Kind, CooldownEnds(k) PROVE CoolInv'
  <2> SUFFICES ASSUME ~ SlowSends PROVE CoolInv'
    BY DEF CoolInv
  <2>1. at' = at /\ recent' = {a \in recent : KindOf(a) # k}
    BY <1>4 DEF CooldownEnds
  <2>2. \A a \in Action : Under(a)' => Under(a)
    BY <2>1 DEF Under
  <2>3. CASE k = "position"
    <3>1. \A a \in Position : ~ Under(a)'
      BY <1>4, <2>1, <2>3 DEF CooldownEnds, Under, Position, KindOf
    <3> QED BY <3>1 DEF CoolInv
  <2>4. CASE k # "position"
    <3>1. cooling'["position"] = cooling["position"]
      BY <1>0, <1>4, <2>4 DEF CooldownEnds, Kind
    <3> QED BY <2>2, <3>1, MildStep DEF Mild, Position
  <2> QED BY <2>3, <2>4
<1>5. CASE Restart
  <2>1. \A t \in Thread : at'[t].step \in {"idle", "connect", "returned"}
    BY <1>5 DEF Restart, Idle
  <2>2. \A a \in Action : ~ Under(a)'
    BY <1>5, <2>1 DEF Restart, Under
  <2> QED BY <2>2 DEF CoolInv, Position
<1>6. CASE UNCHANGED vars
  BY <1>6 DEF vars, memory, observed, CoolInv, Under
<1> QED BY <1>1, <1>2, <1>3, <1>4, <1>5, <1>6 DEF Next

\* The daemon starts without a cooldown.
LEMMA CoolInit == Init => CoolInv
<1> SUFFICES ASSUME Init PROVE CoolInv
  OBVIOUS
<1>1. \A a \in Action : ~ Under(a)
  BY NamedThreads DEF Init, Under, Idle
<1> QED BY <1>1 DEF CoolInv, Position

\* Of positions, at most one request is counted in a cooldown.
LEMMA CoolCounts == ASSUME Inv, CoolInv, ~ SlowSends PROVE PositionCooldown
<1>1. \A a, b \in recent \ Traceroute : a = b
  BY DEF CoolInv, Under, Position, Inv, TypeOK
<1>2. CASE recent \ Traceroute = {}
  BY <1>2, FS_EmptySet DEF PositionCooldown
<1>3. CASE recent \ Traceroute # {}
  <2>1. PICK a : a \in recent \ Traceroute
    BY <1>3
  <2>2. recent \ Traceroute = {a}
    BY <1>1, <2>1
  <2>3. Cardinality({a}) = 1
    BY FS_Singleton
  <2> QED BY <2>2, <2>3 DEF PositionCooldown
<1> QED BY <1>2, <1>3

-----------------------------------------------------------------------------
(* The theorems *)

\* Whichever of the answer, the timeout and the losses of the connection ends an
\* action, and however many threads race for it: one end is announced, once, and
\* nothing after it, even where SQLite fails and over restarts.
THEOREM EndsAnnouncedOnce == Spec => FinalIsLast
<1> QED BY InitInv, NextInv, EndsInit, EndsNext, FinalStays, PTL DEF Spec, FinalIsLast

\* Once all threads are done with a request that was sent, its row, if SQLite writes it,
\* says how it ended, though SQLite raises for others; and after a restart no row says
\* that an action of the daemon before it still goes on.
THEOREM LogAgreesEver == Spec => []LogAgrees
<1>1. Inv /\ EndsInv => LogAgrees
  BY EndsAgree
<1> QED BY InitInv, NextInv, EndsInit, EndsNext, <1>1, PTL DEF Spec

\* As long as no send outlasts the cooldown: two requests for a position are never
\* sent in one cooldown, whichever of them raise, time out or are answered.
THEOREM PositionsCoolDown == ASSUME ~ SlowSends PROVE Spec => []PositionCooldown
<1>1. Inv /\ CoolInv => PositionCooldown
  BY CoolCounts
<1> QED BY InitInv, NextInv, EndsInit, EndsNext, CoolInit, CoolNext, <1>1, PTL DEF Spec
=============================================================================
