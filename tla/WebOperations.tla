----------------------------- MODULE WebOperations -----------------------------
(***************************************************************************)
(* The web application's writes (WebApplication.dispatch and operation in  *)
(* web.py): a browser that gets no answer repeats a request under the same *)
(* operation id, on other threads and perhaps with another payload, and    *)
(* the daemon must be asked only once.                                     *)
(*                                                                         *)
(* Abstractions.  A payload is its fingerprint.  Results leave the cache   *)
(* by age (Expire) or number; the process may be restarted, which forgets  *)
(* everything it knew.                                                     *)
(***************************************************************************)
EXTENDS FiniteSets, Naturals, Sequences, SequencesExt

CONSTANTS
  Thread,      \* HTTP handler threads
  Operation,   \* operation ids
  Payload,     \* fingerprints of payloads
  None,
  MaxResults,  \* the limit of _results: 1024
  MaxCalls,    \* bound: dispatches ever made
  MaxRestarts  \* bound: restarts of the web process

ASSUME BoundAssumption ==
  MaxResults \in Nat /\ MaxCalls \in Nat /\ MaxRestarts \in Nat

VARIABLES
  pending,   \* _pending_operations: Operation -> the call that owns it
  results,   \* _results, oldest first
  writer,    \* the thread that holds _write_lock
  at,        \* Thread -> its dispatch: step and local variables
  response,  \* call -> _PendingOperation.response of the object it made
  calls,     \* observed: dispatches so far
  asked,     \* observed: Operation -> requests sent to the daemon
  forgotten, \* observed: Operation -> times its result was forgotten
  answers,   \* observed: <<call that executed, status>> of every answer given
  restarts

vars == <<pending, results, writer, at, response, calls, asked, forgotten, answers, restarts>>

Call == 1..MaxCalls
Status == {"200", "503"}
Result == [call : Call, operation : Operation, print : Payload, status : Status]
Steps == {"idle", "wait", "lock", "execute", "record"}

Idle == [step |-> "idle", call |-> 0, operation |-> None, print |-> None, status |-> None]
Pending(o) == pending[o].call # 0

At == [step : Steps, call : Call \cup {0}, operation : Operation \cup {None},
       print : Payload \cup {None}, status : Status \cup {None}]

TypeOK ==
  /\ pending \in [Operation -> [call : Call \cup {0}, print : Payload \cup {None}]]
  /\ results \in Seq(Result)
  /\ writer \in Thread \cup {None}
  /\ at \in [Thread -> At]
  /\ response \in [Call -> Status \cup {None}]
  /\ calls \in 0..MaxCalls /\ restarts \in 0..MaxRestarts
  /\ asked \in [Operation -> Nat] /\ forgotten \in [Operation -> Nat]
  /\ answers \subseteq Call \X Status

NoCall == [call |-> 0, print |-> None]
Init ==
  /\ pending = [o \in Operation |-> NoCall]
  /\ results = <<>> /\ writer = None /\ at = [t \in Thread |-> Idle]
  /\ response = [c \in Call |-> None] /\ calls = 0
  /\ asked = [o \in Operation |-> 0] /\ forgotten = [o \in Operation |-> 0]
  /\ answers = {} /\ restarts = 0

-----------------------------------------------------------------------------

Cached(o) == {r \in Range(results) : r.operation = o}
Go(t, s) == at' = [at EXCEPT ![t] = s]
Asks(step, c, o, p) ==
  [step |-> step, call |-> c, operation |-> o, print |-> p, status |-> None]

\* Mutant: a repeated request executes unless it has a result already.
RegisterAgain(t, o, p) ==
  /\ at[t].step = "idle" /\ calls < MaxCalls /\ calls' = calls + 1
  /\ \/ \E r \in Cached(o) :
          answers' = answers \cup {<<r.call, r.status>>} /\ UNCHANGED <<at, pending>>
     \/ /\ Cached(o) = {} /\ UNCHANGED answers
        /\ pending' = [pending EXCEPT ![o] = [call |-> calls + 1, print |-> p]]
        /\ Go(t, Asks("lock", calls + 1, o, p))
  /\ UNCHANGED <<results, writer, response, asked, forgotten, restarts>>

(* Under _operation_lock: a known result is answered, a pending request    *)
(* waited for, another payload under the same id refused (409); only else  *)
(* does the thread own the operation.                                      *)
Register(t, o, p) ==
  /\ at[t].step = "idle" /\ calls < MaxCalls /\ calls' = calls + 1
  /\ \/ \E r \in Cached(o) :
          /\ answers' = IF r.print = p THEN answers \cup {<<r.call, r.status>>} ELSE answers
          /\ UNCHANGED <<at, pending>>
     \/ /\ Cached(o) = {} /\ Pending(o) /\ UNCHANGED <<answers, pending>>
        /\ at' = IF pending[o].print = p
                 THEN [at EXCEPT ![t] = Asks("wait", pending[o].call, o, p)]
                 ELSE at
     \/ /\ Cached(o) = {} /\ ~Pending(o) /\ UNCHANGED answers
        /\ pending' = [pending EXCEPT ![o] = [call |-> calls + 1, print |-> p]]
        /\ Go(t, Asks("lock", calls + 1, o, p))
  /\ UNCHANGED <<results, writer, response, asked, forgotten, restarts>>

Lock(t) ==
  /\ at[t].step = "lock" /\ writer = None /\ writer' = t
  /\ Go(t, [at[t] EXCEPT !.step = "execute"])
  /\ UNCHANGED <<pending, results, response, calls, asked, forgotten, answers, restarts>>

(* The request over IPC; without a readable answer the daemon may have     *)
(* acted on it all the same, and the status says so.                       *)
Execute(t) ==
  /\ at[t].step = "execute"
  /\ asked' = [asked EXCEPT ![at[t].operation] = @ + 1]
  /\ \E s \in Status : Go(t, [at[t] EXCEPT !.step = "record", !.status = s])
  /\ UNCHANGED <<pending, results, writer, response, calls, forgotten, answers, restarts>>

\* Mutant: only a write that succeeded is remembered.
RecordSuccess(t) ==
  LET me == at[t]
      r == [call |-> me.call, operation |-> me.operation, print |-> me.print,
            status |-> me.status] IN
  /\ me.step = "record"
  /\ results' = IF me.status = "200" THEN Append(results, r) ELSE results
  /\ pending' = [pending EXCEPT ![me.operation] = NoCall]
  /\ response' = [response EXCEPT ![me.call] = me.status]
  /\ answers' = answers \cup {<<me.call, me.status>>}
  /\ writer' = None /\ Go(t, Idle)
  /\ UNCHANGED <<calls, asked, restarts, forgotten>>

\* Mutant: the results are never limited.
Kept(all) == all
Newest(all) == IF Len(all) > MaxResults THEN Tail(all) ELSE all

\* Mutant: the waiting requests are not woken when the result is evicted.
Woken(all, me) ==
  IF Len(all) > MaxResults THEN response ELSE [response EXCEPT ![me.call] = me.status]
Answered(all, me) == [response EXCEPT ![me.call] = me.status]

(* Under both locks: the result is stored, the oldest ones evicted, the    *)
(* waiting threads woken.                                                  *)
Record(t) ==
  LET me == at[t]
      all == Append(results, [call |-> me.call, operation |-> me.operation,
                              print |-> me.print, status |-> me.status]) IN
  /\ me.step = "record"
  /\ results' = Newest(all)
  /\ forgotten' = [o \in Operation |->
       forgotten[o] + Cardinality({i \in DOMAIN all : all[i].operation = o})
         - Cardinality({i \in DOMAIN Newest(all) : Newest(all)[i].operation = o})]
  /\ pending' = [pending EXCEPT ![me.operation] = NoCall]
  /\ response' = Answered(all, me)
  /\ answers' = answers \cup {<<me.call, me.status>>}
  /\ writer' = None /\ Go(t, Idle)
  /\ UNCHANGED <<calls, asked, restarts>>

\* Mutant: a waiter that is woken looks its answer up among the results.
WakeFromResults(t) ==
  /\ at[t].step = "wait" /\ response[at[t].call] # None
  /\ Cached(at[t].operation) # {}
  /\ \E r \in Cached(at[t].operation) :
       answers' = answers \cup {<<at[t].call, r.status>>}
  /\ Go(t, Idle)
  /\ UNCHANGED <<pending, results, writer, response, calls, asked, forgotten, restarts>>

Wake(t) ==
  /\ at[t].step = "wait" /\ response[at[t].call] # None
  /\ answers' = answers \cup {<<at[t].call, response[at[t].call]>>}
  /\ Go(t, Idle)
  /\ UNCHANGED <<pending, results, writer, response, calls, asked, forgotten, restarts>>

(* _expire_results: an hour has passed.                                    *)
Expire ==
  /\ results # <<>> /\ results' = Tail(results)
  /\ forgotten' = [forgotten EXCEPT ![Head(results).operation] = @ + 1]
  /\ UNCHANGED <<pending, writer, at, response, calls, asked, answers, restarts>>

(* The process dies and is started again.                                  *)
Restart ==
  /\ restarts < MaxRestarts /\ restarts' = restarts + 1
  /\ forgotten' = asked
  /\ pending' = [o \in Operation |-> NoCall] /\ results' = <<>> /\ writer' = None
  /\ at' = [t \in Thread |-> Idle] /\ response' = [c \in Call |-> None]
  /\ UNCHANGED <<calls, asked, answers>>

Running(t) == Lock(t) \/ Execute(t) \/ Record(t) \/ Wake(t)
Next ==
  \/ \E t \in Thread : \/ Running(t)
                       \/ \E o \in Operation, p \in Payload : Register(t, o, p)
  \/ Expire \/ Restart

Spec == Init /\ [][Next]_vars
(* Every thread runs on; the IPC call has a timeout, and the lock of the   *)
(* writers is passed on fairly enough.                                     *)
FairSpec ==
  /\ Spec
  /\ \A t \in Thread : WF_vars(Execute(t) \/ Record(t) \/ Wake(t)) /\ SF_vars(Lock(t))

-----------------------------------------------------------------------------

(* However often and from however many threads a request is repeated, the  *)
(* daemon is asked once, unless its result has been forgotten meanwhile.   *)
AskedOnce == \A o \in Operation : asked[o] <= 1 + forgotten[o]

(* What operation() says of an id: "unknown" only of a request that never  *)
(* reached the daemon or was forgotten, so the user may trust the others.  *)
State(o) == IF Cached(o) # {} THEN "completed" ELSE IF Pending(o) THEN "pending" ELSE "unknown"
UnknownIsUnasked == \A o \in Operation : State(o) = "unknown" => asked[o] <= forgotten[o]

(* Everyone who sent the same request is given the answer of the one call  *)
(* that executed it, also when the cache has dropped it before the waiting *)
(* thread resumes.                                                         *)
OneAnswer == \A a, b \in answers : a[1] = b[1] => a = b
EveryoneIsAnswered == \A t \in Thread : []<>(at[t].step = "idle")

(* The cache stays within its limit.                                       *)
ResultsBounded == Len(results) <= MaxResults
=============================================================================
