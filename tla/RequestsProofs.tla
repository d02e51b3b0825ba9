---------------------------- MODULE RequestsProofs ----------------------------
(***************************************************************************)
(* Proofs about the requests of the daemon's clients.  First the writes of *)
(* the web application (WebOperations), for every number of threads,       *)
(* operations and payloads, every limit of the results and every number of *)
(* restarts; then cleaning up the gateways' histories, reading             *)
(* conversations, and what MCRequests composes of the three.               *)
(***************************************************************************)
EXTENDS MCRequests, TLAPS, FiniteSetTheorems, WellFoundedInduction

Owns(t) == at[t].step \in {"lock", "execute", "record"}

\* The thread that owns an operation is the one its pending entry names, and
\* knows the answer once it has it; a thread that waits, waits for a call.
OwnersFit ==
  \A t \in Thread :
    /\ at[t].step # "idle" => at[t].call \in Call /\ at[t].operation \in Operation
    /\ Owns(t) => /\ at[t].print \in Payload
                  /\ pending[at[t].operation] = [call |-> at[t].call, print |-> at[t].print]
    /\ at[t].step = "record" => at[t].status \in Status

\* An operation has one owner, and none while its result is known.
OneOwner ==
  \A t, u \in Thread :
    Owns(t) /\ Owns(u) /\ at[t].operation = at[u].operation => t = u
PendingIsNew == \A i \in DOMAIN results : ~ Pending(results[i].operation)

\* No operation has two results.
Unique(s) == \A i, j \in DOMAIN s : s[i].operation = s[j].operation => i = j

\* Every request that was sent is accounted for: its result was forgotten, is
\* known, or is in the hands of the thread that is about to record it.
Holds(s, o) == \E i \in DOMAIN s : s[i].operation = o
Count(s, o) == IF Holds(s, o) THEN 1 ELSE 0
InHand(o) == \E t \in Thread : at[t].step = "record" /\ at[t].operation = o
Balanced(o) ==
  asked[o] = forgotten[o] + Count(results, o) + (IF InHand(o) THEN 1 ELSE 0)
Accounted == \A o \in Operation : Balanced(o)

AskInv == OwnersFit /\ OneOwner /\ PendingIsNew /\ Unique(results) /\ Accounted

\* What anyone was told, or still could be told, of a call.
Told ==
  answers \cup {<<results[i].call, results[i].status>> : i \in DOMAIN results}
          \cup {<<c, response[c]>> : c \in {d \in Call : response[d] # None}}

\* One thing is told of a call, nothing before its owner has recorded it, and
\* nothing of calls to come.
ToldInv ==
  /\ \A x, y \in Told : x[1] = y[1] => x = y
  /\ \A x \in Told : x[1] \in 1..calls
  /\ \A t \in Thread : Owns(t) => at[t].call \in 1..calls
  /\ \A t \in Thread, x \in Told : Owns(t) => x[1] # at[t].call
  /\ \A t, u \in Thread : Owns(t) /\ Owns(u) /\ at[t].call = at[u].call => t = u

-----------------------------------------------------------------------------
(* Lemmas about the results *)

LEMMA NewestType ==
  ASSUME NEW all \in Seq(Result)
  PROVE  Newest(all) \in Seq(Result)
  BY BoundAssumption DEF Newest

\* Evicting keeps the results that are left, one place further to the front.
LEMMA TailOf ==
  ASSUME NEW all \in Seq(Result), all # <<>>
  PROVE  /\ Tail(all) \in Seq(Result)
         /\ Len(all) \in Nat \ {0} /\ Len(Tail(all)) = Len(all) - 1
         /\ DOMAIN all = 1..Len(all) /\ DOMAIN Tail(all) = 1..(Len(all) - 1)
         /\ \A i \in DOMAIN Tail(all) : i + 1 \in DOMAIN all /\ Tail(all)[i] = all[i + 1]
  OBVIOUS

LEMMA AppendOf ==
  ASSUME NEW s \in Seq(Result), NEW r \in Result
  PROVE  /\ Append(s, r) \in Seq(Result)
         /\ Len(s) \in Nat /\ Len(Append(s, r)) = Len(s) + 1
         /\ DOMAIN s = 1..Len(s) /\ DOMAIN Append(s, r) = 1..(Len(s) + 1)
         /\ \A i \in DOMAIN s : i \in DOMAIN Append(s, r) /\ Append(s, r)[i] = s[i]
         /\ Append(s, r)[Len(s) + 1] = r
  OBVIOUS

LEMMA CachedHolds ==
  ASSUME NEW o, results \in Seq(Result)
  PROVE  (Cached(o) # {}) <=> Holds(results, o)
  BY DEF Cached, Holds, Range

LEMMA UniqueCount ==
  ASSUME NEW s \in Seq(Result), Unique(s), NEW o
  PROVE  Cardinality({i \in DOMAIN s : s[i].operation = o}) = Count(s, o)
<1>1. CASE Holds(s, o)
  <2>1. PICK i \in DOMAIN s : s[i].operation = o
    BY <1>1 DEF Holds
  <2>2. {j \in DOMAIN s : s[j].operation = o} = {i}
    BY <2>1 DEF Unique
  <2> QED
    BY <1>1, <2>2, FS_Singleton DEF Count
<1>2. CASE ~ Holds(s, o)
  <2>1. {j \in DOMAIN s : s[j].operation = o} = {}
    BY <1>2 DEF Holds
  <2> QED
    BY <1>2, <2>1, FS_EmptySet DEF Count
<1> QED
  BY <1>1, <1>2

LEMMA UniqueTail ==
  ASSUME NEW all \in Seq(Result), all # <<>>, Unique(all)
  PROVE  /\ Unique(Tail(all))
         /\ ~ Holds(Tail(all), Head(all).operation)
         /\ Holds(all, Head(all).operation)
         /\ \A o : o # Head(all).operation => (Holds(Tail(all), o) <=> Holds(all, o))
<1>1. 1 \in DOMAIN all /\ Head(all) = all[1]
  BY TailOf
<1>2. Unique(Tail(all))
  BY TailOf DEF Unique
<1>3. ~ Holds(Tail(all), Head(all).operation)
  BY <1>1, TailOf DEF Unique, Holds
<1>4. Holds(all, Head(all).operation)
  BY <1>1 DEF Holds
<1>5. ASSUME NEW o, o # Head(all).operation
      PROVE  Holds(Tail(all), o) <=> Holds(all, o)
  <2>1. ASSUME NEW i \in DOMAIN all, all[i].operation = o
        PROVE  i - 1 \in DOMAIN Tail(all) /\ Tail(all)[i - 1].operation = o
    BY <1>1, <1>5, <2>1, TailOf
  <2>2. ASSUME NEW i \in DOMAIN Tail(all), Tail(all)[i].operation = o
        PROVE  i + 1 \in DOMAIN all /\ all[i + 1].operation = o
    BY <2>2, TailOf
  <2> QED
    BY <2>1, <2>2 DEF Holds
<1> QED
  BY <1>2, <1>3, <1>4, <1>5

LEMMA UniqueAppend ==
  ASSUME NEW s \in Seq(Result), Unique(s), NEW r \in Result, ~ Holds(s, r.operation)
  PROVE  /\ Unique(Append(s, r))
         /\ Holds(Append(s, r), r.operation)
         /\ \A o : o # r.operation => (Holds(Append(s, r), o) <=> Holds(s, o))
<1>1. Unique(Append(s, r))
  BY AppendOf DEF Unique, Holds
<1>2. Holds(Append(s, r), r.operation)
  BY AppendOf DEF Holds
<1>3. ASSUME NEW o, o # r.operation
      PROVE  Holds(Append(s, r), o) <=> Holds(s, o)
  BY <1>3, AppendOf DEF Holds
<1> QED
  BY <1>1, <1>2, <1>3

-----------------------------------------------------------------------------
(* Types *)

LEMMA ThreadGoes ==
  ASSUME TypeOK, NEW t \in Thread, NEW s \in At, Go(t, s)
  PROVE  at' \in [Thread -> At] /\ at'[t] = s /\ \A u \in Thread \ {t} : at'[u] = at[u]
  BY DEF TypeOK, Go

LEMMA IdleFits == Idle \in At
  BY DEF Idle, At, Steps

LEMMA ThreadFits ==
  ASSUME TypeOK, NEW t \in Thread
  PROVE  /\ at[t] \in At
         /\ \A step \in Steps : [at[t] EXCEPT !.step = step] \in At
  BY DEF TypeOK, At

\* The three outcomes of Register.
Known(o, p) ==
  /\ UNCHANGED <<at, pending>>
  /\ \E r \in Cached(o) : answers' \subseteq answers \cup {<<r.call, r.status>>}
InFlight(t, o, p) ==
  /\ Pending(o) /\ UNCHANGED <<answers, pending>>
  /\ at' = at \/ at' = [at EXCEPT ![t] = Asks("wait", pending[o].call, o, p)]
Free(t, o, p) ==
  /\ Cached(o) = {} /\ ~ Pending(o) /\ UNCHANGED answers
  /\ pending' = [pending EXCEPT ![o] = [call |-> calls + 1, print |-> p]]
  /\ at' = [at EXCEPT ![t] = Asks("lock", calls + 1, o, p)]

LEMMA RegisterEffect ==
  ASSUME NEW t \in Thread, NEW o \in Operation, NEW p \in Payload, Register(t, o, p)
  PROVE  Known(o, p) \/ InFlight(t, o, p) \/ Free(t, o, p)
<1>1. CASE \E r \in Cached(o) :
             /\ answers' = IF r.print = p THEN answers \cup {<<r.call, r.status>>} ELSE answers
             /\ UNCHANGED <<at, pending>>
  BY <1>1 DEF Known
<1>2. CASE /\ Cached(o) = {} /\ Pending(o) /\ UNCHANGED <<answers, pending>>
           /\ at' = IF pending[o].print = p
                    THEN [at EXCEPT ![t] = Asks("wait", pending[o].call, o, p)]
                    ELSE at
  BY <1>2 DEF InFlight
<1>3. CASE /\ Cached(o) = {} /\ ~ Pending(o) /\ UNCHANGED answers
           /\ pending' = [pending EXCEPT ![o] = [call |-> calls + 1, print |-> p]]
           /\ Go(t, Asks("lock", calls + 1, o, p))
  BY <1>3 DEF Free, Go
<1> QED
  BY <1>1, <1>2, <1>3 DEF Register

LEMMA CachedIs ==
  ASSUME TypeOK, NEW o, NEW r \in Cached(o)
  PROVE  /\ r \in Result
         /\ \E i \in DOMAIN results : r = results[i] /\ results[i].operation = o
  BY DEF TypeOK, Cached, Range

LEMMA AsksFits ==
  ASSUME TypeOK, NEW o \in Operation, NEW p \in Payload, calls < MaxCalls
  PROVE  /\ Asks("lock", calls + 1, o, p) \in At /\ calls + 1 \in Call
         /\ Pending(o) => Asks("wait", pending[o].call, o, p) \in At
<1>1. calls + 1 \in Call
  BY BoundAssumption DEF TypeOK, Call
<1>2. pending[o].call \in Call \cup {0}
  BY DEF TypeOK
<1> QED
  BY <1>1, <1>2 DEF At, Steps, Asks

\* What a thread records.
Mine(t) == [call |-> at[t].call, operation |-> at[t].operation,
            print |-> at[t].print, status |-> at[t].status]

LEMMA MineFits ==
  ASSUME TypeOK, OwnersFit, NEW t \in Thread, at[t].step = "record"
  PROVE  Mine(t) \in Result /\ at[t].operation \in Operation
  BY DEF TypeOK, OwnersFit, Mine, Owns, Result

LEMMA TypesInit ==
  ASSUME Init
  PROVE  TypeOK
  BY BoundAssumption, IdleFits DEF Init, TypeOK, NoCall, Status

-----------------------------------------------------------------------------
(* Who owns what, and how often the daemon was asked *)

\* An owner's operation is pending.
LEMMA OwnerPending ==
  ASSUME TypeOK, OwnersFit, NEW t \in Thread, Owns(t)
  PROVE  /\ at[t].operation \in Operation /\ at[t].call \in Call
         /\ Pending(at[t].operation) /\ pending[at[t].operation].call = at[t].call
<1>1. /\ at[t].operation \in Operation /\ at[t].call \in Call
      /\ pending[at[t].operation] = [call |-> at[t].call, print |-> at[t].print]
  BY DEF OwnersFit, Owns
<1>2. pending[at[t].operation].call = at[t].call
  BY <1>1
<1>3. at[t].call # 0
  BY <1>1, BoundAssumption DEF Call
<1> QED
  BY <1>1, <1>2, <1>3 DEF Pending

LEMMA AskInvRegister ==
  ASSUME TypeOK, AskInv,
         NEW t \in Thread, NEW o \in Operation, NEW p \in Payload, Register(t, o, p)
  PROVE  AskInv'
<1> USE DEF AskInv
<1>1. /\ at[t].step = "idle" /\ UNCHANGED <<results, asked, forgotten>>
      /\ calls < MaxCalls
  BY DEF Register
<1>2. Unique(results)'
  BY <1>1 DEF Unique
<1>3. CASE Known(o, p)
  BY <1>1, <1>3 DEF Known, OwnersFit, OneOwner, PendingIsNew, Pending, Accounted, Balanced, InHand,
                    Count, Holds, Owns, Unique
<1>4. CASE InFlight(t, o, p)
  <2>1. \/ at' = at
        \/ /\ at'[t] = Asks("wait", pending[o].call, o, p) /\ pending[o].call \in Call
           /\ \A u \in Thread \ {t} : at'[u] = at[u]
    BY <1>4, BoundAssumption DEF InFlight, TypeOK, Pending
  <2>2. \A u \in Thread : Owns(u)' => Owns(u) /\ at'[u] = at[u]
    BY <2>1 DEF Asks, Owns
  <2>3. \A u \in Thread : at'[u].step = "record" <=> at[u].step = "record"
    BY <1>1, <2>1 DEF Asks
  <2>4. OwnersFit'
    BY <1>4, <2>1, <2>2 DEF InFlight, OwnersFit, Asks, Owns
  <2>5. OneOwner' /\ PendingIsNew'
    BY <1>1, <1>4, <2>2 DEF InFlight, OneOwner, PendingIsNew, Pending
  <2>6. \A q : InHand(q)' <=> InHand(q)
    BY <2>2, <2>3 DEF InHand, Owns
  <2>7. Accounted'
    BY <1>1, <2>6 DEF Accounted, Balanced, Count, Holds
  <2> QED
    BY <1>2, <2>4, <2>5, <2>7
<1>5. CASE Free(t, o, p)
  <2>1. /\ at'[t] = Asks("lock", calls + 1, o, p) /\ calls + 1 \in Call
        /\ \A u \in Thread \ {t} : at'[u] = at[u]
    BY <1>1, <1>5, AsksFits DEF Free, TypeOK
  <2>2. /\ pending'[o] = [call |-> calls + 1, print |-> p]
        /\ \A q \in Operation \ {o} : pending'[q] = pending[q]
    BY <1>5 DEF Free, TypeOK
  <2>3. \A u \in Thread : Owns(u) => at[u].operation # o /\ u # t
    BY <1>1, <1>5, OwnerPending DEF Free, Owns
  <2>4. OwnersFit'
    BY <2>1, <2>2, <2>3 DEF OwnersFit, Asks, Owns
  <2>5. OneOwner'
    BY <2>1, <2>3 DEF OneOwner, Asks, Owns
  <2>6. PendingIsNew'
    <3>1. ~ Holds(results, o)
      BY <1>5, CachedHolds DEF Free, TypeOK
    <3>2. \A i \in DOMAIN results : results[i] \in Result
      BY DEF TypeOK
    <3>3. \A i \in DOMAIN results : results[i].operation \in Operation \ {o}
      BY <3>1, <3>2 DEF Holds, Result
    <3> QED
      BY <1>1, <2>2, <3>3 DEF PendingIsNew, Pending
  <2>7. \A q : InHand(q)' <=> InHand(q)
    BY <1>1, <2>1 DEF InHand, Asks
  <2>8. Accounted'
    BY <1>1, <2>7 DEF Accounted, Balanced, Count, Holds
  <2> QED
    BY <1>2, <2>4, <2>5, <2>6, <2>8
<1> QED
  BY <1>3, <1>4, <1>5, RegisterEffect

LEMMA AskInvLock ==
  ASSUME TypeOK, AskInv, NEW t \in Thread, Lock(t)
  PROVE  AskInv'
<1> USE DEF AskInv
<1>1. UNCHANGED <<pending, results, asked, forgotten>>
  BY DEF Lock
<1>2. /\ at[t].step = "lock" /\ at'[t] = [at[t] EXCEPT !.step = "execute"]
      /\ \A u \in Thread \ {t} : at'[u] = at[u]
  BY DEF Lock, Go, TypeOK
<1>3. /\ at'[t].step = "execute" /\ at'[t].call = at[t].call /\ at'[t].print = at[t].print
      /\ at'[t].operation = at[t].operation
  BY <1>2 DEF TypeOK, At
<1>4. \A u \in Thread : /\ Owns(u)' <=> Owns(u)
                        /\ at'[u].operation = at[u].operation
                        /\ at'[u].step = "record" <=> at[u].step = "record"
  BY <1>2, <1>3 DEF Owns
<1>5. OwnersFit'
  <2>1. Owns(t) /\ Owns(t)'
    BY <1>2, <1>3 DEF Owns
  <2>2. ASSUME NEW u \in Thread, u # t
        PROVE  at'[u] = at[u]
    BY <1>2, <2>2
  <2> QED
    BY <1>1, <1>3, <2>1, <2>2 DEF OwnersFit, Owns
<1>6. OneOwner' /\ PendingIsNew' /\ Unique(results)'
  BY <1>1, <1>4 DEF OneOwner, PendingIsNew, Pending, Unique
<1>7. \A q : InHand(q)' <=> InHand(q)
  BY <1>4 DEF InHand
<1>8. Accounted'
  BY <1>1, <1>7 DEF Accounted, Balanced, Count, Holds
<1> QED
  BY <1>5, <1>6, <1>8

LEMMA AskInvExecute ==
  ASSUME TypeOK, AskInv, NEW t \in Thread, Execute(t)
  PROVE  AskInv'
<1> USE DEF AskInv
<1>0. PICK o : o = at[t].operation
  OBVIOUS
<1> USE <1>0
<1>1. UNCHANGED <<pending, results, forgotten>> /\ at[t].step = "execute"
  BY DEF Execute
<1>2. PICK s \in Status : /\ at'[t] = [at[t] EXCEPT !.step = "record", !.status = s]
                          /\ \A u \in Thread \ {t} : at'[u] = at[u]
  BY DEF Execute, Go, TypeOK
<1>3. /\ at'[t].step = "record" /\ at'[t].call = at[t].call /\ at'[t].print = at[t].print
      /\ at'[t].operation = o /\ at'[t].status = s
  BY <1>2 DEF TypeOK, At
<1>4. \A u \in Thread : (Owns(u)' <=> Owns(u)) /\ at'[u].operation = at[u].operation
  BY <1>1, <1>2, <1>3 DEF Owns
<1>5. OwnersFit'
  <2>1. Owns(t) /\ Owns(t)'
    BY <1>1, <1>3 DEF Owns
  <2>2. ASSUME NEW u \in Thread, u # t
        PROVE  at'[u] = at[u]
    BY <1>2, <2>2
  <2> QED
    BY <1>1, <1>3, <2>1, <2>2 DEF OwnersFit, Owns
<1>6. OneOwner' /\ PendingIsNew' /\ Unique(results)'
  BY <1>1, <1>4 DEF OneOwner, PendingIsNew, Pending, Unique
<1>7. o \in Operation /\ ~ InHand(o) /\ InHand(o)'
  <2>1. o \in Operation /\ Owns(t)
    BY <1>1 DEF OwnersFit, Owns
  <2> QED
    BY <1>1, <1>3, <2>1 DEF InHand, OneOwner, Owns
<1>8. \A q : q # o => (InHand(q)' <=> InHand(q))
  BY <1>1, <1>2, <1>3 DEF InHand
<1>9. /\ asked'[o] = asked[o] + 1
      /\ \A q \in Operation \ {o} : asked'[q] = asked[q]
  BY <1>7 DEF Execute, TypeOK
<1>10. \A q : Count(results, q)' = Count(results, q) /\ Count(results, q) \in {0, 1}
  BY <1>1 DEF Count, Holds
<1>11. Balanced(o)'
  <2>1. asked[o] = forgotten[o] + Count(results, o) + 0
    BY <1>7 DEF Accounted, Balanced
  <2>2. forgotten[o] \in Nat /\ forgotten'[o] = forgotten[o]
    BY <1>1, <1>7 DEF TypeOK
  <2>3. asked'[o] = forgotten'[o] + Count(results, o)' + 1
    BY <1>9, <1>10, <2>1, <2>2
  <2> QED
    BY <1>7, <2>3 DEF Balanced
<1>12. ASSUME NEW q \in Operation, q # o
       PROVE  Balanced(q)'
  <2>1. Balanced(q)
    BY DEF Accounted
  <2> QED
    BY <1>1, <1>8, <1>9, <1>10, <1>12, <2>1 DEF Balanced
<1>13. Accounted'
  BY <1>11, <1>12 DEF Accounted
<1> QED
  BY <1>5, <1>6, <1>13

\* What Record does to the results and to what is remembered of them.
LEMMA RecordEffect ==
  ASSUME TypeOK, AskInv, NEW t \in Thread, Record(t)
  PROVE  LET o == at[t].operation
             all == Append(results, Mine(t))
         IN  /\ at[t].step = "record" /\ o \in Operation /\ Mine(t) \in Result
             /\ at' = [at EXCEPT ![t] = Idle] /\ pending' = [pending EXCEPT ![o] = NoCall]
             /\ all \in Seq(Result) /\ Unique(all) /\ ~ Holds(results, o) /\ Holds(all, o)
             /\ \A q : q # o => (Holds(all, q) <=> Holds(results, q))
             /\ results' = Newest(all) /\ Unique(results')
             /\ \A q : Holds(results', q) => Holds(all, q)
             /\ forgotten' \in [Operation -> Nat]
             /\ \A q \in Operation :
                  forgotten'[q] + Count(results', q) = forgotten[q] + Count(all, q)
             /\ asked' = asked
<1> DEFINE o == at[t].operation
           all == Append(results, Mine(t))
<1>1. /\ at[t].step = "record" /\ results' = Newest(all) /\ asked' = asked
      /\ at' = [at EXCEPT ![t] = Idle] /\ pending' = [pending EXCEPT ![o] = NoCall]
      /\ forgotten' = [q \in Operation |->
           forgotten[q] + Cardinality({i \in DOMAIN all : all[i].operation = q})
             - Cardinality({i \in DOMAIN Newest(all) : Newest(all)[i].operation = q})]
  BY DEF Record, Mine, Go
<1>2. Mine(t) \in Result /\ o \in Operation /\ Owns(t) /\ Mine(t).operation = o
  BY <1>1, MineFits DEF AskInv, Owns, Mine
<1>3. ~ Holds(results, o) /\ results \in Seq(Result) /\ Unique(results)
  BY <1>2, OwnerPending DEF AskInv, PendingIsNew, Holds, TypeOK
<1>4. /\ all \in Seq(Result) /\ Unique(all) /\ Holds(all, o)
      /\ \A q : q # o => (Holds(all, q) <=> Holds(results, q))
  BY <1>2, <1>3, AppendOf, UniqueAppend
<1>5. Newest(all) \in Seq(Result) /\ (Newest(all) = all \/ Newest(all) = Tail(all)) /\ all # <<>>
  BY <1>2, <1>3, <1>4, AppendOf, NewestType DEF Newest
<1>6. Unique(Newest(all)) /\ \A q : Holds(Newest(all), q) => Holds(all, q)
  <2>1. CASE Newest(all) = all
    BY <1>4, <2>1
  <2>2. CASE Newest(all) = Tail(all)
    <3>1. all \in Seq(Result) /\ all # <<>> /\ Unique(all)
      BY <1>4, <1>5
    <3> HIDE DEF all
    <3>2. /\ Unique(Tail(all)) /\ Holds(all, Head(all).operation)
          /\ \A q : q # Head(all).operation => (Holds(Tail(all), q) <=> Holds(all, q))
      BY <3>1, UniqueTail
    <3> QED BY <2>2, <3>2
  <2> QED
    BY <1>5, <2>1, <2>2
<1>7. \A q : /\ Cardinality({i \in DOMAIN all : all[i].operation = q}) = Count(all, q)
             /\ Cardinality({i \in DOMAIN Newest(all) : Newest(all)[i].operation = q})
                  = Count(Newest(all), q)
  BY <1>4, <1>5, <1>6, UniqueCount
<1>8. \A q \in Operation :
        forgotten'[q] = forgotten[q] + Count(all, q) - Count(Newest(all), q)
  BY <1>1, <1>7
<1>9. \A q : /\ Count(all, q) \in {0, 1} /\ Count(Newest(all), q) \in {0, 1}
             /\ Count(Newest(all), q) <= Count(all, q)
  BY <1>6 DEF Count
<1>10. \A q \in Operation :
         /\ forgotten'[q] \in Nat
         /\ forgotten'[q] + Count(Newest(all), q) = forgotten[q] + Count(all, q)
  <2>1. ASSUME NEW q \in Operation, NEW n, NEW k, n = Count(all, q), k = Count(Newest(all), q)
        PROVE  forgotten'[q] \in Nat /\ forgotten'[q] + k = forgotten[q] + n
    <3>1. forgotten'[q] = forgotten[q] + n - k /\ n \in {0, 1} /\ k \in {0, 1} /\ k <= n
      BY <1>8, <1>9, <2>1
    <3> QED
      BY <3>1 DEF TypeOK
  <2> QED
    BY <2>1
<1>11. forgotten' \in [Operation -> Nat]
  BY <1>1, <1>10
<1> QED
  BY <1>1, <1>2, <1>3, <1>4, <1>6, <1>10, <1>11

LEMMA AskInvRecord ==
  ASSUME TypeOK, AskInv, NEW t \in Thread, Record(t)
  PROVE  AskInv'
<1>0. PICK o, all : o = at[t].operation /\ all = Append(results, Mine(t))
  OBVIOUS
<1>1. /\ at[t].step = "record" /\ o \in Operation /\ Mine(t) \in Result
      /\ at' = [at EXCEPT ![t] = Idle] /\ pending' = [pending EXCEPT ![o] = NoCall]
      /\ ~ Holds(results, o) /\ Holds(all, o)
      /\ \A q : q # o => (Holds(all, q) <=> Holds(results, q))
      /\ Unique(results')
      /\ \A q : Holds(results', q) => Holds(all, q)
      /\ \A q \in Operation :
           forgotten'[q] + Count(results', q) = forgotten[q] + Count(all, q)
      /\ asked' = asked /\ forgotten' \in [Operation -> Nat]
  BY <1>0, RecordEffect
<1> USE <1>0
<1>2. at'[t] = Idle /\ \A u \in Thread \ {t} : at'[u] = at[u]
  BY <1>1 DEF TypeOK
<1>3. /\ pending'[o] = NoCall
      /\ \A q \in Operation \ {o} : pending'[q] = pending[q]
  BY <1>1 DEF TypeOK
<1>4. ~ Owns(t)' /\ Idle.step = "idle" /\ Owns(t)
  BY <1>1, <1>2 DEF Owns, Idle
<1>5. \A u \in Thread : Owns(u)' => u # t /\ Owns(u) /\ at[u].operation # o
  BY <1>2, <1>4 DEF AskInv, OneOwner, Owns
<1>6. OwnersFit'
  <2>1. ASSUME NEW u \in Thread, u # t
        PROVE  at'[u] = at[u]
    BY <1>2, <2>1
  <2>2. ASSUME NEW u \in Thread, u # t, Owns(u)
        PROVE  pending'[at[u].operation] = pending[at[u].operation]
    BY <1>3, <1>5, <2>1, <2>2, OwnerPending DEF AskInv, Owns
  <2> QED
    BY <1>2, <1>4, <2>1, <2>2 DEF AskInv, OwnersFit, Owns
<1>7. OneOwner'
  BY <1>2, <1>5 DEF AskInv, OneOwner
<1>8. PendingIsNew'
  <2>1. ASSUME NEW i \in DOMAIN results', NEW q, q = results'[i].operation
        PROVE  ~ Pending(q)'
    <3>1. Holds(results', q)
      BY <2>1 DEF Holds
    <3>2. Holds(all, q)
      BY <1>1, <3>1
    <3>3. CASE q = o
      <4>1. ~ Pending(o)'
        BY <1>3 DEF Pending, NoCall
      <4> QED
        BY <3>3, <4>1
    <3>4. CASE q # o
      <4>1. PICK j \in DOMAIN results : results[j].operation = q
        BY <1>1, <3>2, <3>4 DEF Holds
      <4>2. results[j] \in Result /\ ~ Pending(results[j].operation)
        BY DEF TypeOK, AskInv, PendingIsNew
      <4>3. q \in Operation /\ pending[q].call = 0
        BY <4>1, <4>2 DEF Result, Pending
      <4> QED
        BY <1>3, <3>4, <4>3 DEF Pending
    <3> QED
      BY <3>3, <3>4
  <2> QED
    BY <2>1 DEF PendingIsNew
<1>9. InHand(o) /\ ~ InHand(o)'
  <2>1. InHand(o)
    BY <1>1 DEF InHand
  <2>2. \A u \in Thread : at'[u].step = "record" => Owns(u)' /\ u # t
    BY <1>4 DEF Owns
  <2>3. \A u \in Thread : at'[u].step = "record" => at'[u].operation # o
    BY <1>2, <1>5, <2>2
  <2> QED
    BY <2>1, <2>3 DEF InHand
<1>10. \A q : q # o => (InHand(q)' <=> InHand(q))
  BY <1>1, <1>2, <1>4 DEF InHand
<1>11. Balanced(o)'
  <2>1. Balanced(o) /\ forgotten[o] \in Nat
    BY <1>1 DEF AskInv, Accounted, TypeOK
  <2>2. asked[o] = forgotten[o] + Count(results, o) + 1
    BY <1>9, <2>1 DEF Balanced
  <2>3. Count(results, o) = 0 /\ Count(all, o) = 1
    BY <1>1 DEF Count
  <2>4. asked'[o] = forgotten'[o] + Count(results', o)
    BY <1>1, <2>1, <2>2, <2>3
  <2>5. Count(results', o) \in {0, 1} /\ forgotten'[o] \in Nat
    BY <1>1 DEF Count
  <2>6. asked'[o] = forgotten'[o] + Count(results', o) + 0
    BY <2>4, <2>5
  <2> QED
    BY <1>9, <2>6 DEF Balanced
<1>12. ASSUME NEW q \in Operation, q # o
       PROVE  Balanced(q)'
  <2>1. Balanced(q) /\ forgotten[q] \in Nat
    BY DEF AskInv, Accounted, TypeOK
  <2>2. Count(results, q) = Count(all, q)
    BY <1>1, <1>12 DEF Count
  <2>3. forgotten'[q] + Count(results', q) = forgotten[q] + Count(results, q)
    BY <1>1, <2>2
  <2> QED
    BY <1>1, <1>10, <1>12, <2>1, <2>3 DEF Balanced
<1>13. Accounted'
  BY <1>11, <1>12 DEF Accounted
<1> QED
  BY <1>1, <1>6, <1>7, <1>8, <1>13 DEF AskInv

LEMMA AskInvWake ==
  ASSUME TypeOK, AskInv, NEW t \in Thread, Wake(t)
  PROVE  AskInv'
<1>1. UNCHANGED <<pending, results, asked, forgotten>> /\ at[t].step = "wait"
  BY DEF Wake
<1>2. at'[t] = Idle /\ \A u \in Thread \ {t} : at'[u] = at[u]
  BY DEF Wake, Go, TypeOK
<1>3. \A u \in Thread : Owns(u)' => u # t /\ Owns(u)
  BY <1>2 DEF Owns, Idle
<1>4. OwnersFit'
  <2>1. ASSUME NEW u \in Thread, u # t
        PROVE  at'[u] = at[u]
    BY <1>2, <2>1
  <2>2. at'[t].step = "idle"
    BY <1>2 DEF Idle
  <2> QED
    BY <1>1, <2>1, <2>2 DEF AskInv, OwnersFit, Owns
<1>5. OneOwner' /\ PendingIsNew' /\ Unique(results)'
  BY <1>1, <1>2, <1>3 DEF AskInv, OneOwner, PendingIsNew, Pending, Unique
<1>6. \A q : InHand(q)' <=> InHand(q)
  BY <1>1, <1>2 DEF InHand, Idle
<1>7. Accounted'
  BY <1>1, <1>6 DEF AskInv, Accounted, Balanced, Count, Holds
<1> QED
  BY <1>4, <1>5, <1>7 DEF AskInv

LEMMA AskInvExpire ==
  ASSUME TypeOK, AskInv, Expire
  PROVE  AskInv'
<1>0. PICK o : o = Head(results).operation
  OBVIOUS
<1> USE <1>0
<1>1. /\ results # <<>> /\ results' = Tail(results) /\ results \in Seq(Result)
      /\ Unique(results)
      /\ UNCHANGED <<pending, at, asked>>
  BY DEF Expire, TypeOK, AskInv
<1>2. /\ Unique(results') /\ ~ Holds(results', o) /\ Holds(results, o)
      /\ \A q : q # o => (Holds(results', q) <=> Holds(results, q))
  BY <1>1, UniqueTail
<1>3. o \in Operation
  <2>1. Head(results) \in Result
    BY <1>1
  <2> QED
    BY <2>1 DEF Result
<1>4. /\ forgotten'[o] = forgotten[o] + 1
      /\ \A q \in Operation \ {o} : forgotten'[q] = forgotten[q]
  BY <1>3 DEF Expire, TypeOK
<1>5. OwnersFit' /\ OneOwner'
  BY <1>1 DEF AskInv, OwnersFit, OneOwner, Owns
<1>6. PendingIsNew'
  <2>1. \A i \in DOMAIN results' : i + 1 \in DOMAIN results /\ results'[i] = results[i + 1]
    BY <1>1, TailOf
  <2> QED
    BY <1>1, <2>1 DEF AskInv, PendingIsNew, Pending
<1>7. \A q : InHand(q)' <=> InHand(q)
  BY <1>1 DEF InHand
<1>8. Balanced(o)'
  <2>1. Balanced(o) /\ forgotten[o] \in Nat /\ asked' = asked
    BY <1>1, <1>3 DEF AskInv, Accounted, TypeOK
  <2>2. Count(results, o) = 1 /\ Count(results', o) = 0
    BY <1>2 DEF Count
  <2> QED
    BY <1>4, <1>7, <2>1, <2>2 DEF Balanced
<1>9. ASSUME NEW q \in Operation, q # o
      PROVE  Balanced(q)'
  <2>1. Balanced(q) /\ asked' = asked
    BY <1>1 DEF AskInv, Accounted
  <2>2. Count(results', q) = Count(results, q)
    BY <1>2, <1>9 DEF Count
  <2> QED
    BY <1>4, <1>7, <1>9, <2>1, <2>2 DEF Balanced
<1>10. Accounted'
  BY <1>8, <1>9 DEF Accounted
<1> QED
  BY <1>1, <1>2, <1>5, <1>6, <1>10 DEF AskInv

NothingKnown ==
  /\ results = <<>> /\ \A t \in Thread : at[t].step = "idle"
  /\ \A o \in Operation : asked[o] = forgotten[o] /\ asked[o] \in Nat

LEMMA Nothing == NothingKnown => AskInv
<1> SUFFICES ASSUME NothingKnown PROVE AskInv
  OBVIOUS
<1> USE DEF NothingKnown
<1>1. DOMAIN results = {}
  OBVIOUS
<1>2. OwnersFit /\ OneOwner /\ PendingIsNew /\ Unique(results)
  BY <1>1 DEF OwnersFit, OneOwner, PendingIsNew, Unique, Owns
<1>3. \A o \in Operation : Count(results, o) = 0 /\ ~ InHand(o)
  BY <1>1 DEF Count, Holds, InHand
<1>4. Accounted
  BY <1>3 DEF Accounted, Balanced
<1> QED
  BY <1>2, <1>4 DEF AskInv

LEMMA AskInvInit ==
  ASSUME Init
  PROVE  AskInv
  BY Nothing DEF Init, Idle, NothingKnown

LEMMA AskInvNext ==
  ASSUME TypeOK, AskInv, [Next]_vars
  PROVE  AskInv'
<1>1. CASE Restart
  <2>1. /\ results' = <<>> /\ asked' = asked /\ forgotten' = asked
        /\ \A t \in Thread : at'[t].step = "idle"
        /\ \A o \in Operation : asked[o] \in Nat
    BY <1>1 DEF Restart, Idle, TypeOK
  <2> QED
    <3>1. NothingKnown'
      BY <2>1 DEF NothingKnown
    <3> QED
      BY <3>1, Nothing, PTL
<1>2. CASE UNCHANGED vars
  BY <1>2 DEF vars, AskInv, OwnersFit, OneOwner, PendingIsNew, Unique, Accounted, Balanced, Count, Holds,
              InHand, Owns, Pending
<1> QED
  BY <1>1, <1>2, AskInvRegister, AskInvLock, AskInvExecute, AskInvRecord, AskInvWake,
     AskInvExpire DEF Next, Running

LEMMA TypesNext ==
  ASSUME TypeOK, AskInv, [Next]_vars
  PROVE  TypeOK'
<1> USE BoundAssumption
<1>1. ASSUME NEW t \in Thread, NEW o \in Operation, NEW p \in Payload, Register(t, o, p)
      PROVE  TypeOK'
  <2>1. calls < MaxCalls /\ calls' = calls + 1 /\ calls' \in 0..MaxCalls
    BY <1>1 DEF Register, TypeOK
  <2>2. /\ Asks("lock", calls + 1, o, p) \in At /\ calls + 1 \in Call
        /\ Pending(o) => Asks("wait", pending[o].call, o, p) \in At
    BY <2>1, AsksFits
  <2>3. CASE Known(o, p)
    <3>1. PICK r \in Cached(o) : answers' \subseteq answers \cup {<<r.call, r.status>>}
      BY <2>3 DEF Known
    <3>2. r \in Result
      BY CachedIs
    <3>3. answers' \subseteq Call \X Status
      BY <3>1, <3>2 DEF TypeOK, Result
    <3> QED
      BY <1>1, <2>1, <2>3, <3>3 DEF Register, TypeOK, Known
  <2>4. CASE InFlight(t, o, p)
    <3>1. at' \in [Thread -> At]
      BY <2>2, <2>4 DEF InFlight, TypeOK
    <3> QED
      BY <1>1, <2>1, <2>4, <3>1 DEF Register, TypeOK, InFlight
  <2>5. CASE Free(t, o, p)
    <3>1. at' \in [Thread -> At]
      BY <2>2, <2>5 DEF Free, TypeOK
    <3>2. pending' \in [Operation -> [call : Call \cup {0}, print : Payload \cup {None}]]
      BY <2>2, <2>5 DEF Free, TypeOK
    <3> QED
      BY <1>1, <2>1, <2>5, <3>1, <3>2 DEF Register, TypeOK, Free
  <2> QED
    BY <1>1, <2>3, <2>4, <2>5, RegisterEffect
<1>2. ASSUME NEW t \in Thread, Lock(t)
      PROVE  TypeOK'
  <2>1. at' \in [Thread -> At]
    BY <1>2, ThreadFits DEF Lock, Go, TypeOK, Steps
  <2> QED
    BY <1>2, <2>1 DEF Lock, TypeOK
<1>3. ASSUME NEW t \in Thread, Execute(t)
      PROVE  TypeOK'
  <2>1. PICK s \in Status : Go(t, [at[t] EXCEPT !.step = "record", !.status = s])
    BY <1>3 DEF Execute
  <2>2. [at[t] EXCEPT !.step = "record", !.status = s] \in At
    BY DEF TypeOK, At, Steps
  <2>3. at' \in [Thread -> At]
    BY <2>1, <2>2, ThreadGoes
  <2>4. at[t].operation \in Operation
    BY <1>3 DEF Execute, AskInv, OwnersFit
  <2>5. asked' = [asked EXCEPT ![at[t].operation] = @ + 1]
    BY <1>3 DEF Execute
  <2>6. asked' \in [Operation -> Nat]
    BY <2>4, <2>5 DEF TypeOK
  <2> QED
    BY <1>3, <2>3, <2>6 DEF Execute, TypeOK
<1>4. ASSUME NEW t \in Thread, Record(t)
      PROVE  TypeOK'
  <2>1. /\ results' = Newest(Append(results, Mine(t))) /\ Append(results, Mine(t)) \in Seq(Result)
        /\ Mine(t) \in Result /\ forgotten' \in [Operation -> Nat]
    BY <1>4, RecordEffect
  <2>2. results' \in Seq(Result)
    BY <2>1, NewestType
  <2>3. at' \in [Thread -> At]
    BY <1>4, IdleFits DEF Record, Go, TypeOK
  <2>4. pending' \in [Operation -> [call : Call \cup {0}, print : Payload \cup {None}]]
    BY <1>4 DEF Record, TypeOK, NoCall
  <2>5. response' \in [Call -> Status \cup {None}] /\ answers' \subseteq Call \X Status
    BY <1>4, <2>1 DEF Record, TypeOK, Answered, Mine, Result
  <2> QED
    BY <1>4, <2>1, <2>2, <2>3, <2>4, <2>5 DEF Record, TypeOK
<1>5. ASSUME NEW t \in Thread, Wake(t)
      PROVE  TypeOK'
  <2>1. at' \in [Thread -> At]
    BY <1>5, IdleFits DEF Wake, Go, TypeOK
  <2>2. at[t].call \in Call /\ response[at[t].call] # None
    BY <1>5 DEF Wake, AskInv, OwnersFit
  <2>3. answers' \subseteq Call \X Status
    BY <1>5, <2>2 DEF Wake, TypeOK
  <2> QED
    BY <1>5, <2>1, <2>3 DEF Wake, TypeOK
<1>6. CASE Expire
  <2>1. results' = Tail(results) /\ results # <<>> /\ results \in Seq(Result)
    BY <1>6 DEF Expire, TypeOK
  <2>2. results' \in Seq(Result) /\ Head(results) \in Result
    BY <2>1, TailOf
  <2>3. forgotten' \in [Operation -> Nat]
    BY <1>6, <2>2 DEF Expire, TypeOK, Result
  <2> QED
    BY <1>6, <2>2, <2>3 DEF Expire, TypeOK
<1>7. CASE Restart
  BY <1>7, IdleFits DEF Restart, TypeOK, NoCall
<1>8. CASE UNCHANGED vars
  BY <1>8 DEF vars, TypeOK
<1> QED
  BY <1>1, <1>2, <1>3, <1>4, <1>5, <1>6, <1>7, <1>8 DEF Next, Running


\* The state that both inductions are about.
THEOREM TypeCorrect == Spec => [](TypeOK /\ AskInv)
<1>1. Init => TypeOK /\ AskInv
  BY TypesInit, AskInvInit
<1>2. TypeOK /\ AskInv /\ [Next]_vars => (TypeOK /\ AskInv)'
  BY TypesNext, AskInvNext
<1> QED
  BY <1>1, <1>2, PTL DEF Spec

-----------------------------------------------------------------------------
(* What everyone is told *)

\* A request is not told of before its owner records it.
LEMMA OwnersCallIsNew ==
  ASSUME TypeOK, AskInv, NEW t \in Thread, Owns(t)
  PROVE  at[t].call \in Call
  BY OwnerPending DEF AskInv

\* A step that has nothing new to tell, and makes no new owner, changes nothing.
LEMMA NothingNew ==
  ASSUME TypeOK, ToldInv, Told' \subseteq Told, calls' \in Nat, calls <= calls',
         \A t \in Thread : Owns(t)' => Owns(t) /\ at'[t].call = at[t].call
  PROVE  ToldInv'
<1>1. 1..calls \subseteq 1..calls'
  BY DEF TypeOK
<1> QED
  BY <1>1 DEF ToldInv

LEMMA ToldOfResults ==
  ASSUME results' \in Seq(Result), results \in Seq(Result),
         \A i \in DOMAIN results' : \E j \in DOMAIN results : results'[i] = results[j],
         \A c \in Call : response'[c] \in {None, response[c]},
         answers' \subseteq Told
  PROVE  Told' \subseteq Told
<1>1. ASSUME NEW x \in Told'
      PROVE  x \in Told
  <2>1. CASE x \in answers'
    BY <2>1
  <2>2. CASE \E i \in DOMAIN results' : x = <<results'[i].call, results'[i].status>>
    BY <2>2 DEF Told
  <2>3. CASE \E c \in Call : response'[c] # None /\ x = <<c, response'[c]>>
    BY <2>3 DEF Told
  <2> QED
    BY <2>1, <2>2, <2>3 DEF Told
<1> QED
  BY <1>1

LEMMA ToldRegister ==
  ASSUME TypeOK, AskInv, ToldInv,
         NEW t \in Thread, NEW o \in Operation, NEW p \in Payload, Register(t, o, p)
  PROVE  ToldInv'
<1>1. /\ at[t].step = "idle" /\ UNCHANGED <<results, response>>
      /\ calls < MaxCalls /\ calls' = calls + 1 /\ calls \in Nat
  BY DEF Register, TypeOK
<1>2. answers' \subseteq Told
  <2>1. CASE Known(o, p)
    BY <2>1, CachedIs DEF Known, Told
  <2> QED
    BY <2>1, RegisterEffect DEF InFlight, Free, Told
<1>3. Told' \subseteq Told
  BY <1>1, <1>2, ToldOfResults DEF TypeOK
<1>4. CASE Known(o, p)
  BY <1>1, <1>3, <1>4, NothingNew DEF Known, Owns
<1>5. CASE InFlight(t, o, p)
  <2>1. \A u \in Thread : Owns(u)' => Owns(u) /\ at'[u] = at[u]
    BY <1>5 DEF InFlight, TypeOK, Owns, Asks
  <2> QED
    BY <1>1, <1>3, <2>1, NothingNew
<1>6. CASE Free(t, o, p)
  <2>1. /\ at'[t].call = calls + 1 /\ \A u \in Thread \ {t} : at'[u] = at[u]
    BY <1>6 DEF Free, TypeOK, Asks
  <2>2. \A x \in Told' : x \in Told /\ x[1] \in 1..calls
    BY <1>3 DEF ToldInv
  <2>3. \A u \in Thread \ {t} : Owns(u)' => Owns(u) /\ at'[u].call \in 1..calls
    BY <2>1 DEF ToldInv, Owns
  <2>4. 1..calls \subseteq 1..calls' /\ calls + 1 \notin 1..calls /\ calls + 1 \in 1..calls'
    BY <1>1
  <2>5. \A x, y \in Told' : x[1] = y[1] => x = y
    BY <2>2 DEF ToldInv
  <2>6. \A u \in Thread : Owns(u)' => at'[u].call \in 1..calls'
    BY <2>1, <2>3, <2>4
  <2>7. \A u \in Thread, x \in Told' : Owns(u)' => x[1] # at'[u].call
    BY <2>1, <2>2, <2>3, <2>4 DEF ToldInv
  <2>8. \A u, v \in Thread : Owns(u)' /\ Owns(v)' /\ at'[u].call = at'[v].call => u = v
    BY <2>1, <2>3, <2>4 DEF ToldInv
  <2> QED
    BY <2>2, <2>4, <2>5, <2>6, <2>7, <2>8 DEF ToldInv
<1> QED
  BY <1>4, <1>5, <1>6, RegisterEffect

LEMMA ToldRecord ==
  ASSUME TypeOK, AskInv, ToldInv, NEW t \in Thread, Record(t)
  PROVE  ToldInv'
<1>0. PICK new, all : new = <<at[t].call, at[t].status>> /\ all = Append(results, Mine(t))
  OBVIOUS
<1>1. /\ at[t].step = "record" /\ Mine(t) \in Result /\ all \in Seq(Result)
      /\ at' = [at EXCEPT ![t] = Idle] /\ results' = Newest(all)
  BY <1>0, RecordEffect
<1>2. /\ response' = [response EXCEPT ![at[t].call] = at[t].status]
      /\ answers' = answers \cup {new} /\ calls' = calls /\ calls \in Nat
  BY <1>0 DEF Record, Answered, TypeOK
<1>3. Owns(t) /\ ~ Owns(t)' /\ \A u \in Thread : Owns(u)' => Owns(u) /\ u # t /\ at'[u] = at[u]
  BY <1>1 DEF Owns, TypeOK, Idle
<1>4. Told' \subseteq Told \cup {new}
  <2>1. \A i \in DOMAIN results' :
          results'[i] = Mine(t) \/ \E j \in DOMAIN results : results'[i] = results[j]
    <3>1. \A i \in DOMAIN all :
            all[i] = Mine(t) \/ \E j \in DOMAIN results : all[i] = results[j]
      BY <1>0, <1>1, AppendOf DEF TypeOK
    <3>2. CASE results' = all
      BY <3>1, <3>2
    <3>3. CASE all # <<>> /\ results' = Tail(all)
      BY <1>1, <3>1, <3>3, TailOf
    <3> QED
      BY <1>0, <1>1, <3>2, <3>3, AppendOf DEF Newest, TypeOK
  <2>2. ASSUME NEW x \in Told'
        PROVE  x \in Told \cup {new}
    <3>1. CASE x \in answers'
      BY <1>2, <3>1 DEF Told
    <3>2. CASE \E i \in DOMAIN results' : x = <<results'[i].call, results'[i].status>>
      BY <1>0, <2>1, <3>2 DEF Told, Mine
    <3>3. CASE \E c \in Call : response'[c] # None /\ x = <<c, response'[c]>>
      <4>1. PICK c \in Call : response'[c] # None /\ x = <<c, response'[c]>>
        BY <3>3
      <4>2. CASE c = at[t].call
        BY <1>0, <1>2, <4>1, <4>2 DEF TypeOK
      <4>3. CASE c # at[t].call
        BY <1>2, <4>1, <4>3 DEF TypeOK, Told
      <4> QED
        BY <4>2, <4>3
    <3> QED
      BY <3>1, <3>2, <3>3 DEF Told
  <2> QED
    BY <2>2
<1>5. \A x \in Told : x[1] # new[1]
  BY <1>0, <1>3 DEF ToldInv
<1>6. \A x, y \in Told' : x[1] = y[1] => x = y
  BY <1>4, <1>5 DEF ToldInv
<1>7. \A x \in Told' : x[1] \in 1..calls'
  BY <1>0, <1>2, <1>3, <1>4 DEF ToldInv
<1>8. \A u \in Thread, x \in Told' : Owns(u)' => x[1] # at'[u].call
  BY <1>0, <1>3, <1>4 DEF ToldInv
<1>9. \A u, v \in Thread : Owns(u)' /\ Owns(v)' /\ at'[u].call = at'[v].call => u = v
  BY <1>3 DEF ToldInv
<1>10. \A u \in Thread : Owns(u)' => at'[u].call \in 1..calls'
  BY <1>2, <1>3 DEF ToldInv
<1> QED
  BY <1>6, <1>7, <1>8, <1>9, <1>10 DEF ToldInv

LEMMA ToldNext ==
  ASSUME TypeOK, TypeOK', AskInv, ToldInv, [Next]_vars
  PROVE  ToldInv'
<1>1. calls \in Nat
  BY DEF TypeOK
<1>2. ASSUME NEW t \in Thread, Lock(t) \/ Execute(t)
      PROVE  ToldInv'
  <2>1. UNCHANGED <<results, response, answers, calls>> /\ Owns(t)
    BY <1>2 DEF Lock, Execute, Owns
  <2>2. Told' = Told
    BY <2>1 DEF Told
  <2>3. /\ at'[t].call = at[t].call
        /\ \A u \in Thread \ {t} : at'[u] = at[u]
    <3>1. CASE Lock(t)
      BY <3>1 DEF Lock, Go, TypeOK, At
    <3>2. CASE Execute(t)
      BY <3>2 DEF Execute, Go, TypeOK, At
    <3> QED
      BY <1>2, <3>1, <3>2
  <2>4. \A u \in Thread : Owns(u)' => Owns(u) /\ at'[u].call = at[u].call
    BY <2>1, <2>3 DEF Owns
  <2> QED
    BY <1>1, <2>1, <2>2, <2>4, NothingNew
<1>3. ASSUME NEW t \in Thread, Wake(t)
      PROVE  ToldInv'
  <2>1. /\ UNCHANGED <<results, response, calls>>
        /\ answers' = answers \cup {<<at[t].call, response[at[t].call]>>}
        /\ at[t].call \in Call /\ response[at[t].call] # None
    BY <1>3 DEF Wake, AskInv, OwnersFit
  <2>2. answers' \subseteq Told
    BY <2>1 DEF Told
  <2>3. Told' \subseteq Told
    BY <2>1, <2>2, ToldOfResults DEF TypeOK
  <2>4. \A u \in Thread : Owns(u)' => Owns(u) /\ at'[u].call = at[u].call
    BY <1>3 DEF Wake, Go, TypeOK, Owns, Idle
  <2> QED
    BY <1>1, <2>1, <2>3, <2>4, NothingNew
<1>4. CASE Expire
  <2>1. /\ UNCHANGED <<at, calls, response, answers>>
        /\ results # <<>> /\ results' = Tail(results)
    BY <1>4 DEF Expire
  <2>2. \A i \in DOMAIN results' : \E j \in DOMAIN results : results'[i] = results[j]
    BY <2>1, TailOf DEF TypeOK
  <2>3. Told' \subseteq Told
    BY <2>1, <2>2, ToldOfResults DEF TypeOK, Told
  <2> QED
    BY <1>1, <2>1, <2>3, NothingNew DEF Owns
<1>5. CASE Restart
  <2>1. /\ UNCHANGED <<calls, answers>> /\ results' = <<>>
        /\ \A c \in Call : response'[c] = None
        /\ \A t \in Thread : ~ Owns(t)'
    BY <1>5 DEF Restart, Owns, Idle
  <2>2. Told' \subseteq Told
    BY <2>1, ToldOfResults DEF TypeOK, Told
  <2> QED
    BY <1>1, <2>1, <2>2, NothingNew
<1>6. CASE UNCHANGED vars
  BY <1>1, <1>6, NothingNew DEF vars, Told, Owns
<1> QED
  BY <1>2, <1>3, <1>4, <1>5, <1>6, ToldRegister, ToldRecord DEF Next, Running

LEMMA ToldInit ==
  ASSUME Init
  PROVE  ToldInv
<1>1. Told = {}
  BY DEF Init, Told
<1>2. \A t \in Thread : ~ Owns(t)
  BY DEF Init, Idle, Owns
<1> QED
  BY <1>1, <1>2 DEF ToldInv

-----------------------------------------------------------------------------
(* Theorems *)

\* dispatch and operation (web.py): however often a request is repeated, and from
\* however many threads, the daemon is asked once, unless its result was forgotten.
THEOREM AskedOnceEver == Spec => []AskedOnce
<1>1. TypeOK /\ AskInv => AskedOnce
  <2> SUFFICES ASSUME TypeOK, AskInv, NEW o \in Operation
               PROVE  asked[o] <= 1 + forgotten[o]
    BY DEF AskedOnce
  <2>1. Balanced(o) /\ forgotten[o] \in Nat
    BY DEF AskInv, Accounted, TypeOK
  <2>2. ~ (Holds(results, o) /\ InHand(o))
    <3> SUFFICES ASSUME Holds(results, o), InHand(o) PROVE FALSE
      OBVIOUS
    <3>1. PICK t \in Thread : Owns(t) /\ at[t].operation = o
      BY DEF InHand, Owns
    <3>2. Pending(o)
      BY <3>1, OwnerPending DEF AskInv
    <3> QED
      BY <3>2 DEF Holds, AskInv, PendingIsNew
  <2> QED
    BY <2>1, <2>2 DEF Balanced, Count
<1> QED
  BY <1>1, TypeCorrect, PTL

\* The answer "unknown" about an operation id is only given of a request that did
\* not reach the daemon, or whose result was forgotten.
THEOREM UnknownIsTrue == Spec => []UnknownIsUnasked
<1>1. TypeOK /\ AskInv => UnknownIsUnasked
  <2> SUFFICES ASSUME TypeOK, AskInv, NEW o \in Operation, State(o) = "unknown"
               PROVE  asked[o] <= forgotten[o]
    BY DEF UnknownIsUnasked
  <2>1. Cached(o) = {} /\ ~ Pending(o)
    BY DEF State
  <2>2. ~ Holds(results, o)
    BY <2>1, CachedHolds DEF TypeOK
  <2>3. ~ InHand(o)
    <3> SUFFICES ASSUME InHand(o) PROVE FALSE
      OBVIOUS
    <3>1. PICK t \in Thread : Owns(t) /\ at[t].operation = o
      BY DEF InHand, Owns
    <3> QED
      BY <2>1, <3>1, OwnerPending DEF AskInv
  <2>4. Balanced(o) /\ forgotten[o] \in Nat
    BY DEF AskInv, Accounted, TypeOK
  <2> QED
    BY <2>2, <2>3, <2>4 DEF Balanced, Count
<1> QED
  BY <1>1, TypeCorrect, PTL

\* Everyone who sent the same request is given the answer of the one call that
\* executed it, also when the cache has dropped it in the meantime.
THEOREM OneAnswerEver == Spec => []OneAnswer
<1>1. Init => ToldInv
  BY ToldInit
<1>2. TypeOK /\ TypeOK' /\ AskInv /\ ToldInv /\ [Next]_vars => ToldInv'
  BY ToldNext
<1>3. ToldInv => OneAnswer
  BY DEF ToldInv, OneAnswer, Told
<1> QED
  BY <1>1, <1>2, <1>3, TypeCorrect, PTL DEF Spec

\* _results never grows beyond its limit.
THEOREM CacheIsBounded == Spec => []ResultsBounded
<1>1. Init => ResultsBounded
  BY BoundAssumption DEF Init, ResultsBounded
<1>2. TypeOK /\ AskInv /\ ResultsBounded /\ [Next]_vars => ResultsBounded'
  <2> SUFFICES ASSUME TypeOK, AskInv, ResultsBounded, [Next]_vars PROVE ResultsBounded'
    OBVIOUS
  <2>1. ASSUME NEW t \in Thread, Record(t)
        PROVE  ResultsBounded'
    <3>1. PICK all : all = Append(results, Mine(t))
      OBVIOUS
    <3>2. all \in Seq(Result) /\ results' = Newest(all) /\ Mine(t) \in Result
      BY <2>1, <3>1, RecordEffect
    <3>3. Len(all) \in Nat /\ Len(all) <= MaxResults + 1 /\ all # <<>>
      BY <3>1, <3>2, AppendOf, BoundAssumption DEF TypeOK, ResultsBounded
    <3>4. Len(Tail(all)) = Len(all) - 1
      BY <3>2, <3>3, TailOf
    <3> QED
      BY <3>2, <3>3, <3>4, BoundAssumption DEF Newest, ResultsBounded
  <2>2. CASE Expire
    <3>1. results # <<>> /\ results' = Tail(results)
      BY <2>2 DEF Expire
    <3> QED
      BY <3>1, TailOf, BoundAssumption DEF TypeOK, ResultsBounded
  <2>3. CASE Restart
    BY <2>3, BoundAssumption DEF Restart, ResultsBounded
  <2> QED
    BY <2>1, <2>2, <2>3 DEF Next, Running, Register, Lock, Execute, Wake, vars, ResultsBounded
<1> QED
  BY <1>1, <1>2, TypeCorrect, PTL DEF Spec

-----------------------------------------------------------------------------
(***************************************************************************)
(* The gateways' histories (GatewayHistory, with the properties of         *)
(* Cleanups): for every set of gateways and clients, every row that may    *)
(* arrive, and every limit.                                                *)
(***************************************************************************)

\* The rowid of a message is its number, so it is never used again.
RowFits(r, n) ==
  /\ r = [number |-> r.number, table |-> r.table, key |-> r.key, open |-> r.open,
          old |-> r.old]
  /\ r.number \in 1..n /\ r.table \in H!Table
  /\ r.table = "messages" => r.key = r.number

RowsFit ==
  /\ stored \in Nat /\ rows = [g \in Gateway |-> rows[g]]
  /\ \A g \in Gateway : \A r \in rows[g] : RowFits(r, stored)
  /\ \A g \in Gateway : \A r, s \in rows[g] : r.number = s.number => r = s

\* What identifies a row in a plan leads to a row that was shown: a message by its
\* key, an action by its fingerprint.
PlanFits(p) ==
  /\ p.gateway \in Gateway
  /\ \A k : <<"messages", k>> \in p.keys => k \in p.shown
  /\ \A k, n : <<k, n>> \in p.prints => n \in p.shown

PreviewFits(p) ==
  /\ p = [token |-> p.token, live |-> p.live, gateway |-> p.gateway, keys |-> p.keys,
          prints |-> p.prints, shown |-> p.shown]
  /\ PlanFits(p)
PreviewsFit == \A p \in previews : PreviewFits(p)

StepFits(s) == s = [step |-> s.step, gateway |-> s.gateway, plan |-> s.plan, days |-> s.days]
Cleans(c) == serving[c].step = "cleanup"

ServingFits ==
  /\ serving = [c \in Client |-> serving[c]]
  /\ \A c \in Client :
       /\ StepFits(serving[c])
       /\ serving[c].step # "idle" => serving[c].gateway \in Gateway
       /\ Cleans(c) => PlanFits(serving[c].plan)
                       /\ serving[c].plan.gateway = serving[c].gateway

\* What the maintenance thread has shown to itself is old, and stays so.
ShownAreOld ==
  keeper.step = "cleanup" =>
    /\ PlanFits(keeper.plan) /\ keeper.plan.gateway = keeper.gateway
    /\ \A n \in keeper.plan.shown : n \in 1..stored
    /\ \A r \in rows[keeper.gateway] : r.number \in keeper.plan.shown => r.old
KeeperFits ==
  /\ StepFits(keeper)
  /\ keeper.step # "idle" => keeper.gateway \in Gateway /\ keeper.days > 0

CleanupsFit == RowsFit /\ PreviewsFit /\ ServingFits /\ KeeperFits /\ ShownAreOld

\* A token is a preview's, a running clean-up's, or used up; never two of them.
Spent(t, used) == t \in 1..MaxTokens /\ used[t] # 0
TokensFit ==
  /\ minted \in Nat /\ ran = [t \in 1..MaxTokens |-> ran[t]]
  /\ \A t \in 1..MaxTokens : ran[t] \in {0, 1}
  /\ \A p \in previews : p.token \in 1..minted /\ ~ Spent(p.token, ran)
  /\ \A c \in Client : Cleans(c) =>
       /\ serving[c].plan.token \in 1..minted /\ ~ Spent(serving[c].plan.token, ran)
       /\ \A p \in previews : p.token # serving[c].plan.token
  /\ \A c, d \in Client :
       Cleans(c) /\ Cleans(d) /\ serving[c].plan.token = serving[d].plan.token => c = d
  /\ \A t : Spent(t, ran) => t \in 1..minted

-----------------------------------------------------------------------------
(* Lemmas about rows, plans and previews *)

\* Deleting rows leaves rows.
LEMMA RowsShrink ==
  ASSUME RowsFit, NEW g \in Gateway, NEW d, rows' = [rows EXCEPT ![g] = @ \ d],
         stored' = stored
  PROVE  RowsFit' /\ \A h \in Gateway : rows'[h] \subseteq rows[h]
<1>1. /\ rows' = [h \in Gateway |-> rows'[h]]
      /\ \A h \in Gateway : rows'[h] \subseteq rows[h]
  BY DEF RowsFit
<1> QED
  BY <1>1 DEF RowsFit

\* A row that changes, but not its number, is still the only one of that number.
LEMMA RowsReplaced ==
  ASSUME RowsFit, NEW g \in Gateway, NEW r \in rows[g], NEW s,
         RowFits(s, stored), s.number = r.number, stored' = stored,
         rows' = [rows EXCEPT ![g] = (@ \ {r}) \cup {s}]
  PROVE  RowsFit'
<1>1. /\ rows' = [h \in Gateway |-> rows'[h]]
      /\ rows'[g] = (rows[g] \ {r}) \cup {s}
      /\ \A h \in Gateway : h # g => rows'[h] = rows[h]
  BY DEF RowsFit
<1>2. ASSUME NEW h \in Gateway, NEW x \in rows'[h]
      PROVE  RowFits(x, stored)
  BY <1>1, <1>2 DEF RowsFit
<1>3. ASSUME NEW h \in Gateway, NEW x \in rows'[h], NEW y \in rows'[h], x.number = y.number
      PROVE  x = y
  <2>1. CASE h # g
    BY <1>1, <1>3, <2>1 DEF RowsFit
  <2>2. CASE h = g
    <3>1. x \in rows[g] /\ y \in rows[g] => x = y
      BY <1>3 DEF RowsFit
    <3>2. x \in rows[g] /\ x # r => x.number # s.number
      BY DEF RowsFit
    <3>3. y \in rows[g] /\ y # r => y.number # s.number
      BY DEF RowsFit
    <3> QED
      BY <1>1, <1>3, <2>2, <3>1, <3>2, <3>3
  <2> QED
    BY <2>1, <2>2
<1> QED
  BY <1>1, <1>2, <1>3 DEF RowsFit

\* A plan of rows of a gateway identifies only these.
LEMMA PlanOfRows ==
  ASSUME RowsFit, NEW g \in Gateway, NEW chosen, chosen \subseteq rows[g]
  PROVE  /\ PlanFits(H!Plan(g, chosen))
         /\ H!Plan(g, chosen).gateway = g
         /\ H!Plan(g, chosen).shown = {r.number : r \in chosen}
<1>1. PICK p : p = H!Plan(g, chosen)
  OBVIOUS
<1>2. /\ p.gateway = g /\ p.shown = {r.number : r \in chosen}
      /\ p.keys = {<<r.table, r.key>> : r \in chosen}
      /\ p.prints = {<<r.key, r.number>> : r \in {r \in chosen : r.table = "actions"}}
  BY <1>1 DEF H!Plan
<1>3. ASSUME NEW k, <<"messages", k>> \in p.keys
      PROVE  k \in p.shown
  <2>1. PICK r \in chosen : <<"messages", k>> = <<r.table, r.key>>
    BY <1>2, <1>3
  <2>2. r.table = "messages" /\ r.key = k
    BY <2>1
  <2>3. r.key = r.number
    BY <2>2 DEF RowsFit, RowFits
  <2> QED
    BY <1>2, <2>2, <2>3
<1>4. ASSUME NEW k, NEW n, <<k, n>> \in p.prints
      PROVE  n \in p.shown
  <2>1. PICK r \in chosen : <<k, n>> = <<r.key, r.number>>
    BY <1>2, <1>4
  <2>2. r.number = n
    BY <2>1
  <2> QED
    BY <1>2, <2>2
<1>5. PlanFits(p)
  BY <1>2, <1>3, <1>4 DEF PlanFits
<1> QED
  BY <1>1, <1>2, <1>5

LEMMA KeptFits ==
  ASSUME NEW token, NEW plan, PlanFits(plan)
  PROVE  PreviewFits(H!Kept(token, plan)) /\ H!Kept(token, plan).token = token
<1>1. PICK p : p = H!Kept(token, plan)
  OBVIOUS
<1>2. /\ p = [token |-> token, live |-> TRUE, gateway |-> plan.gateway, keys |-> plan.keys,
              prints |-> plan.prints, shown |-> plan.shown]
      /\ p.token = token /\ p.live = TRUE /\ p.gateway = plan.gateway
      /\ p.keys = plan.keys /\ p.prints = plan.prints /\ p.shown = plan.shown
  BY <1>1 DEF H!Kept
<1>3. PlanFits(p)
  BY <1>2 DEF PlanFits
<1> QED
  BY <1>1, <1>2, <1>3 DEF PreviewFits

\* Only previews that were there before are kept.
LEMMA TrimmedAreKept ==
  ASSUME NEW saved, NEW size
  PROVE  H!Trimmed(H!Live(saved), size) \subseteq saved /\ H!Live(saved) \subseteq saved
  BY DEF H!Trimmed, H!Since, H!Live

\* What a plan deletes was shown in its preview, and nothing of it is open.
LEMMA DoomedWereShown ==
  ASSUME RowsFit, NEW p, PlanFits(p), NEW r \in H!Doomed(p)
  PROVE  r \in rows[p.gateway] /\ ~ r.open /\ r.number \in p.shown
<1>1. /\ r \in rows[p.gateway] /\ ~ r.open /\ <<r.table, r.key>> \in p.keys
      /\ r.table = "actions" => <<r.key, r.number>> \in p.prints
  BY DEF H!Doomed
<1>2. CASE r.table = "messages"
  BY <1>1, <1>2 DEF RowsFit, RowFits, PlanFits
<1>3. CASE r.table = "actions"
  BY <1>1, <1>3 DEF PlanFits
<1> QED
  BY <1>1, <1>2, <1>3 DEF H!Table, PlanFits, RowsFit, RowFits

-----------------------------------------------------------------------------
(* Every step keeps the plans and the rows fitting *)

LEMMA FitsInit == H!Init => CleanupsFit
<1> SUFFICES ASSUME H!Init PROVE CleanupsFit
  OBVIOUS
<1>1. RowsFit
  BY DEF H!Init, RowsFit
<1>2. PreviewsFit
  BY DEF H!Init, PreviewsFit
<1>3. StepFits(H!Idle) /\ H!Idle.step = "idle"
  BY DEF H!Idle, StepFits
<1>4. ServingFits
  BY <1>3 DEF H!Init, ServingFits, Cleans
<1>5. KeeperFits /\ ShownAreOld
  BY <1>3 DEF H!Init, KeeperFits, ShownAreOld
<1> QED
  BY <1>1, <1>2, <1>4, <1>5 DEF CleanupsFit

\* What is stored, and what is pruned with it.
Fresh(g, table, open) ==
  [number |-> stored + 1, table |-> table, key |-> H!NextKey(g, table), open |-> open,
   old |-> FALSE]
LEMMA InsertIs ==
  ASSUME RowsFit, NEW g \in Gateway, NEW table \in H!Table, NEW open, H!Insert(g, table, open)
  PROVE  /\ rows' = [h \in Gateway |-> rows'[h]]
         /\ LET all == rows[g] \cup {Fresh(g, table, open)}
            IN  rows'[g] \in {all, all \ H!TooMany(all)}
         /\ \A h \in Gateway : h # g => rows'[h] = rows[h]
<1>1. PICK all : all = rows[g] \cup {Fresh(g, table, open)}
  OBVIOUS
<1>2. PICK new \in {all, all \ H!TooMany(all)} : rows' = [rows EXCEPT ![g] = new]
  BY <1>1 DEF H!Insert, Fresh
<1>3. /\ rows' = [h \in Gateway |-> rows'[h]] /\ rows'[g] = new
      /\ \A h \in Gateway : h # g => rows'[h] = rows[h]
  BY <1>2 DEF RowsFit
<1> QED
  BY <1>1, <1>2, <1>3

LEMMA InsertFits ==
  ASSUME CleanupsFit, NEW g \in Gateway, NEW table \in H!Table, NEW open,
         H!Insert(g, table, open)
  PROVE  CleanupsFit'
<1>1. PICK s : s = Fresh(g, table, open)
  OBVIOUS
<1>2. /\ stored \in Nat /\ stored' = stored + 1
      /\ UNCHANGED <<previews, serving, keeper>>
  BY DEF H!Insert, CleanupsFit, RowsFit
<1>3. /\ s = [number |-> s.number, table |-> s.table, key |-> s.key, open |-> s.open,
              old |-> s.old]
      /\ s.number = stored + 1 /\ s.table = table /\ s.key = H!NextKey(g, table)
  BY <1>1 DEF Fresh
<1>4. RowFits(s, stored + 1)
  <2>1. table = "messages" => H!NextKey(g, table) = stored + 1
    BY DEF H!NextKey
  <2> QED
    BY <1>2, <1>3, <2>1 DEF RowFits
<1>5. /\ rows' = [h \in Gateway |-> rows'[h]]
      /\ rows'[g] \subseteq rows[g] \cup {s}
      /\ \A h \in Gateway : h # g => rows'[h] = rows[h]
  BY <1>1, InsertIs DEF CleanupsFit
<1>6. ASSUME NEW h \in Gateway, NEW x \in rows[h]
      PROVE  RowFits(x, stored + 1) /\ x.number # s.number
  BY <1>2, <1>3, <1>6 DEF CleanupsFit, RowsFit, RowFits
<1>7. RowsFit'
  <2>1. ASSUME NEW h \in Gateway, NEW x \in rows'[h] PROVE RowFits(x, stored')
    BY <1>2, <1>4, <1>5, <1>6
  <2>2. ASSUME NEW h \in Gateway, NEW x \in rows'[h], NEW y \in rows'[h],
               x.number = y.number
        PROVE  x = y
    <3>1. x \in rows[h] /\ y \in rows[h] => x = y
      BY <2>2 DEF CleanupsFit, RowsFit
    <3> QED
      BY <1>5, <1>6, <2>2, <3>1
  <2>3. stored' \in Nat
    BY <1>2
  <2> QED
    BY <1>5, <2>1, <2>2, <2>3 DEF RowsFit
<1>8. ShownAreOld'
  <2> SUFFICES ASSUME keeper.step = "cleanup"
               PROVE  /\ \A n \in keeper.plan.shown : n \in 1..stored'
                      /\ \A r \in rows'[keeper.gateway] :
                           r.number \in keeper.plan.shown => r.old
    BY <1>2 DEF ShownAreOld, CleanupsFit, PlanFits
  <2>1. \A n \in keeper.plan.shown : n \in 1..stored
    BY DEF CleanupsFit, ShownAreOld
  <2>2. \A n \in keeper.plan.shown : n \in 1..stored' /\ n # s.number
    BY <1>2, <1>3, <2>1
  <2>3. keeper.gateway \in Gateway
    BY DEF CleanupsFit, KeeperFits
  <2>4. \A r \in rows[keeper.gateway] : r.number \in keeper.plan.shown => r.old
    BY DEF CleanupsFit, ShownAreOld
  <2> QED
    BY <1>5, <2>2, <2>3, <2>4
<1>9. PreviewsFit' /\ ServingFits' /\ KeeperFits'
  BY <1>2 DEF CleanupsFit, PreviewsFit, ServingFits, KeeperFits, Cleans
<1> QED
  BY <1>7, <1>8, <1>9 DEF CleanupsFit

\* A row is settled, or grows old: it keeps its number, and is not younger.
LEMMA ChangeFits ==
  ASSUME CleanupsFit, NEW g \in Gateway, NEW r \in rows[g],
         H!Settle(g, r) \/ H!Age(g, r)
  PROVE  CleanupsFit'
<1>1. PICK s : /\ s = [r EXCEPT !.open = FALSE] \/ s = [r EXCEPT !.old = TRUE]
               /\ rows' = [rows EXCEPT ![g] = (@ \ {r}) \cup {s}]
  BY DEF H!Settle, H!Age
<1>2. UNCHANGED <<stored, previews, serving, keeper>>
  BY DEF H!Settle, H!Age
<1>3. RowFits(r, stored)
  BY DEF CleanupsFit, RowsFit
<1>4. /\ s = [number |-> r.number, table |-> r.table, key |-> r.key, open |-> s.open,
              old |-> s.old]
      /\ s.number = r.number /\ s.table = r.table /\ s.key = r.key
      /\ r.old => s.old
  BY <1>1, <1>3 DEF RowFits
<1>5. RowFits(s, stored)
  BY <1>3, <1>4 DEF RowFits
<1>6. RowsFit'
  BY <1>1, <1>2, <1>4, <1>5, RowsReplaced DEF CleanupsFit
<1>7. ShownAreOld'
  <2> SUFFICES ASSUME keeper.step = "cleanup", NEW x \in rows'[keeper.gateway],
                      x.number \in keeper.plan.shown
               PROVE  x.old
    BY <1>2 DEF ShownAreOld, CleanupsFit, PlanFits
  <2>1. /\ rows'[g] = (rows[g] \ {r}) \cup {s}
        /\ \A h \in Gateway : h # g => rows'[h] = rows[h]
    BY <1>1 DEF CleanupsFit, RowsFit
  <2>2. keeper.gateway \in Gateway
    BY DEF CleanupsFit, KeeperFits
  <2>3. \A y \in rows[keeper.gateway] : y.number \in keeper.plan.shown => y.old
    BY DEF CleanupsFit, ShownAreOld
  <2>4. CASE x \in rows[keeper.gateway]
    BY <2>3, <2>4
  <2>5. CASE keeper.gateway = g /\ x = s
    BY <1>4, <2>3, <2>5
  <2> QED
    BY <2>1, <2>2, <2>4, <2>5
<1>8. PreviewsFit' /\ ServingFits' /\ KeeperFits'
  BY <1>2 DEF CleanupsFit, PreviewsFit, ServingFits, KeeperFits, Cleans
<1> QED
  BY <1>6, <1>7, <1>8 DEF CleanupsFit

\* The steps that change neither rows nor plans.
LEMMA IdleStepFits ==
  ASSUME CleanupsFit, UNCHANGED <<rows, stored, serving, keeper, previews>>
  PROVE  CleanupsFit'
<1>1. RowsFit'
  BY DEF CleanupsFit, RowsFit
<1>2. PreviewsFit' /\ ServingFits' /\ KeeperFits'
  BY DEF CleanupsFit, PreviewsFit, ServingFits, KeeperFits, Cleans
<1>3. ShownAreOld'
  BY DEF CleanupsFit, ShownAreOld
<1> QED
  BY <1>1, <1>2, <1>3 DEF CleanupsFit

\* A client's thread goes on to a step that fits.
LEMMA ServingReplaced ==
  ASSUME ServingFits, NEW c \in Client, NEW s, StepFits(s),
         s.step # "idle" => s.gateway \in Gateway,
         s.step = "cleanup" => PlanFits(s.plan) /\ s.plan.gateway = s.gateway,
         serving' = [serving EXCEPT ![c] = s]
  PROVE  ServingFits'
<1>1. /\ serving' = [d \in Client |-> serving'[d]] /\ serving'[c] = s
      /\ \A d \in Client : d # c => serving'[d] = serving[d]
  BY DEF ServingFits
<1> QED
  BY <1>1 DEF ServingFits, Cleans

\* What remains to show for a step of a client that deletes nothing.
LEMMA ClientStepFits ==
  ASSUME CleanupsFit, UNCHANGED <<rows, stored, keeper>>, ServingFits', PreviewsFit'
  PROVE  CleanupsFit'
<1>1. RowsFit'
  BY DEF CleanupsFit, RowsFit
<1>2. KeeperFits' /\ ShownAreOld'
  BY DEF CleanupsFit, KeeperFits, ShownAreOld
<1> QED
  BY <1>1, <1>2 DEF CleanupsFit

LEMMA IdleClient == StepFits(H!Idle) /\ H!Idle.step = "idle"
  BY DEF H!Idle, StepFits

LEMMA AskFits ==
  ASSUME CleanupsFit, NEW c \in Client, NEW g \in Gateway,
         H!AskPreview(c, g) \/ H!AskCleanup(c, g) \/ H!AskDelete(c, g)
  PROVE  CleanupsFit'
<1>1. PICK s : /\ \E step \in {"preview", "confirm", "delete"} :
                    s = [H!Idle EXCEPT !.step = step, !.gateway = g]
               /\ serving' = [serving EXCEPT ![c] = s]
  BY DEF H!AskPreview, H!AskCleanup, H!AskDelete
<1>2. StepFits(s) /\ s.gateway = g /\ s.step # "cleanup"
  BY <1>1 DEF H!Idle, StepFits
<1>3. ServingFits'
  BY <1>1, <1>2, ServingReplaced DEF CleanupsFit
<1>4. UNCHANGED <<rows, stored, keeper, previews>>
  BY DEF H!AskPreview, H!AskCleanup, H!AskDelete
<1>5. PreviewsFit'
  BY <1>4 DEF CleanupsFit, PreviewsFit
<1> QED
  BY <1>3, <1>4, <1>5, ClientStepFits

LEMMA PreviewStepFits ==
  ASSUME CleanupsFit, NEW c \in Client, NEW all \in BOOLEAN, H!Preview(c, all)
  PROVE  CleanupsFit'
<1>1. UNCHANGED <<rows, stored, keeper>> /\ serving' = [serving EXCEPT ![c] = H!Idle]
  BY DEF H!Preview
<1>2. ServingFits'
  BY <1>1, IdleClient, ServingReplaced DEF CleanupsFit
<1>3. PICK g \in Gateway : g = serving[c].gateway
  BY DEF H!Preview, CleanupsFit, ServingFits
<1>4. PICK plan : plan = H!Plan(g, H!Deletable(g, all)) /\ PlanFits(plan)
  BY PlanOfRows DEF H!Deletable, CleanupsFit
<1>5. \/ previews' \subseteq previews
      \/ \E kept \in SUBSET previews : previews' = kept \cup {H!Kept(minted + 1, plan)}
  BY <1>3, <1>4, TrimmedAreKept DEF H!Preview
<1>6. PreviewsFit'
  BY <1>4, <1>5, KeptFits DEF CleanupsFit, PreviewsFit
<1> QED
  BY <1>1, <1>2, <1>6, ClientStepFits

LEMMA ExpireFits ==
  ASSUME CleanupsFit, NEW p \in previews, H!Expire(p)
  PROVE  CleanupsFit'
<1>1. PICK q : q = [p EXCEPT !.live = FALSE]
  OBVIOUS
<1>2. UNCHANGED <<rows, stored, keeper, serving>> /\ previews' = (previews \ {p}) \cup {q}
  BY <1>1 DEF H!Expire
<1>3. PreviewFits(q)
  <2>1. PreviewFits(p)
    BY DEF CleanupsFit, PreviewsFit
  <2>2. /\ q.token = p.token /\ q.gateway = p.gateway /\ q.keys = p.keys
        /\ q.prints = p.prints /\ q.shown = p.shown /\ q.live = FALSE
        /\ q = [token |-> p.token, live |-> FALSE, gateway |-> p.gateway, keys |-> p.keys,
                prints |-> p.prints, shown |-> p.shown]
    BY <1>1, <2>1 DEF PreviewFits
  <2>3. PlanFits(q)
    BY <2>1, <2>2 DEF PreviewFits, PlanFits
  <2> QED
    BY <2>2, <2>3 DEF PreviewFits
<1>4. PreviewsFit' /\ ServingFits'
  BY <1>2, <1>3 DEF CleanupsFit, PreviewsFit, ServingFits, Cleans
<1> QED
  BY <1>2, <1>4, ClientStepFits

LEMMA TakeFits ==
  ASSUME CleanupsFit, NEW c \in Client, NEW t, H!TakeToken(c, t)
  PROVE  CleanupsFit'
<1>1. UNCHANGED <<rows, stored, keeper>>
  BY DEF H!TakeToken
<1>2. CASE UNCHANGED previews /\ serving' = [serving EXCEPT ![c] = H!Idle]
  <2>1. ServingFits' /\ PreviewsFit'
    BY <1>2, IdleClient, ServingReplaced DEF CleanupsFit, PreviewsFit
  <2> QED
    BY <1>1, <2>1, ClientStepFits
<1>3. CASE \E p \in previews :
             /\ H!Usable(p, c) /\ previews' = {q \in previews : q.token # t}
             /\ serving' = [serving EXCEPT ![c].step = "cleanup", ![c].plan = p]
  <2>1. PICK p \in previews :
          /\ H!Usable(p, c) /\ previews' = {q \in previews : q.token # t}
          /\ serving' = [serving EXCEPT ![c].step = "cleanup", ![c].plan = p]
    BY <1>3
  <2>2. PICK s : s = [serving[c] EXCEPT !.step = "cleanup", !.plan = p]
    OBVIOUS
  <2>3. /\ s.step = "cleanup" /\ s.plan = p /\ s.gateway = serving[c].gateway
        /\ StepFits(s)
    <3>1. StepFits(serving[c])
      BY DEF CleanupsFit, ServingFits
    <3>2. /\ s = [step |-> "cleanup", gateway |-> serving[c].gateway, plan |-> p,
                  days |-> serving[c].days]
          /\ s.step = "cleanup" /\ s.plan = p /\ s.gateway = serving[c].gateway
          /\ s.days = serving[c].days
      BY <2>2, <3>1 DEF StepFits
    <3> QED
      BY <3>2 DEF StepFits
  <2>4. PlanFits(p) /\ p.gateway = serving[c].gateway
    BY <2>1 DEF H!Usable, CleanupsFit, PreviewsFit, PreviewFits
  <2>5. s.gateway \in Gateway
    BY <2>3, <2>4 DEF PlanFits
  <2>6. serving' = [serving EXCEPT ![c] = s]
    BY <2>1, <2>2 DEF CleanupsFit, ServingFits
  <2>7. ServingFits'
    BY <2>3, <2>4, <2>5, <2>6, ServingReplaced DEF CleanupsFit
  <2>8. PreviewsFit'
    BY <2>1 DEF CleanupsFit, PreviewsFit
  <2> QED
    BY <1>1, <2>7, <2>8, ClientStepFits
<1> QED
  BY <1>2, <1>3 DEF H!TakeToken

\* Deleting takes rows away, and leaves the others as they are.
LEMMA DeletionFits ==
  ASSUME CleanupsFit, NEW g \in Gateway, NEW d,
         \/ rows' = [rows EXCEPT ![g] = @ \ d] \/ rows' = rows,
         UNCHANGED <<stored, previews>>, ServingFits', KeeperFits',
         keeper' = keeper \/ keeper'.step # "cleanup"
  PROVE  CleanupsFit'
<1>1. RowsFit' /\ \A h \in Gateway : rows'[h] \subseteq rows[h]
  BY RowsShrink DEF CleanupsFit, RowsFit
<1>2. PreviewsFit'
  BY DEF CleanupsFit, PreviewsFit
<1>3. ShownAreOld'
  BY <1>1 DEF CleanupsFit, ShownAreOld, KeeperFits
<1> QED
  BY <1>1, <1>2, <1>3 DEF CleanupsFit

LEMMA CleanupFits ==
  ASSUME CleanupsFit, NEW c \in Client, H!Cleanup(c) \/ H!CleanupFails(c)
  PROVE  CleanupsFit'
<1>1. PICK p : p = serving[c].plan
  OBVIOUS
<1>2. /\ UNCHANGED <<stored, previews, keeper>>
      /\ serving' = [serving EXCEPT ![c] = H!Idle]
      /\ rows' = [rows EXCEPT ![p.gateway] = @ \ H!Doomed(p)] \/ rows' = rows
      /\ Cleans(c)
  BY <1>1 DEF H!Cleanup, H!CleanupFails, Cleans
<1>3. p.gateway \in Gateway
  BY <1>1, <1>2 DEF CleanupsFit, ServingFits, PlanFits
<1>4. ServingFits' /\ KeeperFits'
  BY <1>2, IdleClient, ServingReplaced DEF CleanupsFit, KeeperFits
<1> QED
  BY <1>2, <1>3, <1>4, DeletionFits

LEMMA DeleteFits ==
  ASSUME CleanupsFit, NEW c \in Client, H!DeleteMessages(c)
  PROVE  CleanupsFit'
<1>1. PICK g : g = serving[c].gateway
  OBVIOUS
<1>2. PICK gone : rows' = [rows EXCEPT ![g] = @ \ gone]
  BY <1>1 DEF H!DeleteMessages
<1>3. /\ UNCHANGED <<stored, previews, keeper>> /\ serving[c].step = "delete"
      /\ serving' = [serving EXCEPT ![c] = H!Idle]
  BY DEF H!DeleteMessages
<1>4. g \in Gateway
  BY <1>1, <1>3 DEF CleanupsFit, ServingFits
<1>5. ServingFits' /\ KeeperFits'
  BY <1>3, IdleClient, ServingReplaced DEF CleanupsFit, KeeperFits
<1> QED
  BY <1>2, <1>3, <1>4, <1>5, DeletionFits

LEMMA KeeperReadsFits ==
  ASSUME CleanupsFit, NEW g \in Gateway, H!KeeperReads(g)
  PROVE  CleanupsFit'
<1>1. /\ UNCHANGED <<rows, stored, previews, serving>>
      /\ keeper' = [H!Idle EXCEPT !.step = "preview", !.gateway = g, !.days = policy[g].days]
      /\ policy[g].days > 0
  BY DEF H!KeeperReads, H!Prunes
<1>2. /\ keeper'.step = "preview" /\ keeper'.gateway = g /\ keeper'.days = policy[g].days
      /\ StepFits(keeper')
  BY <1>1 DEF H!Idle, StepFits
<1>3. KeeperFits' /\ ShownAreOld'
  BY <1>1, <1>2 DEF KeeperFits, ShownAreOld, StepFits
<1>4. RowsFit' /\ PreviewsFit' /\ ServingFits'
  BY <1>1 DEF CleanupsFit, RowsFit, PreviewsFit, ServingFits, Cleans
<1> QED
  BY <1>3, <1>4 DEF CleanupsFit

LEMMA KeeperPreviewsFits ==
  ASSUME CleanupsFit, H!KeeperPreviews
  PROVE  CleanupsFit'
<1>1. PICK g \in Gateway : g = keeper.gateway
  BY DEF H!KeeperPreviews, CleanupsFit, KeeperFits
<1>2. PICK chosen : chosen = H!Batch(H!Deletable(g, FALSE))
  OBVIOUS
<1>3. chosen \subseteq rows[g] /\ \A r \in chosen : r.old
  BY <1>2 DEF H!Batch, H!Deletable
<1>4. PICK p : p = H!Plan(g, chosen)
  OBVIOUS
<1>5. PlanFits(p) /\ p.gateway = g /\ p.shown = {r.number : r \in chosen}
  BY <1>3, <1>4, PlanOfRows DEF CleanupsFit
<1>6. /\ UNCHANGED <<rows, stored, previews, serving>> /\ keeper.step = "preview"
      /\ keeper' = [keeper EXCEPT !.step = "cleanup", !.plan = p]
  BY <1>1, <1>2, <1>4 DEF H!KeeperPreviews
<1>7. /\ keeper'.step = "cleanup" /\ keeper'.plan = p /\ keeper'.gateway = g
      /\ keeper'.days = keeper.days /\ StepFits(keeper')
  BY <1>1, <1>6 DEF CleanupsFit, KeeperFits, StepFits
<1>8. KeeperFits'
  BY <1>6, <1>7 DEF CleanupsFit, KeeperFits, StepFits
<1>9. ShownAreOld'
  <2>1. ASSUME NEW n \in p.shown PROVE n \in 1..stored
    BY <1>3, <1>5, <2>1 DEF CleanupsFit, RowsFit, RowFits
  <2>2. ASSUME NEW r \in rows[g], r.number \in p.shown PROVE r.old
    <3>1. PICK s \in chosen : s.number = r.number
      BY <1>5, <2>2
    <3>2. s = r
      BY <1>3, <3>1 DEF CleanupsFit, RowsFit
    <3> QED
      BY <1>3, <3>2
  <2> QED
    BY <1>5, <1>6, <1>7, <2>1, <2>2 DEF ShownAreOld
<1>10. RowsFit' /\ PreviewsFit' /\ ServingFits'
  BY <1>6 DEF CleanupsFit, RowsFit, PreviewsFit, ServingFits, Cleans
<1> QED
  BY <1>8, <1>9, <1>10 DEF CleanupsFit

LEMMA KeeperCleansFits ==
  ASSUME CleanupsFit, H!KeeperCleans
  PROVE  CleanupsFit'
<1>1. PICK g \in Gateway : g = keeper.gateway
  BY DEF H!KeeperCleans, CleanupsFit, KeeperFits
<1>2. /\ UNCHANGED <<stored, previews, serving>> /\ keeper' = H!Idle
      /\ rows' = [rows EXCEPT ![g] = @ \ H!Doomed(keeper.plan)] \/ rows' = rows
  BY <1>1 DEF H!KeeperCleans
<1>3. KeeperFits' /\ keeper'.step # "cleanup"
  BY <1>2, IdleClient DEF KeeperFits, StepFits
<1>4. ServingFits'
  BY <1>2 DEF CleanupsFit, ServingFits, Cleans
<1> QED
  BY <1>2, <1>3, <1>4, DeletionFits

LEMMA FitsNext == CleanupsFit /\ [H!Next]_(H!vars) => CleanupsFit'
<1> SUFFICES ASSUME CleanupsFit, [H!Next]_(H!vars) PROVE CleanupsFit'
  OBVIOUS
<1>1. CASE UNCHANGED H!vars
  BY <1>1, IdleStepFits DEF H!vars
<1>2. CASE H!Keeper
  BY <1>2, KeeperReadsFits, KeeperPreviewsFits, KeeperCleansFits DEF H!Keeper
<1>3. ASSUME NEW g \in Gateway, H!SelectGateway(g) PROVE CleanupsFit'
  BY <1>3, IdleStepFits DEF H!SelectGateway
<1>4. CASE H!World
  BY <1>3, <1>4, InsertFits, ChangeFits, ExpireFits DEF H!World
<1>5. ASSUME NEW c \in Client, NEW g \in Gateway, NEW days, H!SetPolicy(c, g, days)
      PROVE  CleanupsFit'
  BY <1>5, IdleStepFits DEF H!SetPolicy
<1>6. ASSUME NEW c \in Client, H!Request(c) PROVE CleanupsFit'
  BY <1>5, <1>6, AskFits, PreviewStepFits, TakeFits, CleanupFits, DeleteFits DEF H!Request
<1> QED
  BY <1>1, <1>2, <1>4, <1>6 DEF H!Next

-----------------------------------------------------------------------------
(* What a step takes from a history *)

\* Nothing leaves when rows are added or changed.
LEMMA NothingLeaves ==
  ASSUME CleanupsFit, NEW g \in Gateway,
         \A r \in rows[g] : \E s \in rows'[g] : s.number = r.number
  PROVE  Left(g) = {}
  BY DEF Left

\* GatewayHistory and ReadMarks count as FiniteSets does.
LEMMA SameCount ==
  ASSUME NEW S
  PROVE  H!Cardinality(S) = Cardinality(S) /\ R!Cardinality(S) = Cardinality(S)
  BY DEF H!Cardinality, R!Cardinality, Cardinality

\* Too many are messages with an outcome, of which there are enough newer ones.
LEMMA TooManyAre ==
  ASSUME NEW all, NEW x \in H!TooMany(all)
  PROVE  x \in all /\ x.table = "messages" /\ ~ x.open /\ Cardinality(Newer(all, x)) >= MaxHistory
<1>1. /\ x \in all /\ x.table = "messages" /\ ~ x.open
      /\ H!Cardinality(H!Newer(all, x)) >= MaxHistory
  BY DEF H!TooMany
<1>2. H!Newer(all, x) = Newer(all, x)
  BY DEF H!Newer, Newer
<1> QED
  BY <1>1, <1>2, SameCount

\* When a row is stored, only messages that are too many leave: the new row stays.
LEMMA InsertLeaves ==
  ASSUME CleanupsFit, NEW h \in Gateway, NEW table \in H!Table, NEW open,
         H!Insert(h, table, open), NEW g \in Gateway, NEW r \in Left(g)
  PROVE  ~ r.open /\ Outnumbered(g, r)
<1>1. PICK s : s = Fresh(h, table, open)
  OBVIOUS
<1>2. PICK all : all = rows[h] \cup {s}
  OBVIOUS
<1>3. /\ rows'[h] \in {all, all \ H!TooMany(all)}
      /\ \A k \in Gateway : k # h => rows'[k] = rows[k]
  BY <1>1, <1>2, InsertIs DEF CleanupsFit
<1>4. r \in rows[g] /\ \A x \in rows'[g] : x.number # r.number
  BY DEF Left
<1>5. g = h /\ r \in H!TooMany(all)
  BY <1>2, <1>3, <1>4
<1>6. r.table = "messages" /\ ~ r.open /\ Cardinality(Newer(all, r)) >= MaxHistory
  BY <1>5, TooManyAre
<1>7. /\ stored \in Nat /\ s.number = stored + 1
      /\ \A x \in rows[g] : x.number \in 1..stored
  BY <1>1 DEF CleanupsFit, RowsFit, RowFits, Fresh
<1>8. \A x \in rows[g] : x.number < s.number
  BY <1>7
<1>9. s \in rows'[g]
  <2>1. \A x \in all : ~ (x.number > s.number)
    BY <1>2, <1>5, <1>7, <1>8
  <2>2. Newer(all, s) = {}
    BY <2>1 DEF Newer
  <2>3. Cardinality(Newer(all, s)) = 0
    BY <2>2, FS_EmptySet
  <2>4. s \notin H!TooMany(all)
    BY <2>3, TooManyAre, LimitAssumption
  <2> QED
    BY <1>2, <1>3, <1>5, <2>4
<1> QED
  BY <1>2, <1>5, <1>6, <1>8, <1>9 DEF Outnumbered

LEMMA ChangeLeavesAll ==
  ASSUME CleanupsFit, NEW h \in Gateway, NEW x \in rows[h], H!Settle(h, x) \/ H!Age(h, x),
         NEW g \in Gateway
  PROVE  Left(g) = {}
<1>1. PICK s : /\ s = [x EXCEPT !.open = FALSE] \/ s = [x EXCEPT !.old = TRUE]
               /\ rows' = [rows EXCEPT ![h] = (@ \ {x}) \cup {s}]
  BY DEF H!Settle, H!Age
<1>2. s.number = x.number
  <2>1. x = [number |-> x.number, table |-> x.table, key |-> x.key, open |-> x.open,
             old |-> x.old]
    BY DEF CleanupsFit, RowsFit, RowFits
  <2> QED
    BY <1>1, <2>1
<1>3. /\ rows'[h] = (rows[h] \ {x}) \cup {s}
      /\ \A k \in Gateway : k # h => rows'[k] = rows[k]
  BY <1>1 DEF CleanupsFit, RowsFit
<1>4. ASSUME NEW r \in rows[g] PROVE \E y \in rows'[g] : y.number = r.number
  BY <1>2, <1>3
<1> QED
  BY <1>4, NothingLeaves

LEMMA SameRowsLeaveAll ==
  ASSUME CleanupsFit, rows' = rows, NEW g \in Gateway
  PROVE  Left(g) = {}
  BY NothingLeaves

\* What is taken from one gateway's file leaves that history, and no other.
LEMMA TakenLeave ==
  ASSUME CleanupsFit, NEW h \in Gateway, NEW d, rows' = [rows EXCEPT ![h] = @ \ d],
         NEW g \in Gateway, NEW r \in Left(g)
  PROVE  g = h /\ r \in d
<1>1. /\ rows'[h] = rows[h] \ d
      /\ \A k \in Gateway : k # h => rows'[k] = rows[k]
  BY DEF CleanupsFit, RowsFit
<1>2. r \in rows[g] /\ r \notin rows'[g]
  BY DEF Left
<1> QED
  BY <1>1, <1>2

\* Rows leave in the clean-up of a client, in that of the maintenance thread whose policy
\* is in force, because they are too many, or because the user clears them.
ClientTakes(g, r) ==
  \E c \in Client :
    /\ Cleans(c) /\ serving'[c].step = "idle" /\ serving[c].plan.gateway = g
    /\ r \in H!Doomed(serving[c].plan)
KeeperTakes(g, r) ==
  /\ keeper.step = "cleanup" /\ keeper'.step = "idle" /\ keeper.gateway = g
  /\ r \in H!Doomed(keeper.plan) /\ H!InForce(keeper.plan, keeper.days)

Clears(g, r) == \E c \in Client : Cleared(c, g, r)
Takes(g, r) ==
  \/ ClientTakes(g, r) \/ KeeperTakes(g, r)
  \/ ~ r.open /\ Outnumbered(g, r)
  \/ Clears(g, r)

LEMMA DeleteTakes ==
  ASSUME CleanupsFit, NEW c \in Client, H!DeleteMessages(c), NEW g \in Gateway,
         NEW r \in Left(g)
  PROVE  Clears(g, r)
<1>1. PICK h : h = serving[c].gateway
  OBVIOUS
<1>2. PICK gone \in SUBSET {x \in rows[h] : x.table = "messages"} :
        rows' = [rows EXCEPT ![h] = @ \ gone]
  BY <1>1 DEF H!DeleteMessages
<1>3. serving[c].step = "delete" /\ serving' = [serving EXCEPT ![c] = H!Idle]
  BY DEF H!DeleteMessages
<1>4. h \in Gateway
  BY <1>1, <1>3 DEF CleanupsFit, ServingFits
<1>5. g = h /\ r \in gone
  BY <1>2, <1>4, TakenLeave
<1>6. serving'[c].step = "idle"
  BY <1>3, IdleClient DEF CleanupsFit, ServingFits
<1> QED
  BY <1>1, <1>2, <1>3, <1>5, <1>6 DEF Clears, Cleared

LEMMA Takers ==
  ASSUME CleanupsFit, [H!Next]_(H!vars), NEW g \in Gateway, NEW r \in Left(g)
  PROVE  Takes(g, r)
<1>1. CASE rows' = rows
  BY <1>1, SameRowsLeaveAll
<1>2. ASSUME NEW c \in Client, H!Cleanup(c) PROVE ClientTakes(g, r)
  <2>1. PICK p : p = serving[c].plan
    OBVIOUS
  <2>2. /\ Cleans(c) /\ rows' = [rows EXCEPT ![p.gateway] = @ \ H!Doomed(p)]
        /\ serving' = [serving EXCEPT ![c] = H!Idle]
    BY <1>2, <2>1 DEF H!Cleanup, Cleans
  <2>3. p.gateway \in Gateway
    BY <2>1, <2>2 DEF CleanupsFit, ServingFits, PlanFits
  <2>4. p.gateway = g /\ r \in H!Doomed(p)
    BY <2>2, <2>3, TakenLeave
  <2>5. serving'[c].step = "idle"
    BY <2>2, IdleClient DEF CleanupsFit, ServingFits
  <2> QED
    BY <2>1, <2>2, <2>4, <2>5 DEF ClientTakes
<1>3. CASE H!KeeperCleans
  <2>1. keeper.step = "cleanup" /\ keeper'.step = "idle" /\ keeper.gateway \in Gateway
    BY <1>3, IdleClient DEF H!KeeperCleans, CleanupsFit, KeeperFits
  <2>2. CASE H!InForce(keeper.plan, keeper.days)
    <3>1. rows' = [rows EXCEPT ![keeper.gateway] = @ \ H!Doomed(keeper.plan)]
      BY <1>3, <2>2 DEF H!KeeperCleans
    <3>2. keeper.gateway = g /\ r \in H!Doomed(keeper.plan)
      BY <2>1, <3>1, TakenLeave
    <3> QED
      BY <2>1, <2>2, <3>2 DEF KeeperTakes, Takes
  <2>3. CASE ~ H!InForce(keeper.plan, keeper.days)
    BY <1>1, <1>3, <2>3 DEF H!KeeperCleans
  <2> QED
    BY <2>2, <2>3
<1>4. CASE H!Keeper
  BY <1>1, <1>3, <1>4 DEF H!Keeper, H!KeeperReads, H!KeeperPreviews
<1>5. CASE H!World
  <2>1. ASSUME NEW h \in Gateway, H!SelectGateway(h) PROVE rows' = rows
    BY <2>1 DEF H!SelectGateway
  <2>2. ASSUME NEW p \in previews, H!Expire(p) PROVE rows' = rows
    BY <2>2 DEF H!Expire
  <2> QED
    BY <1>1, <1>5, <2>1, <2>2, InsertLeaves, ChangeLeavesAll DEF H!World, Takes
<1>6. ASSUME NEW c \in Client, H!Request(c) PROVE Takes(g, r)
  <2>1. rows' = rows \/ H!Cleanup(c) \/ H!DeleteMessages(c)
    BY <1>6 DEF H!Request, H!AskPreview, H!AskCleanup, H!AskDelete, H!SetPolicy, H!Preview,
                H!TakeToken, H!CleanupFails
  <2> QED
    BY <1>1, <1>2, <2>1, DeleteTakes DEF Takes
<1> QED
  BY <1>1, <1>4, <1>5, <1>6 DEF H!Next, H!vars, Takes

LEMMA StepShown ==
  ASSUME CleanupsFit, [H!Next]_(H!vars), NEW g \in Gateway, NEW r \in Left(g)
  PROVE  \/ /\ ~r.open
            /\ \/ Expired(g, r) \/ Outnumbered(g, r)
               \/ \E c \in Client : Confirmed(c, g, r)
         \/ \E c \in Client : Cleared(c, g, r)
<1>1. CASE ClientTakes(g, r)
  <2>1. PICK c \in Client :
          /\ Cleans(c) /\ serving'[c].step = "idle" /\ serving[c].plan.gateway = g
          /\ r \in H!Doomed(serving[c].plan)
    BY <1>1 DEF ClientTakes
  <2>2. PlanFits(serving[c].plan)
    BY <2>1 DEF CleanupsFit, ServingFits
  <2>3. ~ r.open /\ r.number \in serving[c].plan.shown
    BY <2>1, <2>2, DoomedWereShown DEF CleanupsFit
  <2> QED
    BY <2>1, <2>3 DEF Confirmed, Cleans
<1>2. CASE KeeperTakes(g, r)
  <2>1. PlanFits(keeper.plan) /\ keeper.plan.gateway = keeper.gateway
    BY <1>2 DEF CleanupsFit, ShownAreOld, KeeperTakes
  <2>2. r \in rows[keeper.plan.gateway] /\ ~ r.open /\ r.number \in keeper.plan.shown
    BY <1>2, <2>1, DoomedWereShown DEF CleanupsFit, KeeperTakes
  <2>3. r.old
    BY <1>2, <2>1, <2>2 DEF CleanupsFit, ShownAreOld, KeeperTakes
  <2> QED
    BY <1>2, <2>2, <2>3 DEF Expired, KeeperTakes
<1>3. Takes(g, r)
  BY Takers
<1> QED
  BY <1>1, <1>2, <1>3 DEF Takes, Clears

LEMMA StepInForce ==
  ASSUME CleanupsFit, [H!Next]_(H!vars), keeper.step = "cleanup", keeper'.step = "idle",
         NEW g \in Gateway, NEW r \in Left(g)
  PROVE  Prunes(policy[g])
<1>1. H!KeeperCleans
  <2>1. ASSUME NEW h \in Gateway, H!KeeperReads(h) PROVE FALSE
    BY <2>1 DEF H!KeeperReads
  <2>2. ASSUME H!KeeperPreviews PROVE FALSE
    BY <2>2 DEF H!KeeperPreviews
  <2>3. CASE keeper' = keeper
    BY <2>3
  <2>4. CASE H!World
    BY <2>3, <2>4 DEF H!World, H!SelectGateway, H!Insert, H!Settle, H!Age, H!Expire
  <2>5. ASSUME NEW c \in Client, H!Request(c) PROVE keeper' = keeper
    BY <2>5 DEF H!Request, H!AskPreview, H!AskCleanup, H!AskDelete, H!SetPolicy, H!Preview,
                H!TakeToken, H!Cleanup, H!CleanupFails, H!DeleteMessages
  <2> QED
    BY <2>1, <2>2, <2>3, <2>4, <2>5 DEF H!Next, H!Keeper, H!vars
<1>2. H!InForce(keeper.plan, keeper.days)
  <2>1. rows' # rows
    BY SameRowsLeaveAll
  <2> QED
    BY <1>1, <2>1 DEF H!KeeperCleans
<1>3. keeper.gateway = g
  <2>1. rows' = [rows EXCEPT ![keeper.gateway] = @ \ H!Doomed(keeper.plan)]
    BY <1>1, <1>2 DEF H!KeeperCleans
  <2>2. keeper.gateway \in Gateway
    BY DEF CleanupsFit, KeeperFits
  <2> QED
    BY <2>1, <2>2, TakenLeave
<1>4. keeper.plan.gateway = g /\ keeper.days > 0
  BY <1>3 DEF CleanupsFit, ShownAreOld, KeeperFits
<1> QED
  BY <1>2, <1>4 DEF H!InForce, Prunes

-----------------------------------------------------------------------------
(* Tokens *)

LEMMA TokensInit == H!Init => TokensFit
<1> SUFFICES ASSUME H!Init PROVE TokensFit
  OBVIOUS
<1>1. \A c \in Client : ~ Cleans(c)
  BY IdleClient DEF H!Init, Cleans
<1>2. \A t : ~ Spent(t, ran)
  BY DEF H!Init, Spent
<1> QED
  BY <1>1, <1>2 DEF H!Init, TokensFit

LEMMA TokensStay ==
  ASSUME TokensFit, ServingFits, UNCHANGED <<minted, ran>>,
         \A p \in previews' : \E q \in previews : p.token = q.token,
         \A c \in Client : Cleans(c)' => Cleans(c) /\ serving'[c] = serving[c]
  PROVE  TokensFit'
  BY DEF TokensFit, Spent, Cleans

LEMMA PreviewTokens ==
  ASSUME TokensFit, CleanupsFit, NEW c \in Client, NEW all \in BOOLEAN, H!Preview(c, all)
  PROVE  TokensFit'
<1>1. /\ UNCHANGED ran
      /\ \A d \in Client : Cleans(d)' => Cleans(d) /\ serving'[d] = serving[d]
  BY IdleClient DEF H!Preview, CleanupsFit, ServingFits, Cleans
<1>2. CASE previews' = H!Live(previews) /\ minted' = minted
  BY <1>1, <1>2, TokensStay, TrimmedAreKept DEF CleanupsFit
<1>3. CASE minted' = minted + 1
  <2>1. PICK plan : /\ plan = H!Plan(serving[c].gateway, H!Deletable(serving[c].gateway, all))
                    /\ PlanFits(plan)
    <3>1. serving[c].gateway \in Gateway
      BY DEF H!Preview, CleanupsFit, ServingFits
    <3> QED
      BY <3>1, PlanOfRows DEF H!Deletable, CleanupsFit
  <2>2. minted \in Nat /\ minted + 1 # minted
    BY DEF TokensFit
  <2>3. \A p \in previews' : p \in previews \/ p.token = minted + 1
    BY <1>3, <2>1, <2>2, TrimmedAreKept, KeptFits DEF H!Preview
  <2>4. \A t : Spent(t, ran') <=> Spent(t, ran)
    BY <1>1 DEF Spent
  <2>5. \A p \in previews' : p.token \in 1..minted' /\ ~ Spent(p.token, ran')
    <3>1. ASSUME NEW p \in previews
          PROVE  p.token \in 1..(minted + 1) /\ ~ Spent(p.token, ran)
      BY <2>2 DEF TokensFit
    <3>2. minted + 1 \in 1..(minted + 1) /\ ~ Spent(minted + 1, ran)
      BY <2>2 DEF TokensFit
    <3> QED
      BY <1>3, <2>3, <2>4, <3>1, <3>2
  <2>6. ASSUME NEW d \in Client, Cleans(d)'
        PROVE  /\ serving[d].plan.token \in 1..minted
               /\ \A p \in previews' : p.token # serving[d].plan.token
    BY <1>1, <2>2, <2>3, <2>6 DEF TokensFit
  <2> QED
    BY <1>1, <1>3, <2>2, <2>4, <2>5, <2>6 DEF TokensFit, Cleans
<1> QED
  BY <1>2, <1>3 DEF H!Preview

LEMMA TakeTokens ==
  ASSUME TokensFit, CleanupsFit, NEW c \in Client, NEW t, H!TakeToken(c, t)
  PROVE  TokensFit'
<1>1. CASE UNCHANGED previews /\ serving' = [serving EXCEPT ![c] = H!Idle]
  <2>1. \A d \in Client : Cleans(d)' => Cleans(d) /\ serving'[d] = serving[d]
    BY <1>1, IdleClient DEF CleanupsFit, ServingFits, Cleans
  <2> QED
    BY <1>1, <2>1, TokensStay DEF CleanupsFit, H!TakeToken
<1>2. CASE \E p \in previews :
             /\ p.token = t /\ previews' = {q \in previews : q.token # t}
             /\ serving' = [serving EXCEPT ![c].step = "cleanup", ![c].plan = p]
  <2>1. PICK p \in previews :
          /\ p.token = t /\ previews' = {q \in previews : q.token # t}
          /\ serving' = [serving EXCEPT ![c].step = "cleanup", ![c].plan = p]
    BY <1>2
  <2>2. /\ serving'[c].plan = p
        /\ \A d \in Client : d # c => serving'[d] = serving[d]
    <3>1. PICK s : s = [serving[c] EXCEPT !.step = "cleanup", !.plan = p]
      OBVIOUS
    <3>2. s.plan = p
      BY <3>1 DEF CleanupsFit, ServingFits, StepFits
    <3>3. serving' = [serving EXCEPT ![c] = s]
      BY <2>1, <3>1 DEF CleanupsFit, ServingFits
    <3> QED
      BY <3>2, <3>3 DEF CleanupsFit, ServingFits
  <2>3. UNCHANGED <<minted, ran>>
    BY DEF H!TakeToken
  <2>4. \A u : Spent(u, ran') <=> Spent(u, ran)
    BY <2>3 DEF Spent
  <2>5. t \in 1..minted /\ ~ Spent(t, ran)
    BY <2>1 DEF TokensFit
  <2>6. \A d \in Client : d # c /\ Cleans(d)' =>
          Cleans(d) /\ serving'[d].plan = serving[d].plan /\ serving[d].plan.token # t
    BY <2>1, <2>2 DEF TokensFit, Cleans
  <2>7. \A d \in Client : Cleans(d)' =>
          /\ serving'[d].plan.token \in 1..minted' /\ ~ Spent(serving'[d].plan.token, ran')
          /\ \A q \in previews' : q.token # serving'[d].plan.token
    <3>1. serving'[c].plan.token = t /\ \A q \in previews' : q.token # t
      BY <2>1, <2>2
    <3>2. ASSUME NEW d \in Client, d # c, Cleans(d)'
          PROVE  /\ serving'[d].plan.token \in 1..minted
                 /\ ~ Spent(serving'[d].plan.token, ran)
                 /\ \A q \in previews' : q.token # serving'[d].plan.token
      <4>1. Cleans(d) /\ serving'[d].plan = serving[d].plan
        BY <2>6, <3>2
      <4>2. /\ serving[d].plan.token \in 1..minted /\ ~ Spent(serving[d].plan.token, ran)
            /\ \A q \in previews : q.token # serving[d].plan.token
        BY <4>1 DEF TokensFit
      <4>3. previews' \subseteq previews
        BY <2>1
      <4> QED BY <4>1, <4>2, <4>3
    <3> QED BY <2>3, <2>4, <2>5, <3>1, <3>2
  <2>8. \A d, e \in Client :
          Cleans(d)' /\ Cleans(e)' /\ serving'[d].plan.token = serving'[e].plan.token
            => d = e
    BY <2>1, <2>2, <2>6 DEF TokensFit
  <2>9. \A q \in previews' : q.token \in 1..minted' /\ ~ Spent(q.token, ran')
    BY <2>1, <2>3, <2>4 DEF TokensFit
  <2> QED
    BY <2>3, <2>4, <2>7, <2>8, <2>9 DEF TokensFit
<1> QED
  BY <1>1, <1>2 DEF H!TakeToken, H!Usable

LEMMA CleanupTokens ==
  ASSUME TokensFit, CleanupsFit, NEW c \in Client, H!Cleanup(c)
  PROVE  TokensFit'
<1>1. PICK t : t = serving[c].plan.token
  OBVIOUS
<1>2. /\ Cleans(c) /\ UNCHANGED <<previews, minted>> /\ ran' = [ran EXCEPT ![t] = @ + 1]
      /\ serving' = [serving EXCEPT ![c] = H!Idle]
  BY <1>1 DEF H!Cleanup, Cleans
<1>3. \A d \in Client : Cleans(d)' => d # c /\ Cleans(d) /\ serving'[d] = serving[d]
  BY <1>2, IdleClient DEF CleanupsFit, ServingFits, Cleans
<1>4. t \in 1..minted /\ ~ Spent(t, ran)
  BY <1>1, <1>2 DEF TokensFit
<1>5. /\ ran' = [u \in 1..MaxTokens |-> ran'[u]]
      /\ \A u \in 1..MaxTokens : ran'[u] = IF u = t THEN ran[u] + 1 ELSE ran[u]
  BY <1>2 DEF TokensFit
<1>6. \A u : Spent(u, ran') => Spent(u, ran) \/ u = t
  BY <1>5 DEF Spent
<1>7. \A u \in 1..MaxTokens : ran'[u] \in {0, 1}
  BY <1>4, <1>5 DEF TokensFit, Spent
<1>8. \A p \in previews : p.token # t
  BY <1>1, <1>2 DEF TokensFit
<1>9. \A d \in Client : Cleans(d)' => serving'[d].plan.token # t
  BY <1>1, <1>2, <1>3 DEF TokensFit
<1>10. \A p \in previews' : p.token \in 1..minted' /\ ~ Spent(p.token, ran')
  BY <1>2, <1>6, <1>8 DEF TokensFit
<1>11. \A d \in Client : Cleans(d)' =>
         /\ serving'[d].plan.token \in 1..minted' /\ ~ Spent(serving'[d].plan.token, ran')
         /\ \A p \in previews' : p.token # serving'[d].plan.token
  BY <1>2, <1>3, <1>6, <1>9 DEF TokensFit
<1>12. \A d, e \in Client :
         Cleans(d)' /\ Cleans(e)' /\ serving'[d].plan.token = serving'[e].plan.token => d = e
  BY <1>3 DEF TokensFit
<1>13. \A u : Spent(u, ran') => u \in 1..minted'
  BY <1>2, <1>4, <1>6 DEF TokensFit
<1> QED
  BY <1>2, <1>5, <1>7, <1>10, <1>11, <1>12, <1>13 DEF TokensFit

LEMMA TokensNext == CleanupsFit /\ TokensFit /\ [H!Next]_(H!vars) => TokensFit'
<1> SUFFICES ASSUME CleanupsFit, TokensFit, [H!Next]_(H!vars) PROVE TokensFit'
  OBVIOUS
<1>1. ASSUME UNCHANGED <<previews, serving, minted, ran>> PROVE TokensFit'
  BY <1>1, TokensStay DEF CleanupsFit, Cleans
<1>2. CASE UNCHANGED H!vars \/ H!Keeper
  BY <1>1, <1>2 DEF H!vars, H!Keeper, H!KeeperReads, H!KeeperPreviews, H!KeeperCleans
<1>3. ASSUME NEW p \in previews, H!Expire(p) PROVE TokensFit'
  <2>1. /\ previews' = (previews \ {p}) \cup {[p EXCEPT !.live = FALSE]}
        /\ UNCHANGED <<serving, minted, ran>>
    BY <1>3 DEF H!Expire
  <2>2. [p EXCEPT !.live = FALSE].token = p.token
    BY DEF CleanupsFit, PreviewsFit, PreviewFits
  <2>3. \A d \in Client : Cleans(d)' => Cleans(d) /\ serving'[d] = serving[d]
    BY <2>1 DEF Cleans
  <2> QED
    BY <2>1, <2>2, <2>3, TokensStay DEF CleanupsFit
<1>4. CASE H!World
  BY <1>1, <1>3, <1>4 DEF H!World, H!SelectGateway, H!Insert, H!Settle, H!Age
<1>5. ASSUME NEW c \in Client, NEW g \in Gateway,
             H!AskPreview(c, g) \/ H!AskCleanup(c, g) \/ H!AskDelete(c, g)
      PROVE  TokensFit'
  <2>1. PICK s : /\ \E step \in {"preview", "confirm", "delete"} :
                      s = [H!Idle EXCEPT !.step = step, !.gateway = g]
                 /\ serving' = [serving EXCEPT ![c] = s]
    BY <1>5 DEF H!AskPreview, H!AskCleanup, H!AskDelete
  <2>2. s.step # "cleanup"
    BY <2>1 DEF H!Idle
  <2>3. \A d \in Client : Cleans(d)' => Cleans(d) /\ serving'[d] = serving[d]
    BY <2>1, <2>2 DEF CleanupsFit, ServingFits, Cleans
  <2> QED
    BY <1>5, <2>3, TokensStay DEF CleanupsFit, H!AskPreview, H!AskCleanup, H!AskDelete
<1>6. ASSUME NEW c \in Client, H!CleanupFails(c) \/ H!DeleteMessages(c) PROVE TokensFit'
  <2>1. serving' = [serving EXCEPT ![c] = H!Idle] /\ UNCHANGED <<previews, minted, ran>>
    BY <1>6 DEF H!CleanupFails, H!DeleteMessages
  <2>2. \A d \in Client : Cleans(d)' => Cleans(d) /\ serving'[d] = serving[d]
    BY <2>1, IdleClient DEF CleanupsFit, ServingFits, Cleans
  <2> QED
    BY <2>1, <2>2, TokensStay DEF CleanupsFit
<1>7. ASSUME NEW c \in Client, NEW g \in Gateway, NEW days, H!SetPolicy(c, g, days)
      PROVE  TokensFit'
  BY <1>1, <1>7 DEF H!SetPolicy
<1>8. ASSUME NEW c \in Client, H!Request(c) PROVE TokensFit'
  BY <1>5, <1>6, <1>7, <1>8, PreviewTokens, TakeTokens, CleanupTokens DEF H!Request
<1> QED
  BY <1>2, <1>4, <1>8 DEF H!Next

-----------------------------------------------------------------------------
(* Theorems *)

\* The state of the rows and the plans that every deletion relies on.
LEMMA FitEver == H!Spec => []CleanupsFit
  BY FitsInit, FitsNext, PTL DEF H!Spec

\* _history_request and maintain_history (ipc.py, gateway_database.py), _prune_messages and
\* delete_messages (database.py): whatever arrives, is settled or deleted between a preview and
\* its confirmation, also by others, only rows that were shown, that are old, that are too
\* many or that the user clears leave a history; one whose outcome is open, only by clearing.
THEOREM OnlyShownLeave == H!Spec => OnlyWhatWasShown
<1>1. CleanupsFit /\ [H!Next]_(H!vars) =>
        [\A g \in Gateway : \A r \in Left(g) :
           \/ /\ ~r.open
              /\ \/ Expired(g, r) \/ Outnumbered(g, r)
                 \/ \E c \in Client : Confirmed(c, g, r)
           \/ \E c \in Client : Cleared(c, g, r)
        ]_<<rows, policy, serving, keeper>>
  BY StepShown
<1> QED
  BY <1>1, FitEver, PTL DEF H!Spec, OnlyWhatWasShown

\* maintain_history: nothing is deleted under a policy that was changed meanwhile.
THEOREM PoliciesAreObeyed == H!Spec => PolicyInForce
<1>1. CleanupsFit /\ [H!Next]_(H!vars) =>
        [keeper.step = "cleanup" /\ keeper'.step = "idle" =>
           \A g \in Gateway : Left(g) # {} => Prunes(policy[g])
        ]_<<rows, policy, serving, keeper>>
  BY StepInForce
<1> QED
  BY <1>1, FitEver, PTL DEF H!Spec, PolicyInForce

\* The token of a preview is good for one clean-up, of the gateway it was made of.
THEOREM TokensAreUsedOnce == H!Spec => []ConfirmedOnce
<1>1. CleanupsFit /\ TokensFit => ConfirmedOnce
  BY DEF CleanupsFit, ServingFits, Cleans, TokensFit, ConfirmedOnce
<1> QED
  BY <1>1, FitEver, TokensInit, TokensNext, PTL DEF H!Spec

\* Both kinds of requests together, as they run in one daemon and one web service.
THEOREM RequestsRunOnce == Spec /\ H!Spec => []ExecutedOnce
  BY AskedOnceEver, UnknownIsTrue, TokensAreUsedOnce, PTL DEF ExecutedOnce

-----------------------------------------------------------------------------
(* How many previews are kept, and of how many rows *)

\* The limits of the previews and the bounds on what happens.
HistoryBounds ==
  MaxRows \in Nat /\ MaxTokens \in Nat /\ MaxPreviews \in Nat \ {0} /\ MaxSnapshot \in Nat

\* A set of natural numbers has a least one.
LEMMA LeastNumber ==
  ASSUME NEW S, S \subseteq Nat, S # {}
  PROVE  \E n \in S : \A m \in S : n <= m
<1>1. IsWellFoundedOn(OpToRel(<, Nat), Nat)
  BY NatLessThanWellFounded
<1>2. \E n \in S : \A m \in S : ~ (<<m, n>> \in OpToRel(<, Nat))
  BY <1>1, WFMin
<1>3. PICK n \in S : \A m \in S : ~ (<<m, n>> \in OpToRel(<, Nat))
  BY <1>2
<1>4. ASSUME NEW m \in S PROVE n <= m
  <2>1. <<m, n>> \in OpToRel(<, Nat) <=> m < n
    BY DEF OpToRel
  <2>2. ~ (<<m, n>> \in OpToRel(<, Nat))
    BY <1>3
  <2>3. ~ (m < n)
    BY <2>1, <2>2, Zenon
  <2> QED BY <2>3
<1> QED BY <1>4

\* A set of bounded natural numbers has a greatest one.
LEMMA GreatestNumber ==
  ASSUME NEW n \in Nat, NEW S, S \subseteq 0..n, 0 \in S
  PROVE  H!Max(S) \in S /\ \A m \in S : m <= H!Max(S)
<1> DEFINE U == {k \in Nat : \A m \in S : m <= k}
<1>1. n \in U
  OBVIOUS
<1>2. PICK u \in U : \A k \in U : u <= k
  BY <1>1, LeastNumber
<1>3. u \in S
  <2> SUFFICES ASSUME u \notin S PROVE FALSE
    OBVIOUS
  <2>1. u # 0 /\ \A m \in S : m <= u - 1
    BY <1>2
  <2>2. u - 1 \in U
    BY <1>2, <2>1
  <2> QED BY <1>2, <2>2
<1>4. \E x \in S : \A y \in S : x >= y
  BY <1>2, <1>3
<1>5. H!Max(S) = CHOOSE x \in S : \A y \in S : x >= y
  BY DEF H!Max
<1>6. H!Max(S) \in S /\ \A y \in S : H!Max(S) >= y
  BY <1>4, <1>5
<1> QED BY <1>6

\* The rows of previews, each with the preview's token.
Pairs(saved) == UNION {{p.token} \X p.keys : p \in saved}

LEMMA TotalIs == ASSUME NEW saved PROVE H!Total(saved) = Cardinality(Pairs(saved))
<1>1. H!Total(saved) = H!Cardinality(Pairs(saved))
  BY DEF H!Total, Pairs
<1> QED BY <1>1, SameCount

\* Few previews, of few rows.
FewRows(saved) ==
  /\ IsFiniteSet(saved) /\ Cardinality(saved) <= MaxPreviews
  /\ IsFiniteSet(Pairs(saved)) /\ Cardinality(Pairs(saved)) <= MaxSnapshot

LEMMA FewerRows ==
  ASSUME HistoryBounds, NEW saved, FewRows(saved), NEW kept, kept \subseteq saved
  PROVE  FewRows(kept) /\ Cardinality(kept) \in Nat /\ Cardinality(Pairs(kept)) \in Nat
<1>1. IsFiniteSet(kept) /\ Cardinality(kept) <= Cardinality(saved)
  BY FS_Subset DEF FewRows
<1>2. Pairs(kept) \subseteq Pairs(saved)
  BY DEF Pairs
<1>3. IsFiniteSet(Pairs(kept)) /\ Cardinality(Pairs(kept)) <= Cardinality(Pairs(saved))
  BY <1>2, FS_Subset DEF FewRows
<1>4. /\ Cardinality(kept) \in Nat /\ Cardinality(saved) \in Nat
      /\ Cardinality(Pairs(kept)) \in Nat /\ Cardinality(Pairs(saved)) \in Nat
  BY <1>1, <1>3, FS_CardinalityType DEF FewRows
<1> QED BY <1>1, <1>3, <1>4 DEF FewRows, HistoryBounds

\* One preview more.
LEMMA OneMore ==
  ASSUME HistoryBounds, NEW kept, FewRows(kept), NEW q, IsFiniteSet(q.keys),
         Cardinality(kept) < MaxPreviews,
         Cardinality(q.keys) + Cardinality(Pairs(kept)) <= MaxSnapshot
  PROVE  FewRows(kept \cup {q})
<1>1. /\ IsFiniteSet(kept \cup {q}) /\ Cardinality(kept) \in Nat
      /\ Cardinality(kept \cup {q}) <= Cardinality(kept) + 1
  <2>1. IsFiniteSet(kept) /\ Cardinality(kept) \in Nat
    BY FS_CardinalityType DEF FewRows
  <2>2. /\ IsFiniteSet(kept \cup {q})
        /\ \/ Cardinality(kept \cup {q}) = Cardinality(kept)
           \/ Cardinality(kept \cup {q}) = Cardinality(kept) + 1
    BY <2>1, FS_AddElement
  <2> QED BY <2>1, <2>2
<1> DEFINE new == {q.token} \X q.keys
<1>2. Pairs(kept \cup {q}) = Pairs(kept) \cup new
  BY DEF Pairs
<1>3. IsFiniteSet(new) /\ Cardinality(new) = Cardinality(q.keys)
  <2>1. IsFiniteSet({q.token}) /\ Cardinality({q.token}) = 1
    BY FS_Singleton
  <2>2. IsFiniteSet(new) /\ Cardinality(new) = 1 * Cardinality(q.keys)
    BY <2>1, FS_Product
  <2>3. Cardinality(q.keys) \in Nat
    BY FS_CardinalityType
  <2> QED BY <2>2, <2>3
<1> HIDE DEF new
<1>4. /\ IsFiniteSet(Pairs(kept) \cup new)
      /\ Cardinality(Pairs(kept) \cup new) =
           Cardinality(Pairs(kept)) + Cardinality(new) - Cardinality(Pairs(kept) \cap new)
  BY <1>3, FS_Union DEF FewRows
<1>5. IsFiniteSet(Pairs(kept) \cap new)
  BY <1>3, FS_Subset
<1>6. /\ Cardinality(Pairs(kept)) \in Nat /\ Cardinality(new) \in Nat
      /\ Cardinality(Pairs(kept) \cap new) \in Nat
  BY <1>3, <1>5, FS_CardinalityType DEF FewRows
<1>7. Cardinality(Pairs(kept \cup {q})) <= MaxSnapshot
  <2>1. Cardinality(q.keys) + Cardinality(Pairs(kept)) <= MaxSnapshot
    OBVIOUS
  <2>2. Cardinality(Pairs(kept \cup {q})) <= Cardinality(Pairs(kept)) + Cardinality(new)
    <3>1. Cardinality(Pairs(kept \cup {q})) = Cardinality(Pairs(kept) \cup new)
      BY <1>2, Zenon
    <3>2. PICK both \in Nat : both = Cardinality(Pairs(kept) \cap new)
      BY <1>6
    <3> QED BY <1>4, <1>6, <3>1, <3>2
  <2>3. Cardinality(Pairs(kept)) + Cardinality(new) <= MaxSnapshot
    BY <1>3, <1>6, <2>1
  <2>4. Cardinality(Pairs(kept \cup {q})) \in Nat
    BY <1>2, <1>4, FS_CardinalityType
  <2> QED BY <1>6, <2>2, <2>3, <2>4 DEF HistoryBounds
<1>8. Cardinality(kept \cup {q}) <= MaxPreviews
  <2>1. Cardinality(kept \cup {q}) \in Nat
    BY <1>1, FS_CardinalityType
  <2> QED BY <1>1, <2>1 DEF HistoryBounds
<1> QED BY <1>1, <1>2, <1>4, <1>7, <1>8 DEF FewRows

\* Trimming drops the oldest previews until a new one has room.
LEMMA TrimmedHasRoom ==
  ASSUME NEW saved, NEW size, minted \in Nat, \A p \in saved : p.token \in 1..minted
  PROVE  LET rest == H!Trimmed(saved, size) IN
         /\ rest \subseteq saved
         /\ rest = {} \/ (Cardinality(rest) < MaxPreviews
                          /\ size + Cardinality(Pairs(rest)) <= MaxSnapshot)
<1> DEFINE Fits(n) == LET rest == H!Since(saved, n) IN
                      rest = {} \/ (H!Cardinality(rest) < MaxPreviews
                                    /\ size + H!Total(rest) <= MaxSnapshot)
           N == {n \in 0..minted : Fits(n)}
<1>1. H!Since(saved, minted) = {}
  BY DEF H!Since
<1>2. minted \in N
  BY <1>1
<1>3. N \subseteq Nat /\ N # {}
  BY <1>2
<1>4. PICK least \in N : \A n \in N : least <= n
  BY <1>3, LeastNumber
<1>5. Fits(least) /\ \A k \in 0..(least - 1) : ~ Fits(k)
  BY <1>4
<1>6. \E n \in 0..minted : Fits(n) /\ \A k \in 0..(n - 1) : ~ Fits(k)
  BY <1>4, <1>5
<1>7. PICK n : n = CHOOSE i \in 0..minted : Fits(i) /\ \A k \in 0..(i - 1) : ~ Fits(k)
  OBVIOUS
<1>8. Fits(n)
  BY <1>6, <1>7
<1>9. H!Trimmed(saved, size) = H!Since(saved, n)
  BY <1>7 DEF H!Trimmed
<1> QED BY <1>8, <1>9, SameCount, TotalIs DEF H!Since

-----------------------------------------------------------------------------
(* The types of what the history keeps *)

KeyFits(r, n) == r.key \in 1..n /\ r.open \in BOOLEAN /\ r.old \in BOOLEAN

\* Rowids are at most as great as rows have come, and no two rows of a table share one.
RowTypes ==
  /\ stored <= MaxRows
  /\ \A g \in Gateway : \A r \in rows[g] : KeyFits(r, stored)
  /\ \A g \in Gateway : \A r, s \in rows[g] : r.table = s.table /\ r.key = s.key => r = s

PlanTypes(p) ==
  /\ p.keys \subseteq H!Table \X (1..MaxRows)
  /\ p.prints \subseteq (1..MaxRows) \X (1..MaxRows) /\ p.shown \subseteq 1..MaxRows
PreviewTypes == \A p \in previews : p.live \in BOOLEAN /\ PlanTypes(p)

RequestSteps == {"idle", "preview", "confirm", "cleanup", "delete"}
StepTypes ==
  /\ policy \in [Gateway -> H!Policy] /\ selected \in Gateway /\ minted <= MaxTokens
  /\ \A c \in Client : serving[c].step \in RequestSteps
  /\ keeper.step \in {"idle", "preview", "cleanup"}

HistoryInv == RowTypes /\ PreviewTypes /\ FewRows(previews) /\ StepTypes

\* Deleting rows keeps their types.
LEMMA FewerRowsTyped ==
  ASSUME RowTypes, stored' = stored, \A g \in Gateway : rows'[g] \subseteq rows[g]
  PROVE  RowTypes'
BY DEF RowTypes

\* The next rowid of a table is free.
LEMMA NextKeyIsFree ==
  ASSUME RowsFit, RowTypes, NEW g \in Gateway, NEW table \in H!Table
  PROVE  /\ H!NextKey(g, table) \in 1..(stored + 1)
         /\ \A r \in rows[g] : r.table = table => r.key # H!NextKey(g, table)
<1>1. stored \in Nat /\ \A r \in rows[g] : r.key \in 1..stored
  BY DEF RowsFit, RowTypes, KeyFits
<1>2. CASE table = "messages"
  BY <1>1, <1>2 DEF H!NextKey
<1>3. CASE table # "messages"
  <2> DEFINE keys == {0} \cup {r.key : r \in {r \in rows[g] : r.table = table}}
  <2>1. keys \subseteq 0..stored /\ 0 \in keys
    BY <1>1
  <2>2. H!Max(keys) \in keys /\ \A k \in keys : k <= H!Max(keys)
    BY <1>1, <2>1, GreatestNumber
  <2>3. H!NextKey(g, table) = 1 + H!Max(keys)
    BY <1>3 DEF H!NextKey
  <2>4. \A r \in rows[g] : r.table = table => r.key \in keys
    OBVIOUS
  <2> HIDE DEF keys
  <2>5. PICK top \in 0..stored : top = H!Max(keys)
    BY <2>1, <2>2
  <2>6. \A r \in rows[g] : r.table = table => r.key <= top
    BY <2>2, <2>4, <2>5
  <2> QED BY <1>1, <2>3, <2>5, <2>6
<1> QED BY <1>2, <1>3

LEMMA InsertTyped ==
  ASSUME RowsFit, RowTypes, MaxRows \in Nat, NEW g \in Gateway, NEW table \in H!Table,
         NEW open \in BOOLEAN, H!Insert(g, table, open)
  PROVE  RowTypes'
<1>1. PICK s : s = Fresh(g, table, open)
  OBVIOUS
<1>2. stored \in Nat /\ stored' = stored + 1 /\ stored' <= MaxRows
  BY DEF H!Insert, RowsFit
<1>3. /\ rows'[g] \subseteq rows[g] \cup {s}
      /\ \A h \in Gateway : h # g => rows'[h] = rows[h]
  <2>1. PICK all : all = rows[g] \cup {s}
    OBVIOUS
  <2>2. /\ rows'[g] \in {all, all \ H!TooMany(all)}
        /\ \A h \in Gateway : h # g => rows'[h] = rows[h]
    BY <1>1, <2>1, InsertIs
  <2> QED
    BY <2>1, <2>2
<1>4. /\ s.table = table /\ s.key \in 1..(stored + 1) /\ KeyFits(s, stored + 1)
      /\ \A r \in rows[g] : r.table = table => r.key # s.key
  BY <1>1, NextKeyIsFree DEF KeyFits, Fresh
<1>5. \A h \in Gateway : \A r \in rows[h] : KeyFits(r, stored + 1)
  BY <1>2 DEF RowTypes, KeyFits
<1>6. \A h \in Gateway : \A r \in rows'[h] : KeyFits(r, stored')
  BY <1>2, <1>3, <1>4, <1>5
<1>7. ASSUME NEW h \in Gateway, NEW r \in rows'[h], NEW x \in rows'[h],
             r.table = x.table, r.key = x.key
      PROVE  r = x
  <2>1. r \in rows[h] /\ x \in rows[h] => r = x
    BY <1>7 DEF RowTypes
  <2> QED BY <1>3, <1>4, <1>7, <2>1
<1> QED BY <1>2, <1>6, <1>7 DEF RowTypes

LEMMA ChangeTyped ==
  ASSUME RowsFit, RowTypes, NEW g \in Gateway, NEW r \in rows[g], H!Settle(g, r) \/ H!Age(g, r)
  PROVE  RowTypes'
<1>1. PICK s : /\ s = [r EXCEPT !.open = FALSE] \/ s = [r EXCEPT !.old = TRUE]
               /\ rows' = [rows EXCEPT ![g] = (@ \ {r}) \cup {s}]
  BY DEF H!Settle, H!Age
<1>2. stored' = stored
  BY DEF H!Settle, H!Age
<1>3. RowFits(r, stored) /\ KeyFits(r, stored)
  BY DEF RowsFit, RowTypes
<1>4. s.table = r.table /\ s.key = r.key /\ KeyFits(s, stored)
  BY <1>1, <1>3 DEF RowFits, KeyFits
<1>5. /\ rows'[g] = (rows[g] \ {r}) \cup {s}
      /\ \A h \in Gateway : h # g => rows'[h] = rows[h]
  BY <1>1 DEF RowsFit
<1>6. \A h \in Gateway : \A x \in rows'[h] : KeyFits(x, stored)
  BY <1>4, <1>5 DEF RowTypes
<1>7. ASSUME NEW h \in Gateway, NEW x \in rows'[h], NEW y \in rows'[h],
             x.table = y.table, x.key = y.key
      PROVE  x = y
  <2>1. x \in rows[h] /\ y \in rows[h] => x = y
    BY <1>7 DEF RowTypes
  <2>2. \A z \in rows[g] : z.table = r.table /\ z.key = r.key => z = r
    BY DEF RowTypes
  <2> QED BY <1>4, <1>5, <1>7, <2>1, <2>2
<1> QED BY <1>2, <1>6, <1>7 DEF RowTypes

LEMMA RowTypesNext ==
  ASSUME HistoryBounds, CleanupsFit, RowTypes, [H!Next]_(H!vars)
  PROVE  RowTypes'
<1>1. ASSUME UNCHANGED <<rows, stored>> PROVE RowTypes'
  BY <1>1 DEF RowTypes
<1>2. ASSUME NEW g, NEW d, rows' = [rows EXCEPT ![g] = @ \ d], stored' = stored PROVE RowTypes'
  BY <1>2, FewerRowsTyped DEF CleanupsFit, RowsFit
<1>3. CASE UNCHANGED H!vars
  BY <1>1, <1>3 DEF H!vars
<1>4. CASE H!Keeper
  <2>1. CASE H!KeeperCleans
    BY <1>1, <1>2, <2>1 DEF H!KeeperCleans
  <2> QED BY <1>1, <1>4, <2>1 DEF H!Keeper, H!KeeperPreviews, H!KeeperReads
<1>5. CASE H!World
  BY <1>1, <1>5, InsertTyped, ChangeTyped
     DEF H!World, H!SelectGateway, H!Expire, CleanupsFit, HistoryBounds
<1>6. ASSUME NEW c \in Client, H!Request(c) PROVE RowTypes'
  <2>1. CASE H!Cleanup(c)
    BY <1>2, <2>1 DEF H!Cleanup
  <2>2. CASE H!DeleteMessages(c)
    BY <1>2, <2>2 DEF H!DeleteMessages
  <2> QED
    BY <1>1, <1>6, <2>1, <2>2 DEF H!Request, H!AskPreview, H!AskCleanup, H!AskDelete, H!SetPolicy, H!Preview,
       H!TakeToken, H!CleanupFails
<1> QED BY <1>3, <1>4, <1>5, <1>6 DEF H!Next

\* The plan of a preview is of rows that there are.
LEMMA PlanTyped ==
  ASSUME HistoryBounds, RowsFit, RowTypes, NEW g \in Gateway, NEW chosen, chosen \subseteq rows[g]
  PROVE  PlanTypes(H!Plan(g, chosen)) /\ IsFiniteSet(H!Plan(g, chosen).keys)
<1>1. PICK p : p = H!Plan(g, chosen)
  OBVIOUS
<1>2. /\ p.shown = {r.number : r \in chosen}
      /\ p.keys = {<<r.table, r.key>> : r \in chosen}
      /\ p.prints = {<<r.key, r.number>> : r \in {r \in chosen : r.table = "actions"}}
  BY <1>1 DEF H!Plan
<1>3. ASSUME NEW r \in chosen
      PROVE  r.table \in H!Table /\ r.key \in 1..MaxRows /\ r.number \in 1..MaxRows
  <2>1. /\ stored \in Nat /\ stored <= MaxRows /\ MaxRows \in Nat
        /\ RowFits(r, stored) /\ KeyFits(r, stored)
    BY DEF HistoryBounds, RowsFit, RowTypes
  <2> QED BY <2>1 DEF RowFits, KeyFits
<1>4. PlanTypes(p)
  BY <1>2, <1>3 DEF PlanTypes
<1>5. IsFiniteSet(H!Table \X (1..MaxRows))
  <2>1. IsFiniteSet({"messages"}) /\ IsFiniteSet({"actions"})
    BY FS_Singleton
  <2>2. H!Table = {"messages"} \cup {"actions"}
    BY DEF H!Table
  <2>3. IsFiniteSet({"messages"} \cup {"actions"})
    BY <2>1, FS_Union
  <2>4. IsFiniteSet(H!Table)
    BY <2>2, <2>3
  <2>5. IsFiniteSet(1..MaxRows)
    BY FS_Interval DEF HistoryBounds
  <2> QED BY <2>4, <2>5, FS_Product
<1>6. IsFiniteSet(p.keys)
  BY <1>4, <1>5, FS_Subset DEF PlanTypes
<1> QED BY <1>1, <1>4, <1>6

\* A new preview is of few rows, and older ones make room for it.
LEMMA PreviewTyped ==
  ASSUME HistoryBounds, CleanupsFit, TokensFit, HistoryInv, NEW c \in Client,
         NEW all \in BOOLEAN, H!Preview(c, all)
  PROVE  PreviewTypes' /\ FewRows(previews)' /\ minted' <= MaxTokens
<1>1. PICK g \in Gateway : g = serving[c].gateway
  BY DEF H!Preview, CleanupsFit, ServingFits
<1>2. PICK plan : /\ plan = H!Plan(g, H!Deletable(g, all))
                  /\ PlanTypes(plan) /\ IsFiniteSet(plan.keys)
  BY PlanTyped DEF H!Deletable, CleanupsFit, HistoryInv
<1>3. PICK live : live = H!Live(previews) /\ live \subseteq previews
  BY DEF H!Live
<1>4. FewRows(live)
  BY <1>3, FewerRows DEF HistoryInv
<1>5. CASE previews' = live /\ minted' = minted
  BY <1>3, <1>4, <1>5 DEF HistoryInv, PreviewTypes, StepTypes
<1>6. CASE /\ minted < MaxTokens /\ minted' = minted + 1 /\ ~ (H!Size(plan) > MaxSnapshot)
           /\ previews' = H!Trimmed(live, H!Size(plan)) \cup {H!Kept(minted + 1, plan)}
  <2>1. PICK q : q = H!Kept(minted + 1, plan)
    OBVIOUS
  <2>2. q.live = TRUE /\ q.keys = plan.keys /\ q.prints = plan.prints /\ q.shown = plan.shown
    BY <2>1 DEF H!Kept
  <2>3. H!Size(plan) = Cardinality(q.keys) /\ Cardinality(q.keys) \in Nat
    BY <1>2, <2>2, SameCount, FS_CardinalityType DEF H!Size
  <2>4. minted \in Nat /\ MaxTokens \in Nat
    BY DEF TokensFit, HistoryBounds
  <2>5. PICK rest :
          /\ rest = H!Trimmed(live, H!Size(plan)) /\ rest \subseteq live
          /\ \/ rest = {}
             \/ /\ Cardinality(rest) < MaxPreviews
                /\ H!Size(plan) + Cardinality(Pairs(rest)) <= MaxSnapshot
    BY <1>3, <2>4, TrimmedHasRoom DEF TokensFit
  <2>6. FewRows(rest)
    BY <1>4, <2>5, FewerRows
  <2>7. /\ Cardinality(rest) < MaxPreviews
        /\ Cardinality(q.keys) + Cardinality(Pairs(rest)) <= MaxSnapshot
    <3>1. CASE rest = {}
      <4>1. Pairs(rest) = {}
        BY <3>1 DEF Pairs
      <4>2. Cardinality(rest) = 0 /\ Cardinality(Pairs(rest)) = 0
        BY <3>1, <4>1, FS_EmptySet
      <4> QED BY <1>6, <2>3, <4>2 DEF HistoryBounds
    <3> QED BY <2>3, <2>5, <3>1
  <2>8. FewRows(rest \cup {q})
    BY <1>2, <2>2, <2>6, <2>7, OneMore
  <2>9. previews' = rest \cup {q}
    BY <1>6, <2>1, <2>5
  <2>10. PlanTypes(q)
    BY <1>2, <2>2 DEF PlanTypes
  <2>11. \A p \in previews' : p.live \in BOOLEAN /\ PlanTypes(p)
    BY <1>3, <2>2, <2>5, <2>9, <2>10 DEF HistoryInv, PreviewTypes
  <2> QED BY <1>6, <2>4, <2>8, <2>9, <2>11 DEF PreviewTypes
<1> QED BY <1>1, <1>2, <1>3, <1>5, <1>6 DEF H!Preview

LEMMA ExpireTyped ==
  ASSUME HistoryBounds, CleanupsFit, HistoryInv, NEW p \in previews, H!Expire(p)
  PROVE  PreviewTypes' /\ FewRows(previews)'
<1>1. PICK q : q = [p EXCEPT !.live = FALSE]
  OBVIOUS
<1>2. previews' = (previews \ {p}) \cup {q}
  BY <1>1 DEF H!Expire
<1>3. /\ q.token = p.token /\ q.keys = p.keys /\ q.prints = p.prints /\ q.shown = p.shown
      /\ q.live = FALSE
  BY <1>1 DEF CleanupsFit, PreviewsFit, PreviewFits
<1>4. Pairs(previews') = Pairs(previews)
  BY <1>2, <1>3 DEF Pairs
<1>5. IsFiniteSet(previews') /\ Cardinality(previews') <= Cardinality(previews)
  <2>1. IsFiniteSet(previews) /\ Cardinality(previews) \in Nat
    BY FS_CardinalityType DEF HistoryInv, FewRows
  <2>2. /\ IsFiniteSet(previews \ {p})
        /\ Cardinality(previews \ {p}) = Cardinality(previews) - 1
    BY <2>1, FS_RemoveElement
  <2>3. /\ IsFiniteSet(previews')
        /\ \/ Cardinality(previews') = Cardinality(previews \ {p})
           \/ Cardinality(previews') = Cardinality(previews \ {p}) + 1
    BY <1>2, <2>2, FS_AddElement
  <2> QED BY <2>1, <2>2, <2>3
<1>6. Cardinality(previews) \in Nat /\ Cardinality(previews') \in Nat
  BY <1>5, FS_CardinalityType DEF HistoryInv, FewRows
<1>7. IsFiniteSet(Pairs(previews')) /\ Cardinality(Pairs(previews')) <= MaxSnapshot
  BY <1>4, Zenon DEF HistoryInv, FewRows
<1>8. Cardinality(previews') <= MaxPreviews
  BY <1>5, <1>6 DEF HistoryInv, FewRows, HistoryBounds
<1>9. PreviewTypes'
  BY <1>2, <1>3 DEF HistoryInv, PreviewTypes, PlanTypes
<1> QED BY <1>5, <1>7, <1>8, <1>9 DEF FewRows, Pairs

LEMMA PreviewsNext ==
  ASSUME HistoryBounds, CleanupsFit, TokensFit, HistoryInv, [H!Next]_(H!vars)
  PROVE  PreviewTypes' /\ FewRows(previews)' /\ minted' <= MaxTokens
<1>1. ASSUME previews' \subseteq previews, minted' = minted
      PROVE  PreviewTypes' /\ FewRows(previews)' /\ minted' <= MaxTokens
  <2>1. FewRows(previews')
    BY <1>1, FewerRows DEF HistoryInv
  <2>2. FewRows(previews)'
    BY <2>1 DEF FewRows, Pairs
  <2> QED BY <1>1, <2>2 DEF HistoryInv, PreviewTypes, StepTypes
<1>2. CASE UNCHANGED H!vars
  BY <1>1, <1>2 DEF H!vars
<1>3. CASE H!Keeper
  BY <1>1, <1>3 DEF H!Keeper, H!KeeperPreviews, H!KeeperReads, H!KeeperCleans
<1>4. CASE H!World
  <2>1. ASSUME NEW p \in previews, H!Expire(p)
        PROVE  PreviewTypes' /\ FewRows(previews)' /\ minted' <= MaxTokens
    BY <2>1, ExpireTyped DEF H!Expire, HistoryInv, StepTypes
  <2> QED
    BY <1>1, <1>4, <2>1 DEF H!World, H!SelectGateway, H!Insert, H!Settle, H!Age
<1>5. ASSUME NEW c \in Client, H!Request(c)
      PROVE  PreviewTypes' /\ FewRows(previews)' /\ minted' <= MaxTokens
  <2>1. ASSUME NEW t, H!TakeToken(c, t) PROVE previews' \subseteq previews /\ minted' = minted
    BY <2>1 DEF H!TakeToken
  <2> QED
    BY <1>1, <1>5, <2>1, PreviewTyped DEF H!Request, H!AskPreview, H!AskCleanup, H!AskDelete,
       H!SetPolicy, H!Cleanup, H!CleanupFails, H!DeleteMessages
<1> QED BY <1>2, <1>3, <1>4, <1>5 DEF H!Next

LEMMA StepTypesNext ==
  ASSUME CleanupsFit, StepTypes, [H!Next]_(H!vars), minted' <= MaxTokens
  PROVE  StepTypes'
<1>1. policy' \in [Gateway -> H!Policy]
  <2>1. CASE \E c \in Client : \E g \in Gateway : \E days \in {0, 30} : H!SetPolicy(c, g, days)
    <3>1. PICK c \in Client, g \in Gateway, days \in {0, 30} : H!SetPolicy(c, g, days)
      BY <2>1
    <3>2. PICK p : p = [days |-> days, review |-> FALSE]
      OBVIOUS
    <3>3. p \in H!Policy
      BY <3>2 DEF H!Policy
    <3>4. policy' = [policy EXCEPT ![g] = p]
      BY <3>1, <3>2 DEF H!SetPolicy
    <3> QED BY <3>3, <3>4 DEF StepTypes
  <2>2. CASE policy' = policy
    BY <2>2 DEF StepTypes
  <2> QED
    BY <2>1, <2>2 DEF H!Next, H!Keeper, H!World, H!Request, H!KeeperReads, H!KeeperPreviews,
       H!KeeperCleans, H!SelectGateway, H!Insert, H!Settle, H!Age, H!Expire, H!AskPreview,
       H!AskCleanup, H!AskDelete, H!Preview, H!TakeToken, H!Cleanup, H!CleanupFails,
       H!DeleteMessages, H!vars
<1>2. selected' \in Gateway
  BY DEF StepTypes, H!Next, H!Keeper, H!World, H!Request, H!KeeperReads, H!KeeperPreviews,
     H!KeeperCleans, H!SelectGateway, H!Insert, H!Settle, H!Age, H!Expire, H!AskPreview,
     H!AskCleanup, H!AskDelete, H!SetPolicy, H!Preview, H!TakeToken, H!Cleanup,
     H!CleanupFails, H!DeleteMessages, H!vars
<1>3. keeper'.step \in {"idle", "preview", "cleanup"}
  <2>1. CASE UNCHANGED keeper
    BY <2>1 DEF StepTypes
  <2>2. CASE H!Keeper
    <3>1. StepFits(keeper)
      BY DEF CleanupsFit, KeeperFits
    <3>2. ASSUME NEW g \in Gateway, H!KeeperReads(g) PROVE keeper'.step = "preview"
      BY <3>2 DEF H!KeeperReads, H!Idle
    <3>3. ASSUME H!KeeperPreviews PROVE keeper'.step = "cleanup"
      <4>1. PICK plan : keeper' = [keeper EXCEPT !.step = "cleanup", !.plan = plan]
        BY <3>3 DEF H!KeeperPreviews
      <4> QED BY <3>1, <4>1 DEF StepFits
    <3>4. ASSUME H!KeeperCleans PROVE keeper'.step = "idle"
      BY <3>4, IdleClient DEF H!KeeperCleans
    <3> QED
      BY <2>2, <3>2, <3>3, <3>4 DEF H!Keeper
  <2> QED
    BY <2>1, <2>2 DEF H!Next, H!World, H!Request, H!SelectGateway, H!Insert, H!Settle, H!Age,
       H!Expire, H!AskPreview, H!AskCleanup, H!AskDelete, H!SetPolicy, H!Preview, H!TakeToken,
       H!Cleanup, H!CleanupFails, H!DeleteMessages, H!vars
<1>4. \A c \in Client : serving'[c].step \in RequestSteps
  <2>1. ASSUME NEW c \in Client, NEW s, s.step \in RequestSteps,
               serving' = [serving EXCEPT ![c] = s]
        PROVE  \A d \in Client : serving'[d].step \in RequestSteps
    BY <2>1 DEF StepTypes, CleanupsFit, ServingFits
  <2>2. H!Idle.step \in RequestSteps
    BY IdleClient DEF RequestSteps
  <2>3. ASSUME NEW c \in Client, NEW g \in Gateway,
               H!AskPreview(c, g) \/ H!AskCleanup(c, g) \/ H!AskDelete(c, g)
        PROVE  \A d \in Client : serving'[d].step \in RequestSteps
    <3>1. PICK s : /\ \E step \in {"preview", "confirm", "delete"} :
                        s = [H!Idle EXCEPT !.step = step, !.gateway = g]
                   /\ serving' = [serving EXCEPT ![c] = s]
      BY <2>3 DEF H!AskPreview, H!AskCleanup, H!AskDelete
    <3>2. s.step \in RequestSteps
      BY <3>1 DEF H!Idle, RequestSteps
    <3> QED BY <2>1, <3>1, <3>2
  <2>4. ASSUME NEW c \in Client, NEW t, H!TakeToken(c, t)
        PROVE  \A d \in Client : serving'[d].step \in RequestSteps
    <3>1. CASE serving' = [serving EXCEPT ![c] = H!Idle]
      BY <2>1, <2>2, <3>1
    <3>2. ASSUME NEW p, serving' = [serving EXCEPT ![c].step = "cleanup", ![c].plan = p]
          PROVE  \A d \in Client : serving'[d].step \in RequestSteps
      <4>1. PICK s : s = [serving[c] EXCEPT !.step = "cleanup", !.plan = p]
        OBVIOUS
      <4>2. s.step = "cleanup"
        BY <4>1 DEF CleanupsFit, ServingFits, StepFits
      <4>3. serving' = [serving EXCEPT ![c] = s]
        BY <3>2, <4>1 DEF CleanupsFit, ServingFits
      <4>4. s.step \in RequestSteps
        BY <4>2 DEF RequestSteps
      <4> QED BY <2>1, <4>3, <4>4
    <3> QED BY <2>4, <3>1, <3>2 DEF H!TakeToken
  <2>5. ASSUME NEW c \in Client, (\E all \in BOOLEAN : H!Preview(c, all)) \/ H!Cleanup(c)
                                  \/ H!CleanupFails(c) \/ H!DeleteMessages(c)
        PROVE  \A d \in Client : serving'[d].step \in RequestSteps
    <3>1. serving' = [serving EXCEPT ![c] = H!Idle]
      BY <2>5 DEF H!Preview, H!Cleanup, H!CleanupFails, H!DeleteMessages
    <3> QED BY <2>1, <2>2, <3>1
  <2>6. CASE UNCHANGED serving
    BY <2>6 DEF StepTypes
  <2> QED
    BY <2>3, <2>4, <2>5, <2>6 DEF H!Next, H!Keeper, H!World, H!Request, H!KeeperReads,
       H!KeeperPreviews, H!KeeperCleans, H!SelectGateway, H!Insert, H!Settle, H!Age, H!Expire,
       H!SetPolicy, H!vars
<1> QED BY <1>1, <1>2, <1>3, <1>4 DEF StepTypes

LEMMA HistoryInit == HistoryBounds /\ H!Init => HistoryInv
<1> SUFFICES ASSUME HistoryBounds, H!Init PROVE HistoryInv
  OBVIOUS
<1>1. RowTypes /\ PreviewTypes
  BY DEF H!Init, HistoryBounds, RowTypes, PreviewTypes
<1>2. FewRows(previews)
  <2>1. previews = {} /\ Pairs(previews) = {}
    BY DEF H!Init, Pairs
  <2>2. IsFiniteSet({}) /\ Cardinality({}) = 0
    BY FS_EmptySet
  <2> QED BY <2>1, <2>2 DEF FewRows, HistoryBounds
<1>3. policy \in [Gateway -> H!Policy]
  <2>1. PICK p \in H!Policy : policy = [g \in Gateway |-> p]
    BY DEF H!Init, H!Policy
  <2> QED BY <2>1
<1>4. keeper.step = "idle" /\ \A c \in Client : serving[c].step = "idle"
  BY IdleClient DEF H!Init
<1>5. StepTypes
  BY <1>3, <1>4 DEF H!Init, HistoryBounds, StepTypes, RequestSteps
<1> QED BY <1>1, <1>2, <1>5 DEF HistoryInv

LEMMA HistoryTypes ==
  ASSUME HistoryBounds, CleanupsFit, TokensFit, HistoryInv
  PROVE  H!TypeOK /\ H!PreviewsBounded
<1>1. ASSUME NEW g \in Gateway, NEW r \in rows[g] PROVE r \in H!Row
  <2>1. RowFits(r, stored) /\ KeyFits(r, stored)
    BY DEF CleanupsFit, RowsFit, HistoryInv, RowTypes
  <2>2. stored \in Nat /\ stored <= MaxRows /\ MaxRows \in Nat
    BY DEF CleanupsFit, RowsFit, HistoryInv, RowTypes, HistoryBounds
  <2> QED BY <2>1, <2>2 DEF H!Row, RowFits, KeyFits
<1>2. rows \in [Gateway -> SUBSET H!Row]
  BY <1>1 DEF CleanupsFit, RowsFit
<1>3. ASSUME NEW p \in previews PROVE p \in H!Saved
  <2>1. PreviewFits(p) /\ p.live \in BOOLEAN /\ PlanTypes(p)
    BY DEF CleanupsFit, PreviewsFit, HistoryInv, PreviewTypes
  <2>2. p.token \in 1..MaxTokens
    BY DEF TokensFit, HistoryInv, StepTypes, HistoryBounds
  <2>3. p.gateway \in Gateway
    BY <2>1 DEF PreviewFits, PlanFits
  <2> QED BY <2>1, <2>2, <2>3 DEF H!Saved, PreviewFits, PlanTypes
<1>4. H!TypeOK
  BY <1>2, <1>3 DEF H!TypeOK, HistoryInv, RowTypes, StepTypes, RequestSteps
<1>5. H!PreviewsBounded
  BY SameCount, TotalIs DEF H!PreviewsBounded, HistoryInv, FewRows
<1> QED BY <1>4, <1>5

\* The histories, the previews and the requests keep their types, and however many previews
\* are asked for, few are kept, of few rows (_history_request in ipc.py).
THEOREM HistoryIsTyped == ASSUME HistoryBounds PROVE H!Spec => [](H!TypeOK /\ H!PreviewsBounded)
<1>1. CleanupsFit /\ TokensFit /\ HistoryInv /\ [H!Next]_(H!vars) => HistoryInv'
  BY RowTypesNext, PreviewsNext, StepTypesNext DEF HistoryInv
<1>2. CleanupsFit /\ TokensFit /\ HistoryInv => H!TypeOK /\ H!PreviewsBounded
  BY HistoryTypes
<1> QED
  BY <1>1, <1>2, FitEver, TokensInit, TokensNext, HistoryInit, PTL DEF H!Spec

-----------------------------------------------------------------------------
(* Reading conversations *)

\* The conversation at the start is one, and the rest is bounds.
ReadBounds ==
  Home \in Conversation /\ MaxMessages \in Nat /\ MaxSelects \in Nat /\ MaxErrors \in Nat

ReadTypes == R!TypeOK /\ taken \in [Reader -> Nat]

\* A worker that begins asks for the conversation it was started for.
LEMMA AsksTyped ==
  ASSUME ReadBounds, NEW r \in Reader, NEW task \in {"load", "mark", "refresh"},
         NEW conv \in Conversation, NEW number \in 0..(MaxSelects + MaxMessages)
  PROVE  R!Asks(r, task, conv, number) \in R!Worker
<1>1. R!Zeros \in R!Counts
  BY DEF R!Zeros, R!Counts, ReadBounds
<1>2. R!FirstStep(task) \in {"messages", "lists", "answered"}
  BY DEF R!FirstStep
<1> QED BY <1>1, <1>2 DEF R!Asks, R!Worker

LEMMA StartsTyped ==
  ASSUME workers \subseteq R!Worker, NEW new, new \subseteq R!Worker, R!Starts(new)
  PROVE  workers' \subseteq R!Worker
BY DEF R!Starts

\* No conversation has more unread messages than there are messages.
LEMMA CountsTyped ==
  ASSUME ReadBounds, R!TypeOK
  PROVE  [c \in Conversation |-> R!Cardinality(R!In(c) \ read)] \in R!Counts
<1>1. ASSUME NEW c \in Conversation PROVE R!Cardinality(R!In(c) \ read) \in 0..MaxMessages
  <2>1. Len(filed) \in Nat /\ Len(filed) <= MaxMessages /\ DOMAIN filed = 1..Len(filed)
    BY DEF R!TypeOK
  <2>2. R!In(c) \ read \subseteq 1..MaxMessages
    BY <2>1 DEF R!In, R!Stored, ReadBounds
  <2>3. IsFiniteSet(1..MaxMessages) /\ Cardinality(1..MaxMessages) = MaxMessages
    BY FS_Interval DEF ReadBounds
  <2>4. /\ IsFiniteSet(R!In(c) \ read)
        /\ Cardinality(R!In(c) \ read) <= Cardinality(1..MaxMessages)
    BY <2>2, <2>3, FS_Subset
  <2>5. Cardinality(R!In(c) \ read) \in Nat
    BY <2>4, FS_CardinalityType
  <2>6. R!Cardinality(R!In(c) \ read) = Cardinality(R!In(c) \ read)
    BY SameCount
  <2> QED BY <2>3, <2>4, <2>5, <2>6 DEF ReadBounds
<1> QED BY <1>1 DEF R!Counts

LEMMA ReadInit == ReadBounds /\ R!Init => ReadTypes
<1> SUFFICES ASSUME ReadBounds, R!Init PROVE ReadTypes
  OBVIOUS
<1>1. R!Zeros \in R!Counts
  BY DEF R!Zeros, R!Counts, ReadBounds
<1>2. \A r \in Reader : R!Asks(r, "load", Home, 0) \in R!Worker
  BY AsksTyped DEF ReadBounds
<1>3. workers \subseteq R!Worker
  BY <1>2 DEF R!Init
<1>4. filed = <<>> /\ Len(filed) = 0
  BY DEF R!Init
<1> QED
  BY <1>1, <1>3, <1>4 DEF R!Init, R!TypeOK, R!Stored, ReadBounds, ReadTypes

LEMMA WorkerTyped ==
  ASSUME ReadBounds, ReadTypes, NEW w \in workers,
         R!MarkRead(w) \/ R!Conversations(w) \/ R!Show(w) \/ R!Apply(w) \/ R!Fails(w)
  PROVE  ReadTypes'
<1>1. w \in R!Worker
  BY DEF ReadTypes, R!TypeOK
<1>2. workers' \subseteq R!Worker
  <2>1. CASE workers' = workers \ {w}
    BY <2>1 DEF ReadTypes, R!TypeOK
  <2>2. CASE R!MarkRead(w)
    <3>1. PICK step \in {"answered", "lists"} : workers' = R!Replaced(w, [w EXCEPT !.step = step])
      BY <2>2 DEF R!MarkRead
    <3>2. [w EXCEPT !.step = step] \in R!Worker
      BY <1>1 DEF R!Worker
    <3> QED BY <3>1, <3>2 DEF R!Replaced, ReadTypes, R!TypeOK
  <2>3. CASE R!Conversations(w)
    <3>1. PICK counts \in R!Counts :
            workers' = R!Replaced(w, [w EXCEPT !.step = "answered", !.counts = counts])
      BY <2>3, CountsTyped DEF R!Conversations, ReadTypes
    <3>2. [w EXCEPT !.step = "answered", !.counts = counts] \in R!Worker
      BY <1>1 DEF R!Worker
    <3> QED BY <3>1, <3>2 DEF R!Replaced, ReadTypes, R!TypeOK
  <2> QED BY <2>1, <2>2, <2>3 DEF R!Show, R!Apply, R!Fails
<1>3. read' \subseteq R!Stored
  BY DEF R!MarkRead, R!Conversations, R!Show, R!Apply, R!Fails, R!Marked, R!In, ReadTypes, R!TypeOK
<1>4. unread' \in [Reader -> R!Counts]
  <2>1. unread \in [Reader -> R!Counts] /\ w.reader \in Reader /\ w.conv \in Conversation
        /\ w.counts \in R!Counts
    BY <1>1 DEF ReadTypes, R!TypeOK, R!Worker
  <2>2. CASE R!Show(w)
    <3>1. CASE unread' = [unread EXCEPT ![w.reader][w.conv] = 0]
      <4>1. PICK counts : counts = [unread[w.reader] EXCEPT ![w.conv] = 0]
        OBVIOUS
      <4>2. unread[w.reader] \in [Conversation -> 0..MaxMessages] /\ 0 \in 0..MaxMessages
        BY <2>1 DEF R!Counts, ReadBounds
      <4>3. counts \in R!Counts
        BY <2>1, <4>1, <4>2 DEF R!Counts
      <4>4. unread' = [unread EXCEPT ![w.reader] = counts]
        BY <2>1, <3>1, <4>1
      <4> QED BY <2>1, <4>3, <4>4
    <3> QED BY <2>1, <2>2, <3>1 DEF R!Show
  <2>3. CASE R!Apply(w)
    BY <2>1, <2>3 DEF R!Apply
  <2> QED BY <2>1, <2>2, <2>3 DEF R!MarkRead, R!Conversations, R!Fails
<1>5. UNCHANGED <<filed, published, taken, current, selects>>
  BY DEF R!MarkRead, R!Conversations, R!Show, R!Apply, R!Fails
<1>6. errors' \in 0..MaxErrors
  BY DEF R!MarkRead, R!Conversations, R!Show, R!Apply, R!Fails, ReadTypes, R!TypeOK, ReadBounds
<1> QED
  BY <1>2, <1>3, <1>4, <1>5, <1>6 DEF ReadTypes, R!TypeOK, R!Stored

LEMMA ReadNext == ReadBounds /\ ReadTypes /\ [R!Next]_(R!vars) => ReadTypes'
<1> SUFFICES ASSUME ReadBounds, ReadTypes, [R!Next]_(R!vars) PROVE ReadTypes'
  OBVIOUS
<1>1. /\ filed \in Seq(Conversation) /\ Len(filed) \in Nat /\ Len(filed) <= MaxMessages
      /\ DOMAIN filed = 1..Len(filed) /\ published \in 0..Len(filed)
      /\ taken \in [Reader -> Nat] /\ \A r \in Reader : taken[r] \in 0..published
      /\ current \in [Reader -> Conversation] /\ workers \subseteq R!Worker
  BY DEF ReadTypes, R!TypeOK
<1>2. CASE UNCHANGED R!vars
  BY <1>2 DEF R!vars, ReadTypes, R!TypeOK, R!Stored
<1>3. CASE R!Announce
  BY <1>1, <1>3 DEF R!Announce, ReadTypes, R!TypeOK, R!Stored
<1>4. ASSUME NEW conv \in Conversation, R!Receive(conv) PROVE ReadTypes'
  <2>1. /\ filed' = Append(filed, conv) /\ Len(filed) < MaxMessages
        /\ UNCHANGED <<read, published, taken, current, unread, workers, selects, errors>>
    BY <1>4 DEF R!Receive
  <2>2. filed' \in Seq(Conversation) /\ Len(filed') = Len(filed) + 1
    BY <1>1, <2>1
  <2>3. DOMAIN filed' = 1..(Len(filed) + 1)
    BY <2>2
  <2>4. Len(filed') <= MaxMessages /\ published' \in 0..Len(filed')
    BY <1>1, <2>1, <2>2 DEF ReadBounds
  <2>5. read' \subseteq R!Stored'
    BY <1>1, <2>1, <2>3 DEF ReadTypes, R!TypeOK, R!Stored
  <2> QED BY <2>1, <2>2, <2>4, <2>5 DEF ReadTypes, R!TypeOK
<1>5. ASSUME NEW r \in Reader, NEW conv \in Conversation, R!Select(r, conv) PROVE ReadTypes'
  <2>1. selects' \in 0..MaxSelects /\ selects' \in 0..(MaxSelects + MaxMessages)
    BY <1>5 DEF R!Select, ReadTypes, R!TypeOK, ReadBounds
  <2>2. R!Asks(r, "load", conv, selects') \in R!Worker
    BY <2>1, AsksTyped
  <2>3. workers' \subseteq R!Worker
    BY <1>1, <1>5, <2>2, StartsTyped DEF R!Select
  <2>4. current' \in [Reader -> Conversation]
    BY <1>1, <1>5 DEF R!Select
  <2>5. UNCHANGED <<filed, read, published, taken, unread, errors>>
    BY <1>5 DEF R!Select
  <2> QED BY <2>1, <2>3, <2>4, <2>5 DEF ReadTypes, R!TypeOK, R!Stored
<1>6. ASSUME NEW r \in Reader, R!Live(r) PROVE ReadTypes'
  <2>1. PICK i : i = taken[r] + 1
    OBVIOUS
  <2>2. /\ taken[r] < published /\ taken' = [taken EXCEPT ![r] = i]
        /\ R!Starts({R!Asks(r, "refresh", filed[i], i)}
                    \cup {R!Asks(r, "mark", c, i) : c \in {filed[i]} \cap {current[r]}})
        /\ UNCHANGED <<filed, read, published, current, unread, selects, errors>>
    BY <1>6, <2>1 DEF R!Live
  <2>3. i \in 1..published /\ i \in 1..Len(filed) /\ i \in 0..(MaxSelects + MaxMessages)
    BY <1>1, <2>1, <2>2 DEF ReadBounds
  <2>4. filed[i] \in Conversation
    BY <1>1, <2>3
  <2>5. /\ R!Asks(r, "refresh", filed[i], i) \in R!Worker
        /\ R!Asks(r, "mark", filed[i], i) \in R!Worker
    BY <2>3, <2>4, AsksTyped
  <2>6. workers' \subseteq R!Worker
    BY <1>1, <2>2, <2>5, StartsTyped
  <2>7. taken' \in [Reader -> Nat] /\ \A q \in Reader : taken'[q] \in 0..published
    BY <1>1, <2>2, <2>3
  <2> QED BY <2>2, <2>6, <2>7 DEF ReadTypes, R!TypeOK, R!Stored
<1> QED BY <1>2, <1>3, <1>4, <1>5, <1>6, WorkerTyped DEF R!Next, R!Work

\* The messages, the marks and the numbers beside the conversations keep their types
\* (list_messages, conversations, the workers of tui.py).
THEOREM ReadingIsTyped == ASSUME ReadBounds PROVE R!Spec => []R!TypeOK
<1>1. ReadTypes => R!TypeOK
  BY DEF ReadTypes
<1> QED BY <1>1, ReadInit, ReadNext, PTL DEF R!Spec

-----------------------------------------------------------------------------
(* The components side by side *)

\* A step is one of the component whose part it is, and the others stand still.
LEMMA PartSteps ==
  [NextPart]_everything => [Next]_vars /\ [H!Next]_(H!vars) /\ [R!Next]_(R!vars)
BY DEF NextPart, OnlyHistory, OnlyOperations, OnlyReading, everything, historyVars, readVars,
   H!vars, R!vars

LEMMA PartsBehave == SpecPart => Spec /\ H!Spec /\ R!Spec
<1>1. InitPart => Init /\ H!Init /\ R!Init
  BY DEF InitPart
<1> QED BY <1>1, PartSteps, PTL DEF SpecPart, Spec, H!Spec, R!Spec

\* The histories and their previews, the operations of the web application with a bounded
\* number of results, and what is read and shown as unread keep their types together.
THEOREM RequestsKeepTypes ==
  ASSUME HistoryBounds, ReadBounds PROVE SpecPart => []TypesOK
<1>1. H!TypeOK /\ H!PreviewsBounded /\ TypeOK /\ ResultsBounded /\ R!TypeOK => TypesOK
  BY DEF TypesOK
<1> QED
  BY <1>1, PartsBehave, TypeCorrect, CacheIsBounded, HistoryIsTyped, ReadingIsTyped, PTL
=============================================================================
