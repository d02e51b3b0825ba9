----------------------------- MODULE ClientsProofs -----------------------------
(* Proofs about three components of the clients' side: AuthStore, for every set   *)
(* of processes, addresses, sessions and passkeys and for every limit,            *)
(* EventStream, for every number of publishers and watchers and every size of the *)
(* queues, and Terminal, for all conversations, messages, texts and traceroutes.  *)
EXTENDS MCClients, FiniteSetTheorems, TLAPS

-----------------------------------------------------------------------------
(* Web authentication *)

Held(p) == {t \in Token : session[t] # None /\ session[t].at = p}

\* The type invariant without the limits on the numbers of passkeys and sessions.
Typed ==
  /\ file \in [origin : Origin, generation : Nat, credentials : SUBSET Key,
               code : {None} \cup 0..CodeAttempts,
               previous : [Origin -> {None} \cup SUBSET Key]]
  /\ session \in [Token -> {None} \cup Session]
  /\ challenge \in [Token -> Kinds]
  /\ issued \subseteq Token
  /\ epoch \in Nat /\ tally \in [answers: Nat, logins: Nat]
  /\ kept \subseteq Origin \X Key

\* The passkeys of an address that comes back are within the limit because they were when
\* it left.
Limited ==
  /\ Cardinality(file.credentials) <= MaxCredentials
  /\ \A o \in Origin : file.previous[o] # None =>
       Cardinality(file.previous[o]) <= MaxCredentials
  /\ \A p \in Process : Cardinality(Held(p)) <= MaxSessions
Quiet == \A t \in Token : session[t] = None => challenge[t] = "none"

\* The file's generation counts the revocations, and a session carries the generation of
\* the file it was made under: so a process that compares the two knows of revocations
\* by others.
Stamped ==
  /\ epoch = file.generation
  /\ \A t \in Token : session[t] # None => session[t].born = session[t].generation

\* What is left of a code and what was answered about it make up CODE_ATTEMPTS.
Spent ==
  /\ CodeWorksOnce
  /\ file.code # None => tally.logins = 0 /\ tally.answers + file.code <= CodeAttempts

Inv == Typed /\ Stamped /\ Spent /\ PasskeysSurvive

-----------------------------------------------------------------------------
(* Lemmas *)

\* A new session of p has the type of one, and carries the file's generation.
LEMMA NewType ==
  ASSUME Typed, Stamped, NEW p \in Process, NEW auth \in BOOLEAN
  PROVE  /\ New(p, auth) \in Session /\ New(p, auth) # None
         /\ New(p, auth).born = New(p, auth).generation /\ New(p, auth).at = p
<1>1. New(p, auth) \in Session
  BY DEF Typed, Session, New
<1>2. New(p, auth) # None
  BY <1>1, NoneAssumption
<1> QED BY <1>1, <1>2 DEF Stamped, New, Typed

\* Pruning forgets sessions, and changes none.
LEMMA PruneType ==
  ASSUME Typed, NEW p \in Process
  PROVE  /\ Pruned(p, Token) \in [Token -> {None} \cup Session]
         /\ \A t \in Token : Pruned(p, Token)[t] \in {None, session[t]}
         /\ \A t \in Token : Pruned(p, Token)[t] # None /\ session[t].at = p => t \in Live(p)
BY DEF Typed, Pruned, Live

\* What a session stands for after Replace and NewSession: a new one, or the one it was.
LEMMA ReplaceType ==
  ASSUME Typed, Stamped, NEW p \in Process, NEW old \in Token, NEW t \in Token,
         Replace(p, old, t)
  PROVE  /\ session' \in [Token -> {None} \cup Session]
         /\ challenge' \in [Token -> Kinds] /\ issued' \subseteq Token
         /\ session'[t] = New(p, TRUE)
         /\ \A u \in Token \ {t} : session'[u] \in {None, session[u]}
<1>1. session' = [Pruned(p, Token) EXCEPT ![old] = None, ![t] = New(p, TRUE)]
  BY DEF Replace
<1>2. New(p, TRUE) \in Session
  BY NewType
<1>3. session' \in [Token -> {None} \cup Session]
  BY <1>1, <1>2, PruneType
<1>4. session'[t] = New(p, TRUE) /\ \A u \in Token \ {t} : session'[u] \in {None, session[u]}
  BY <1>1, PruneType
<1>5. challenge' \in [Token -> Kinds]
  BY DEF Replace, Typed, Kinds
<1>6. issued' \subseteq Token
  BY DEF Replace, Typed
<1> QED BY <1>3, <1>4, <1>5, <1>6

\* The same of NewSession.
LEMMA NewSessionType ==
  ASSUME Typed, Stamped, NEW p \in Process, NEW t \in Token, NewSession(p, t)
  PROVE  /\ session' \in [Token -> {None} \cup Session]
         /\ challenge' \in [Token -> Kinds] /\ issued' \subseteq Token
         /\ session'[t] = New(p, FALSE)
         /\ \A u \in Token \ {t} : session'[u] \in {None, session[u]}
<1>1. session' = [Pruned(p, Token) EXCEPT ![t] = New(p, FALSE)]
  BY DEF NewSession
<1>2. New(p, FALSE) \in Session
  BY NewType
<1>3. session' \in [Token -> {None} \cup Session]
  BY <1>1, <1>2, PruneType
<1>4. session'[t] = New(p, FALSE) /\ \A u \in Token \ {t} : session'[u] \in {None, session[u]}
  BY <1>1, PruneType
<1>5. challenge' \in [Token -> Kinds]
  BY DEF NewSession, Typed, Kinds
<1>6. issued' \subseteq Token
  BY DEF NewSession, Typed
<1> QED BY <1>3, <1>4, <1>5, <1>6

\* A secret that is new is a token.
LEMMA UnusedIsToken ==
  ASSUME Typed, NEW t \in Unused
  PROVE  t \in Token /\ t \notin issued
<1>1. issued # Token
  BY DEF Unused
<1>2. \E u \in Token : u \notin issued
  BY <1>1 DEF Typed
<1> QED BY <1>1, <1>2 DEF Unused

-----------------------------------------------------------------------------
(* Every action keeps Inv. *)

LEMMA InitInv == Init => Inv
<1> SUFFICES ASSUME Init PROVE Inv OBVIOUS
<1>1. /\ file \in [origin : Origin, generation : Nat, credentials : SUBSET Key,
                   code : {None} \cup 0..CodeAttempts,
                   previous : [Origin -> {None} \cup SUBSET Key]]
      /\ file.generation = 0 /\ file.code = None /\ file.credentials = {}
  BY DEF Init
<1>2. Typed
  BY <1>1 DEF Init, Typed, Kinds
<1>3. Stamped /\ Spent
  BY <1>1, BoundAssumption DEF Init, Stamped, Spent, CodeWorksOnce
<1>4. PasskeysSurvive
  BY DEF Init, PasskeysSurvive
<1> QED BY <1>2, <1>3, <1>4 DEF Inv

\* Steps that leave the file and what was observed of it.
LEMMA SessionStep ==
  ASSUME Inv, UNCHANGED <<file, epoch, tally, kept>>,
         session' \in [Token -> {None} \cup Session], challenge' \in [Token -> Kinds],
         issued' \subseteq Token,
         \A t \in Token : session'[t] # None =>
           session'[t] = session[t] \/ session'[t].born = session'[t].generation
  PROVE  Inv'
<1>1. Typed'
  BY DEF Inv, Typed
<1>2. Stamped'
  BY DEF Inv, Stamped
<1>3. Spent' /\ PasskeysSurvive'
  BY DEF Inv, Spent, CodeWorksOnce, PasskeysSurvive
<1> QED BY <1>1, <1>2, <1>3 DEF Inv

LEMMA IssueInv ==
  ASSUME Inv, NEW o \in Origin, Issue(o)
  PROVE  Inv'
<1> DEFINE moved == o # file.origin
           saved == [file.previous EXCEPT ![file.origin] = file.credentials, ![o] = None]
           keys == IF ~moved THEN file.credentials
                   ELSE IF file.previous[o] = None THEN {} ELSE file.previous[o]
<1>1. file' = [origin |-> o, generation |-> file.generation + 1, code |-> CodeAttempts,
               credentials |-> keys, previous |-> IF moved THEN saved ELSE file.previous]
  BY DEF Issue
<1>2. UNCHANGED <<session, challenge, issued, kept>>
  BY DEF Issue
<1>3. epoch' = epoch + 1 /\ tally' = [answers |-> 0, logins |-> 0]
  BY DEF Issue
<1>4. file.previous \in [Origin -> {None} \cup SUBSET Key] /\ file.credentials \in SUBSET Key
      /\ file.origin \in Origin /\ file.generation \in Nat /\ CodeAttempts \in 0..CodeAttempts
  BY BoundAssumption DEF Inv, Typed
<1>5. saved \in [Origin -> {None} \cup SUBSET Key] /\ keys \in SUBSET Key
  BY <1>4
<1> HIDE DEF saved, keys
<1>6. Typed'
  BY <1>1, <1>2, <1>3, <1>4, <1>5 DEF Inv, Typed
<1>7. Stamped'
  BY <1>1, <1>2, <1>3 DEF Inv, Stamped
<1>8. Spent'
  BY <1>1, <1>3, <1>4, BoundAssumption DEF Spent, CodeWorksOnce
<1>9. PasskeysSurvive'
  <2> SUFFICES ASSUME NEW q \in Origin, NEW k \in Key, <<q, k>> \in kept
               PROVE  IF q = o THEN k \in keys
                      ELSE file'.previous[q] # None /\ k \in file'.previous[q]
    BY <1>1, <1>2 DEF PasskeysSurvive
  <2>1. IF q = file.origin THEN k \in file.credentials
        ELSE file.previous[q] # None /\ k \in file.previous[q]
    BY DEF Inv, PasskeysSurvive
  <2>2. CASE q = o
    BY <2>1, <2>2 DEF keys
  <2>3. CASE q # o
    BY <1>1, <1>4, <2>1, <2>3, NoneAssumption DEF saved
  <2> QED BY <2>2, <2>3
<1> QED BY <1>6, <1>7, <1>8, <1>9 DEF Inv

\* Steps that change the code and its tally alone.
LEMMA CodeStep ==
  ASSUME Inv, NEW code \in {None} \cup 0..CodeAttempts, file' = [file EXCEPT !.code = code],
         tally' \in [answers: Nat, logins: Nat], Spent',
         session' \in [Token -> {None} \cup Session], challenge' \in [Token -> Kinds],
         issued' \subseteq Token, UNCHANGED <<epoch, kept>>,
         \A t \in Token : session'[t] # None =>
           session'[t] = session[t] \/ session'[t].born = session'[t].generation
  PROVE  Inv'
<1>1. /\ file' \in [origin : Origin, generation : Nat, credentials : SUBSET Key,
                    code : {None} \cup 0..CodeAttempts,
                    previous : [Origin -> {None} \cup SUBSET Key]]
      /\ file'.origin = file.origin /\ file'.generation = file.generation
      /\ file'.credentials = file.credentials /\ file'.previous = file.previous
  BY DEF Inv, Typed
<1>2. Typed'
  BY <1>1 DEF Inv, Typed
<1>3. Stamped'
  BY <1>1 DEF Inv, Stamped
<1>4. PasskeysSurvive'
  BY <1>1 DEF Inv, PasskeysSurvive
<1> QED BY <1>2, <1>3, <1>4 DEF Inv

\* A session that LoginRight or AuthenticationComplete replaces.
LEMMA ReplacedStamps ==
  ASSUME Typed, Stamped, NEW p \in Process, NEW old \in Token, NEW t \in Token,
         Replace(p, old, t)
  PROVE  \A u \in Token : session'[u] # None =>
           session'[u] = session[u] \/ session'[u].born = session'[u].generation
<1> SUFFICES ASSUME NEW u \in Token, session'[u] # None
             PROVE  session'[u] = session[u] \/ session'[u].born = session'[u].generation
  OBVIOUS
<1>1. CASE u = t
  <2>1. New(p, TRUE).born = New(p, TRUE).generation
    BY NewType
  <2> QED BY <1>1, <2>1, ReplaceType
<1>2. CASE u # t
  BY <1>2, ReplaceType
<1> QED BY <1>1, <1>2

LEMMA LoginWrongInv ==
  ASSUME Inv, NEW p \in Process, NEW t \in Token, LoginWrong(p, t)
  PROVE  Inv'
<1> DEFINE code == IF file.code > 0 THEN file.code - 1 ELSE 0
<1>1. file.code \in 1..CodeAttempts
  BY NoneAssumption, BoundAssumption DEF LoginWrong, Usable, Inv, Typed
<1>2. code \in {None} \cup 0..CodeAttempts /\ code = file.code - 1
  BY <1>1, BoundAssumption
<1>3. file' = [file EXCEPT !.code = code]
  BY DEF LoginWrong
<1>4. tally' = [tally EXCEPT !.answers = tally.answers + 1]
  BY DEF LoginWrong
<1>5. tally \in [answers: Nat, logins: Nat]
  BY DEF Inv, Typed
<1>6. tally' \in [answers: Nat, logins: Nat]
      /\ tally'.answers = tally.answers + 1 /\ tally'.logins = tally.logins
  BY <1>4, <1>5
<1>7. file'.code = code
  BY <1>3 DEF Inv, Typed
<1> HIDE DEF code
<1>8. file.code # None /\ code # None
  BY <1>1, <1>2, NoneAssumption, BoundAssumption
<1>9. tally.logins = 0 /\ tally.answers + file.code <= CodeAttempts
  BY <1>8 DEF Inv, Spent
<1>10. Spent'
  BY <1>1, <1>2, <1>5, <1>6, <1>7, <1>9, BoundAssumption DEF Spent, CodeWorksOnce
<1>11. UNCHANGED <<session, challenge, issued, epoch, kept>>
  BY DEF LoginWrong
<1>12. /\ session' \in [Token -> {None} \cup Session] /\ challenge' \in [Token -> Kinds]
       /\ issued' \subseteq Token
  BY <1>11 DEF Inv, Typed
<1> QED BY <1>2, <1>3, <1>6, <1>10, <1>11, <1>12, CodeStep

LEMMA LoginRightInv ==
  ASSUME Inv, NEW p \in Process, NEW t \in Token, NEW new \in Token, LoginRight(p, t, new)
  PROVE  Inv'
<1>1. file.code \in 1..CodeAttempts /\ file.code # None
  BY NoneAssumption, BoundAssumption DEF LoginRight, Usable, Inv, Typed
<1>2. file' = [file EXCEPT !.code = None] /\ file'.code = None
  BY DEF LoginRight, Inv, Typed
<1>3. tally' = [answers |-> tally.answers + 1, logins |-> tally.logins + 1]
  BY DEF LoginRight
<1>4. tally.answers \in Nat /\ tally.logins = 0 /\ tally.answers + file.code <= CodeAttempts
  BY <1>1 DEF Inv, Typed, Spent
<1>5. Spent'
  BY <1>1, <1>2, <1>3, <1>4, BoundAssumption DEF Spent, CodeWorksOnce
<1>6. tally' \in [answers: Nat, logins: Nat]
  BY <1>3, <1>4
<1>7. Replace(p, t, new) /\ UNCHANGED <<epoch, kept>> /\ Typed /\ Stamped
  BY DEF LoginRight, Inv
<1>8. /\ session' \in [Token -> {None} \cup Session] /\ challenge' \in [Token -> Kinds]
      /\ issued' \subseteq Token
  BY <1>7, ReplaceType
<1>9. \A u \in Token : session'[u] # None =>
        session'[u] = session[u] \/ session'[u].born = session'[u].generation
  BY <1>7, ReplacedStamps
<1> QED BY <1>2, <1>5, <1>6, <1>7, <1>8, <1>9, CodeStep

LEMMA CodeExpiresInv ==
  ASSUME Inv, CodeExpires
  PROVE  Inv'
<1>1. file' = [file EXCEPT !.code = 0] /\ file'.code = 0 /\ file.code # None
  BY DEF CodeExpires, Inv, Typed
<1>2. UNCHANGED <<session, challenge, issued, epoch, tally, kept>>
  BY DEF CodeExpires
<1>3. 0 \in {None} \cup 0..CodeAttempts
  BY BoundAssumption
<1>4. file.code \in Nat
  BY <1>1, BoundAssumption DEF Inv, Typed
<1>5. Spent'
  BY <1>1, <1>2, <1>4, BoundAssumption DEF Inv, Typed, Spent, CodeWorksOnce
<1>6. /\ session' \in [Token -> {None} \cup Session] /\ challenge' \in [Token -> Kinds]
      /\ issued' \subseteq Token /\ tally' \in [answers: Nat, logins: Nat]
  BY <1>2 DEF Inv, Typed
<1> QED BY <1>1, <1>2, <1>3, <1>5, <1>6, CodeStep

LEMMA NewSessionInv ==
  ASSUME Inv, NEW p \in Process, NEW t \in Token, NewSession(p, t)
  PROVE  Inv'
<1>1. Typed /\ Stamped /\ UNCHANGED <<file, epoch, tally, kept>>
  BY DEF NewSession, Inv
<1>2. /\ session' \in [Token -> {None} \cup Session] /\ challenge' \in [Token -> Kinds]
      /\ issued' \subseteq Token
  BY <1>1, NewSessionType
<1>3. ASSUME NEW u \in Token, session'[u] # None
      PROVE  session'[u] = session[u] \/ session'[u].born = session'[u].generation
  <2>1. CASE u = t
    <3>1. New(p, FALSE).born = New(p, FALSE).generation
      BY <1>1, NewType
    <3> QED BY <1>1, <2>1, <3>1, NewSessionType
  <2>2. CASE u # t
    BY <1>1, <1>3, <2>2, NewSessionType
  <2> QED BY <2>1, <2>2
<1> QED BY <1>1, <1>2, <1>3, SessionStep

LEMMA AuthenticationCompleteInv ==
  ASSUME Inv, NEW p \in Process, NEW t \in Token, NEW k \in Key, NEW new \in Token,
         AuthenticationComplete(p, t, k, new)
  PROVE  Inv'
<1>1. Typed /\ Stamped /\ Replace(p, t, new) /\ UNCHANGED <<file, epoch, tally, kept>>
  BY DEF AuthenticationComplete, Inv
<1>2. /\ session' \in [Token -> {None} \cup Session] /\ challenge' \in [Token -> Kinds]
      /\ issued' \subseteq Token
  BY <1>1, ReplaceType
<1>3. \A u \in Token : session'[u] # None =>
        session'[u] = session[u] \/ session'[u].born = session'[u].generation
  BY <1>1, ReplacedStamps
<1> QED BY <1>1, <1>2, <1>3, SessionStep

\* The steps that forget sessions or challenges.
LEMMA ForgettingInv ==
  ASSUME Inv,
         \/ \E t \in Token : Logout(t) \/ Expire(t)
         \/ \E p \in Process : Restart(p)
         \/ \E p \in Process, t \in Token :
              Rejected(p, t) \/ (\E kind \in Kinds : Begin(p, t, kind))
  PROVE  Inv'
<1>1. CASE \E t \in Token : Logout(t)
  <2>1. PICK t \in Token : Logout(t)
    BY <1>1
  <2> QED BY <2>1, SessionStep DEF Logout, Inv, Typed, Kinds
<1>2. CASE \E t \in Token : Expire(t)
  <2>1. PICK t \in Token : Expire(t)
    BY <1>2
  <2>2. CASE session' = [session EXCEPT ![t].fresh = FALSE] /\ UNCHANGED challenge
    <3>1. session[t] \in Session
      BY <2>1 DEF Expire, Inv, Typed
    <3>2. /\ [session[t] EXCEPT !.fresh = FALSE] \in Session
          /\ [session[t] EXCEPT !.fresh = FALSE].born = session[t].born
          /\ [session[t] EXCEPT !.fresh = FALSE].generation = session[t].generation
      BY <3>1 DEF Session
    <3>3. session[t].born = session[t].generation
      BY <2>1 DEF Expire, Inv, Stamped
    <3>4. session' = [session EXCEPT ![t] = [session[t] EXCEPT !.fresh = FALSE]]
      BY <2>2
    <3>5. session' \in [Token -> {None} \cup Session]
      BY <3>2, <3>4 DEF Inv, Typed
    <3>6. \A u \in Token : session'[u] = session[u] \/ session'[u].born = session'[u].generation
      BY <3>2, <3>3, <3>4 DEF Inv, Typed
    <3>7. /\ UNCHANGED <<file, epoch, tally, kept>> /\ challenge' \in [Token -> Kinds]
          /\ issued' \subseteq Token
      BY <2>1, <2>2 DEF Expire, Inv, Typed
    <3> QED BY <3>5, <3>6, <3>7, SessionStep
  <2>3. CASE /\ session' = [session EXCEPT ![t] = None]
             /\ challenge' = [challenge EXCEPT ![t] = "none"]
    BY <2>1, <2>3, SessionStep DEF Expire, Inv, Typed, Kinds
  <2> QED BY <2>1, <2>2, <2>3 DEF Expire
<1>3. CASE \E p \in Process : Restart(p)
  BY <1>3, SessionStep DEF Restart, Inv, Typed, Kinds
<1>4. CASE \E p \in Process, t \in Token :
             Rejected(p, t) \/ (\E kind \in Kinds : Begin(p, t, kind))
  BY <1>4, SessionStep DEF Rejected, Begin, Inv, Typed, Kinds
<1> QED BY <1>1, <1>2, <1>3, <1>4

LEMMA RegistrationCompleteInv ==
  ASSUME Inv, NEW p \in Process, NEW t \in Token, NEW k \in Key,
         RegistrationComplete(p, t, k)
  PROVE  Inv'
<1>1. file' = [file EXCEPT !.credentials = file.credentials \cup {k}]
      /\ kept' = kept \cup {<<file.origin, k>>}
      /\ challenge' = [challenge EXCEPT ![t] = "none"]
      /\ UNCHANGED <<session, issued, epoch, tally>>
  BY DEF RegistrationComplete
<1>2. /\ file' \in [origin : Origin, generation : Nat, credentials : SUBSET Key,
                    code : {None} \cup 0..CodeAttempts,
                    previous : [Origin -> {None} \cup SUBSET Key]]
      /\ file'.origin = file.origin /\ file'.generation = file.generation
      /\ file'.credentials = file.credentials \cup {k}
      /\ file'.previous = file.previous /\ file'.code = file.code
  BY <1>1 DEF Inv, Typed
<1>3. Typed'
  BY <1>1, <1>2 DEF Inv, Typed, Kinds
<1>4. Stamped' /\ Spent'
  BY <1>1, <1>2 DEF Inv, Stamped, Spent, CodeWorksOnce
<1>5. PasskeysSurvive'
  BY <1>1, <1>2 DEF Inv, PasskeysSurvive
<1> QED BY <1>3, <1>4, <1>5 DEF Inv

LEMMA DeleteCredentialInv ==
  ASSUME Inv, NEW p \in Process, NEW t \in Token, NEW k \in Key, DeleteCredential(p, t, k)
  PROVE  Inv'
<1>1. file' = [file EXCEPT !.credentials = file.credentials \ {k},
                           !.generation = file.generation + 1, !.code = None]
      /\ epoch' = epoch + 1 /\ kept' = kept \ {<<file.origin, k>>}
      /\ UNCHANGED <<issued, tally>>
  BY DEF DeleteCredential
<1>2. /\ file' \in [origin : Origin, generation : Nat, credentials : SUBSET Key,
                    code : {None} \cup 0..CodeAttempts,
                    previous : [Origin -> {None} \cup SUBSET Key]]
      /\ file'.origin = file.origin /\ file'.generation = file.generation + 1
      /\ file'.credentials = file.credentials \ {k}
      /\ file'.previous = file.previous /\ file'.code = None
  <2> DEFINE keys == file.credentials \ {k}
             number == file.generation + 1
  <2>1. /\ file \in [origin : Origin, generation : Nat, credentials : SUBSET Key,
                     code : {None} \cup 0..CodeAttempts,
                     previous : [Origin -> {None} \cup SUBSET Key]]
        /\ keys \in SUBSET Key /\ number \in Nat
    BY DEF Inv, Typed
  <2>2. file' = [file EXCEPT !.credentials = keys, !.generation = number, !.code = None]
    BY <1>1
  <2> HIDE DEF keys, number
  <2>3. /\ file' \in [origin : Origin, generation : Nat, credentials : SUBSET Key,
                      code : {None} \cup 0..CodeAttempts,
                      previous : [Origin -> {None} \cup SUBSET Key]]
        /\ file'.origin = file.origin /\ file'.generation = number
        /\ file'.credentials = keys
        /\ file'.previous = file.previous /\ file'.code = None
    BY <2>1, <2>2
  <2> QED BY <2>3 DEF keys, number
<1>3. /\ session' \in [Token -> {None} \cup Session] /\ challenge' \in [Token -> Kinds]
      /\ \A u \in Token : session'[u] \in {None, session[u]}
  BY DEF DeleteCredential, Inv, Typed, Kinds
<1>4. Typed'
  BY <1>1, <1>2, <1>3 DEF Inv, Typed
<1>5. Stamped'
  BY <1>1, <1>2, <1>3 DEF Inv, Stamped
<1>6. Spent'
  BY <1>1, <1>2 DEF Inv, Spent, CodeWorksOnce
<1>7. PasskeysSurvive'
  BY <1>1, <1>2 DEF Inv, PasskeysSurvive
<1> QED BY <1>4, <1>5, <1>6, <1>7 DEF Inv

LEMMA NextInv == Inv /\ [Next]_vars => Inv'
<1> SUFFICES ASSUME Inv, [Next]_vars PROVE Inv' OBVIOUS
<1>1. CASE \E o \in Origin : Issue(o)
  BY <1>1, IssueInv
<1>2. CASE CodeExpires
  BY <1>2, CodeExpiresInv
<1>3. CASE \/ \E t \in Token : Logout(t) \/ Expire(t)
           \/ \E p \in Process : Restart(p)
           \/ \E p \in Process, t \in Token :
                Rejected(p, t) \/ (\E kind \in Kinds : Begin(p, t, kind))
  BY <1>3, ForgettingInv
<1>4. CASE \E p \in Process, t \in Token : NewSession(p, t) \/ LoginWrong(p, t)
  BY <1>4, NewSessionInv, LoginWrongInv
<1>5. CASE \E p \in Process, t \in Token, k \in Key :
             RegistrationComplete(p, t, k) \/ DeleteCredential(p, t, k)
  BY <1>5, RegistrationCompleteInv, DeleteCredentialInv
<1>6. CASE \E p \in Process, t \in Token :
             \/ \E new \in Unused : LoginRight(p, t, new)
             \/ \E k \in Key, new \in Unused : AuthenticationComplete(p, t, k, new)
  <2>1. \A new \in Unused : new \in Token
    BY UnusedIsToken DEF Inv
  <2> QED BY <1>6, <2>1, LoginRightInv, AuthenticationCompleteInv
<1>7. CASE UNCHANGED vars
  BY <1>7 DEF vars, Inv, Typed, Stamped, Spent, CodeWorksOnce, PasskeysSurvive
<1> QED BY <1>1, <1>2, <1>3, <1>4, <1>5, <1>6, <1>7 DEF Next

-----------------------------------------------------------------------------
(* The numbers of passkeys and of sessions. *)

\* Sets of tokens and of keys have a number of elements.
LEMMA Finite ==
  /\ \A S \in SUBSET Token : IsFiniteSet(S) /\ Cardinality(S) \in Nat
  /\ \A S \in SUBSET Key : IsFiniteSet(S) /\ Cardinality(S) \in Nat
  /\ \A S \in SUBSET Token : \A X \in SUBSET S : Cardinality(X) <= Cardinality(S)
  /\ \A S \in SUBSET Key : \A X \in SUBSET S : Cardinality(X) <= Cardinality(S)
<1>1. \A S \in SUBSET Token : IsFiniteSet(S) /\ Cardinality(S) \in Nat
  BY FiniteAssumption, FS_Subset, FS_CardinalityType
<1>2. \A S \in SUBSET Key : IsFiniteSet(S) /\ Cardinality(S) \in Nat
  BY FiniteAssumption, FS_Subset, FS_CardinalityType
<1>3. \A S \in SUBSET Token : \A X \in SUBSET S : Cardinality(X) <= Cardinality(S)
  BY <1>1, FS_Subset
<1>4. \A S \in SUBSET Key : \A X \in SUBSET S : Cardinality(X) <= Cardinality(S)
  BY <1>2, FS_Subset
<1> QED BY <1>1, <1>2, <1>3, <1>4

\* Steps that make no session and add no passkey.
LEMMA LimitsShrink ==
  ASSUME Typed, Limited, file'.credentials \subseteq file.credentials,
         UNCHANGED file.previous,
         \A u \in Token : session'[u] # None => session[u] # None /\ session'[u].at = session[u].at
  PROVE  Limited'
<1>1. Cardinality(file'.credentials) <= MaxCredentials
  <2>1. file.credentials \in SUBSET Key
    BY DEF Typed
  <2>2. Cardinality(file'.credentials) <= Cardinality(file.credentials)
    BY <2>1, Finite
  <2>3. Cardinality(file'.credentials) \in Nat /\ Cardinality(file.credentials) \in Nat
    BY <2>1, Finite
  <2> QED BY <2>2, <2>3, BoundAssumption DEF Limited
<1>2. ASSUME NEW p \in Process PROVE Cardinality(Held(p)') <= MaxSessions
  <2>1. Held(p) \in SUBSET Token /\ Held(p)' \in SUBSET Held(p)
    BY DEF Held
  <2>2. Cardinality(Held(p)') <= Cardinality(Held(p))
    BY <2>1, Finite
  <2>3. Cardinality(Held(p)') \in Nat /\ Cardinality(Held(p)) \in Nat
    BY <2>1, Finite
  <2> QED BY <2>2, <2>3, BoundAssumption DEF Limited
<1> QED BY <1>1, <1>2 DEF Limited

\* Steps that make a session of p, where fewer than MAX_SESSIONS others are left.
LEMMA LimitsGrow ==
  ASSUME Typed, Limited, UNCHANGED <<file.credentials, file.previous>>,
         NEW p \in Process, NEW t \in Token, NEW S \in SUBSET Token,
         Cardinality(S) < MaxSessions, session'[t].at = p,
         \A u \in Token \ {t} : session'[u] \in {None, session[u]},
         \A u \in Token \ {t} : session'[u] # None /\ session'[u].at = p => u \in S
  PROVE  Limited'
<1>1. Cardinality(file'.credentials) <= MaxCredentials
  BY DEF Limited
<1>2. ASSUME NEW q \in Process PROVE Cardinality(Held(q)') <= MaxSessions
  <2>1. CASE q = p
    <3>1. Held(q)' \in SUBSET (S \cup {t}) /\ S \cup {t} \in SUBSET Token
      BY <2>1 DEF Held
    <3>2. Cardinality(Held(q)') <= Cardinality(S \cup {t})
      BY <3>1, Finite
    <3>3. Cardinality(S \cup {t}) <= Cardinality(S) + 1
      BY Finite, FS_AddElement
    <3>4. /\ Cardinality(S) \in Nat /\ Cardinality(S \cup {t}) \in Nat
          /\ Cardinality(Held(q)') \in Nat
      BY <3>1, Finite
    <3> QED BY <3>2, <3>3, <3>4, BoundAssumption
  <2>2. CASE q # p
    <3>1. Held(q) \in SUBSET Token /\ Held(q)' \in SUBSET Held(q)
      BY <2>2 DEF Held
    <3>2. Cardinality(Held(q)') <= Cardinality(Held(q))
      BY <3>1, Finite
    <3>3. Cardinality(Held(q)') \in Nat /\ Cardinality(Held(q)) \in Nat
      BY <3>1, Finite
    <3> QED BY <3>2, <3>3, BoundAssumption DEF Limited
  <2> QED BY <2>1, <2>2
<1> QED BY <1>1, <1>2 DEF Limited

LEMMA ReplaceLimits ==
  ASSUME Typed, Stamped, Limited, UNCHANGED <<file.credentials, file.previous>>,
         NEW p \in Process, NEW old \in Token, NEW t \in Token, Replace(p, old, t)
  PROVE  Limited'
<1> DEFINE S == Live(p) \ {old}
<1>1. session' = [Pruned(p, Token) EXCEPT ![old] = None, ![t] = New(p, TRUE)]
  BY DEF Replace
<1>2. \A u \in Token \ {t} : session'[u] = IF u = old THEN None ELSE Pruned(p, Token)[u]
  BY <1>1, PruneType
<1>3. \A u \in Token \ {t} : session'[u] \in {None, session[u]}
  BY ReplaceType
<1>4. \A u \in Token \ {t} : session'[u] # None /\ session'[u].at = p => u \in S
  BY <1>2, <1>3, PruneType
<1>5. S \in SUBSET Token /\ Cardinality(S) < MaxSessions
  BY DEF Replace, Live
<1>6. session'[t].at = p
  <2>1. New(p, TRUE).at = p
    BY NewType
  <2> QED BY <2>1, ReplaceType
<1> HIDE DEF S
<1> QED BY <1>3, <1>4, <1>5, <1>6, LimitsGrow

LEMMA NewSessionLimits ==
  ASSUME Typed, Stamped, Limited, NEW p \in Process, NEW t \in Token, NewSession(p, t)
  PROVE  Limited'
<1> DEFINE S == Live(p)
<1>1. session' = [Pruned(p, Token) EXCEPT ![t] = New(p, FALSE)]
  BY DEF NewSession
<1>2. \A u \in Token \ {t} : session'[u] = Pruned(p, Token)[u]
  BY <1>1, PruneType
<1>3. \A u \in Token \ {t} : session'[u] \in {None, session[u]}
  BY NewSessionType
<1>4. \A u \in Token \ {t} : session'[u] # None /\ session'[u].at = p => u \in S
  BY <1>2, <1>3, PruneType
<1>5. S \in SUBSET Token /\ Cardinality(S) < MaxSessions
  BY DEF NewSession, Live
<1>6. session'[t].at = p
  <2>1. New(p, FALSE).at = p
    BY NewType
  <2> QED BY <2>1, NewSessionType
<1>7. UNCHANGED <<file.credentials, file.previous>>
  BY DEF NewSession
<1> HIDE DEF S
<1> QED BY <1>3, <1>4, <1>5, <1>6, <1>7, LimitsGrow

LEMMA RegistrationLimits ==
  ASSUME Typed, Limited, NEW p \in Process, NEW t \in Token, NEW k \in Key,
         RegistrationComplete(p, t, k)
  PROVE  Limited'
<1>1. file'.credentials = file.credentials \cup {k} /\ k \notin file.credentials
      /\ file'.previous = file.previous
      /\ Cardinality(file.credentials) < MaxCredentials /\ session' = session
  BY DEF RegistrationComplete, MayAdd, Typed
<1>2. file.credentials \in SUBSET Key
  BY DEF Typed
<1>3. Cardinality(file'.credentials) = Cardinality(file.credentials) + 1
  BY <1>1, <1>2, Finite, FS_AddElement
<1>4. Cardinality(file'.credentials) <= MaxCredentials
  BY <1>1, <1>2, <1>3, Finite, BoundAssumption
<1>5. \A q \in Process : Held(q)' = Held(q)
  BY <1>1 DEF Held
<1> QED BY <1>1, <1>4, <1>5 DEF Limited

LEMMA IssueLimits ==
  ASSUME Typed, Limited, NEW o \in Origin, Issue(o)
  PROVE  Limited'
<1> DEFINE saved == [file.previous EXCEPT ![file.origin] = file.credentials, ![o] = None]
           keys == IF o = file.origin THEN file.credentials
                   ELSE IF file.previous[o] = None THEN {} ELSE file.previous[o]
<1>1. file'.credentials = keys /\ session' = session
      /\ file'.previous = IF o # file.origin THEN saved ELSE file.previous
  BY DEF Issue
<1>2. Cardinality(keys) <= MaxCredentials
  BY FS_EmptySet, BoundAssumption DEF Limited
<1>3. ASSUME NEW q \in Origin, saved[q] # None
      PROVE  Cardinality(saved[q]) <= MaxCredentials
  <2>1. saved[q] = IF q = o THEN None
                   ELSE IF q = file.origin THEN file.credentials ELSE file.previous[q]
    BY DEF Typed
  <2> HIDE DEF saved
  <2> QED BY <1>3, <2>1 DEF Limited
<1>4. \A q \in Process : Held(q)' = Held(q)
  BY <1>1 DEF Held
<1> HIDE DEF saved, keys
<1>5. \A q \in Origin : file'.previous[q] # None =>
        Cardinality(file'.previous[q]) <= MaxCredentials
  BY <1>1, <1>3 DEF Limited
<1> QED BY <1>1, <1>2, <1>4, <1>5 DEF Limited

\* A session without an owner waits for nothing.
LEMMA NextLimits ==
  ASSUME Inv, Limited, Quiet, [Next]_vars
  PROVE  Limited' /\ Quiet'
<1>0. Typed /\ Stamped
  BY DEF Inv
<1>1. CASE \E o \in Origin : Issue(o)
  BY <1>0, <1>1, IssueLimits DEF Issue, Quiet
<1>2. CASE \/ \E t \in Token : Logout(t) \/ Expire(t)
           \/ \E p \in Process : Restart(p)
  <2>1. /\ \A u \in Token : session'[u] # None =>
             session[u] # None /\ session'[u].at = session[u].at
        /\ UNCHANGED file
    <3>1. CASE \E t \in Token : Expire(t)
      <4>1. PICK t \in Token : Expire(t)
        BY <3>1
      <4>2. session[t] \in Session
        BY <1>0, <4>1 DEF Expire, Typed
      <4>3. [session[t] EXCEPT !.fresh = FALSE].at = session[t].at
        BY <4>2 DEF Session
      <4>4. \/ session' = [session EXCEPT ![t] = [session[t] EXCEPT !.fresh = FALSE]]
            \/ session' = [session EXCEPT ![t] = None]
        BY <4>1 DEF Expire
      <4>5. session[t] # None /\ UNCHANGED file
        BY <4>1 DEF Expire
      <4> QED BY <1>0, <4>3, <4>4, <4>5 DEF Typed
    <3> QED BY <1>0, <1>2, <3>1 DEF Logout, Restart, Typed
  <2>2. Quiet'
    <3>1. CASE \E t \in Token : Expire(t)
      <4>1. PICK t \in Token : Expire(t)
        BY <3>1
      <4>2. CASE session' = [session EXCEPT ![t].fresh = FALSE] /\ UNCHANGED challenge
        <5>1. session[t] \in Session
          BY <1>0, <4>1 DEF Expire, Typed
        <5>2. [session[t] EXCEPT !.fresh = FALSE] # None
          BY <5>1, NoneAssumption DEF Session
        <5>3. session' = [session EXCEPT ![t] = [session[t] EXCEPT !.fresh = FALSE]]
          BY <4>2
        <5> QED BY <1>0, <4>2, <5>2, <5>3 DEF Typed, Quiet
      <4>3. CASE /\ session' = [session EXCEPT ![t] = None]
                 /\ challenge' = [challenge EXCEPT ![t] = "none"]
        BY <1>0, <4>3 DEF Typed, Quiet
      <4> QED BY <4>1, <4>2, <4>3 DEF Expire
    <3> QED BY <1>0, <1>2, <3>1 DEF Logout, Restart, Typed, Quiet
  <2> QED BY <1>0, <2>1, <2>2, LimitsShrink
<1>3. CASE CodeExpires \/ \E p \in Process, t \in Token : LoginWrong(p, t)
  <2>1. /\ file'.credentials = file.credentials /\ file'.previous = file.previous
        /\ UNCHANGED <<session, challenge>>
    BY <1>0, <1>3 DEF CodeExpires, LoginWrong, Typed
  <2> QED BY <1>0, <2>1, LimitsShrink DEF Quiet
<1>4. CASE \E p \in Process, t \in Token :
             Rejected(p, t) \/ (\E kind \in Kinds : Begin(p, t, kind))
  <2>1. UNCHANGED <<file, session>>
    BY <1>4 DEF Rejected, Begin
  <2>2. Quiet'
    BY <1>0, <1>4 DEF Rejected, Begin, Typed, Quiet, Live
  <2> QED BY <1>0, <2>1, <2>2, LimitsShrink
<1>5. CASE \E p \in Process, t \in Token : NewSession(p, t)
  <2>1. Limited'
    BY <1>0, <1>5, NewSessionLimits
  <2>2. Quiet'
    BY <1>5 DEF NewSession, Quiet
  <2> QED BY <2>1, <2>2
<1>6. CASE \E p \in Process, t \in Token :
             \/ \E new \in Unused : LoginRight(p, t, new)
             \/ \E k \in Key, new \in Unused : AuthenticationComplete(p, t, k, new)
  <2>1. PICK p \in Process, t \in Token, new \in Unused :
          LoginRight(p, t, new) \/ \E k \in Key : AuthenticationComplete(p, t, k, new)
    BY <1>6
  <2>2. new \in Token
    BY <1>0, UnusedIsToken
  <2>3. /\ Replace(p, t, new)
        /\ file'.credentials = file.credentials /\ file'.previous = file.previous
    BY <1>0, <2>1 DEF LoginRight, AuthenticationComplete, Typed
  <2>4. Limited'
    BY <1>0, <2>2, <2>3, ReplaceLimits
  <2>5. Quiet'
    BY <2>3 DEF Replace, Quiet
  <2> QED BY <2>4, <2>5
<1>7. CASE \E p \in Process, t \in Token, k \in Key : RegistrationComplete(p, t, k)
  BY <1>0, <1>7, RegistrationLimits DEF RegistrationComplete, Typed, Quiet
<1>8. CASE \E p \in Process, t \in Token, k \in Key : DeleteCredential(p, t, k)
  <2>1. /\ file'.credentials \subseteq file.credentials /\ file'.previous = file.previous
        /\ \A u \in Token : session'[u] \in {None, session[u]}
    BY <1>0, <1>8 DEF DeleteCredential, Typed
  <2>2. Quiet'
    BY <1>8 DEF DeleteCredential, Quiet
  <2> QED BY <1>0, <2>1, <2>2, LimitsShrink
<1>9. CASE UNCHANGED vars
  BY <1>9 DEF vars, Limited, Held, Quiet
<1> QED BY <1>1, <1>2, <1>3, <1>4, <1>5, <1>6, <1>7, <1>8, <1>9 DEF Next

LEMMA InitLimits == Init => Limited /\ Quiet
<1> SUFFICES ASSUME Init PROVE Limited /\ Quiet OBVIOUS
<1>1. file.credentials = {} /\ \A o \in Origin : file.previous[o] = None
  BY DEF Init
<1>2. \A p \in Process : Held(p) = {}
  BY DEF Init, Held
<1> QED BY <1>1, <1>2, FS_EmptySet, BoundAssumption DEF Init, Limited, Quiet

-----------------------------------------------------------------------------
(* Theorems *)

LEMMA InvHolds == Spec => []Inv
BY InitInv, NextInv, PTL DEF Spec

\* The store's contents are of their types: no process keeps more than MAX_SESSIONS, and no
\* address more than MAX_CREDENTIALS, whichever of them was moved away and came back.
THEOREM StoreIsTyped == Spec => []TypeOK
<1>1. Inv /\ Limited /\ Quiet => TypeOK
  BY DEF Inv, Typed, Limited, Quiet, Held, TypeOK
<1> QED BY <1>1, InitInv, InitLimits, NextInv, NextLimits, PTL DEF Spec

\* A code lets one browser in and answers CODE_ATTEMPTS guesses, whatever the processes
\* and restarts (login_code).
THEOREM CodesWorkOnce == Spec => []CodeWorksOnce
<1>1. Inv => CodeWorksOnce
  BY DEF Inv, Spent
<1> QED BY <1>1, InvHolds, PTL

\* No process accepts a session that was made before the last revocation by any of them
\* (_prune compares its generation with the file's).
THEOREM RevocationIsEverywhere == Spec => []RevokedEverywhere
<1>1. Inv => RevokedEverywhere
  BY DEF Inv, Stamped, RevokedEverywhere, Accepted, Live
<1> QED BY <1>1, InvHolds, PTL

\* A passkey that was not deleted is in the file, at its own address or among the ones
\* that are remembered (issue_code, registration_complete).
THEOREM NoPasskeyIsLost == Spec => []PasskeysSurvive
<1>1. Inv => PasskeysSurvive
  BY DEF Inv
<1> QED BY <1>1, InvHolds, PTL

\* The three together, for any number of processes, addresses, sessions and passkeys.
THEOREM LoginsStaySafe == Spec => []LoginsAreSafe
BY CodesWorkOnce, RevocationIsEverywhere, NoPasskeyIsLost, PTL DEF LoginsAreSafe

-----------------------------------------------------------------------------
(* The event stream *)

\* queue.Queue(0) would have no limit; None stands for no watcher.
Bounds ==
  /\ QueueSize \in Nat \ {0} /\ MaxWatchers \in Nat
  /\ MaxEvents \in Nat /\ MaxOpens \in Nat /\ None \notin Watcher

\* A publisher has an event in its hands as long as subscribers are left, and
\* all of them are subscribed still; one of them is the full queue it makes room in.
PublisherFits(p) ==
  /\ pub[p].left \subseteq queues
  /\ pub[p].step = "idle" <=> pub[p].left = {}
  /\ pub[p].step \in {"get", "again"} => pub[p].full \in pub[p].left
  /\ pub[p].step # "idle" => pub[p].number \in 1..version

\* Before a watcher that reloads is subscribed it has seen all it was ever owed.
WatcherFits(w) ==
  /\ w \in queues <=> watch[w] = "get"
  /\ owed[w] <= version
  /\ w \in Reloading /\ watch[w] = "subscribe" => seen[w] >= owed[w]

\* Every slot is held, by finitely many requests.
OpenRequests == {w \in Watcher : watch[w] # "closed"}
SlotInv == IsFiniteSet(OpenRequests) /\ SlotsReturned

Noticed(w) ==
  w \in Reloading /\ watch[w] = "get" => seen[w] >= owed[w] \/ OnItsWay(w)

StreamInv ==
  /\ \A p \in Publisher : PublisherFits(p)
  /\ \A w \in Watcher : WatcherFits(w) /\ Noticed(w)

\* Events of one thread lie in a queue in the order it published them, after what
\* was taken already and before what the thread is publishing.
Ordered(w, p) ==
  /\ \A i, j \in DOMAIN queue[w] :
       i <= j /\ queue[w][i].by = p /\ queue[w][j].by = p
         => queue[w][i].number <= queue[w][j].number
  /\ \A i \in DOMAIN queue[w] :
       queue[w][i].by = p =>
         /\ last[w][p] <= queue[w][i].number /\ queue[w][i].number <= version
         /\ w \in pub[p].left => queue[w][i].number <= pub[p].number
  /\ last[w][p] <= version
  /\ w \in pub[p].left => last[w][p] <= pub[p].number

OrderInv == \A w \in Watcher, p \in Publisher : Ordered(w, p)

-----------------------------------------------------------------------------
(* Lemmas about what a publisher does *)

\* What is left of a publish when one subscriber has been served or is gone.
LEMMA ServedIs ==
  ASSUME E!TypeOK, Bounds, NEW p \in Publisher, PublisherFits(p), NEW w \in pub[p].left
  PROVE  /\ E!Served(p, w) \in E!Publish
         /\ E!Served(p, w).left = pub[p].left \ {w}
         /\ E!Served(p, w).step \in {"idle", "put"}
         /\ E!Served(p, w).step = "idle" <=> pub[p].left \ {w} = {}
         /\ E!Served(p, w).step # "idle" => E!Served(p, w).number = pub[p].number
<1>1. /\ pub[p] \in E!Publish /\ pub[p].left \subseteq Watcher /\ pub[p].number \in E!Version
  BY DEF E!TypeOK, E!Publish
<1>2. CASE pub[p].left = {w}
  BY <1>2, Bounds DEF E!Served, E!Quiet, E!Publish, E!Version, Bounds
<1>3. CASE pub[p].left # {w}
  <2>1. E!Served(p, w) = [step |-> "put", number |-> pub[p].number,
                        left |-> pub[p].left \ {w}, full |-> None]
    BY <1>3 DEF E!Served
  <2>2. pub[p].left \ {w} # {}
    BY <1>3
  <2> QED
    BY <1>1, <2>1, <2>2 DEF E!Publish
<1> QED
  BY <1>2, <1>3

\* The subscriber is served: its queue holds something, or nothing was due to it.
Serves(p, w) ==
  /\ w \in pub[p].left
  /\ pub' = [pub EXCEPT ![p] = E!Served(p, w)]
  /\ \/ E!Room(w) /\ queue' = E!Sent(p, w)
     \/ queue' = queue /\ (queue[w] # <<>> \/ (pub[p].step = "get" /\ pub[p].full = w))

\* It is found full, or its oldest event is dropped.
Tries(p, w) ==
  /\ w \in pub[p].left
  /\ \E step \in {"get", "again"} :
       /\ pub' = [pub EXCEPT ![p] = E!Full(p, w, step)]
       /\ step = "get" => queue' = queue /\ queue[w] # <<>>
       /\ step = "again" => /\ pub[p].step = "get" /\ pub[p].full = w
                            /\ queue[w] # <<>> /\ queue' = [queue EXCEPT ![w] = Tail(@)]

OthersIdle == UNCHANGED <<version, queues, watch, slots, seen, owed, last, opens>>

LEMMA FullIsNotEmpty ==
  ASSUME Bounds, E!TypeOK, NEW w \in Watcher, ~ E!Room(w)
  PROVE  queue[w] # <<>>
  BY DEF Bounds, E!TypeOK, E!Room

LEMMA PublishSteps ==
  ASSUME Bounds, E!TypeOK, StreamInv, NEW p \in Publisher,
         E!Put(p) \/ E!DropOldest(p) \/ E!PutAgain(p)
  PROVE  OthersIdle /\ \E w \in Watcher : Serves(p, w) \/ Tries(p, w)
<1>1. /\ pub[p] \in E!Publish /\ pub[p].left \subseteq Watcher /\ PublisherFits(p)
  BY DEF E!TypeOK, StreamInv, E!Publish
<1>2. CASE E!Put(p)
  <2>1. PICK w \in pub[p].left :
          \/ E!Room(w) /\ queue' = E!Sent(p, w) /\ pub' = [pub EXCEPT ![p] = E!Served(p, w)]
          \/ /\ ~ E!Room(w) /\ pub' = [pub EXCEPT ![p] = E!Full(p, w, "get")]
             /\ UNCHANGED queue
    BY <1>2 DEF E!Put
  <2>2. CASE E!Room(w) /\ queue' = E!Sent(p, w) /\ pub' = [pub EXCEPT ![p] = E!Served(p, w)]
    BY <1>1, <1>2, <2>1, <2>2 DEF E!Put, OthersIdle, Serves
  <2>3. CASE /\ ~ E!Room(w) /\ pub' = [pub EXCEPT ![p] = E!Full(p, w, "get")]
             /\ UNCHANGED queue
    <3>1. queue[w] # <<>>
      BY <1>1, <2>3, FullIsNotEmpty
    <3> QED
      BY <1>1, <1>2, <2>1, <2>3, <3>1 DEF E!Put, OthersIdle, Tries
  <2> QED
    BY <2>1, <2>2, <2>3
<1>3. CASE E!DropOldest(p)
  <2>1. PICK w \in pub[p].left : w = pub[p].full /\ pub[p].step = "get"
    BY <1>1, <1>3 DEF E!DropOldest, PublisherFits
  <2>2. CASE queue[w] = <<>> /\ UNCHANGED queue /\ pub' = [pub EXCEPT ![p] = E!Served(p, w)]
    BY <1>1, <1>3, <2>1, <2>2 DEF E!DropOldest, OthersIdle, Serves
  <2>3. CASE /\ queue[w] # <<>> /\ queue' = [queue EXCEPT ![w] = Tail(@)]
             /\ pub' = [pub EXCEPT ![p] = E!Full(p, w, "again")]
    BY <1>1, <1>3, <2>1, <2>3 DEF E!DropOldest, OthersIdle, Tries
  <2> QED
    BY <1>3, <2>1, <2>2, <2>3 DEF E!DropOldest
<1>4. CASE E!PutAgain(p)
  <2>1. PICK w \in pub[p].left : w = pub[p].full
    BY <1>1, <1>4 DEF E!PutAgain, PublisherFits
  <2>2. E!Room(w) \/ queue[w] # <<>>
    BY <1>1, FullIsNotEmpty
  <2>3. /\ queue' = IF E!Room(w) THEN E!Sent(p, w) ELSE queue
        /\ pub' = [pub EXCEPT ![p] = E!Served(p, w)]
    BY <1>4, <2>1 DEF E!PutAgain
  <2> QED
    BY <1>1, <1>4, <2>1, <2>2, <2>3 DEF E!PutAgain, OthersIdle, Serves
<1> QED
  BY <1>2, <1>3, <1>4

-----------------------------------------------------------------------------
(* Types *)

LEMMA SentIs ==
  ASSUME E!TypeOK, Bounds, StreamInv, NEW p \in Publisher, NEW w \in pub[p].left,
         E!Room(w), queue' = E!Sent(p, w)
  PROVE  /\ [by |-> p, number |-> pub[p].number] \in E!Event /\ w \in Watcher
         /\ queue'[w] = Append(queue[w], [by |-> p, number |-> pub[p].number])
         /\ \A v \in Watcher \ {w} : queue'[v] = queue[v]
         /\ queue' \in [Watcher -> Seq(E!Event)]
         /\ \A v \in Watcher : Len(queue'[v]) <= QueueSize
<1>1. w \in Watcher /\ pub[p].number \in 1..MaxEvents
  BY DEF E!TypeOK, E!Publish, StreamInv, PublisherFits, E!Version
<1>2. [by |-> p, number |-> pub[p].number] \in E!Event
  BY <1>1 DEF E!Event
<1>3. queue'[w] = Append(queue[w], [by |-> p, number |-> pub[p].number])
  BY <1>1 DEF E!Sent, E!TypeOK
<1>4. \A v \in Watcher \ {w} : queue'[v] = queue[v]
  BY DEF E!Sent, E!TypeOK
<1>5. queue[w] \in Seq(E!Event) /\ Len(queue[w]) < QueueSize
  BY <1>1 DEF E!TypeOK, E!Room
<1>6. queue'[w] \in Seq(E!Event) /\ Len(queue'[w]) = Len(queue[w]) + 1
  BY <1>2, <1>3, <1>5
<1>7. queue' \in [Watcher -> Seq(E!Event)]
  BY <1>1, <1>2, <1>5 DEF E!Sent, E!TypeOK
<1>8. ASSUME NEW v \in Watcher PROVE Len(queue'[v]) <= QueueSize
  <2>1. Len(queue[v]) \in Nat /\ Len(queue[v]) <= QueueSize
    BY DEF E!TypeOK
  <2> QED
    BY <1>4, <1>5, <1>6, <2>1 DEF Bounds
<1> QED
  BY <1>1, <1>2, <1>3, <1>4, <1>7, <1>8

LEMMA TailIs ==
  ASSUME E!TypeOK, Bounds, NEW w \in Watcher, queue[w] # <<>>,
         queue' = [queue EXCEPT ![w] = Tail(@)]
  PROVE  /\ queue' \in [Watcher -> Seq(E!Event)]
         /\ \A v \in Watcher : Len(queue'[v]) <= QueueSize
         /\ queue'[w] = Tail(queue[w]) /\ \A v \in Watcher \ {w} : queue'[v] = queue[v]
         /\ DOMAIN queue[w] = 1..Len(queue[w]) /\ DOMAIN queue'[w] = 1..(Len(queue[w]) - 1)
         /\ Len(queue[w]) \in Nat \ {0}
         /\ \A i \in DOMAIN queue'[w] : i + 1 \in DOMAIN queue[w] /\ queue'[w][i] = queue[w][i + 1]
         /\ 1 \in DOMAIN queue[w] /\ Head(queue[w]) = queue[w][1] /\ Head(queue[w]) \in E!Event
<1>1. queue[w] \in Seq(E!Event) /\ Len(queue[w]) <= QueueSize
  BY DEF E!TypeOK
<1>2. /\ Tail(queue[w]) \in Seq(E!Event) /\ Len(Tail(queue[w])) = Len(queue[w]) - 1
      /\ Len(queue[w]) \in Nat \ {0} /\ DOMAIN queue[w] = 1..Len(queue[w])
      /\ DOMAIN Tail(queue[w]) = 1..(Len(queue[w]) - 1)
      /\ \A i \in DOMAIN Tail(queue[w]) :
           i + 1 \in DOMAIN queue[w] /\ Tail(queue[w])[i] = queue[w][i + 1]
      /\ Head(queue[w]) = queue[w][1] /\ Head(queue[w]) \in E!Event
  BY <1>1
<1>3. queue'[w] = Tail(queue[w]) /\ \A v \in Watcher \ {w} : queue'[v] = queue[v]
  BY DEF E!TypeOK
<1>4. queue' \in [Watcher -> Seq(E!Event)]
  BY <1>2 DEF E!TypeOK
<1>5. ASSUME NEW v \in Watcher PROVE Len(queue'[v]) <= QueueSize
  BY <1>1, <1>2, <1>3, Bounds DEF E!TypeOK, Bounds
<1> QED
  BY <1>2, <1>3, <1>4, <1>5

LEMMA UnwatchedIs ==
  ASSUME E!TypeOK, Bounds, StreamInv, NEW w \in Watcher
  PROVE  /\ E!Unwatched(w) \in [Publisher -> E!Publish]
         /\ \A p \in Publisher :
              /\ E!Unwatched(w)[p].left = pub[p].left \ {w}
              /\ E!Unwatched(w)[p].step = "idle" <=> pub[p].left \ {w} = {}
              /\ E!Unwatched(w)[p].step # "idle" => E!Unwatched(w)[p].number = pub[p].number
              /\ E!Unwatched(w)[p].step \in {"get", "again"} =>
                   /\ E!Unwatched(w)[p].step = pub[p].step /\ E!Unwatched(w)[p].full = pub[p].full
                   /\ pub[p].full # w
<1>1. ASSUME NEW q \in Publisher
      PROVE  /\ E!Unwatched(w)[q] \in E!Publish
             /\ E!Unwatched(w)[q].left = pub[q].left \ {w}
             /\ E!Unwatched(w)[q].step = "idle" <=> pub[q].left \ {w} = {}
             /\ E!Unwatched(w)[q].step # "idle" => E!Unwatched(w)[q].number = pub[q].number
             /\ E!Unwatched(w)[q].step \in {"get", "again"} =>
                  /\ E!Unwatched(w)[q].step = pub[q].step /\ E!Unwatched(w)[q].full = pub[q].full
                  /\ pub[q].full # w
  <2>1. PublisherFits(q) /\ pub[q] \in E!Publish
    BY DEF StreamInv, E!TypeOK
  <2>2. CASE w \notin pub[q].left
    <3>1. E!Unwatched(w)[q] = pub[q] /\ pub[q].left \ {w} = pub[q].left
      BY <2>2 DEF E!Unwatched
    <3> QED
      BY <2>1, <2>2, <3>1 DEF PublisherFits
  <2>3. CASE w \in pub[q].left /\ (pub[q].left = {w} \/ pub[q].full = w)
    <3>1. E!Unwatched(w)[q] = E!Served(q, w)
      BY <2>3 DEF E!Unwatched
    <3> QED
      BY <2>1, <2>3, <3>1, ServedIs
  <2>4. CASE w \in pub[q].left /\ pub[q].left # {w} /\ pub[q].full # w
    <3>1. E!Unwatched(w)[q] = [pub[q] EXCEPT !.left = @ \ {w}]
      BY <2>4 DEF E!Unwatched
    <3>2. /\ E!Unwatched(w)[q].step = pub[q].step /\ E!Unwatched(w)[q].number = pub[q].number
          /\ E!Unwatched(w)[q].left = pub[q].left \ {w} /\ E!Unwatched(w)[q].full = pub[q].full
          /\ E!Unwatched(w)[q] \in E!Publish
      BY <2>1, <3>1 DEF E!Publish
    <3>3. pub[q].step # "idle" /\ pub[q].left \ {w} # {}
      BY <2>1, <2>4 DEF PublisherFits
    <3> QED
      BY <2>4, <3>2, <3>3
  <2> QED
    BY <2>2, <2>3, <2>4
<1>2. E!Unwatched(w) \in [Publisher -> E!Publish]
  <2>1. DOMAIN E!Unwatched(w) = Publisher
    BY DEF E!Unwatched
  <2>2. E!Unwatched(w) = [q \in Publisher |-> E!Unwatched(w)[q]]
    BY DEF E!Unwatched
  <2> QED
    BY <1>1, <2>2
<1> QED
  BY <1>1, <1>2

LEMMA TypesInit ==
  ASSUME Bounds, E!Init
  PROVE  E!TypeOK
  BY DEF Bounds, E!Init, E!TypeOK, E!Quiet, E!Publish, E!Version, E!Steps

LEMMA SlotsCounted ==
  ASSUME Bounds, E!TypeOK, SlotInv
  PROVE  slots + Cardinality(OpenRequests) = MaxWatchers /\ Cardinality(OpenRequests) \in Nat
  BY FS_CardinalityType DEF SlotInv, SlotsReturned, OpenRequests

LEMMA TypesNext ==
  ASSUME Bounds, E!TypeOK, StreamInv, SlotInv, [E!Next]_(E!vars)
  PROVE  E!TypeOK'
<1>1. ASSUME NEW p \in Publisher, E!Begin(p)
      PROVE  E!TypeOK'
  <2>1. version < MaxEvents /\ version' = version + 1 /\ version' \in E!Version
    BY <1>1 DEF E!Begin, E!TypeOK, E!Version, Bounds
  <2>2. pub' \in [Publisher -> E!Publish]
    BY <1>1, <2>1 DEF E!Begin, E!TypeOK, E!Publish, E!Quiet, E!Version, Bounds
  <2>3. owed' \in [Watcher -> E!Version]
    BY <1>1, <2>1 DEF E!Begin, E!TypeOK
  <2> QED
    BY <1>1, <2>1, <2>2, <2>3 DEF E!Begin, E!TypeOK
<1>2. ASSUME NEW p \in Publisher, E!Put(p) \/ E!DropOldest(p) \/ E!PutAgain(p)
      PROVE  E!TypeOK'
  <2>1. PICK w \in Watcher : OthersIdle /\ (Serves(p, w) \/ Tries(p, w))
    BY <1>2, PublishSteps
  <2>2. pub' \in [Publisher -> E!Publish]
    <3>1. CASE Serves(p, w)
      BY <3>1, ServedIs DEF Serves, StreamInv, E!TypeOK
    <3>2. CASE Tries(p, w)
      <4>1. PICK step \in {"get", "again"} : pub' = [pub EXCEPT ![p] = E!Full(p, w, step)]
        BY <3>2 DEF Tries
      <4>2. E!Full(p, w, step) \in E!Publish
        BY DEF E!Full, E!TypeOK, E!Publish
      <4> QED
        BY <4>1, <4>2 DEF E!TypeOK
    <3> QED
      BY <2>1, <3>1, <3>2
  <2>3. queue' \in [Watcher -> Seq(E!Event)] /\ \A v \in Watcher : Len(queue'[v]) <= QueueSize
    <3>1. CASE queue' = queue
      BY <3>1 DEF E!TypeOK
    <3>2. CASE w \in pub[p].left /\ E!Room(w) /\ queue' = E!Sent(p, w)
      BY <3>2, SentIs
    <3>3. CASE queue[w] # <<>> /\ queue' = [queue EXCEPT ![w] = Tail(@)]
      BY <3>3, TailIs
    <3> QED
      BY <2>1, <3>1, <3>2, <3>3 DEF Serves, Tries
  <2> QED
    BY <2>1, <2>2, <2>3 DEF OthersIdle, E!TypeOK
<1>3. ASSUME NEW w \in Watcher, E!Open(w)
      PROVE  E!TypeOK'
  <2>1. slots \in Nat /\ slots <= MaxWatchers /\ opens \in Nat
    BY DEF E!TypeOK
  <2>2. slots' \in 0..MaxWatchers /\ opens' \in 0..MaxOpens
    BY <1>3, <2>1 DEF E!Open, E!TypeOK, Bounds
  <2>3. watch' \in [Watcher -> E!Steps]
    BY <1>3 DEF E!Open, E!TypeOK, E!Steps
  <2> QED
    BY <1>3, <2>2, <2>3 DEF E!Open, E!TypeOK
<1>4. ASSUME NEW w \in Watcher, E!Answer(w) \/ E!Subscribe(w)
      PROVE  E!TypeOK'
  <2>1. CASE E!Answer(w)
    BY <2>1 DEF E!Answer, E!Reload, E!TypeOK, E!Steps
  <2>2. CASE E!Subscribe(w)
    <3>1. \A v \in Watcher : queue'[v] = queue[v] \/ queue'[v] = <<>>
      BY <2>2 DEF E!Subscribe, E!TypeOK
    <3>2. queue' \in [Watcher -> Seq(E!Event)] /\ \A v \in Watcher : Len(queue'[v]) <= QueueSize
      BY <2>2, <3>1 DEF E!Subscribe, E!TypeOK, Bounds
    <3> QED
      BY <2>2, <3>2 DEF E!Subscribe, E!TypeOK, E!Steps
  <2> QED
    BY <1>4, <2>1, <2>2
<1>5. ASSUME NEW w \in Watcher, E!Take(w)
      PROVE  E!TypeOK'
  <2>1. /\ queue' \in [Watcher -> Seq(E!Event)] /\ \A v \in Watcher : Len(queue'[v]) <= QueueSize
        /\ Head(queue[w]) \in E!Event
    BY <1>5, TailIs DEF E!Take
  <2>2. last' \in [Watcher -> [Publisher -> E!Version]] /\ seen' \in [Watcher -> E!Version]
    <3>1. PICK e \in E!Event : e = Head(queue[w])
      BY <2>1
    <3>2. e.by \in Publisher /\ e.number \in E!Version
      BY DEF E!Event, E!Version
    <3>3. /\ last' = [last EXCEPT ![w][e.by] = e.number]
          /\ seen' \in {[seen EXCEPT ![w] = version], seen}
      BY <1>5, <3>1 DEF E!Take, E!Got, E!Reload
    <3> QED
      BY <3>2, <3>3 DEF E!TypeOK
  <2> QED
    BY <1>5, <2>1, <2>2 DEF E!Take, E!Got, E!TypeOK
<1>6. ASSUME NEW w \in Watcher, E!HangUp(w)
      PROVE  E!TypeOK'
  <2>1. w \in OpenRequests
    BY <1>6 DEF E!HangUp, OpenRequests
  <2>2. Cardinality(OpenRequests) # 0
    BY <2>1, FS_EmptySet DEF SlotInv
  <2>3. slots' \in 0..MaxWatchers
    BY <1>6, <2>2, SlotsCounted DEF E!HangUp, E!TypeOK, Bounds
  <2>4. pub' \in [Publisher -> E!Publish]
    BY <1>6, UnwatchedIs DEF E!HangUp, E!TypeOK
  <2>5. queue' \in [Watcher -> Seq(E!Event)] /\ \A v \in Watcher : Len(queue'[v]) <= QueueSize
    BY <1>6 DEF E!HangUp, E!TypeOK, Bounds
  <2> QED
    BY <1>6, <2>3, <2>4, <2>5 DEF E!HangUp, E!TypeOK, E!Steps
<1>7. CASE UNCHANGED E!vars
  BY <1>7 DEF E!vars, E!TypeOK
<1> QED
  BY <1>1, <1>2, <1>3, <1>4, <1>5, <1>6, <1>7 DEF E!Next, E!Publishing, E!Watching

-----------------------------------------------------------------------------
(* The slots *)

LEMMA SlotsNext ==
  ASSUME Bounds, E!TypeOK, SlotInv, [E!Next]_(E!vars)
  PROVE  SlotInv'
<1>1. ASSUME NEW w \in Watcher, E!Open(w)
      PROVE  SlotInv'
  <2>1. CASE slots > 0 /\ slots' = slots - 1 /\ watch' = [watch EXCEPT ![w] = "answer"]
    <3>1. w \notin OpenRequests /\ OpenRequests' = OpenRequests \cup {w}
      BY <1>1, <2>1 DEF E!Open, OpenRequests, E!TypeOK
    <3>2. /\ IsFiniteSet(OpenRequests')
          /\ Cardinality(OpenRequests') = Cardinality(OpenRequests) + 1
      BY <3>1, FS_AddElement DEF SlotInv
    <3>3. slots' + Cardinality(OpenRequests') = MaxWatchers
      BY <2>1, <3>2, SlotsCounted DEF E!TypeOK, Bounds
    <3> QED
      BY <3>2, <3>3 DEF SlotInv, SlotsReturned, OpenRequests
  <2>2. CASE UNCHANGED <<slots, watch>>
    BY <2>2 DEF SlotInv, SlotsReturned, OpenRequests
  <2> QED
    BY <1>1, <2>1, <2>2 DEF E!Open
<1>2. ASSUME NEW w \in Watcher, NEW step \in E!Steps \ {"closed"}, watch[w] # "closed",
             watch' = [watch EXCEPT ![w] = step], slots' = slots
      PROVE  SlotInv'
  <2>1. OpenRequests' = OpenRequests
    BY <1>2 DEF OpenRequests, E!TypeOK
  <2> QED
    BY <1>2, <2>1 DEF SlotInv, SlotsReturned, OpenRequests
<1>3. ASSUME NEW w \in Watcher, E!HangUp(w)
      PROVE  SlotInv'
  <2>1. w \in OpenRequests /\ OpenRequests' = OpenRequests \ {w}
    BY <1>3 DEF E!HangUp, OpenRequests, E!TypeOK
  <2>2. /\ IsFiniteSet(OpenRequests')
        /\ Cardinality(OpenRequests') = Cardinality(OpenRequests) - 1
    BY <2>1, FS_RemoveElement DEF SlotInv
  <2>3. slots' + Cardinality(OpenRequests') = MaxWatchers
    BY <1>3, <2>2, SlotsCounted DEF E!HangUp, E!TypeOK, Bounds
  <2> QED
    BY <2>2, <2>3 DEF SlotInv, SlotsReturned, OpenRequests
<1>4. CASE UNCHANGED <<slots, watch>>
  BY <1>4 DEF SlotInv, SlotsReturned, OpenRequests
<1>5. ASSUME NEW w \in Watcher, E!Answer(w)
      PROVE  SlotInv'
  BY <1>2, <1>5 DEF E!Answer, E!Steps
<1>6. ASSUME NEW w \in Watcher, E!Subscribe(w)
      PROVE  SlotInv'
  BY <1>2, <1>6 DEF E!Subscribe, E!Steps
<1> QED
  BY <1>1, <1>3, <1>4, <1>5, <1>6
  DEF E!Next, E!Publishing, E!Watching, E!Begin, E!Put, E!DropOldest, E!PutAgain, E!Take, E!Got, E!vars

LEMMA SlotsInit ==
  ASSUME Bounds, E!Init
  PROVE  SlotInv
<1>1. OpenRequests = {}
  BY DEF E!Init, OpenRequests
<1>2. IsFiniteSet(OpenRequests) /\ Cardinality(OpenRequests) = 0
  BY <1>1, FS_EmptySet
<1> QED
  BY <1>2 DEF E!Init, SlotInv, SlotsReturned, OpenRequests, Bounds

-----------------------------------------------------------------------------
(* Nothing is lost in silence *)

LEMMA StreamBegin ==
  ASSUME Bounds, E!TypeOK, StreamInv, NEW p \in Publisher, E!Begin(p)
  PROVE  StreamInv'
<1>1. /\ pub[p].step = "idle" /\ version' = version + 1 /\ version \in Nat
      /\ UNCHANGED <<queues, queue, watch, seen>>
      /\ \A q \in Publisher \ {p} : pub'[q] = pub[q]
      /\ owed' = [w \in Watcher |-> IF w \in queues THEN version + 1 ELSE owed[w]]
  BY DEF E!Begin, E!TypeOK, E!Version
<1>2. pub'[p] = IF queues = {} THEN E!Quiet
                ELSE [step |-> "put", number |-> version + 1, left |-> queues, full |-> None]
  BY DEF E!Begin, E!TypeOK
<1>3. /\ pub'[p].left = queues /\ pub'[p].step \in {"idle", "put"}
      /\ pub'[p].step = "idle" <=> queues = {}
      /\ pub'[p].step # "idle" => pub'[p].number = version'
  BY <1>1, <1>2 DEF E!Quiet
<1>4. ASSUME NEW q \in Publisher
      PROVE  PublisherFits(q)'
  <2>1. CASE q = p
    BY <1>1, <1>3, <2>1 DEF PublisherFits
  <2>2. CASE q # p
    BY <1>1, <2>2 DEF StreamInv, PublisherFits
  <2> QED
    BY <2>1, <2>2
<1>5. ASSUME NEW w \in Watcher
      PROVE  WatcherFits(w)'
  <2>1. /\ w \in queues <=> watch[w] = "get"
        /\ owed[w] <= version /\ owed[w] \in Nat
        /\ w \in Reloading /\ watch[w] = "subscribe" => seen[w] >= owed[w]
    BY DEF StreamInv, WatcherFits, E!TypeOK, E!Version
  <2>2. CASE w \in queues
    BY <1>1, <2>1, <2>2 DEF WatcherFits
  <2>3. CASE w \notin queues
    BY <1>1, <2>1, <2>3 DEF WatcherFits
  <2> QED
    BY <2>2, <2>3
<1>6. ASSUME NEW w \in Watcher
      PROVE  Noticed(w)'
  <2>1. watch'[w] = "get" => w \in pub'[p].left
    BY <1>1, <1>3 DEF StreamInv, WatcherFits
  <2> QED
    BY <1>3, <2>1 DEF Noticed, OnItsWay
<1> QED
  BY <1>4, <1>5, <1>6 DEF StreamInv

LEMMA StreamPublish ==
  ASSUME Bounds, E!TypeOK, StreamInv, NEW p \in Publisher,
         E!Put(p) \/ E!DropOldest(p) \/ E!PutAgain(p)
  PROVE  StreamInv'
<1>1. PICK w \in Watcher : OthersIdle /\ (Serves(p, w) \/ Tries(p, w))
  BY PublishSteps
<1>2. UNCHANGED <<version, queues, watch, seen, owed>> /\ w \in pub[p].left
  BY <1>1 DEF OthersIdle, Serves, Tries
<1>3. \A q \in Publisher \ {p} : pub'[q] = pub[q]
  BY <1>1 DEF Serves, Tries, E!TypeOK
<1>4. \A v \in Watcher \ {w} : queue'[v] = queue[v]
  BY <1>1 DEF Serves, Tries, E!TypeOK, E!Sent
<1>5. PublisherFits(p) /\ pub[p] \in E!Publish
  BY DEF StreamInv, E!TypeOK
<1>6. CASE Serves(p, w)
  <2>1. pub'[p] = E!Served(p, w)
    BY <1>6 DEF Serves, E!TypeOK
  <2>2. /\ pub'[p].left = pub[p].left \ {w} /\ pub'[p].step \in {"idle", "put"}
        /\ pub'[p].step = "idle" <=> pub[p].left \ {w} = {}
        /\ pub'[p].step # "idle" => pub'[p].number = pub[p].number
    BY <1>2, <1>5, <2>1, ServedIs
  <2>3. PublisherFits(p)'
    BY <1>2, <1>5, <2>2 DEF PublisherFits
  <2>4. Noticed(w)'
    <3>1. CASE queue'[w] # <<>>
      BY <3>1 DEF Noticed, OnItsWay
    <3>2. CASE queue'[w] = <<>>
      <4>1. ASSUME E!Room(w), queue' = E!Sent(p, w)
            PROVE  FALSE
        <5>1. PICK e \in E!Event : queue'[w] = Append(queue[w], e)
          BY <1>2, <4>1, SentIs
        <5>2. queue[w] \in Seq(E!Event)
          BY DEF E!TypeOK
        <5> QED
          BY <3>2, <5>1, <5>2
      <4>2. queue' = queue /\ queue[w] = <<>> /\ pub[p].step = "get" /\ pub[p].full = w
        BY <1>6, <3>2, <4>1 DEF Serves
      <4>3. w \in Reloading /\ watch[w] = "get" /\ ~ (seen[w] >= owed[w]) =>
              \E q \in Publisher \ {p} :
                w \in pub[q].left /\ (pub[q].step = "get" => w # pub[q].full)
        BY <4>2 DEF StreamInv, Noticed, OnItsWay
      <4> QED
        BY <1>2, <1>3, <4>3 DEF Noticed, OnItsWay
    <3> QED
      BY <3>1, <3>2
  <2>5. ASSUME NEW v \in Watcher \ {w}
        PROVE  Noticed(v)'
    <3>1. Noticed(v)
      BY DEF StreamInv
    <3>2. v \in pub[p].left => v \in pub'[p].left
      BY <2>2
    <3> QED
      BY <1>2, <1>3, <1>4, <2>2, <3>1, <3>2 DEF Noticed, OnItsWay
  <2> QED
    BY <1>2, <1>3, <2>3, <2>4, <2>5 DEF StreamInv, PublisherFits, WatcherFits
<1>7. CASE Tries(p, w)
  <2>1. PICK step \in {"get", "again"} :
          /\ pub'[p] = E!Full(p, w, step)
          /\ step = "get" => queue' = queue /\ queue[w] # <<>>
    BY <1>7 DEF Tries, E!TypeOK
  <2>2. /\ pub'[p].step = step /\ pub'[p].left = pub[p].left
        /\ pub'[p].number = pub[p].number /\ pub'[p].full = w
    BY <2>1 DEF E!Full
  <2>3. PublisherFits(p)'
    BY <1>2, <1>5, <2>2 DEF PublisherFits
  <2>4. Noticed(w)'
    BY <1>2, <2>1, <2>2 DEF Noticed, OnItsWay
  <2>5. ASSUME NEW v \in Watcher \ {w}
        PROVE  Noticed(v)'
    <3>1. Noticed(v)
      BY DEF StreamInv
    <3> QED
      BY <1>2, <1>3, <1>4, <2>2, <3>1 DEF Noticed, OnItsWay
  <2> QED
    BY <1>2, <1>3, <2>3, <2>4, <2>5 DEF StreamInv, PublisherFits, WatcherFits
<1> QED
  BY <1>1, <1>6, <1>7

\* A step of a watch request that takes no subscription away.
LEMMA StreamWatch ==
  ASSUME Bounds, E!TypeOK, StreamInv, NEW w \in Watcher,
         E!Open(w) \/ E!Answer(w) \/ E!Subscribe(w) \/ E!Take(w)
  PROVE  StreamInv'
<1>1. UNCHANGED <<version, pub, owed>> /\ queues \subseteq queues'
  BY DEF E!Open, E!Answer, E!Subscribe, E!Take, E!Got
<1>2. \A p \in Publisher : PublisherFits(p)'
  BY <1>1 DEF StreamInv, PublisherFits
<1>3. \A v \in Watcher \ {w} :
        /\ watch'[v] = watch[v] /\ seen'[v] = seen[v] /\ queue'[v] = queue[v]
        /\ v \in queues' <=> v \in queues
  BY DEF E!Open, E!Answer, E!Subscribe, E!Take, E!Got, E!Reload, E!TypeOK
<1>4. ASSUME NEW v \in Watcher \ {w}
      PROVE  WatcherFits(v)' /\ Noticed(v)'
  BY <1>1, <1>3 DEF StreamInv, WatcherFits, Noticed, OnItsWay
<1>5. /\ w \in queues <=> watch[w] = "get"
      /\ owed[w] <= version /\ owed[w] \in Nat /\ version \in Nat
      /\ w \in Reloading /\ watch[w] = "subscribe" => seen[w] >= owed[w]
  BY DEF StreamInv, WatcherFits, E!TypeOK, E!Version
<1>6. WatcherFits(w)' /\ Noticed(w)'
  <2>1. CASE E!Open(w)
    <3>1. /\ watch'[w] = "answer" \/ watch'[w] = watch[w]
          /\ watch[w] = "closed" /\ UNCHANGED <<seen, queues>>
      BY <2>1 DEF E!Open, E!TypeOK
    <3> QED
      BY <1>1, <1>5, <3>1 DEF WatcherFits, Noticed
  <2>2. CASE E!Answer(w)
    <3>1. /\ watch'[w] = "subscribe" /\ watch[w] = "answer" /\ queues' = queues
          /\ w \in Reloading => seen'[w] = version
      BY <2>2 DEF E!Answer, E!Reload, E!TypeOK
    <3> QED
      BY <1>1, <1>5, <3>1 DEF WatcherFits, Noticed
  <2>3. CASE E!Subscribe(w)
    <3>1. watch'[w] = "get" /\ watch[w] = "subscribe" /\ seen' = seen /\ w \in queues'
      BY <2>3 DEF E!Subscribe, E!TypeOK
    <3> QED
      BY <1>1, <1>5, <3>1 DEF WatcherFits, Noticed
  <2>4. CASE E!Take(w)
    <3>1. /\ watch' = watch /\ watch[w] = "get" /\ queues' = queues
          /\ w \in Reloading => seen'[w] = version
      BY <2>4 DEF E!Take, E!Got, E!Reload, E!TypeOK
    <3> QED
      BY <1>1, <1>5, <3>1 DEF WatcherFits, Noticed
  <2> QED
    BY <2>1, <2>2, <2>3, <2>4
<1> QED
  BY <1>2, <1>4, <1>6 DEF StreamInv

LEMMA StreamHangUp ==
  ASSUME Bounds, E!TypeOK, StreamInv, NEW w \in Watcher, E!HangUp(w)
  PROVE  StreamInv'
<1>1. /\ pub' = E!Unwatched(w) /\ queues' = queues \ {w} /\ watch'[w] = "closed"
      /\ UNCHANGED <<version, seen, owed>>
      /\ \A v \in Watcher \ {w} : watch'[v] = watch[v] /\ queue'[v] = queue[v]
  BY DEF E!HangUp, E!TypeOK
<1>2. \A p \in Publisher :
        /\ pub'[p].left = pub[p].left \ {w}
        /\ pub'[p].step = "idle" <=> pub[p].left \ {w} = {}
        /\ pub'[p].step # "idle" => pub'[p].number = pub[p].number
        /\ pub'[p].step \in {"get", "again"} =>
             pub'[p].step = pub[p].step /\ pub'[p].full = pub[p].full /\ pub[p].full # w
  BY <1>1, UnwatchedIs
<1>3. ASSUME NEW p \in Publisher
      PROVE  PublisherFits(p)'
  BY <1>1, <1>2 DEF StreamInv, PublisherFits
<1>4. WatcherFits(w)' /\ Noticed(w)'
  BY <1>1 DEF StreamInv, WatcherFits, Noticed
<1>5. ASSUME NEW v \in Watcher \ {w}
      PROVE  WatcherFits(v)' /\ Noticed(v)'
  <2>1. WatcherFits(v) /\ Noticed(v)
    BY DEF StreamInv
  <2>2. WatcherFits(v)'
    BY <1>1, <2>1 DEF WatcherFits
  <2>3. ASSUME NEW p \in Publisher, v \in pub[p].left, pub[p].step = "get" => v # pub[p].full
        PROVE  v \in pub'[p].left /\ (pub'[p].step = "get" => v # pub'[p].full)
    BY <1>2, <2>3
  <2>4. Noticed(v)'
    BY <1>1, <2>1, <2>3 DEF Noticed, OnItsWay
  <2> QED
    BY <2>2, <2>4
<1> QED
  BY <1>3, <1>4, <1>5 DEF StreamInv

LEMMA StreamInit ==
  ASSUME Bounds, E!Init
  PROVE  StreamInv
  BY DEF Bounds, E!Init, StreamInv, PublisherFits, WatcherFits, Noticed, E!Quiet

LEMMA StreamNext ==
  ASSUME Bounds, E!TypeOK, StreamInv, [E!Next]_(E!vars)
  PROVE  StreamInv'
<1>1. CASE UNCHANGED E!vars
  BY <1>1 DEF E!vars, StreamInv, PublisherFits, WatcherFits, Noticed, OnItsWay
<1> QED
  BY <1>1, StreamBegin, StreamPublish, StreamWatch, StreamHangUp
  DEF E!Next, E!Publishing, E!Watching

-----------------------------------------------------------------------------
(* The order of the events *)

LEMMA NumbersAreNat ==
  ASSUME E!TypeOK, Bounds, NEW w \in Watcher, NEW p \in Publisher
  PROVE  /\ version \in Nat /\ last[w][p] \in Nat /\ pub[p].number \in Nat
         /\ queue[w] \in Seq(E!Event)
         /\ \A i \in DOMAIN queue[w] :
              /\ i \in 1..Len(queue[w]) /\ queue[w][i].number \in Nat
              /\ queue[w][i].by \in Publisher /\ queue[w][i] \in E!Event
<1>1. \A i \in DOMAIN queue[w] : i \in 1..Len(queue[w]) /\ queue[w][i] \in E!Event
  BY DEF E!TypeOK
<1>2. \A e \in E!Event : e.number \in Nat /\ e.by \in Publisher
  BY DEF E!Event, Bounds
<1>3. version \in Nat /\ queue[w] \in Seq(E!Event) /\ pub[p] \in E!Publish
  BY DEF E!TypeOK, E!Version, Bounds
<1>4. last[w][p] \in Nat /\ pub[p].number \in Nat
  BY <1>3 DEF E!TypeOK, E!Version, E!Publish, Bounds
<1> QED
  BY <1>1, <1>2, <1>3, <1>4

\* The queue stays, is cleared or loses its oldest event.
LEMMA OrderKept ==
  ASSUME E!TypeOK, Bounds, NEW w \in Watcher, NEW p \in Publisher, Ordered(w, p),
         version' \in Nat, version' >= version, last'[w][p] = last[w][p],
         \/ queue'[w] = queue[w]
         \/ queue'[w] = <<>>
         \/ queue[w] # <<>> /\ queue'[w] = Tail(queue[w]),
         w \in pub'[p].left => w \in pub[p].left /\ pub'[p].number = pub[p].number
  PROVE  Ordered(w, p)'
<1>1. /\ version \in Nat /\ last[w][p] \in Nat /\ pub[p].number \in Nat
      /\ queue[w] \in Seq(E!Event)
      /\ \A i \in DOMAIN queue[w] : i \in 1..Len(queue[w]) /\ queue[w][i].number \in Nat
  BY NumbersAreNat
<1>2. last'[w][p] <= version' /\ (w \in pub'[p].left => last'[w][p] <= pub'[p].number)
  BY <1>1 DEF Ordered
<1>3. CASE queue'[w] = queue[w]
  BY <1>1, <1>2, <1>3 DEF Ordered
<1>4. CASE queue'[w] = <<>>
  <2>1. DOMAIN queue'[w] = {}
    BY <1>4
  <2> QED
    BY <1>2, <2>1 DEF Ordered
<1>5. CASE queue[w] # <<>> /\ queue'[w] = Tail(queue[w])
  <2>1. /\ DOMAIN queue'[w] = 1..(Len(queue[w]) - 1) /\ Len(queue[w]) \in Nat
        /\ \A i \in DOMAIN queue'[w] :
             i + 1 \in DOMAIN queue[w] /\ queue'[w][i] = queue[w][i + 1]
    BY <1>1, <1>5
  <2>2. ASSUME NEW i \in DOMAIN queue'[w], NEW j \in DOMAIN queue'[w], i <= j,
               queue'[w][i].by = p, queue'[w][j].by = p
        PROVE  queue'[w][i].number <= queue'[w][j].number
    <3>1. i + 1 \in DOMAIN queue[w] /\ j + 1 \in DOMAIN queue[w] /\ i + 1 <= j + 1
      BY <2>1, <2>2
    <3> QED
      BY <2>1, <2>2, <3>1 DEF Ordered
  <2>3. ASSUME NEW i \in DOMAIN queue'[w], queue'[w][i].by = p
        PROVE  /\ last'[w][p] <= queue'[w][i].number /\ queue'[w][i].number <= version'
               /\ w \in pub'[p].left => queue'[w][i].number <= pub'[p].number
    <3>1. /\ last[w][p] <= queue'[w][i].number /\ queue'[w][i].number <= version
          /\ w \in pub[p].left => queue'[w][i].number <= pub[p].number
          /\ queue'[w][i].number \in Nat
      BY <1>1, <2>1, <2>3 DEF Ordered
    <3> QED
      BY <1>1, <3>1
  <2> QED
    BY <1>2, <2>2, <2>3 DEF Ordered
<1> QED
  BY <1>3, <1>4, <1>5

LEMMA OrderBegin ==
  ASSUME Bounds, E!TypeOK, StreamInv, OrderInv, NEW p \in Publisher, E!Begin(p)
  PROVE  OrderInv'
<1>1. /\ version' = version + 1 /\ version \in Nat /\ UNCHANGED <<queue, last>>
      /\ \A q \in Publisher \ {p} : pub'[q] = pub[q]
      /\ pub'[p] = IF queues = {} THEN E!Quiet
                   ELSE [step |-> "put", number |-> version + 1, left |-> queues, full |-> None]
  BY DEF E!Begin, E!TypeOK, E!Version
<1>2. ASSUME NEW w \in Watcher, NEW q \in Publisher, q # p
      PROVE  Ordered(w, q)'
  <2>1. Ordered(w, q) /\ pub'[q] = pub[q]
    BY <1>1, <1>2 DEF OrderInv
  <2> QED
    BY <1>1, <2>1, OrderKept
<1>3. ASSUME NEW w \in Watcher
      PROVE  Ordered(w, p)'
  <2>1. w \in pub'[p].left => pub'[p].number = version + 1
    BY <1>1 DEF E!Quiet
  <2>2. Ordered(w, p)
    BY DEF OrderInv
  <2>3. /\ last[w][p] \in Nat /\ \A i \in DOMAIN queue[w] : queue[w][i].number \in Nat
    BY NumbersAreNat
  <2> QED
    BY <1>1, <2>1, <2>2, <2>3 DEF Ordered
<1> QED
  BY <1>2, <1>3 DEF OrderInv

\* The event a publisher puts into a queue is its newest there.
LEMMA OrderSent ==
  ASSUME Bounds, E!TypeOK, StreamInv, NEW p \in Publisher, NEW w \in pub[p].left,
         E!Room(w), queue' = E!Sent(p, w), UNCHANGED <<version, last>>,
         pub'[p].left = pub[p].left \ {w}, NEW q \in Publisher, Ordered(w, q),
         q # p => pub'[q] = pub[q]
  PROVE  Ordered(w, q)'
<1>0. PICK e : e = [by |-> p, number |-> pub[p].number]
  OBVIOUS
<1>1. /\ w \in Watcher /\ e \in E!Event /\ queue'[w] = Append(queue[w], e)
      /\ e.by = p /\ e.number = pub[p].number
  BY <1>0, SentIs
<1>2. /\ version \in Nat /\ last[w][q] \in Nat /\ pub[p].number \in Nat
      /\ queue[w] \in Seq(E!Event)
      /\ \A i \in DOMAIN queue[w] : i \in 1..Len(queue[w]) /\ queue[w][i].number \in Nat
  BY <1>1, NumbersAreNat
<1>3. /\ DOMAIN queue[w] = 1..Len(queue[w]) /\ Len(queue[w]) \in Nat
      /\ DOMAIN queue'[w] = 1..(Len(queue[w]) + 1)
      /\ \A i \in DOMAIN queue[w] : queue'[w][i] = queue[w][i]
      /\ queue'[w][Len(queue[w]) + 1] = e
  BY <1>1, <1>2
<1>4. ASSUME NEW i \in DOMAIN queue'[w], NEW j \in DOMAIN queue'[w], i <= j,
             queue'[w][i].by = q, queue'[w][j].by = q
      PROVE  queue'[w][i].number <= queue'[w][j].number
  <2>1. CASE j \in DOMAIN queue[w]
    <3>1. i \in DOMAIN queue[w]
      BY <1>3, <1>4, <2>1
    <3> QED
      BY <1>3, <1>4, <2>1, <3>1 DEF Ordered
  <2>2. CASE j = Len(queue[w]) + 1
    <3>1. q = p /\ queue'[w][j].number = pub[p].number
      BY <1>1, <1>3, <1>4, <2>2
    <3>2. CASE i = j
      BY <1>1, <1>2, <1>3, <2>2, <3>2
    <3>3. CASE i # j
      <4>1. i \in DOMAIN queue[w]
        BY <1>3, <1>4, <2>2, <3>3
      <4> QED
        BY <1>3, <1>4, <3>1, <4>1 DEF Ordered
    <3> QED
      BY <3>2, <3>3
  <2> QED
    BY <1>3, <2>1, <2>2
<1>5. pub[p].number <= version
  BY DEF StreamInv, PublisherFits
<1>6. ASSUME NEW i \in DOMAIN queue'[w], queue'[w][i].by = q
      PROVE  /\ last'[w][q] <= queue'[w][i].number /\ queue'[w][i].number <= version'
             /\ w \in pub'[q].left => queue'[w][i].number <= pub'[q].number
  <2>1. CASE i \in DOMAIN queue[w]
    BY <1>3, <1>6, <2>1 DEF Ordered
  <2>2. CASE i = Len(queue[w]) + 1
    <3>1. q = p /\ queue'[w][i].number = pub[p].number
      BY <1>1, <1>3, <1>6, <2>2
    <3> QED
      BY <1>5, <3>1 DEF Ordered
  <2> QED
    BY <1>3, <2>1, <2>2
<1>7. last'[w][q] <= version' /\ (w \in pub'[q].left => last'[w][q] <= pub'[q].number)
  BY DEF Ordered
<1> QED
  BY <1>4, <1>6, <1>7 DEF Ordered

LEMMA OrderPublish ==
  ASSUME Bounds, E!TypeOK, StreamInv, OrderInv, NEW p \in Publisher,
         E!Put(p) \/ E!DropOldest(p) \/ E!PutAgain(p)
  PROVE  OrderInv'
<1>1. PICK w \in Watcher : OthersIdle /\ (Serves(p, w) \/ Tries(p, w))
  BY PublishSteps
<1>2. /\ UNCHANGED <<version, last>> /\ w \in pub[p].left /\ version \in Nat
      /\ PublisherFits(p) /\ pub[p] \in E!Publish
      /\ \A q \in Publisher \ {p} : pub'[q] = pub[q]
  BY <1>1 DEF OthersIdle, Serves, Tries, E!TypeOK, E!Version, StreamInv
<1>3. \A v \in Watcher \ {w} : queue'[v] = queue[v]
  BY <1>1 DEF Serves, Tries, E!TypeOK, E!Sent
<1>4. /\ pub'[p].left = pub[p].left \/ pub'[p].left = pub[p].left \ {w}
      /\ pub'[p].left # {} => pub'[p].number = pub[p].number
  <2>1. CASE Serves(p, w)
    <3>1. pub'[p] = E!Served(p, w)
      BY <2>1 DEF Serves, E!TypeOK
    <3> QED
      BY <1>2, <3>1, ServedIs
  <2>2. CASE Tries(p, w)
    BY <2>2 DEF Tries, E!Full, E!TypeOK
  <2> QED
    BY <1>1, <2>1, <2>2
<1>5. ASSUME NEW v \in Watcher, NEW q \in Publisher
      PROVE  v \in pub'[q].left => v \in pub[q].left /\ pub'[q].number = pub[q].number
  BY <1>2, <1>4
<1>6. ASSUME NEW v \in Watcher \ {w}, NEW q \in Publisher
      PROVE  Ordered(v, q)'
  BY <1>2, <1>3, <1>5, OrderKept DEF OrderInv
<1>7. ASSUME NEW q \in Publisher
      PROVE  Ordered(w, q)'
  <2>1. Ordered(w, q)
    BY DEF OrderInv
  <2>2. CASE Serves(p, w) /\ E!Room(w) /\ queue' = E!Sent(p, w)
    <3>1. pub'[p] = E!Served(p, w)
      BY <2>2 DEF Serves, E!TypeOK
    <3>2. pub'[p].left = pub[p].left \ {w}
      BY <1>2, <3>1, ServedIs
    <3> QED
      BY <1>2, <2>1, <2>2, <3>2, OrderSent
  <2>3. CASE queue' = queue
    BY <1>2, <1>5, <2>1, <2>3, OrderKept
  <2>4. CASE queue[w] # <<>> /\ queue' = [queue EXCEPT ![w] = Tail(@)]
    <3>1. queue'[w] = Tail(queue[w])
      BY <2>4, TailIs
    <3> QED
      BY <1>2, <1>5, <2>1, <2>4, <3>1, OrderKept
  <2> QED
    BY <1>1, <2>2, <2>3, <2>4 DEF Serves, Tries
<1> QED
  BY <1>6, <1>7 DEF OrderInv

\* A watcher takes the oldest event; what it took of that thread is no later.
LEMMA OrderTake ==
  ASSUME Bounds, E!TypeOK, StreamInv, OrderInv, NEW w \in Watcher, E!Take(w)
  PROVE  /\ OrderInv'
         /\ \A v \in Watcher, p \in Publisher : last'[v][p] >= last[v][p]
<1>0. PICK e : e = Head(queue[w])
  OBVIOUS
<1>1. /\ UNCHANGED <<version, pub>> /\ queue[w] # <<>>
      /\ queue' = [queue EXCEPT ![w] = Tail(@)]
      /\ last' = [last EXCEPT ![w][e.by] = e.number]
      /\ version \in Nat
  BY <1>0 DEF E!Take, E!Got, E!TypeOK, E!Version
<1>2. /\ queue'[w] = Tail(queue[w]) /\ \A v \in Watcher \ {w} : queue'[v] = queue[v]
      /\ DOMAIN queue[w] = 1..Len(queue[w]) /\ DOMAIN queue'[w] = 1..(Len(queue[w]) - 1)
      /\ Len(queue[w]) \in Nat
      /\ \A i \in DOMAIN queue'[w] : i + 1 \in DOMAIN queue[w] /\ queue'[w][i] = queue[w][i + 1]
      /\ 1 \in DOMAIN queue[w] /\ e = queue[w][1] /\ e \in E!Event
  BY <1>0, <1>1, TailIs
<1>3. /\ e.by \in Publisher /\ e.number \in Nat
  BY <1>2 DEF E!Event
<1>4. /\ last'[w][e.by] = e.number
      /\ \A v \in Watcher, p \in Publisher : v # w \/ p # e.by => last'[v][p] = last[v][p]
  BY <1>1, <1>3 DEF E!TypeOK
<1>5. ASSUME NEW v \in Watcher, NEW p \in Publisher, v # w \/ p # e.by
      PROVE  Ordered(v, p)'
  <2>1. Ordered(v, p)
    BY DEF OrderInv
  <2> QED
    BY <1>1, <1>2, <1>4, <1>5, <2>1, OrderKept
<1>6. Ordered(w, e.by)
  BY <1>3 DEF OrderInv
<1>7. PICK p \in Publisher : p = e.by
  BY <1>3
<1>8. /\ last[w][p] <= e.number /\ e.number <= version
      /\ w \in pub[p].left => e.number <= pub[p].number
      /\ Ordered(w, p)
  BY <1>2, <1>6, <1>7 DEF Ordered
<1>9. Ordered(w, p)'
  <2>1. ASSUME NEW i \in DOMAIN queue'[w], queue'[w][i].by = p
        PROVE  /\ e.number <= queue'[w][i].number /\ queue'[w][i].number <= version
               /\ w \in pub[p].left => queue'[w][i].number <= pub[p].number
    <3>1. i + 1 \in DOMAIN queue[w] /\ queue'[w][i] = queue[w][i + 1] /\ 1 <= i + 1
      BY <1>2
    <3> QED
      BY <1>2, <1>7, <1>8, <2>1, <3>1 DEF Ordered
  <2>2. ASSUME NEW i \in DOMAIN queue'[w], NEW j \in DOMAIN queue'[w], i <= j,
               queue'[w][i].by = p, queue'[w][j].by = p
        PROVE  queue'[w][i].number <= queue'[w][j].number
    <3>1. i + 1 \in DOMAIN queue[w] /\ j + 1 \in DOMAIN queue[w] /\ i + 1 <= j + 1
      BY <1>2, <2>2
    <3> QED
      BY <1>2, <1>8, <2>2, <3>1 DEF Ordered
  <2> QED
    BY <1>1, <1>4, <1>7, <1>8, <2>1, <2>2 DEF Ordered
<1>10. OrderInv'
  <2>1. ASSUME NEW v \in Watcher, NEW q \in Publisher
        PROVE  Ordered(v, q)'
    <3>1. CASE v = w /\ q = p
      BY <1>9, <3>1
    <3>2. CASE v # w \/ q # p
      BY <1>5, <1>7, <3>2
    <3> QED
      BY <3>1, <3>2
  <2> QED
    BY <2>1 DEF OrderInv
<1>11. \A v \in Watcher, q \in Publisher : last'[v][q] >= last[v][q]
  BY <1>4, <1>7, <1>8, NumbersAreNat
<1> QED
  BY <1>10, <1>11

LEMMA OrderOther ==
  ASSUME Bounds, E!TypeOK, StreamInv, OrderInv, NEW w \in Watcher,
         E!Open(w) \/ E!Answer(w) \/ E!Subscribe(w) \/ E!HangUp(w)
  PROVE  OrderInv'
<1>1. UNCHANGED <<version, last>> /\ version \in Nat
  BY DEF E!Open, E!Answer, E!Subscribe, E!HangUp, E!TypeOK, E!Version
<1>2. \A v \in Watcher : queue'[v] = queue[v] \/ queue'[v] = <<>>
  BY DEF E!Open, E!Answer, E!Subscribe, E!HangUp, E!TypeOK
<1>3. ASSUME NEW v \in Watcher, NEW q \in Publisher, v \in pub'[q].left
      PROVE  v \in pub[q].left /\ pub'[q].number = pub[q].number
  <2>1. CASE pub' = pub
    BY <1>3, <2>1
  <2>2. CASE pub' = E!Unwatched(w)
    <3>1. /\ pub'[q].left = pub[q].left \ {w}
          /\ pub'[q].step = "idle" <=> pub[q].left \ {w} = {}
          /\ pub'[q].step # "idle" => pub'[q].number = pub[q].number
      BY <2>2, UnwatchedIs
    <3> QED
      BY <1>3, <3>1
  <2> QED
    BY <2>1, <2>2 DEF E!Open, E!Answer, E!Subscribe, E!HangUp
<1> QED
  BY <1>1, <1>2, <1>3, OrderKept DEF OrderInv

LEMMA OrderInit ==
  ASSUME Bounds, E!Init
  PROVE  OrderInv
<1> SUFFICES ASSUME NEW w \in Watcher, NEW p \in Publisher PROVE Ordered(w, p)
  BY DEF OrderInv
<1>1. queue[w] = <<>> /\ DOMAIN queue[w] = {}
  BY DEF E!Init
<1>2. version = 0 /\ last[w][p] = 0 /\ pub[p].left = {}
  BY DEF E!Init, E!Quiet
<1> QED
  BY <1>1, <1>2 DEF Ordered

LEMMA OrderNext ==
  ASSUME Bounds, E!TypeOK, StreamInv, OrderInv, [E!Next]_(E!vars)
  PROVE  OrderInv' /\ \A w \in Watcher, p \in Publisher : last'[w][p] >= last[w][p]
<1>1. CASE UNCHANGED E!vars
  BY <1>1, NumbersAreNat DEF E!vars, OrderInv, Ordered
<1>2. CASE \E w \in Watcher : E!Take(w)
  BY <1>2, OrderTake
<1>3. ASSUME UNCHANGED last
      PROVE  \A w \in Watcher, p \in Publisher : last'[w][p] >= last[w][p]
  BY <1>3, NumbersAreNat
<1>4. ASSUME NEW p \in Publisher, E!Publishing(p)
      PROVE  OrderInv' /\ UNCHANGED last
  BY <1>4, OrderBegin, OrderPublish DEF E!Publishing, E!Begin, E!Put, E!DropOldest, E!PutAgain
<1>5. ASSUME NEW w \in Watcher, E!Open(w) \/ E!Answer(w) \/ E!Subscribe(w) \/ E!HangUp(w)
      PROVE  OrderInv' /\ UNCHANGED last
  BY <1>5, OrderOther DEF E!Open, E!Answer, E!Subscribe, E!HangUp
<1> QED
  BY <1>1, <1>2, <1>3, <1>4, <1>5 DEF E!Next, E!Watching

-----------------------------------------------------------------------------
(* Theorems *)

\* The state all three results are about.
THEOREM StreamIsTyped ==
  ASSUME Bounds
  PROVE  E!Spec => [](E!TypeOK /\ SlotInv /\ StreamInv)
<1>1. E!Init => E!TypeOK /\ SlotInv /\ StreamInv
  BY TypesInit, SlotsInit, StreamInit
<1>2. E!TypeOK /\ SlotInv /\ StreamInv /\ [E!Next]_(E!vars) => (E!TypeOK /\ SlotInv /\ StreamInv)'
  BY TypesNext, SlotsNext, StreamNext
<1> QED
  BY <1>1, <1>2, PTL DEF E!Spec

\* EventHub.publish (events.py): a change announced while a client that reloads on every
\* event is subscribed has been read, or its own event or another one waits or is being
\* published, whatever the publishers drop to make room.
THEOREM NothingIsLostSilently ==
  ASSUME Bounds
  PROVE  E!Spec => []NoSilentLoss
<1>1. E!TypeOK /\ SlotInv /\ StreamInv => NoSilentLoss
  BY ReloadingAssumption DEF StreamInv, Noticed, NoSilentLoss
<1> QED
  BY <1>1, StreamIsTyped, PTL

\* A watcher takes the events of one thread in the order the thread published them.
THEOREM EventsInOrder ==
  ASSUME Bounds
  PROVE  E!Spec => InOrder
<1>1. E!Init => OrderInv
  BY OrderInit
<1>2. E!TypeOK /\ SlotInv /\ StreamInv /\ OrderInv /\ [E!Next]_(E!vars)
        => OrderInv' /\ [\A w \in Watcher, p \in Publisher : last'[w][p] >= last[w][p]]_last
  BY OrderNext
<1> QED
  BY <1>1, <1>2, StreamIsTyped, PTL DEF E!Spec, InOrder

\* _watch (ipc.py): every one of the watchers' slots is free or held by a watch
\* request that is there, so a daemon never runs out of slots for good.
THEOREM SlotsAreReturned ==
  ASSUME Bounds
  PROVE  E!Spec => []SlotsReturned
<1>1. E!TypeOK /\ SlotInv /\ StreamInv => SlotsReturned
  BY DEF SlotInv
<1> QED
  BY <1>1, StreamIsTyped, PTL

-----------------------------------------------------------------------------
(* The terminal's screens *)

\* A received message is no text that was typed here, and no status is None.
TerminalBounds ==
  /\ Public \in Conversation /\ ConversationOf \in [Message -> Conversation]
  /\ Message \cap Text = {} /\ None \notin T!Status

\* An answer is about the conversation it was asked for; and if the screen shows
\* another than the selected one, its answer is under way, or the user was told.
AnswersFit == \A w \in loads : \A item \in w.items : item[2] = w.conv
ScreenFits ==
  \/ \E w \in loads : w.conv = current
  \/ current \in told
  \/ \A item \in view : item[2] = current
ScreenInv == AnswersFit /\ ScreenFits

LEMMA AskingFits ==
  ASSUME NEW conv \in Conversation
  PROVE  /\ T!Asking(conv) \in T!Load
         /\ T!Asking(conv).conv = conv /\ T!Asking(conv).items = {}
<1>1. T!Nothing \in T!Log
  BY DEF T!Nothing, T!Log
<1> QED
  BY <1>1 DEF T!Asking, T!Load

LEMMA AskingListsFits ==
  ASSUME NEW closing \in Conversation \cup {None}, NEW opening \in Conversation \cup {None}
  PROVE  T!AskingLists(closing, opening) \in T!Refresh
  BY DEF T!AskingLists, T!Refresh

LEMMA PostFits ==
  ASSUME T!TypeOK, NEW event \in T!Event, T!Post(event)
  PROVE  stream' \in Seq(T!Event)
  BY DEF T!TypeOK, T!Post

LEMMA StoreFits ==
  ASSUME T!TypeOK, NEW item \in T!Item, T!Store(item)
  PROVE  stored' \subseteq T!Item /\ routes' \subseteq Conversation /\ stream' \in Seq(T!Event)
<1>1. [type |-> "message", item |-> item] \in T!Event
  BY DEF T!Event
<1>2. item[2] \in Conversation
  BY DEF T!Item
<1> QED
  BY <1>1, <1>2, PostFits DEF T!Store, T!TypeOK

\* A newer word is one of the two.
LEMMA NewerFits ==
  ASSUME NEW old, NEW new
  PROVE  /\ T!Newer(old, new) \in {old, new}
         /\ None # "ended" /\ old = "ended" => T!Newer(old, new) # "started"
<1>1. T!Newer(old, new) = IF new = None \/ (old # None /\ Rank(old) > Rank(new))
                          THEN old ELSE new
  BY DEF T!Newer, T!Rank, Rank
<1>2. old = "ended" /\ new = "started" => Rank(old) > Rank(new)
  BY DEF Rank
<1>3. CASE T!Newer(old, new) = old
  BY <1>3
<1>4. CASE T!Newer(old, new) = new
  BY <1>1, <1>2, <1>4
<1> QED
  BY <1>1, <1>3, <1>4

\* What HandleAction does to the entries and the workers.
LEMMA HandleFits ==
  ASSUME T!TypeOK, TerminalBounds, NEW a \in Action, NEW status \in T!Status,
         T!HandleAction(a, status)
  PROVE  /\ entries' \in T!Log
         /\ loads' = loads \/ loads' = loads \cup {T!Asking(current)}
         /\ \A b \in Action : Rank(entries[b]) = 1 => entries'[b] # "started"
<1>1. PICK new : new = T!Newer(entries[a], status)
  OBVIOUS
<1>2. /\ entries' = [entries EXCEPT ![a] = new]
      /\ loads' = loads \/ loads' = loads \cup {T!Asking(current)}
  BY <1>1 DEF T!HandleAction, T!Loading
<1>3. entries \in [Action -> T!Status \cup {None}]
  BY DEF T!TypeOK, T!Log
<1>4. new \in T!Status \cup {None}
  BY <1>1, <1>3, NewerFits
<1>5. entries[a] = "ended" => new # "started"
  BY <1>1, NewerFits DEF TerminalBounds, T!Status
<1>6. entries' \in T!Log
  BY <1>2, <1>3, <1>4 DEF T!Log
<1>7. ASSUME NEW b \in Action, Rank(entries[b]) = 1
      PROVE  entries'[b] # "started"
  <2>1. entries[b] = "ended"
    BY <1>7 DEF Rank
  <2> QED
    BY <1>2, <1>3, <1>5, <2>1
<1> QED
  BY <1>2, <1>6, <1>7

LEMMA ScreenTypesInit == TerminalBounds /\ T!Init => T!TypeOK
<1> SUFFICES ASSUME TerminalBounds, T!Init PROVE T!TypeOK
  OBVIOUS
<1>1. T!Nothing \in T!Log
  BY DEF T!Nothing, T!Log
<1>2. T!Asking(Public) \in T!Load
  BY AskingFits DEF TerminalBounds
<1> QED
  BY <1>1, <1>2 DEF TerminalBounds, T!Init, T!TypeOK

LEMMA ArriveTypes ==
  ASSUME TerminalBounds, T!TypeOK, NEW x \in Message, T!Arrive(x)
  PROVE  T!TypeOK'
<1>1. <<x, ConversationOf[x]>> \in T!Item
  BY DEF TerminalBounds, T!Item
<1>2. stored' \subseteq T!Item /\ routes' \subseteq Conversation /\ stream' \in Seq(T!Event)
  BY <1>1, StoreFits DEF T!Arrive
<1> QED
  BY <1>2 DEF T!Arrive, T!TypeOK, T!memory, T!workers

LEMMA OutsideTypes ==
  ASSUME TerminalBounds, T!TypeOK,
         T!Gap \/ T!Clear \/ \E a \in Action : T!Finish(a)
  PROVE  T!TypeOK'
<1>1. CASE T!Gap
  BY <1>1 DEF T!Gap, T!TypeOK, T!daemon, T!memory, T!workers
<1>2. CASE T!Clear
  <2>1. [type |-> "history_changed"] \in T!Event
    BY DEF T!Event
  <2>2. stream' \in Seq(T!Event)
    BY <1>2, <2>1, PostFits DEF T!Clear
  <2> QED
    BY <1>2, <2>2 DEF T!Clear, T!TypeOK, T!memory, T!workers
<1>3. ASSUME NEW a \in Action, T!Finish(a) PROVE T!TypeOK'
  <2>1. [type |-> "action", action |-> a, status |-> "ended"] \in T!Event
    BY DEF T!Event, T!Status
  <2>2. stream' \in Seq(T!Event)
    BY <1>3, <2>1, PostFits DEF T!Finish
  <2>3. progress' \in T!Log
    BY <1>3 DEF T!Finish, T!TypeOK, T!Log, T!Status
  <2> QED
    BY <1>3, <2>2, <2>3 DEF T!Finish, T!TypeOK, T!memory, T!workers
<1> QED
  BY <1>1, <1>2, <1>3

LEMMA UserTypes ==
  ASSUME TerminalBounds, T!TypeOK, T!User
  PROVE  T!TypeOK'
<1>1. ASSUME NEW conv \in Conversation, T!Select(conv) PROVE T!TypeOK'
  <2>1. loads' \subseteq T!Load
    BY <1>1, AskingFits DEF T!Select, T!Loading, T!TypeOK
  <2> QED
    BY <1>1, <2>1 DEF T!Select, T!TypeOK, T!daemon, T!memory
<1>2. ASSUME NEW conv \in Conversation, T!OpenDirect(conv) PROVE T!TypeOK'
  <2>1. loads' \subseteq T!Load /\ refreshes' \subseteq T!Refresh
    <3>1. loads \subseteq T!Load /\ refreshes \subseteq T!Refresh
      BY DEF T!TypeOK
    <3>2. loads' = loads \cup {T!Asking(conv)}
      BY <1>2 DEF T!OpenDirect, T!Loading
    <3>3. refreshes' = refreshes \cup {T!AskingLists(None, conv)}
      BY <1>2 DEF T!OpenDirect
    <3>4. T!Asking(conv) \in T!Load /\ T!AskingLists(None, conv) \in T!Refresh
      BY AskingFits, AskingListsFits
    <3> QED BY <3>1, <3>2, <3>3, <3>4
  <2> QED
    BY <1>2, <2>1 DEF T!OpenDirect, T!TypeOK, T!daemon, T!memory
<1>3. ASSUME NEW conv \in Conversation, T!Close(conv) PROVE T!TypeOK'
  <2>1. refreshes' \subseteq T!Refresh
    BY <1>3, AskingListsFits DEF T!Close, T!TypeOK
  <2> QED
    BY <1>3, <2>1 DEF T!Close, T!TypeOK, T!memory
<1>4. ASSUME NEW t \in Text, T!Submit(t) PROVE T!TypeOK'
  <2>1. history' \in [Conversation -> SUBSET Text]
    BY <1>4 DEF T!Submit, T!TypeOK
  <2>2. sends' \subseteq Text \X Conversation
    BY <1>4 DEF T!Submit, T!TypeOK
  <2> QED
    BY <1>4, <2>1, <2>2 DEF T!Submit, T!TypeOK, T!daemon
<1>5. ASSUME NEW a \in Action, T!Trace(a) PROVE T!TypeOK'
  <2>1. [type |-> "action", action |-> a, status |-> "started"] \in T!Event
    BY DEF T!Event, T!Status
  <2>2. stream' \in Seq(T!Event)
    BY <1>5, <2>1, PostFits DEF T!Trace
  <2>3. progress' \in T!Log
    BY <1>5 DEF T!Trace, T!TypeOK, T!Log, T!Status
  <2> QED
    BY <1>5, <2>2, <2>3 DEF T!Trace, T!TypeOK, T!memory
<1> QED
  BY <1>1, <1>2, <1>3, <1>4, <1>5 DEF T!User

\* The answer a worker gets is about its conversation.
LEMMA AnsweredFits ==
  ASSUME T!TypeOK, NEW w \in loads, T!Answer(w)
  PROVE  \E v \in T!Load :
           /\ v.conv = w.conv /\ loads' = (loads \ {w}) \cup {v}
           /\ (\A item \in w.items : item[2] = w.conv) => \A item \in v.items : item[2] = v.conv
<1>1. w \in T!Load
  BY DEF T!TypeOK
<1>2. CASE w.step = "asking"
  <2>1. PICK v : v = [w EXCEPT !.step = IF w.conv = Public THEN "actions" ELSE "messages",
                              !.items = {item \in stored : item[2] = w.conv}]
    OBVIOUS
  <2>2. loads' = (loads \ {w}) \cup {v}
    BY <1>2, <2>1 DEF T!Answer
  <2>3. v.conv = w.conv /\ v.items = {item \in stored : item[2] = w.conv}
    BY <1>1, <2>1 DEF T!Load
  <2>4. v \in T!Load
    BY <1>1, <2>1 DEF T!Load, T!TypeOK
  <2> QED
    BY <2>2, <2>3, <2>4
<1>3. CASE w.step # "asking"
  <2>1. PICK log : log = [a \in Action |-> IF PeerOf[a] = w.conv THEN progress[a] ELSE None]
    OBVIOUS
  <2>2. log \in T!Log
    BY <2>1 DEF T!Log, T!TypeOK
  <2>3. PICK v : v = [w EXCEPT !.step = "actions", !.actions = log]
    OBVIOUS
  <2>4. loads' = (loads \ {w}) \cup {v}
    BY <1>3, <2>1, <2>3 DEF T!Answer
  <2>5. v.conv = w.conv /\ v.items = w.items
    BY <1>1, <2>3 DEF T!Load
  <2>6. v \in T!Load
    BY <1>1, <2>2, <2>3 DEF T!Load
  <2> QED
    BY <2>4, <2>5, <2>6
<1> QED
  BY <1>2, <1>3

\* What an answer that is shown does to the memory.
LEMMA ShownFits ==
  ASSUME TerminalBounds, T!TypeOK, NEW w \in loads, T!Show(w)
  PROVE  /\ entries' \in T!Log /\ history' \in [Conversation -> SUBSET Text]
         /\ view' \subseteq T!Item /\ loaded' \subseteq Conversation
         /\ \A conv \in Conversation : history[conv] \subseteq history'[conv]
         /\ \A b \in Action : Rank(entries[b]) = 1 => entries'[b] # "started"
<1>1. w \in T!Load /\ entries \in T!Log /\ history \in [Conversation -> SUBSET Text]
  BY DEF T!TypeOK
<1>2. w.conv \in Conversation /\ w.items \subseteq T!Item /\ w.actions \in T!Log
  BY <1>1 DEF T!Load
<1>3. CASE ~ T!Wanted(w.conv)
  <2>1. UNCHANGED <<view, entries, history, loaded>>
    BY <1>3 DEF T!Show, T!memory
  <2> QED
    BY <2>1 DEF T!TypeOK, Rank
<1>4. CASE T!Wanted(w.conv)
  <2>1. /\ view' = w.items /\ history' = T!Remembered(w.conv, w.items)
        /\ loaded' = loaded \cup {w.conv}
        /\ entries' = [a \in Action |-> T!Newer(entries[a], w.actions[a])]
    BY <1>4 DEF T!Show
  <2>2. entries' \in T!Log
    <3>1. ASSUME NEW a \in Action
          PROVE  T!Newer(entries[a], w.actions[a]) \in T!Status \cup {None}
      BY <1>1, <1>2, NewerFits DEF T!Log
    <3> QED
      BY <2>1, <3>1 DEF T!Log
  <2>3. \A b \in Action : Rank(entries[b]) = 1 => entries'[b] # "started"
    BY <2>1, NewerFits DEF TerminalBounds, T!Status, Rank
  <2>4. PICK typed : typed = {i[1] : i \in {j \in w.items : j[1] \in Text}}
    OBVIOUS
  <2>5. typed \subseteq Text
    BY <2>4
  <2>6. history' = history \/ history' = [history EXCEPT ![w.conv] = @ \cup typed]
    BY <2>1, <2>4 DEF T!Remembered
  <2>7. /\ history' \in [Conversation -> SUBSET Text]
        /\ \A conv \in Conversation : history[conv] \subseteq history'[conv]
    BY <1>1, <1>2, <2>5, <2>6
  <2> QED
    BY <1>2, <2>1, <2>2, <2>3, <2>7 DEF T!TypeOK
<1> QED
  BY <1>3, <1>4

LEMMA LoadTypes ==
  ASSUME TerminalBounds, T!TypeOK, NEW w \in loads, T!Answer(w) \/ T!Show(w) \/ T!LoadFails(w)
  PROVE  T!TypeOK'
<1>1. CASE T!Answer(w)
  <2>1. loads' \subseteq T!Load
    BY <1>1, AnsweredFits DEF T!TypeOK
  <2> QED
    BY <1>1, <2>1 DEF T!Answer, T!TypeOK, T!daemon, T!memory
<1>2. CASE T!Show(w)
  <2>1. loads' \subseteq T!Load
    BY <1>2 DEF T!Show, T!TypeOK
  <2> QED
    BY <1>2, <2>1, ShownFits DEF T!Show, T!TypeOK, T!daemon
<1>3. CASE T!LoadFails(w)
  <2>1. w.conv \in Conversation
    BY DEF T!TypeOK, T!Load
  <2> QED
    BY <1>3, <2>1 DEF T!LoadFails, T!TypeOK, T!daemon, T!memory
<1> QED
  BY <1>1, <1>2, <1>3

LEMMA ListTypes ==
  ASSUME TerminalBounds, T!TypeOK, NEW r \in refreshes, T!AskLists(r) \/ T!Lists(r) \/ T!Closed(r)
  PROVE  T!TypeOK'
<1>1. r \in T!Refresh
  BY DEF T!TypeOK
<1>2. CASE T!AskLists(r)
  <2>1. routes' \subseteq Conversation
    <3>1. \A item \in stored : item[2] \in Conversation
      BY DEF T!TypeOK, T!Item
    <3> QED
      BY <1>2, <3>1 DEF T!AskLists, T!Unarchived, T!TypeOK
  <2>2. PICK s : s = [r EXCEPT !.step = "answered", !.routes = routes', !.opening = None]
    OBVIOUS
  <2>3. s \in T!Refresh
    BY <1>1, <2>1, <2>2 DEF T!Refresh
  <2>4. refreshes' \subseteq T!Refresh
    BY <1>2, <2>2, <2>3 DEF T!AskLists, T!TypeOK
  <2> QED
    BY <1>2, <2>1, <2>4 DEF T!AskLists, T!TypeOK, T!memory
<1>3. CASE T!Lists(r)
  <2>1. r.routes \subseteq Conversation
    BY <1>1 DEF T!Refresh
  <2> QED
    BY <1>3, <2>1 DEF T!Lists, T!ListedWith, T!TypeOK, T!daemon, T!memory, TerminalBounds
<1>4. CASE T!Closed(r)
  <2>1. r.routes \subseteq Conversation
    BY <1>1 DEF T!Refresh
  <2>2. current' \in Conversation
    BY <1>4 DEF T!Closed, T!TypeOK, TerminalBounds
  <2>3. loads' \subseteq T!Load
    BY <1>4, <2>2, AskingFits DEF T!Closed, T!TypeOK
  <2> QED
    BY <1>4, <2>1, <2>2, <2>3 DEF T!Closed, T!TypeOK, T!daemon, T!memory, TerminalBounds
<1> QED
  BY <1>2, <1>3, <1>4

LEMMA SendTypes ==
  ASSUME TerminalBounds, T!TypeOK, NEW s \in sends, T!Send(s)
  PROVE  T!TypeOK'
<1>1. s \in Text \X Conversation /\ s \in T!Item /\ s[1] \in Text
  BY DEF T!TypeOK, T!Item
<1>2. /\ T!Store(s) \/ UNCHANGED <<stored, routes, stream>>
      /\ told' = told \/ told' = told \cup {s[1]}
  BY DEF T!Send, T!RouteOf
<1>3. stored' \subseteq T!Item /\ routes' \subseteq Conversation /\ stream' \in Seq(T!Event)
  BY <1>1, <1>2, StoreFits DEF T!TypeOK
<1> QED
  BY <1>1, <1>2, <1>3 DEF T!Send, T!TypeOK, T!memory

LEMMA ReplyTypes ==
  ASSUME TerminalBounds, T!TypeOK, NEW a \in Action, T!Reply(a)
  PROVE  T!TypeOK'
<1>1. /\ entries' \in T!Log
      /\ loads' = loads \/ loads' = loads \cup {T!Asking(current)}
  BY HandleFits DEF T!Reply, T!Status
<1>2. loads' \subseteq T!Load
  BY <1>1, AskingFits DEF T!TypeOK
<1> QED
  BY <1>1, <1>2 DEF T!Reply, T!TypeOK, T!daemon

\* The event at the head of the stream.
LEMMA HeadFits ==
  ASSUME T!TypeOK, stream # <<>>
  PROVE  /\ Head(stream) \in T!Event /\ Tail(stream) \in Seq(T!Event) /\ Tail(stream) # stream
         /\ Head(stream).type = "message" => Head(stream).item \in T!Item
         /\ Head(stream).type = "action" =>
              Head(stream).action \in Action /\ Head(stream).status \in T!Status
<1>1. stream \in Seq(T!Event)
  BY DEF T!TypeOK
<1>2. Head(stream) \in T!Event /\ Tail(stream) \in Seq(T!Event)
  BY <1>1
<1>3. Len(Tail(stream)) # Len(stream)
  BY <1>1
<1>4. PICK e : e = Head(stream)
  OBVIOUS
<1>5. e.type = "message" => e.item \in T!Item
  BY <1>2, <1>4 DEF T!Event
<1>6. e.type = "action" => e.action \in Action /\ e.status \in T!Status
  BY <1>2, <1>4 DEF T!Event
<1> QED
  BY <1>2, <1>3, <1>4, <1>5, <1>6

\* What an event does to the terminal.
LEMMA EventTypes ==
  ASSUME TerminalBounds, T!TypeOK, T!LiveEvent
  PROVE  T!TypeOK'
<1>1. PICK e \in T!Event : e = Head(stream)
  BY HeadFits DEF T!LiveEvent
<1>2. /\ stream' \in Seq(T!Event)
      /\ UNCHANGED <<stored, routes, progress, current, listed, told, sends, replies>>
  BY HeadFits DEF T!LiveEvent, T!daemon
<1>3. T!AskingLists(None, None) \in T!Refresh
  BY AskingListsFits
<1>4. T!Asking(current) \in T!Load
  BY AskingFits DEF T!TypeOK
<1>5. CASE T!LiveMessage(e)
  <2>1. e.item \in T!Item
    BY <1>1, <1>5, HeadFits DEF T!LiveMessage, T!LiveEvent
  <2>2. view' \subseteq T!Item /\ refreshes' \subseteq T!Refresh
    BY <1>3, <1>5, <2>1 DEF T!LiveMessage, T!Refreshing, T!TypeOK
  <2> QED
    BY <1>2, <1>5, <2>2 DEF T!LiveMessage, T!TypeOK, T!memory
<1>6. CASE T!LiveAction(e)
  <2>1. e.action \in Action /\ e.status \in T!Status
    BY <1>1, <1>6, HeadFits DEF T!LiveAction, T!LiveEvent
  <2>2. entries' \in T!Log /\ loads' \subseteq T!Load
    BY <1>4, <1>6, <2>1, HandleFits DEF T!LiveAction, T!TypeOK
  <2> QED
    BY <1>2, <1>6, <2>2 DEF T!LiveAction, T!TypeOK
<1>7. CASE T!LiveHistory(e)
  <2>1. entries' \in T!Log
    BY <1>7 DEF T!LiveHistory, T!TypeOK, T!Log
  <2>2. loads' \subseteq T!Load /\ refreshes' \subseteq T!Refresh
    BY <1>3, <1>4, <1>7 DEF T!LiveHistory, T!Loading, T!Refreshing, T!TypeOK
  <2>3. history' \in [Conversation -> SUBSET Text] /\ loaded' = {} /\ view' = view
    BY <1>7 DEF T!LiveHistory
  <2> QED
    BY <1>2, <2>1, <2>2, <2>3 DEF T!TypeOK
<1> QED
  BY <1>1, <1>5, <1>6, <1>7 DEF T!LiveEvent

LEMMA ScreenTypesNext == TerminalBounds /\ T!TypeOK /\ [T!Next]_(T!vars) => T!TypeOK'
<1> SUFFICES ASSUME TerminalBounds, T!TypeOK, [T!Next]_(T!vars) PROVE T!TypeOK'
  OBVIOUS
<1>1. CASE UNCHANGED T!vars
  BY <1>1 DEF T!vars, T!TypeOK
<1>2. CASE T!Work
  BY <1>2, LoadTypes, ListTypes, SendTypes, ReplyTypes, EventTypes DEF T!Work
<1> QED
  BY <1>1, <1>2, UserTypes, OutsideTypes, ArriveTypes, LoadTypes DEF T!Next

-----------------------------------------------------------------------------
(* What the screen shows *)

\* Steps that start workers only, and tell more, keep the screen's promise.
LEMMA ScreenStays ==
  ASSUME ScreenInv, T!TypeOK, UNCHANGED <<current, view>>, told \subseteq told',
         loads' = loads \/ loads' = loads \cup {T!Asking(current)}
  PROVE  ScreenInv'
<1>1. current \in Conversation
  BY DEF T!TypeOK
<1> QED
  BY <1>1, AskingFits DEF ScreenInv, AnswersFit, ScreenFits

\* So do those that select a conversation and ask for it.
LEMMA ScreenTurns ==
  ASSUME ScreenInv, NEW conv \in Conversation, current' = conv,
         loads' = loads \cup {T!Asking(conv)}
  PROVE  ScreenInv'
  BY AskingFits DEF ScreenInv, AnswersFit, ScreenFits

LEMMA LoadKeepsScreen ==
  ASSUME ScreenInv, T!TypeOK, NEW w \in loads, T!Answer(w) \/ T!Show(w) \/ T!LoadFails(w)
  PROVE  ScreenInv'
<1>1. CASE T!Answer(w)
  <2>1. PICK v : /\ v.conv = w.conv /\ loads' = (loads \ {w}) \cup {v}
                 /\ (\A item \in w.items : item[2] = w.conv)
                      => \A item \in v.items : item[2] = v.conv
    BY <1>1, AnsweredFits
  <2>2. UNCHANGED <<current, view, told>>
    BY <1>1 DEF T!Answer
  <2> QED
    BY <2>1, <2>2 DEF ScreenInv, AnswersFit, ScreenFits
<1>2. CASE T!Show(w)
  <2>1. UNCHANGED <<current, told>> /\ loads' = loads \ {w}
    BY <1>2 DEF T!Show
  <2>2. CASE w.conv = current
    <3>1. view' = w.items
      BY <1>2, <2>2 DEF T!Show, T!Wanted
    <3> QED
      BY <2>1, <2>2, <3>1 DEF ScreenInv, AnswersFit, ScreenFits
  <2>3. CASE w.conv # current
    <3>1. view' = view
      BY <1>2, <2>3 DEF T!Show, T!Wanted
    <3> QED
      BY <2>1, <2>3, <3>1 DEF ScreenInv, AnswersFit, ScreenFits
  <2> QED
    BY <2>2, <2>3
<1>3. CASE T!LoadFails(w)
  <2>1. UNCHANGED <<current, view>> /\ loads' = loads \ {w} /\ told' = told \cup {w.conv}
    BY <1>3 DEF T!LoadFails
  <2> QED
    BY <2>1 DEF ScreenInv, AnswersFit, ScreenFits
<1> QED
  BY <1>1, <1>2, <1>3

LEMMA EventKeepsScreen ==
  ASSUME TerminalBounds, ScreenInv, T!TypeOK, T!LiveEvent
  PROVE  ScreenInv'
<1>1. UNCHANGED <<current, told>>
  BY DEF T!LiveEvent
<1>2. PICK e : e = Head(stream)
  OBVIOUS
<1>3. CASE T!LiveMessage(e)
  <2>1. loads' = loads /\ \A item \in view' : item \in view \/ item[2] = current
    BY <1>3 DEF T!LiveMessage
  <2> QED
    BY <1>1, <2>1 DEF ScreenInv, AnswersFit, ScreenFits
<1>4. CASE T!LiveAction(e)
  <2>1. e.action \in Action /\ e.status \in T!Status
    BY <1>2, <1>4, HeadFits DEF T!LiveAction, T!LiveEvent
  <2>2. view' = view /\ (loads' = loads \/ loads' = loads \cup {T!Asking(current)})
    BY <1>4, <2>1, HandleFits DEF T!LiveAction
  <2> QED
    BY <1>1, <2>2, ScreenStays
<1>5. CASE T!LiveHistory(e)
  <2>1. view' = view /\ loads' = loads \cup {T!Asking(current)}
    BY <1>5 DEF T!LiveHistory, T!Loading
  <2> QED
    BY <1>1, <2>1, ScreenStays
<1> QED
  BY <1>2, <1>3, <1>4, <1>5 DEF T!LiveEvent

LEMMA ScreenNext ==
  TerminalBounds /\ T!TypeOK /\ ScreenInv /\ [T!Next]_(T!vars) => ScreenInv'
<1> SUFFICES ASSUME TerminalBounds, T!TypeOK, ScreenInv, [T!Next]_(T!vars) PROVE ScreenInv'
  OBVIOUS
<1>1. ASSUME UNCHANGED <<current, view, loads>>, told \subseteq told' PROVE ScreenInv'
  BY <1>1, ScreenStays
<1>2. CASE UNCHANGED T!vars \/ T!Gap \/ T!Clear
  BY <1>1, <1>2 DEF T!vars, T!Gap, T!Clear, T!workers
<1>3. ASSUME NEW x \in Message, T!Arrive(x) PROVE ScreenInv'
  BY <1>1, <1>3 DEF T!Arrive, T!workers
<1>4. ASSUME NEW a \in Action, T!Finish(a) \/ T!Trace(a) PROVE ScreenInv'
  BY <1>1, <1>4 DEF T!Finish, T!Trace, T!workers
<1>5. ASSUME NEW conv \in Conversation, T!Select(conv) \/ T!OpenDirect(conv) PROVE ScreenInv'
  BY <1>5, ScreenTurns DEF T!Select, T!OpenDirect, T!Loading
<1>6. ASSUME NEW conv \in Conversation, T!Close(conv) PROVE ScreenInv'
  BY <1>1, <1>6 DEF T!Close
<1>7. ASSUME NEW t \in Text, T!Submit(t) PROVE ScreenInv'
  BY <1>1, <1>7 DEF T!Submit
<1>8. ASSUME NEW r \in refreshes, T!AskLists(r) \/ T!Lists(r) PROVE ScreenInv'
  BY <1>1, <1>8 DEF T!AskLists, T!Lists
<1>9. ASSUME NEW r \in refreshes, T!Closed(r) PROVE ScreenInv'
  <2>1. PICK conv \in Conversation : conv = current'
    BY <1>9 DEF T!Closed, T!TypeOK, TerminalBounds
  <2> QED
    BY <1>9, <2>1, ScreenTurns DEF T!Closed
<1>10. ASSUME NEW s \in sends, T!Send(s) PROVE ScreenInv'
  BY <1>1, <1>10 DEF T!Send
<1>11. ASSUME NEW a \in Action, T!Reply(a) PROVE ScreenInv'
  <2>1. UNCHANGED <<current, view, told>>
    BY <1>11 DEF T!Reply
  <2>2. loads' = loads \/ loads' = loads \cup {T!Asking(current)}
    BY <1>11, HandleFits DEF T!Reply, T!Status
  <2> QED
    BY <2>1, <2>2, ScreenStays
<1>12. CASE T!Work
  BY <1>8, <1>9, <1>10, <1>11, <1>12, LoadKeepsScreen, EventKeepsScreen DEF T!Work
<1>13. CASE T!User
  BY <1>4, <1>5, <1>6, <1>7, <1>13 DEF T!User
<1> QED
  BY <1>2, <1>3, <1>4, <1>12, <1>13, LoadKeepsScreen DEF T!Next

-----------------------------------------------------------------------------
(* What comes late *)

LEMMA StepSends ==
  ASSUME TerminalBounds, T!TypeOK, [T!Next]_(T!vars),
         NEW item \in stored' \ stored, item[1] \in Text
  PROVE  item \in sends
<1>1. ASSUME stored' \subseteq stored PROVE FALSE
  BY <1>1
<1>2. CASE UNCHANGED T!vars \/ T!Gap \/ T!Clear
  BY <1>1, <1>2 DEF T!vars, T!Gap, T!Clear, T!daemon
<1>3. ASSUME NEW x \in Message, T!Arrive(x) PROVE FALSE
  <2>1. item = <<x, ConversationOf[x]>>
    BY <1>3 DEF T!Arrive, T!Store
  <2> QED
    BY <2>1 DEF TerminalBounds
<1>4. CASE T!User
  BY <1>1, <1>4 DEF T!User, T!Select, T!OpenDirect, T!Close, T!Submit, T!Trace, T!daemon
<1>5. ASSUME NEW a \in Action, T!Finish(a) PROVE FALSE
  BY <1>1, <1>5 DEF T!Finish
<1>6. ASSUME NEW w \in loads, T!Answer(w) \/ T!Show(w) \/ T!LoadFails(w) PROVE FALSE
  BY <1>1, <1>6 DEF T!Answer, T!Show, T!LoadFails, T!daemon
<1>7. ASSUME NEW r \in refreshes, T!AskLists(r) \/ T!Lists(r) \/ T!Closed(r) PROVE FALSE
  BY <1>1, <1>7 DEF T!AskLists, T!Lists, T!Closed, T!daemon
<1>8. ASSUME NEW s \in sends, T!Send(s) PROVE item = s
  BY <1>8 DEF T!Send, T!Store, T!RouteOf
<1>9. CASE T!Work
  BY <1>1, <1>6, <1>7, <1>8, <1>9 DEF T!Work, T!Reply, T!LiveEvent, T!daemon
<1> QED
  BY <1>2, <1>3, <1>4, <1>5, <1>6, <1>9 DEF T!Next

LEMMA StepRemembers ==
  ASSUME TerminalBounds, T!TypeOK, [T!Next]_(T!vars)
  PROVE  NothingForgotten \/ CleanedUp
<1>1. ASSUME history' = history PROVE NothingForgotten
  BY <1>1 DEF NothingForgotten
<1>2. CASE UNCHANGED T!vars \/ T!Gap \/ T!Clear
  BY <1>1, <1>2 DEF T!vars, T!Gap, T!Clear, T!memory
<1>3. ASSUME NEW x \in Message, T!Arrive(x) PROVE NothingForgotten
  BY <1>1, <1>3 DEF T!Arrive, T!memory
<1>4. ASSUME NEW t \in Text, T!Submit(t) PROVE NothingForgotten
  BY <1>4 DEF T!Submit, T!TypeOK, NothingForgotten
<1>5. CASE T!User
  BY <1>1, <1>4, <1>5 DEF T!User, T!Select, T!OpenDirect, T!Close, T!Trace, T!memory
<1>6. ASSUME NEW a \in Action, T!Finish(a) PROVE NothingForgotten
  BY <1>1, <1>6 DEF T!Finish, T!memory
<1>7. ASSUME NEW w \in loads, T!Answer(w) \/ T!Show(w) \/ T!LoadFails(w) PROVE NothingForgotten
  BY <1>1, <1>7, ShownFits DEF T!Answer, T!LoadFails, T!memory, NothingForgotten
<1>8. ASSUME NEW r \in refreshes, T!AskLists(r) \/ T!Lists(r) \/ T!Closed(r) PROVE NothingForgotten
  BY <1>1, <1>8 DEF T!AskLists, T!Lists, T!Closed, T!memory
<1>9. CASE T!LiveEvent
  <2>1. stream' # stream
    BY <1>9, HeadFits DEF T!LiveEvent
  <2>2. history' = history \/ Head(stream).type = "history_changed"
    BY <1>9 DEF T!LiveEvent, T!LiveMessage, T!LiveAction, T!LiveHistory, T!memory
  <2> QED
    BY <1>1, <2>1, <2>2 DEF CleanedUp
<1>10. CASE T!Work
  BY <1>1, <1>7, <1>8, <1>9, <1>10 DEF T!Work, T!Send, T!Reply, T!memory
<1> QED
  BY <1>2, <1>3, <1>5, <1>6, <1>7, <1>10 DEF T!Next

LEMMA StepKeepsEnds ==
  ASSUME TerminalBounds, T!TypeOK, [T!Next]_(T!vars), NEW a \in Action, Rank(entries[a]) = 1
  PROVE  entries'[a] # "started"
<1>1. entries[a] = "ended"
  BY DEF Rank
<1>2. ASSUME entries' = entries PROVE entries'[a] # "started"
  BY <1>1, <1>2
<1>3. CASE UNCHANGED T!vars \/ T!Gap \/ T!Clear
  BY <1>2, <1>3 DEF T!vars, T!Gap, T!Clear, T!memory
<1>4. ASSUME NEW x \in Message, T!Arrive(x) PROVE entries'[a] # "started"
  BY <1>2, <1>4 DEF T!Arrive, T!memory
<1>5. CASE T!User
  BY <1>2, <1>5 DEF T!User, T!Select, T!OpenDirect, T!Close, T!Submit, T!Trace, T!memory
<1>6. ASSUME NEW b \in Action, T!Finish(b) PROVE entries'[a] # "started"
  BY <1>2, <1>6 DEF T!Finish, T!memory
<1>7. ASSUME NEW w \in loads, T!Answer(w) \/ T!Show(w) \/ T!LoadFails(w)
      PROVE  entries'[a] # "started"
  BY <1>2, <1>7, ShownFits DEF T!Answer, T!LoadFails, T!memory
<1>8. ASSUME NEW r \in refreshes, T!AskLists(r) \/ T!Lists(r) \/ T!Closed(r)
      PROVE  entries'[a] # "started"
  BY <1>2, <1>8 DEF T!AskLists, T!Lists, T!Closed, T!memory
<1>9. ASSUME NEW b \in Action, T!Reply(b) PROVE entries'[a] # "started"
  BY <1>9, HandleFits DEF T!Reply, T!Status
<1>10. CASE T!LiveEvent
  <2>1. PICK e : e = Head(stream)
    OBVIOUS
  <2>2. CASE T!LiveMessage(e)
    BY <1>2, <2>2 DEF T!LiveMessage, T!memory
  <2>3. CASE T!LiveAction(e)
    <3>1. e.action \in Action /\ e.status \in T!Status
      BY <1>10, <2>1, <2>3, HeadFits DEF T!LiveAction, T!LiveEvent
    <3> QED
      BY <2>3, <3>1, HandleFits DEF T!LiveAction
  <2>4. CASE T!LiveHistory(e)
    <3>1. entries'[a] = None
      BY <1>1, <2>4 DEF T!LiveHistory
    <3> QED
      BY <3>1 DEF TerminalBounds, T!Status
  <2> QED
    BY <1>10, <2>1, <2>2, <2>3, <2>4 DEF T!LiveEvent
<1>11. CASE T!Work
  BY <1>2, <1>7, <1>8, <1>9, <1>10, <1>11 DEF T!Work, T!Send, T!memory
<1> QED
  BY <1>3, <1>4, <1>5, <1>6, <1>7, <1>11 DEF T!Next

-----------------------------------------------------------------------------
(* Theorems about the terminal *)

\* The terminal's state, its workers and the events on their way keep their types.
THEOREM TerminalIsTyped == TerminalBounds => (T!Spec => []T!TypeOK)
<1> SUFFICES ASSUME TerminalBounds PROVE T!Spec => []T!TypeOK
  OBVIOUS
<1>1. T!Init => T!TypeOK
  BY ScreenTypesInit
<1>2. T!TypeOK /\ [T!Next]_(T!vars) => T!TypeOK'
  BY ScreenTypesNext
<1> QED
  BY <1>1, <1>2, PTL DEF T!Spec

\* _show_conversation (tui.py): whatever the order in which the answers of any number of
\* workers come, the screen that comes to rest is that of the selected conversation.
THEOREM ScreenSettles == TerminalBounds => (T!Spec => []SettledViewIsCurrent)
<1> SUFFICES ASSUME TerminalBounds PROVE T!Spec => []SettledViewIsCurrent
  OBVIOUS
<1>1. T!Init => ScreenInv
  <2>1. T!Init => loads = {T!Asking(Public)} /\ view = {}
    BY DEF T!Init
  <2> QED
    BY <2>1, AskingFits DEF TerminalBounds, ScreenInv, AnswersFit, ScreenFits
<1>2. T!TypeOK /\ ScreenInv /\ [T!Next]_(T!vars) => ScreenInv'
  BY ScreenNext
<1>3. ScreenInv => SettledViewIsCurrent
  BY DEF ScreenInv, ScreenFits, SettledViewIsCurrent
<1>4. T!Spec => []T!TypeOK
  BY TerminalIsTyped
<1> QED
  BY <1>1, <1>2, <1>3, <1>4, PTL DEF T!Spec

\* Texts go where they were typed and are remembered, and no traceroute that has ended is
\* shown as running, in whatever order answers and events come (tui.py).
THEOREM LateStaysHarmless == TerminalBounds => (T!Spec => LateIsHarmless)
<1> SUFFICES ASSUME TerminalBounds PROVE T!Spec => LateIsHarmless
  OBVIOUS
<1>1. T!TypeOK /\ [T!Next]_(T!vars) =>
        [\A item \in stored' \ stored : item[1] \in Text => item \in sends]_<<stored, sends>>
  BY StepSends
<1>2. T!TypeOK /\ [T!Next]_(T!vars) =>
        [NothingForgotten \/ CleanedUp]_<<history, stream>>
  BY StepRemembers
<1>3. T!TypeOK /\ [T!Next]_(T!vars) =>
        [\A a \in Action : Rank(entries[a]) = 1 => entries'[a] # "started"]_entries
  BY StepKeepsEnds
<1>4. T!Spec => []T!TypeOK
  BY TerminalIsTyped
<1>5. T!Spec => SentWhereTyped
  BY <1>1, <1>4, PTL DEF T!Spec, SentWhereTyped
<1>6. T!Spec => TypedIsRemembered
  BY <1>2, <1>4, PTL DEF T!Spec, TypedIsRemembered
<1>7. T!Spec => EndedStaysEnded
  BY <1>3, <1>4, PTL DEF T!Spec, EndedStaysEnded
<1> QED
  BY <1>5, <1>6, <1>7 DEF LateIsHarmless

-----------------------------------------------------------------------------
(* The components side by side *)

\* A step is one of the component whose part it is, and the others stand still.
LEMMA PartSteps ==
  [NextPart]_everything => [Next]_vars /\ [E!Next]_(E!vars) /\ [T!Next]_(T!vars)
BY DEF NextPart, OnlyLogins, OnlyEvents, OnlyTerminal, everything, eventVars, terminalVars,
   E!vars, T!vars

LEMMA PartsBehave == SpecPart => Spec /\ E!Spec /\ T!Spec
<1>1. InitPart => Init /\ E!Init /\ T!Init
  BY DEF InitPart
<1> QED BY <1>1, PartSteps, PTL DEF SpecPart, Spec, E!Spec, T!Spec

\* The store of logins keeps its types and limits, the stream of events its queues within
\* queue_size and all its slots, and the terminal its lists, workers and screens
\* (web_auth.py, events.py and ipc.py, tui.py).
THEOREM ClientsKeepTypes ==
  ASSUME Bounds, TerminalBounds PROVE SpecPart => []TypesOK
<1>1. TypeOK /\ E!TypeOK /\ SlotsReturned /\ T!TypeOK => TypesOK
  BY DEF TypesOK
<1>2. T!Spec => []T!TypeOK
  BY TerminalIsTyped
<1> QED BY <1>1, <1>2, PartsBehave, StoreIsTyped, StreamIsTyped, SlotsAreReturned, PTL
=============================================================================
