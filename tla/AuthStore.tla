------------------------------ MODULE AuthStore ------------------------------
(* web_auth.py: passkeys and terminal codes live in auth.json, which several   *)
(* processes share under a file lock; sessions and challenges live in the      *)
(* memory of one process each.  A terminal code is issued by the daemon or the  *)
(* command line (ipc.py, web_login_code), which keep no sessions.               *)
(*                                                                              *)
(* Each operation holds the lock from its read to its write, and _write         *)
(* replaces the file atomically, so an operation is one step, which a failing   *)
(* write may cut short.  A death of the process in the middle of it is the step *)
(* or no step, followed by Restart.  Secrets are never guessed by accident: a   *)
(* login is right or wrong.  Signatures, counters and user handles are reduced  *)
(* to whether the library accepts them.                                         *)
EXTENDS Naturals, FiniteSets

CONSTANTS
  Process,         \* the web processes
  Origin,          \* addresses a store may be opened for
  OriginOf,        \* the address of each process
  Token,           \* names for sessions, none used twice
  Key,             \* passkeys
  None,
  MaxCredentials,  \* MAX_CREDENTIALS
  MaxSessions,     \* MAX_SESSIONS
  MaxPrevious,     \* addresses that are remembered: 16
  CodeAttempts,    \* CODE_ATTEMPTS
  MaxRevocations   \* bound on codes issued and keys deleted

VARIABLES
  file,       \* auth.json
  session,    \* the session a token stands for, in the process that made it
  challenge,  \* the kind of the challenge that a session waits for
  issued,     \* tokens that were ever given out
  epoch,      \* (observer) how often every session was revoked
  tally,      \* (observer) answers given about the present code, and logins by it
  kept        \* (observer) the passkeys registered and not deleted

vars == <<file, session, challenge, issued, epoch, tally, kept>>

Session == [at: Process, authenticated: BOOLEAN, generation: Nat, fresh: BOOLEAN,
            born: Nat]
Kinds == {"none", "register", "authenticate"}

ASSUME OriginAssumption == OriginOf \in [Process -> Origin]
ASSUME NoneAssumption ==
  /\ None \notin Session /\ None \notin 0..CodeAttempts
  /\ \A keys \in SUBSET Key : keys # None
ASSUME FiniteAssumption == IsFiniteSet(Key) /\ IsFiniteSet(Token)
ASSUME BoundAssumption ==
  /\ MaxCredentials \in Nat /\ MaxSessions \in Nat \ {0} /\ MaxPrevious \in Nat
  /\ CodeAttempts \in Nat /\ MaxRevocations \in Nat

TypeOK ==
  /\ file \in [origin : Origin, generation : Nat, credentials : SUBSET Key,
               code : {None} \cup 0..CodeAttempts,
               previous : [Origin -> {None} \cup SUBSET Key]]
  /\ Cardinality(file.credentials) <= MaxCredentials
  /\ session \in [Token -> {None} \cup Session]
  /\ challenge \in [Token -> Kinds]
  /\ \A t \in Token : session[t] = None => challenge[t] = "none"
  /\ \A p \in Process :
       Cardinality({t \in Token : session[t] # None /\ session[t].at = p}) <= MaxSessions
  /\ issued \subseteq Token
  /\ epoch \in Nat /\ tally \in [answers: Nat, logins: Nat]
  /\ kept \subseteq Origin \X Key

Init ==
  /\ file \in [origin: Origin, generation: {0}, credentials: {{}}, code: {None},
               previous: {[o \in Origin |-> None]}]
  /\ session = [t \in Token |-> None]
  /\ challenge = [t \in Token |-> "none"]
  /\ issued = {} /\ kept = {}
  /\ epoch = 0 /\ tally = [answers |-> 0, logins |-> 0]

\* _read refuses a file that another address has taken over.
Readable(p) == file.origin = OriginOf[p]

\* What _prune leaves: sessions of the file's generation.  Time passes in Expire.
Live(p) == {t \in Token : /\ session[t] # None /\ session[t].at = p
                          /\ session[t].generation = file.generation}
Pruned(p, S) ==
  [t \in Token |-> IF t \in S /\ t \notin Live(p) /\ session[t] # None /\ session[t].at = p
                   THEN None ELSE session[t]]

\* What a browser is told: a session that this process still accepts.
Accepted(p, t) == Readable(p) /\ t \in Live(p) /\ session[t].authenticated

New(p, auth) == [at |-> p, authenticated |-> auth, generation |-> file.generation,
                 fresh |-> auth, born |-> epoch]

\* Secrets are made up at random: which name the next one gets does not matter.
Unused == IF issued = Token THEN {} ELSE {CHOOSE t \in Token : t \notin issued}

\* logout(old), then _new: the old session makes room for the one that replaces it.
Replace(p, old, t) ==
  /\ t \in Unused
  /\ Cardinality(Live(p) \ {old}) < MaxSessions
  /\ session' = [Pruned(p, Token) EXCEPT ![old] = None, ![t] = New(p, TRUE)]
  /\ challenge' = [u \in Token |-> IF session'[u] = None \/ u = t
                                   THEN "none" ELSE challenge[u]]
  /\ issued' = issued \cup {t}

----------------------------------------------------------------------------
(* Codes.                                                                    *)
\* Mutant: an address that comes back starts without passkeys.
IssueForgetting(o) ==
  /\ file.generation < MaxRevocations
  /\ file' = [origin |-> o, generation |-> file.generation + 1, code |-> CodeAttempts,
              credentials |-> IF o = file.origin THEN file.credentials ELSE {},
              previous |-> [file.previous EXCEPT ![file.origin] = file.credentials]]
  /\ epoch' = epoch + 1 /\ tally' = [answers |-> 0, logins |-> 0]
  /\ UNCHANGED <<session, challenge, issued, kept>>

\* issue_code, which may move the file to another address and back.
Issue(o) ==
  /\ file.generation < MaxRevocations
  /\ LET moved == o # file.origin
         known == {q \in Origin : file.previous[q] # None}
         previous == [file.previous EXCEPT ![file.origin] = file.credentials, ![o] = None]
     IN /\ moved => file.origin \in known \/ Cardinality(known) < MaxPrevious
        /\ file' = [origin |-> o, generation |-> file.generation + 1, code |-> CodeAttempts,
                    credentials |-> IF ~moved THEN file.credentials
                                    ELSE IF file.previous[o] = None THEN {}
                                    ELSE file.previous[o],
                    previous |-> IF moved THEN previous ELSE file.previous]
  /\ epoch' = epoch + 1 /\ tally' = [answers |-> 0, logins |-> 0]
  /\ UNCHANGED <<session, challenge, issued, kept>>

\* The code may be tried: it is there, has attempts left and has not expired.
Usable == file.code # None /\ file.code > 0
\* login_code, wrong: an attempt is spent on disk before the answer.
LoginWrong(p, t) ==
  /\ Readable(p) /\ t \in Live(p) /\ Usable
  /\ file' = [file EXCEPT !.code = IF @ > 0 THEN @ - 1 ELSE 0]
  /\ tally' = [tally EXCEPT !.answers = @ + 1]
  /\ UNCHANGED <<session, challenge, issued, epoch, kept>>

\* Mutant: the code is not taken out of the file.
LoginRightKept(p, t, new) ==
  /\ Readable(p) /\ t \in Live(p) /\ Usable
  /\ file' = [file EXCEPT !.code = @ - 1]
  /\ tally' = [answers |-> tally.answers + 1, logins |-> tally.logins + 1]
  /\ Replace(p, t, new)
  /\ UNCHANGED <<epoch, kept>>
\* login_code, right: the code is consumed, then the session replaced.
LoginRight(p, t, new) ==
  /\ Readable(p) /\ t \in Live(p) /\ Usable
  /\ file' = [file EXCEPT !.code = None]
  /\ tally' = [answers |-> tally.answers + 1, logins |-> tally.logins + 1]
  /\ Replace(p, t, new)
  /\ UNCHANGED <<epoch, kept>>
CodeExpires ==
  /\ file.code # None
  /\ file' = [file EXCEPT !.code = 0]
  /\ UNCHANGED <<session, challenge, issued, epoch, tally, kept>>

----------------------------------------------------------------------------
(* Sessions and passkeys.                                                    *)

NewSession(p, t) ==
  /\ Readable(p) /\ t \in Unused /\ Cardinality(Live(p)) < MaxSessions
  /\ session' = [Pruned(p, Token) EXCEPT ![t] = New(p, FALSE)]
  /\ challenge' = [u \in Token |-> IF session'[u] = None THEN "none" ELSE challenge[u]]
  /\ issued' = issued \cup {t}
  /\ UNCHANGED <<file, epoch, tally, kept>>

\* logout, which takes neither the file nor its lock.
Logout(t) ==
  /\ session[t] # None
  /\ session' = [session EXCEPT ![t] = None]
  /\ challenge' = [challenge EXCEPT ![t] = "none"]
  /\ UNCHANGED <<file, issued, epoch, tally, kept>>

\* registration_begin and authentication_begin.
Begin(p, t, kind) ==
  /\ Readable(p) /\ t \in Live(p)
  /\ \/ /\ kind = "register" /\ session[t].authenticated /\ session[t].fresh
        /\ Cardinality(file.credentials) < MaxCredentials
     \/ kind = "authenticate" /\ file.credentials # {}
  /\ challenge' = [challenge EXCEPT ![t] = kind]
  /\ UNCHANGED <<file, session, issued, epoch, tally, kept>>

\* _consume, then a response that is not accepted, or a write that fails.
Rejected(p, t) ==
  /\ Readable(p) /\ t \in Live(p) /\ challenge[t] # "none"
  /\ challenge' = [challenge EXCEPT ![t] = "none"]
  /\ UNCHANGED <<file, session, issued, epoch, tally, kept>>

\* The credentials may have grown since registration_begin: both limits are checked again.
MayAdd(k) == k \notin file.credentials /\ Cardinality(file.credentials) < MaxCredentials
RegistrationComplete(p, t, k) ==
  /\ Readable(p) /\ t \in Live(p) /\ session[t].authenticated /\ session[t].fresh
  /\ challenge[t] = "register" /\ MayAdd(k)
  /\ file' = [file EXCEPT !.credentials = @ \cup {k}]
  /\ kept' = kept \cup {<<file.origin, k>>}
  /\ challenge' = [challenge EXCEPT ![t] = "none"]
  /\ UNCHANGED <<session, issued, epoch, tally>>

AuthenticationComplete(p, t, k, new) ==
  /\ Readable(p) /\ t \in Live(p)
  /\ challenge[t] = "authenticate" /\ k \in file.credentials
  /\ Replace(p, t, new)
  /\ UNCHANGED <<file, epoch, tally, kept>>

\* Mutant: the sessions of this process are cleared, the generation stays.
DeleteCredentialHere(p, t, k) ==
  /\ file.generation < MaxRevocations
  /\ Readable(p) /\ t \in Live(p) /\ session[t].authenticated /\ session[t].fresh
  /\ k \in file.credentials
  /\ file' = [file EXCEPT !.credentials = @ \ {k}, !.code = None]
  /\ session' = [u \in Token |-> IF session[u] # None /\ session[u].at = p
                                 THEN None ELSE session[u]]
  /\ challenge' = [u \in Token |-> IF session'[u] = None THEN "none" ELSE challenge[u]]
  /\ epoch' = epoch + 1 /\ kept' = kept \ {<<file.origin, k>>}
  /\ UNCHANGED <<issued, tally>>
\* delete_credential: a new generation, no code, no sessions in this process.
DeleteCredential(p, t, k) ==
  /\ file.generation < MaxRevocations
  /\ Readable(p) /\ t \in Live(p) /\ session[t].authenticated /\ session[t].fresh
  /\ k \in file.credentials
  /\ file' = [file EXCEPT !.credentials = @ \ {k}, !.generation = @ + 1, !.code = None]
  /\ session' = [u \in Token |-> IF session[u] # None /\ session[u].at = p
                                 THEN None ELSE session[u]]
  /\ challenge' = [u \in Token |-> IF session'[u] = None THEN "none" ELSE challenge[u]]
  /\ epoch' = epoch + 1 /\ kept' = kept \ {<<file.origin, k>>}
  /\ UNCHANGED <<issued, tally>>
\* Time: FRESH_TTL ends before SESSION_TTL; a challenge may expire alone (Rejected).
Expire(t) ==
  /\ session[t] # None
  /\ \/ session[t].fresh /\ session' = [session EXCEPT ![t].fresh = FALSE]
                         /\ UNCHANGED challenge
     \/ /\ session' = [session EXCEPT ![t] = None]
        /\ challenge' = [challenge EXCEPT ![t] = "none"]
  /\ UNCHANGED <<file, issued, epoch, tally, kept>>

Restart(p) ==
  /\ session' = [t \in Token |-> IF session[t] # None /\ session[t].at = p
                                 THEN None ELSE session[t]]
  /\ session' # session
  /\ challenge' = [t \in Token |-> IF session'[t] = None THEN "none" ELSE challenge[t]]
  /\ UNCHANGED <<file, issued, epoch, tally, kept>>

Next ==
  \/ \E o \in Origin : Issue(o)
  \/ CodeExpires
  \/ \E p \in Process : Restart(p)
  \/ \E t \in Token : Logout(t) \/ Expire(t)
  \/ \E p \in Process, t \in Token :
       \/ NewSession(p, t) \/ LoginWrong(p, t) \/ Rejected(p, t)
       \/ \E kind \in Kinds : Begin(p, t, kind)
       \/ \E k \in Key : RegistrationComplete(p, t, k) \/ DeleteCredential(p, t, k)
       \/ \E new \in Unused : LoginRight(p, t, new)
       \/ \E k \in Key, new \in Unused : AuthenticationComplete(p, t, k, new)

Spec == Init /\ [][Next]_vars

----------------------------------------------------------------------------
\* A code lets one browser in, whichever processes try it at the same time, and
\* no more than CODE_ATTEMPTS guesses are ever answered, restarts included
\* (login_code writes before it answers).
CodeWorksOnce == tally.logins <= 1 /\ tally.answers <= CodeAttempts

\* Issuing a code or deleting a passkey ends every session of every process,
\* although sessions are kept in the memory of each (_prune, issue_code,
\* delete_credential).
RevokedEverywhere ==
  \A p \in Process, t \in Token : Accepted(p, t) => session[t].born = epoch

\* A passkey is lost only by its deletion: not by moving the address and back, nor
\* by another process writing the file (issue_code, registration_complete).
PasskeysSurvive ==
  \A o \in Origin, k \in Key : <<o, k>> \in kept =>
    IF o = file.origin THEN k \in file.credentials
    ELSE file.previous[o] # None /\ k \in file.previous[o]

\* What web_auth.py promises of codes, sessions and passkeys.
LoginsAreSafe == CodeWorksOnce /\ RevokedEverywhere /\ PasskeysSurvive
=============================================================================
