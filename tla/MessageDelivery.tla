--------------------------- MODULE MessageDelivery ---------------------------
(***************************************************************************)
(* The life of an outgoing text message in the MeshPi daemon: _send and    *)
(* _send_impl of service.py on an IPC handler thread, the SDK reader       *)
(* thread that calls onAckNak, the SDK publishing thread that calls        *)
(* _on_receive, the statements of database.py they run, retention, the     *)
(* user's "clear messages", and a crash of the daemon at any point.        *)
(*                                                                         *)
(* Abstractions.  A packet is reduced to the status _ack_status gives it.  *)
(* The packet id the radio assigns to a request is the request itself:     *)
(* ids are not reused.  The retention limit may drop any set of prunable   *)
(* rows when a row is inserted; which ones are oldest is not modelled.     *)
(* Rows received from others are background traffic that triggers pruning. *)
(***************************************************************************)
EXTENDS Naturals, Sequences

CONSTANTS
  Request,     \* send commands accepted by the IPC server
  Dm,          \* the requests that are direct messages (wantAck)
  NoRequest,   \* no request: the lock is free, a thread has no packet
  Reports,     \* bound: the reports the mesh makes, a subset of Report
  MaxQueue,    \* bound: packets waiting for a thread
  MaxCrashes   \* bound: crashes of the daemon

ASSUME RequestAssumption == Dm \subseteq Request /\ NoRequest \notin Request
ASSUME BoundAssumption == MaxQueue \in Nat /\ MaxCrashes \in Nat

VARIABLES
  msgs,       \* durable: the messages table, one row per key or Absent
  crashes,    \* crashes so far
  holder,     \* the request whose thread holds service._lock in _send
  phase,      \* Request -> how far _send_impl has come
  call,       \* Request -> the variables onAckNak shares with _send_impl
  deferred,   \* _deferred_receives: packets received inside sendText
  pubq,       \* packets on their way to _on_receive on the publishing thread
  job,        \* Thread -> the update_message_status call it is in
  result,     \* Request -> what the IPC client was told
  sent,       \* observed: Request -> how often sendText was entered
  heard,      \* observed: Request -> reports the radio has handed to the SDK
  handled,    \* observed: Request -> reports this daemon has taken care of
  announced   \* observed: Request -> the last status on the event stream

dbVars   == <<msgs, crashes>>
sendVars == <<holder, phase, call, deferred, result>>
obsVars  == <<sent, heard, handled, announced>>
vars == <<dbVars, sendVars, pubq, job, obsVars>>

-----------------------------------------------------------------------------
(* Statuses and rows *)

Report == {"ACK", "feila", "levert"}

ASSUME ReportAssumption == Reports \subseteq Report

Status == {"uviss", "sendt"} \cup Report

\* The row of the request itself and the row of its radio echo.
Key == {"request", "echo"} \X Request

Absent == [status |-> "absent", packet |-> FALSE, wantAck |-> FALSE]
Row == [status : Status, packet : BOOLEAN, wantAck : BOOLEAN]

Present(k) == msgs[k].status # "absent"

\* Mutant: an ACK or a NAK may also replace a delivery.
ReplaceableByAny(report) ==
  CASE report = "ACK"    -> {"sendt", "levert"}
    [] report = "feila"  -> {"sendt", "ACK", "levert"}
    [] report = "levert" -> {"sendt", "ACK", "feila"}

\* The statuses update_message_status lets a report replace.
Replaceable(report) ==
  CASE report = "ACK"    -> {"sendt"}
    [] report = "feila"  -> {"sendt", "ACK"}
    [] report = "levert" -> {"sendt", "ACK", "feila"}

\* Mutant: want_ack is forgotten in the retention condition.
UnresolvedUnlessSent(row) == row.status = "uviss"

Unresolved(row) == row.status = "uviss" \/ (row.status = "sendt" /\ row.wantAck)
Prunable(row) == row.status # "absent" /\ ~ Unresolved(row)

\* Mutant: rows are only marked as gone and keep their packet id.
WithoutStatus(table, gone) ==
  [k \in Key |-> IF k \in gone THEN [table[k] EXCEPT !.status = "absent"]
                 ELSE table[k]]

\* The table after retention has dropped the rows in gone.
Without(table, gone) == [k \in Key |-> IF k \in gone THEN Absent ELSE table[k]]

\* insert_message: the new row, and every hundredth time the retention limit.
Insert(key, row) ==
  \E gone \in SUBSET {k \in Key \ {key} : Prunable(msgs[k])} :
    msgs' = Without([msgs EXCEPT ![key] = row], gone)

-----------------------------------------------------------------------------
(* Threads *)

Thread == {"sender", "reader", "publisher"}
Idle == [step |-> "idle", req |-> NoRequest, report |-> "ACK",
         target |-> "request"]
Job == {Idle} \cup [step : {"select", "write", "publish"}, req : Request,
                   report : Report, target : {"request", "echo"}]
StatusUpdate(r, report) == [Idle EXCEPT !.step = "select", !.req = r,
                                        !.report = report]

\* pending_id is known, stored is set, what early_status holds, and whether
\* the SDK still has onAckNak registered for the packet.
Fresh == [id |-> FALSE, stored |-> FALSE, early |-> "none", waiting |-> FALSE]
Call == [id : BOOLEAN, stored : BOOLEAN, early : Report \cup {"none"},
         waiting : BOOLEAN]

Routing(r, report) == [kind |-> "routing", req |-> r, report |-> report]
Echo(r) == [kind |-> "echo", req |-> r, report |-> "ACK"]
Packet == [kind : {"routing", "echo"}, req : Request, report : Report]

Phases == {"waiting", "recorded", "onAir", "handedOver", "completed",
           "settling", "unwinding", "returned"}
Results == {"none", "notSent", "uncertain", "sent", "lost"}

Init ==
  /\ msgs = [k \in Key |-> Absent]
  /\ crashes = 0
  /\ holder = NoRequest
  /\ phase = [r \in Request |-> "waiting"]
  /\ call = [r \in Request |-> Fresh]
  /\ deferred = <<>>
  /\ pubq = <<>>
  /\ job = [t \in Thread |-> Idle]
  /\ result = [r \in Request |-> "none"]
  /\ sent = [r \in Request |-> 0]
  /\ heard = [r \in Request |-> {}]
  /\ handled = [r \in Request |-> {}]
  /\ announced = [r \in Request |-> "none"]

-----------------------------------------------------------------------------
(* The sending thread *)

\* A check of _send_impl fails, or insert_message does: nothing was sent.
Refuse(r) ==
  /\ holder = NoRequest /\ phase[r] = "waiting"
  /\ phase' = [phase EXCEPT ![r] = "returned"]
  /\ result' = [result EXCEPT ![r] = "notSent"]
  /\ UNCHANGED <<dbVars, holder, call, deferred, pubq, job, obsVars>>

\* _send takes the lock and _send_impl inserts the row, still "uviss".
Record(r) ==
  /\ holder = NoRequest /\ phase[r] = "waiting"
  /\ holder' = r
  /\ Insert(<<"request", r>>,
            [status |-> "uviss", packet |-> FALSE, wantAck |-> r \in Dm])
  /\ phase' = [phase EXCEPT ![r] = "recorded"]
  /\ UNCHANGED <<crashes, call, deferred, result, pubq, job, obsVars>>

\* interface.sendText is entered; a DM registers onAckNak with the SDK.
Transmit(r) ==
  /\ phase[r] = "recorded"
  /\ phase' = [phase EXCEPT ![r] = "onAir"]
  /\ sent' = [sent EXCEPT ![r] = @ + 1]
  /\ call' = [call EXCEPT ![r].waiting = r \in Dm]
  /\ UNCHANGED <<dbVars, holder, deferred, result, pubq, job,
                 heard, handled, announced>>

\* sendText returns, with or without a packet id (_sent_packet_id).
SendTextReturns(r) ==
  /\ phase[r] = "onAir"
  /\ phase' = [phase EXCEPT ![r] = "handedOver"]
  /\ \E known \in BOOLEAN : call' = [call EXCEPT ![r].id = known]
  /\ UNCHANGED <<dbVars, holder, deferred, result, pubq, job, obsVars>>

\* complete_outgoing_message: the row, if it is still there, is "sendt".  The
\* unique index on packet identities refuses a second row with this packet.
Complete(r) ==
  /\ phase[r] = "handedOver"
  /\ Present(<<"request", r>>)
  /\ call[r].id => ~ Present(<<"echo", r>>)
  /\ msgs' = [msgs EXCEPT ![<<"request", r>>].status = "sendt",
                          ![<<"request", r>>].packet = call[r].id]
  /\ phase' = [phase EXCEPT ![r] = "completed"]
  /\ UNCHANGED <<crashes, holder, call, deferred, result, pubq, job, obsVars>>

\* Mutant: a send that raised is tried once more.
UncertainRetried(r) ==
  /\ phase[r] \in {"onAir", "handedOver"}
  /\ phase' = [phase EXCEPT ![r] = "recorded"]
  /\ UNCHANGED <<dbVars, holder, call, deferred, result, pubq, job, obsVars>>

\* sendText raised, before or after the radio had the packet, or
\* complete_outgoing_message did: the row stays "uviss" and is never retried.
Uncertain(r) ==
  /\ phase[r] \in {"onAir", "handedOver"}
  /\ phase' = [phase EXCEPT ![r] = "unwinding"]
  /\ result' = [result EXCEPT ![r] = "uncertain"]
  /\ announced' = [announced EXCEPT ![r] = "uviss"]
  /\ UNCHANGED <<dbVars, holder, call, deferred, pubq, job, sent, heard, handled>>

\* Under ack_lock: stored is set and early_status is read.  An early report
\* goes to update_message_status on this thread.
Settle(r) ==
  /\ phase[r] = "completed"
  /\ phase' = [phase EXCEPT ![r] = "settling"]
  /\ call' = [call EXCEPT ![r].stored = TRUE]
  /\ job' = IF call[r].id /\ call[r].early # "none"
            THEN [job EXCEPT !["sender"] = StatusUpdate(r, call[r].early)]
            ELSE job
  /\ UNCHANGED <<dbVars, holder, deferred, result, pubq, obsVars>>

\* The message event, with the status this thread knows of, and the answer.
Announce(r) ==
  /\ phase[r] = "settling" /\ job["sender"] = Idle
  /\ phase' = [phase EXCEPT ![r] = "unwinding"]
  /\ result' = [result EXCEPT ![r] = "sent"]
  /\ announced' = [announced EXCEPT ![r] =
       IF call[r].id /\ call[r].early # "none" THEN call[r].early ELSE "sendt"]
  /\ UNCHANGED <<dbVars, holder, call, deferred, pubq, job, sent, heard, handled>>

\* The lock is released once every deferred packet has been replayed.
Release(r) ==
  /\ phase[r] = "unwinding" /\ deferred = <<>> /\ job["sender"] = Idle
  /\ holder' = NoRequest
  /\ phase' = [phase EXCEPT ![r] = "returned"]
  /\ UNCHANGED <<dbVars, call, deferred, result, pubq, job, obsVars>>

-----------------------------------------------------------------------------
(* Receiving: what _on_receive does with a packet on thread t *)

\* Mutant: insert_message without the unique index on packet identities.
ReceiveEchoTwice(r) ==
  \E wantAck \in BOOLEAN :
    Insert(<<"echo", r>>,
           [status |-> "sendt", packet |-> TRUE, wantAck |-> wantAck])

\* insert_message for a radio echo of the request: ignored when a row with
\* the same packet identity exists.
ReceiveEcho(r) ==
  \/ /\ \/ msgs[<<"request", r>>].packet
        \/ Present(<<"echo", r>>)
     /\ UNCHANGED msgs
  \/ /\ ~ msgs[<<"request", r>>].packet
     /\ ~ Present(<<"echo", r>>)
     /\ \E wantAck \in BOOLEAN :
          Insert(<<"echo", r>>,
                 [status |-> "sendt", packet |-> TRUE, wantAck |-> wantAck])

Receive(t, packet) ==
  IF packet.kind = "routing"
  THEN /\ job' = [job EXCEPT ![t] = StatusUpdate(packet.req, packet.report)]
       /\ UNCHANGED msgs
  ELSE ReceiveEcho(packet.req) /\ UNCHANGED job

\* Mutant: _deferred_receives is still a list while it is replayed.
ReplayDeferred(r) ==
  /\ phase[r] = "unwinding" /\ deferred # <<>> /\ job["sender"] = Idle
  /\ deferred' = Append(Tail(deferred), Head(deferred))
  /\ UNCHANGED <<dbVars, holder, phase, call, result, pubq, job, obsVars>>

\* _send's finally clause replays what was received inside sendText.
Replay(r) ==
  /\ phase[r] = "unwinding" /\ deferred # <<>> /\ job["sender"] = Idle
  /\ Receive("sender", Head(deferred))
  /\ deferred' = Tail(deferred)
  /\ UNCHANGED <<crashes, holder, phase, call, result, pubq, obsVars>>

\* Mutant: _on_receive does not take the lock first.
PublishUnlocked ==
  /\ pubq # <<>> /\ job["publisher"] = Idle
  /\ Receive("publisher", Head(pubq))
  /\ pubq' = Tail(pubq)
  /\ UNCHANGED <<crashes, sendVars, obsVars>>

\* The publishing thread gets through the first "with self._lock".
Publish ==
  /\ holder = NoRequest /\ pubq # <<>> /\ job["publisher"] = Idle
  /\ Receive("publisher", Head(pubq))
  /\ pubq' = Tail(pubq)
  /\ UNCHANGED <<crashes, sendVars, obsVars>>

\* The packet came from an interface that has been replaced.
Drop ==
  /\ holder = NoRequest /\ pubq # <<>> /\ job["publisher"] = Idle
  /\ pubq' = Tail(pubq)
  /\ UNCHANGED <<dbVars, sendVars, job, obsVars>>

-----------------------------------------------------------------------------
(* update_message_status, on the thread t that called it *)

\* The reader passes its packet on to the publishing thread after onAckNak.
Finish(t) ==
  /\ job' = [job EXCEPT ![t] = Idle]
  /\ pubq' = IF t = "reader"
             THEN Append(pubq, Routing(job[t].req, job[t].report))
             ELSE pubq

\* The rows the SELECT can return: this packet's rows in a status that the
\* report may replace.
Candidates(t) ==
  {target \in {"request", "echo"} :
     LET row == msgs[<<target, job[t].req>>]
     IN  row.packet /\ row.status \in Replaceable(job[t].report)}

Took(t) == handled' = [handled EXCEPT ![job[t].req] = @ \cup {job[t].report}]

Select(t) ==
  /\ job[t].step = "select"
  /\ \/ \E target \in Candidates(t) :
          /\ job' = [job EXCEPT ![t].step = "write", ![t].target = target]
          /\ UNCHANGED <<pubq, handled>>
     \/ Candidates(t) = {} /\ Took(t) /\ Finish(t)
  /\ UNCHANGED <<dbVars, sendVars, sent, heard, announced>>

\* Mutant: the UPDATE's WHERE clause has the status condition only.
WriteEveryRow(t) ==
  /\ job[t].step = "write"
  /\ Took(t)
  /\ msgs' = [k \in Key |-> IF msgs[k].status \in Replaceable(job[t].report)
                            THEN [msgs[k] EXCEPT !.status = job[t].report]
                            ELSE msgs[k]]
  /\ job' = [job EXCEPT ![t].step = "publish"]
  /\ UNCHANGED <<crashes, sendVars, pubq, sent, heard, announced>>

\* The UPDATE repeats the status condition; the row may have moved on.
Write(t) ==
  LET key == <<job[t].target, job[t].req>>
  IN  /\ job[t].step = "write"
      /\ Took(t)
      /\ \/ /\ msgs[key].status \in Replaceable(job[t].report)
            /\ msgs' = [msgs EXCEPT ![key].status = job[t].report]
            /\ job' = [job EXCEPT ![t].step = "publish"]
            /\ UNCHANGED pubq
         \/ /\ msgs[key].status \notin Replaceable(job[t].report)
            /\ Finish(t)
            /\ UNCHANGED msgs
      /\ UNCHANGED <<crashes, sendVars, sent, heard, announced>>

\* The message_status event.
PublishStatus(t) ==
  /\ job[t].step = "publish"
  /\ announced' = [announced EXCEPT ![job[t].req] = job[t].report]
  /\ Finish(t)
  /\ UNCHANGED <<dbVars, sendVars, sent, heard, handled>>

\* A statement raises sqlite3.Error.  _on_receive and the SDK log it; in
\* _send_impl it ends the send with the answer "uncertain".
UpdateFails(t) ==
  /\ job[t].step \in {"select", "write"}
  /\ Finish(t)
  /\ IF t = "sender" /\ phase[job[t].req] = "settling"
     THEN /\ phase' = [phase EXCEPT ![job[t].req] = "unwinding"]
          /\ result' = [result EXCEPT ![job[t].req] = "uncertain"]
     ELSE UNCHANGED <<phase, result>>
  /\ UNCHANGED <<dbVars, holder, call, deferred, obsVars>>

-----------------------------------------------------------------------------
(* The radio and the SDK *)

\* onAckNak's branch for a report that comes before the row is complete.
TooEarly(r) == ~ call[r].id \/ ~ call[r].stored

\* The SDK reader thread takes a routing packet for r from the radio.  The
\* first one is handed to onAckNak, every one to the publishing thread.
ReaderRouting(r, report) ==
  /\ sent[r] > 0 /\ r \in Dm
  /\ job["reader"] = Idle /\ Len(pubq) < MaxQueue
  /\ heard' = [heard EXCEPT ![r] = @ \cup {report}]
  /\ IF call[r].waiting /\ ~ TooEarly(r)
     THEN /\ job' = [job EXCEPT !["reader"] = StatusUpdate(r, report)]
          /\ UNCHANGED pubq
     ELSE /\ pubq' = Append(pubq, Routing(r, report))
          /\ UNCHANGED job
  /\ call' = IF call[r].waiting
             THEN [call EXCEPT ![r].waiting = FALSE,
                               ![r].early = IF TooEarly(r) THEN report ELSE @]
             ELSE call
  /\ UNCHANGED <<dbVars, holder, phase, deferred, result,
                 sent, handled, announced>>

ReaderEcho(r) ==
  /\ sent[r] > 0
  /\ job["reader"] = Idle /\ Len(pubq) < MaxQueue
  /\ pubq' = Append(pubq, Echo(r))
  /\ UNCHANGED <<dbVars, sendVars, job, obsVars>>

\* A transport that calls back inside sendText: onAckNak is too early and
\* _on_receive defers the packet.
InsideSendText(r) ==
  /\ phase[r] = "onAir" /\ Len(deferred) < MaxQueue
  /\ \/ /\ r \in Dm
        /\ \E report \in Reports :
             /\ heard' = [heard EXCEPT ![r] = @ \cup {report}]
             /\ deferred' = Append(deferred, Routing(r, report))
             /\ call' = IF call[r].waiting
                        THEN [call EXCEPT ![r].waiting = FALSE,
                                          ![r].early = report]
                        ELSE call
     \/ /\ deferred' = Append(deferred, Echo(r))
        /\ UNCHANGED <<heard, call>>
  /\ UNCHANGED <<dbVars, holder, phase, result, pubq, job,
                 sent, handled, announced>>

-----------------------------------------------------------------------------
(* Other traffic, the user, and crashes *)

\* Some other message is stored and the retention limit drops rows.
Traffic ==
  /\ \E gone \in SUBSET {k \in Key : Prunable(msgs[k])} :
       gone # {} /\ msgs' = Without(msgs, gone)
  /\ UNCHANGED <<crashes, sendVars, pubq, job, obsVars>>

\* delete_messages, with the scope dm, public or all.
DeleteMessages ==
  /\ \E scope \in {Dm, Request \ Dm, Request} :
       LET gone == {"request", "echo"} \X scope
       IN  (\E k \in gone : Present(k)) /\ msgs' = Without(msgs, gone)
  /\ UNCHANGED <<crashes, sendVars, pubq, job, obsVars>>

\* The daemon dies and is started again: only the table survives.
Crash ==
  /\ crashes < MaxCrashes
  /\ crashes' = crashes + 1
  /\ holder' = NoRequest
  /\ phase' = [r \in Request |->
                 IF phase[r] = "waiting" THEN "waiting" ELSE "returned"]
  /\ result' = [r \in Request |->
                  IF phase[r] \in {"waiting", "returned"} THEN result[r]
                  ELSE "lost"]
  /\ call' = [r \in Request |-> Fresh]
  /\ deferred' = <<>> /\ pubq' = <<>>
  /\ job' = [t \in Thread |-> Idle]
  /\ UNCHANGED <<msgs, obsVars>>

-----------------------------------------------------------------------------

Sender(r) ==
  \/ Refuse(r) \/ Record(r) \/ Transmit(r) \/ SendTextReturns(r) \/ Complete(r)
  \/ Uncertain(r) \/ Settle(r) \/ Announce(r) \/ Replay(r) \/ Release(r)

Update(t) == Select(t) \/ Write(t) \/ PublishStatus(t) \/ UpdateFails(t)

Radio(r) ==
  \/ \E report \in Reports : ReaderRouting(r, report)
  \/ ReaderEcho(r)
  \/ InsideSendText(r)

Next ==
  \/ \E r \in Request : Sender(r) \/ Radio(r)
  \/ \E t \in Thread : Update(t)
  \/ Publish \/ Drop
  \/ Traffic \/ DeleteMessages \/ Crash

Spec == Init /\ [][Next]_vars

\* Threads that can run do run; sendText returns or raises.  Nothing is
\* assumed of the mesh, of the user or of the daemon's survival.
Fairness ==
  /\ \A r \in Request : WF_vars(Sender(r))
  /\ \A t \in Thread : WF_vars(Update(t))
  /\ WF_vars(Publish \/ Drop)

FairSpec == Spec /\ Fairness

-----------------------------------------------------------------------------
(* Properties *)

\* Every variable has its type; above all, a row is either whole or absent.
TypeOK ==
  /\ msgs \in [Key -> Row \cup {Absent}]
  /\ crashes \in 0..MaxCrashes
  /\ holder \in Request \cup {NoRequest}
  /\ phase \in [Request -> Phases]
  /\ call \in [Request -> Call]
  /\ deferred \in Seq(Packet)
  /\ pubq \in Seq(Packet)
  /\ job \in [Thread -> Job]
  /\ result \in [Request -> Results]
  /\ sent \in [Request -> Nat]
  /\ heard \in [Request -> SUBSET Report]
  /\ handled \in [Request -> SUBSET Report]
  /\ announced \in [Request -> Status \cup {"none"}]

Rank(s) == CASE s = "sendt"  -> 1
             [] s = "ACK"    -> 2
             [] s = "feila"  -> 3
             [] s = "levert" -> 4
             [] OTHER        -> 0

\* A row says ACK, feila or levert only if the radio handed the SDK a packet
\* that says so about this very request: whatever way a report takes through
\* early_status, the deferred list and the two SDK threads, it ends up on no
\* other row.
OnlyWhatWasHeard ==
  \A k \in Key : msgs[k].status \in Report => msgs[k].status \in heard[k[2]]

\* However onAckNak, _on_receive and the sending thread interleave, the row of
\* a completed send is at least as far as every report this daemon has taken
\* care of, and once the send is answered, as far as the early report.
ReportsReachTheRow ==
  \A r \in Request :
    LET row == msgs[<<"request", r>>]
    IN  row.packet =>
          /\ \A report \in handled[r] : Rank(row.status) >= Rank(report)
          /\ result[r] = "sent" /\ call[r].early # "none"
               => Rank(row.status) >= Rank(call[r].early)

\* The radio's own echo of a request, received before, during or after the
\* completion of its row and possibly several times, never becomes a second
\* row beside a completed one.
NoEchoBesideRequest ==
  \A r \in Request :
    msgs[<<"request", r>>].packet => ~ Present(<<"echo", r>>)

\* What the client is told is true, whatever fails or crashes (_send_impl):
\* "not sent" means that the radio was not used and that no row stands for the
\* request, so that trying again does no harm; "sent" means that it was used;
\* and no request, whatever its answer, uses the radio twice.
AnswersAreTrue ==
  \A r \in Request :
    /\ sent[r] <= 1
    /\ result[r] = "notSent" =>
         sent[r] = 0 /\ ~ Present(<<"request", r>>)
    /\ result[r] = "sent" => sent[r] = 1

\* The message's status in the abstract specification.
MessageState(r) ==
  IF Present(<<"request", r>>) THEN msgs[<<"request", r>>].status
  ELSE IF phase[r] = "waiting" \/ result[r] = "notSent" THEN "unsent"
  ELSE "gone"

Abstract == INSTANCE OutgoingMessage WITH
  Message <- Request, Dm <- Dm,
  state <- [r \in Request |-> MessageState(r)],
  transmissions <- sent, heard <- heard

\* The threads, locks and tables above keep every promise of OutgoingMessage.
ImplementsOutgoingMessage == Abstract!Spec

\* A send that holds the lock is answered, and the lock is free again,
\* although its packets' callbacks keep arriving.
SendReturns ==
  \A r \in Request : phase[r] = "recorded" ~> phase[r] = "returned"

\* README.md:622 describes the status of a DM as going from [sendt] to [ACK]
\* and on to [levert] or [feila]: on the event stream a report is never followed
\* by "sendt" again.
AnnouncedInOrder ==
  [][\A r \in Request :
       announced[r] \in Report => announced'[r] # "sendt"]_announced
=============================================================================
