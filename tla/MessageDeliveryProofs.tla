----------------------- MODULE MessageDeliveryProofs -----------------------
(***************************************************************************)
(* Proofs about MessageDelivery, for every set of requests and every bound: *)
(* its invariants, and that it implements OutgoingMessage.                  *)
(***************************************************************************)
EXTENDS MessageDelivery, TLAPS, SequenceTheorems

-----------------------------------------------------------------------------
(* Lemmas about the operators of the model *)

\* A row that is inserted leaves the table well typed, whatever is pruned.
LEMMA InsertType ==
  ASSUME NEW key \in Key, NEW row \in Row,
         msgs \in [Key -> Row \cup {Absent}],
         Insert(key, row)
  PROVE  msgs' \in [Key -> Row \cup {Absent}]
BY DEF Insert, Without

\* Dropping rows leaves the table well typed.
LEMMA WithoutType ==
  ASSUME NEW gone, NEW table \in [Key -> Row \cup {Absent}]
  PROVE  Without(table, gone) \in [Key -> Row \cup {Absent}]
BY DEF Without

\* A call of update_message_status that starts is a job.
LEMMA StatusUpdateType ==
  ASSUME NEW r \in Request, NEW report \in Report
  PROVE  StatusUpdate(r, report) \in Job
BY DEF StatusUpdate, Idle, Job, Report

\* What a report may replace is a status a completed row can have.
LEMMA ReplaceableType ==
  ASSUME NEW report \in Report
  PROVE  Replaceable(report) \subseteq {"sendt", "ACK", "feila"}
BY DEF Replaceable, Report

\* The shared variables of a send stay well typed when one field changes.
LEMMA CallType ==
  ASSUME NEW c \in Call, NEW b \in BOOLEAN, NEW e \in Report
  PROVE  /\ [c EXCEPT !.id = b] \in Call
         /\ [c EXCEPT !.stored = b] \in Call
         /\ [c EXCEPT !.waiting = b] \in Call
         /\ [c EXCEPT !.waiting = b, !.early = e] \in Call
BY DEF Call

\* A thread that is not in update_message_status has a job's type.
LEMMA IdleType == Idle \in Job
BY DEF Idle, Job, Report

\* Routing packets and echoes of a request are packets.
LEMMA PacketType ==
  ASSUME NEW r \in Request, NEW report \in Report
  PROVE  Routing(r, report) \in Packet /\ Echo(r) \in Packet
BY DEF Routing, Echo, Packet, Report

\* A queue that is not empty has a packet at its head and a queue behind it.
LEMMA QueueType ==
  ASSUME NEW q \in Seq(Packet), q # <<>>
  PROVE  Head(q) \in Packet /\ Tail(q) \in Seq(Packet)
BY HeadTailProperties

\* A queue of packets with one packet more is a queue of packets.
LEMMA AppendType ==
  ASSUME NEW q \in Seq(Packet), NEW p \in Packet
  PROVE  Append(q, p) \in Seq(Packet)
BY AppendProperties

\* What a thread does with a packet keeps the table and the jobs well typed.
LEMMA ReceiveType ==
  ASSUME TypeOK, NEW t \in Thread, NEW packet \in Packet, Receive(t, packet)
  PROVE  /\ msgs' \in [Key -> Row \cup {Absent}]
         /\ job' \in [Thread -> Job]
<1>1. packet.req \in Request /\ packet.report \in Report
  BY DEF Packet, Report
<1>2. CASE packet.kind = "routing"
  BY <1>1, <1>2, StatusUpdateType DEF Receive, TypeOK
<1>3. CASE packet.kind # "routing" /\ UNCHANGED msgs
  BY <1>3 DEF Receive, TypeOK
<1>4. CASE packet.kind # "routing" /\ ~ UNCHANGED msgs
  <2>1. PICK wantAck \in BOOLEAN :
          Insert(<<"echo", packet.req>>,
                 [status |-> "sendt", packet |-> TRUE, wantAck |-> wantAck])
    BY <1>4 DEF Receive, ReceiveEcho
  <2>2. [status |-> "sendt", packet |-> TRUE, wantAck |-> wantAck] \in Row
    BY DEF Row, Status
  <2>3. <<"echo", packet.req>> \in Key
    BY <1>1 DEF Key
  <2>4. msgs' \in [Key -> Row \cup {Absent}]
    BY <2>1, <2>2, <2>3, InsertType DEF TypeOK
  <2>5. UNCHANGED job
    BY <1>4 DEF Receive
  <2>6. QED
    BY <2>4, <2>5 DEF TypeOK
<1>5. QED
  BY <1>2, <1>3, <1>4

\* A thread that is in update_message_status works for a request.
LEMMA JobType ==
  ASSUME TypeOK, NEW t \in Thread, job[t].step # "idle"
  PROVE  /\ job[t] \in [step : {"select", "write", "publish"}, req : Request,
                        report : Report, target : {"request", "echo"}]
         /\ job[t].req \in Request
         /\ job[t].report \in Report
BY DEF TypeOK, Job, Idle

\* A thread that finishes keeps the jobs and the queue well typed.
LEMMA FinishType ==
  ASSUME TypeOK, NEW t \in Thread, job[t].step # "idle", Finish(t)
  PROVE  job' \in [Thread -> Job] /\ pubq' \in Seq(Packet)
<1>1. job[t].req \in Request /\ job[t].report \in Report
  BY JobType
<1>2. Routing(job[t].req, job[t].report) \in Packet
  BY <1>1, PacketType
<1>3. QED
  BY <1>2, IdleType, AppendType DEF Finish, TypeOK

-----------------------------------------------------------------------------
(* Type correctness *)

\* The daemon's first state is well typed.
LEMMA InitType == Init => TypeOK
<1>1. SUFFICES ASSUME Init PROVE TypeOK
  OBVIOUS
<1>2. Fresh \in Call
  BY DEF Fresh, Call
<1>3. 0 \in 0..MaxCrashes
  BY BoundAssumption
<1>4. QED
  BY <1>1, <1>2, <1>3, IdleType DEF Init, TypeOK, Phases, Results

\* Every step of _send and _send_impl keeps the variables well typed.
LEMMA SenderType ==
  ASSUME TypeOK, NEW r \in Request, Sender(r)
  PROVE  TypeOK'
<1> USE DEF vars, dbVars, sendVars, obsVars
<1>1. CASE Refuse(r)
  BY <1>1 DEF Refuse, TypeOK, Phases, Results
<1>2. CASE Record(r)
  <2>1. <<"request", r>> \in Key
    BY DEF Key
  <2>2. [status |-> "uviss", packet |-> FALSE, wantAck |-> r \in Dm] \in Row
    BY DEF Row, Status
  <2>3. msgs' \in [Key -> Row \cup {Absent}]
    BY <1>2, <2>1, <2>2, InsertType DEF Record, TypeOK
  <2>4. QED
    BY <1>2, <2>3 DEF Record, TypeOK, Phases
<1>3. CASE Transmit(r)
  <2>1. (r \in Dm) \in BOOLEAN
    OBVIOUS
  <2>2. [call[r] EXCEPT !.waiting = r \in Dm] \in Call
    BY <2>1, CallType DEF TypeOK, Report
  <2>3. call' \in [Request -> Call]
    BY <1>3, <2>2 DEF Transmit, TypeOK
  <2>4. QED
    BY <1>3, <2>3 DEF Transmit, TypeOK, Phases
<1>4. CASE SendTextReturns(r)
  <2>1. call' \in [Request -> Call]
    <3>1. PICK known \in BOOLEAN : call' = [call EXCEPT ![r].id = known]
      BY <1>4 DEF SendTextReturns
    <3>2. [call[r] EXCEPT !.id = known] \in Call
      BY CallType DEF TypeOK, Report
    <3>3. QED
      BY <3>1, <3>2 DEF TypeOK
  <2>2. QED
    BY <1>4, <2>1 DEF SendTextReturns, TypeOK, Phases
<1>5. CASE Complete(r)
  <2>1. msgs[<<"request", r>>] \in Row
    BY <1>5 DEF Complete, Present, TypeOK, Key, Absent
  <2>2. msgs' \in [Key -> Row \cup {Absent}]
    BY <1>5, <2>1 DEF Complete, TypeOK, Row, Status, Call
  <2>3. QED
    BY <1>5, <2>2 DEF Complete, TypeOK, Phases
<1>6. CASE Uncertain(r)
  BY <1>6 DEF Uncertain, TypeOK, Phases, Results, Status
<1>7. CASE Settle(r)
  <2>1. call' \in [Request -> Call]
    <3>1. [call[r] EXCEPT !.stored = TRUE] \in Call
      BY CallType DEF TypeOK, Report
    <3> QED BY <1>7, <3>1 DEF Settle, TypeOK
  <2>2. call[r].early # "none" => call[r].early \in Report
    BY DEF TypeOK, Call
  <2>3. job' \in [Thread -> Job]
    BY <1>7, <2>2, StatusUpdateType DEF Settle, TypeOK
  <2>4. QED
    BY <1>7, <2>1, <2>3 DEF Settle, TypeOK, Phases
<1>8. CASE Announce(r)
  <2>1. call[r].early # "none" => call[r].early \in Status
    BY DEF TypeOK, Call, Status
  <2>2. announced' \in [Request -> Status \cup {"none"}]
    BY <1>8, <2>1 DEF Announce, TypeOK, Status
  <2>3. QED
    BY <1>8, <2>2 DEF Announce, TypeOK, Phases, Results
<1>9. CASE Replay(r)
  <2>1. Head(deferred) \in Packet /\ Tail(deferred) \in Seq(Packet)
    BY <1>9, QueueType DEF Replay, TypeOK
  <2>2. "sender" \in Thread
    BY DEF Thread
  <2>3. /\ msgs' \in [Key -> Row \cup {Absent}]
        /\ job' \in [Thread -> Job]
    BY <1>9, <2>1, <2>2, ReceiveType DEF Replay
  <2>4. QED
    BY <1>9, <2>1, <2>3 DEF Replay, TypeOK
<1>10. CASE Release(r)
  BY <1>10 DEF Release, TypeOK, Phases
<1>11. QED
  BY <1>1, <1>2, <1>3, <1>4, <1>5, <1>6, <1>7, <1>8, <1>9, <1>10 DEF Sender

\* So does every step of update_message_status, on whichever thread.
LEMMA UpdateType ==
  ASSUME TypeOK, NEW t \in Thread, Update(t)
  PROVE  TypeOK'
<1> USE DEF vars, dbVars, sendVars, obsVars
<1> DEFINE working == [step : {"select", "write", "publish"}, req : Request,
                       report : Report, target : {"request", "echo"}]
<1>1. job[t] \in working /\ job[t].req \in Request /\ job[t].report \in Report
  BY JobType DEF Update, Select, Write, PublishStatus, UpdateFails
<1>2. CASE Select(t)
  <2>1. CASE Candidates(t) = {} /\ Took(t) /\ Finish(t)
    BY <1>1, <1>2, <2>1, FinishType DEF Select, Took, TypeOK
  <2>2. CASE \E target \in Candidates(t) :
               /\ job' = [job EXCEPT ![t].step = "write", ![t].target = target]
               /\ UNCHANGED <<pubq, handled>>
    <3>1. PICK target \in {"request", "echo"} :
            job' = [job EXCEPT ![t].step = "write", ![t].target = target]
      BY <2>2 DEF Candidates
    <3>2. [job[t] EXCEPT !.step = "write", !.target = target] \in working
      BY <1>1
    <3>3. job' \in [Thread -> Job]
      BY <3>1, <3>2 DEF TypeOK, Job
    <3>4. QED
      BY <1>2, <2>2, <3>3 DEF Select, TypeOK
  <2>3. QED
    BY <1>2, <2>1, <2>2 DEF Select
<1>3. CASE Write(t)
  <2> DEFINE key == <<job[t].target, job[t].req>>
  <2>1. key \in Key
    BY <1>1 DEF Key
  <2>2. handled' \in [Request -> SUBSET Report]
    BY <1>1, <1>3 DEF Write, Took, TypeOK
  <2>3. CASE msgs[key].status \in Replaceable(job[t].report)
    <3>1. msgs[key] \in Row
      <4>1. msgs[key].status # "absent"
        BY <1>1, <2>3, ReplaceableType
      <4>2. msgs[key] \in Row \cup {Absent}
        BY <2>1 DEF TypeOK
      <4>3. QED
        BY <4>1, <4>2 DEF Absent
    <3>2. msgs' \in [Key -> Row \cup {Absent}]
      <4>1. msgs' = [msgs EXCEPT ![key].status = job[t].report]
        BY <1>3, <2>3 DEF Write
      <4>2. [msgs[key] EXCEPT !.status = job[t].report] \in Row
        BY <1>1, <3>1 DEF Row, Status
      <4>3. QED
        BY <4>1, <4>2 DEF TypeOK
    <3>3. job' \in [Thread -> Job]
      <4>1. job' = [job EXCEPT ![t].step = "publish"]
        BY <1>3, <2>3 DEF Write
      <4>2. [job[t] EXCEPT !.step = "publish"] \in working
        BY <1>1
      <4>3. QED
        BY <4>1, <4>2 DEF TypeOK, Job
    <3>4. QED
      BY <1>3, <2>2, <2>3, <3>2, <3>3 DEF Write, TypeOK
  <2>4. CASE msgs[key].status \notin Replaceable(job[t].report)
    <3>1. Finish(t) /\ UNCHANGED msgs
      BY <1>3, <2>4 DEF Write
    <3>2. job' \in [Thread -> Job] /\ pubq' \in Seq(Packet)
      BY <1>3, <3>1, FinishType DEF Write
    <3>3. QED
      BY <1>3, <2>2, <3>1, <3>2 DEF Write, TypeOK
  <2>5. QED
    BY <2>3, <2>4
<1>4. CASE PublishStatus(t)
  <2>1. job' \in [Thread -> Job] /\ pubq' \in Seq(Packet)
    BY <1>4, FinishType DEF PublishStatus
  <2>2. QED
    BY <1>1, <1>4, <2>1 DEF PublishStatus, TypeOK, Status
<1>5. CASE UpdateFails(t)
  <2>1. job' \in [Thread -> Job] /\ pubq' \in Seq(Packet)
    BY <1>5, FinishType DEF UpdateFails
  <2>2. phase' \in [Request -> Phases] /\ result' \in [Request -> Results]
    BY <1>5 DEF UpdateFails, TypeOK, Phases, Results
  <2>3. QED
    BY <1>5, <2>1, <2>2 DEF UpdateFails, TypeOK
<1>6. QED
  BY <1>2, <1>3, <1>4, <1>5 DEF Update

\* So does whatever the radio and the SDK's reader thread do.
LEMMA RadioType ==
  ASSUME TypeOK, NEW r \in Request, Radio(r)
  PROVE  TypeOK'
<1> USE DEF vars, dbVars, sendVars, obsVars
<1>1. ASSUME NEW report \in Reports, ReaderRouting(r, report)
      PROVE  TypeOK'
  <2>1. report \in Report
    BY ReportAssumption
  <2>2. heard' \in [Request -> SUBSET Report]
    BY <1>1, <2>1 DEF ReaderRouting, TypeOK
  <2>3. job' \in [Thread -> Job]
    BY <1>1, <2>1, StatusUpdateType DEF ReaderRouting, TypeOK
  <2>4. pubq' \in Seq(Packet)
    BY <1>1, <2>1, PacketType, AppendType DEF ReaderRouting, TypeOK
  <2>5. call' \in [Request -> Call]
    <3>1. [call[r] EXCEPT !.waiting = FALSE, !.early = report] \in Call
      BY <2>1, CallType DEF TypeOK
    <3>2. [call[r] EXCEPT !.waiting = FALSE, !.early = @] \in Call
      BY DEF TypeOK, Call
    <3>3. QED
      BY <1>1, <3>1, <3>2 DEF ReaderRouting, TypeOK
  <2>6. QED
    BY <1>1, <2>2, <2>3, <2>4, <2>5 DEF ReaderRouting, TypeOK
<1>2. CASE ReaderEcho(r)
  <2>1. Echo(r) \in Packet
    BY DEF Echo, Packet, Report
  <2>2. pubq' \in Seq(Packet)
    BY <1>2, <2>1, AppendType DEF ReaderEcho, TypeOK
  <2>3. QED
    BY <1>2, <2>2 DEF ReaderEcho, TypeOK
<1>3. CASE InsideSendText(r)
  <2>1. CASE \E report \in Reports :
               /\ heard' = [heard EXCEPT ![r] = @ \cup {report}]
               /\ deferred' = Append(deferred, Routing(r, report))
               /\ call' = IF call[r].waiting
                          THEN [call EXCEPT ![r].waiting = FALSE,
                                            ![r].early = report]
                          ELSE call
    <3>1. PICK report \in Report :
               /\ heard' = [heard EXCEPT ![r] = @ \cup {report}]
               /\ deferred' = Append(deferred, Routing(r, report))
               /\ call' = IF call[r].waiting
                          THEN [call EXCEPT ![r].waiting = FALSE,
                                            ![r].early = report]
                          ELSE call
      BY <2>1, ReportAssumption
    <3>2. deferred' \in Seq(Packet)
      BY <3>1, PacketType, AppendType DEF TypeOK
    <3>3. call' \in [Request -> Call]
      <4>1. [call[r] EXCEPT !.waiting = FALSE, !.early = report] \in Call
        BY CallType DEF TypeOK
      <4> QED BY <3>1, <4>1 DEF TypeOK
    <3>4. QED
      BY <1>3, <3>1, <3>2, <3>3 DEF InsideSendText, TypeOK
  <2>2. CASE deferred' = Append(deferred, Echo(r)) /\ UNCHANGED <<heard, call>>
    <3>1. Echo(r) \in Packet
      BY DEF Echo, Packet, Report
    <3>2. deferred' \in Seq(Packet)
      BY <2>2, <3>1, AppendType DEF TypeOK
    <3>3. QED
      BY <1>3, <2>2, <3>2 DEF InsideSendText, TypeOK
  <2>3. QED
    BY <1>3, <2>1, <2>2 DEF InsideSendText
<1>4. QED
  BY <1>1, <1>2, <1>3 DEF Radio

\* So does every step of the daemon, its user and its crashes.
LEMMA NextType == TypeOK /\ [Next]_vars => TypeOK'
<1> USE DEF vars, dbVars, sendVars, obsVars
<1> SUFFICES ASSUME TypeOK, [Next]_vars PROVE TypeOK'
  OBVIOUS
<1>1. ASSUME NEW r \in Request, Sender(r) \/ Radio(r)
      PROVE  TypeOK'
  BY <1>1, SenderType, RadioType
<1>2. ASSUME NEW t \in Thread, Update(t)
      PROVE  TypeOK'
  BY <1>2, UpdateType
<1>3. CASE Publish
  <2>1. Head(pubq) \in Packet /\ Tail(pubq) \in Seq(Packet)
    BY <1>3, QueueType DEF Publish, TypeOK
  <2>2. /\ msgs' \in [Key -> Row \cup {Absent}]
        /\ job' \in [Thread -> Job]
    BY <1>3, <2>1, ReceiveType DEF Publish, Thread
  <2>3. QED
    BY <1>3, <2>1, <2>2 DEF Publish, TypeOK
<1>4. CASE Drop
  BY <1>4, QueueType DEF Drop, TypeOK
<1>5. CASE Traffic
  BY <1>5, WithoutType DEF Traffic, TypeOK
<1>6. CASE DeleteMessages
  BY <1>6, WithoutType DEF DeleteMessages, TypeOK
<1>7. CASE Crash
  <2>1. Fresh \in Call
    BY DEF Fresh, Call
  <2>2. crashes' \in 0..MaxCrashes
    BY <1>7, BoundAssumption DEF Crash, TypeOK
  <2>3. QED
    BY <1>7, <2>1, <2>2, IdleType DEF Crash, TypeOK, Phases, Results
<1>8. CASE UNCHANGED vars
  BY <1>8 DEF TypeOK
<1>9. QED
  BY <1>1, <1>2, <1>3, <1>4, <1>5, <1>6, <1>7, <1>8 DEF Next

\* Every variable of the send path keeps its type: in particular no thread
\* ever works on a packet without a request, and no row is half removed.
THEOREM TypeCorrect == Spec => []TypeOK
BY InitType, NextType, PTL DEF Spec

-----------------------------------------------------------------------------
(* OnlyWhatWasHeard.  It is not inductive: a report is on its way in        *)
(* early_status, in a queue or in a thread before it reaches a row.         *)

Told(q) == \A i \in 1..Len(q) :
             q[i].kind = "routing" => q[i].report \in heard[q[i].req]

\* The inductive invariant: wherever a report is, the mesh has made it.
HeardInv ==
  /\ OnlyWhatWasHeard
  /\ \A r \in Request : call[r].early \in Report => call[r].early \in heard[r]
  /\ \A t \in Thread : job[t].step # "idle" => job[t].report \in heard[job[t].req]
  /\ Told(pubq)
  /\ Told(deferred)

\* Nothing that was heard is forgotten, so a queue stays told.
LEMMA ToldStays ==
  ASSUME NEW q \in Seq(Packet), Told(q),
         \A r \in Request : heard[r] \subseteq heard'[r]
  PROVE  \A i \in 1..Len(q) :
           q[i].kind = "routing" => q[i].report \in heard'[q[i].req]
<1>1. \A i \in 1..Len(q) : q[i] \in Packet
  BY ElementOfSeq
<1>2. \A i \in 1..Len(q) : q[i].req \in Request
  BY <1>1 DEF Packet
<1>3. QED
  BY <1>2 DEF Told

\* A packet that is appended must have been heard.
LEMMA ToldAppend ==
  ASSUME NEW q \in Seq(Packet), NEW p \in Packet, NEW h,
         \A i \in 1..Len(q) : q[i].kind = "routing" => q[i].report \in h[q[i].req],
         p.kind = "routing" => p.report \in h[p.req]
  PROVE  \A i \in 1..Len(Append(q, p)) :
           Append(q, p)[i].kind = "routing"
             => Append(q, p)[i].report \in h[Append(q, p)[i].req]
BY AppendProperties

\* The head of a told queue was heard, and the tail is told.
LEMMA ToldHeadTail ==
  ASSUME NEW q \in Seq(Packet), q # <<>>, Told(q)
  PROVE  /\ Head(q).kind = "routing" => Head(q).report \in heard[Head(q).req]
         /\ Told(Tail(q))
BY HeadTailProperties DEF Told

\* A thread that receives a packet works on a report that was heard.
LEMMA ReceiveHeard ==
  ASSUME TypeOK, HeardInv, UNCHANGED heard,
         NEW t \in Thread, NEW packet \in Packet, Receive(t, packet),
         packet.kind = "routing" => packet.report \in heard[packet.req]
  PROVE  /\ OnlyWhatWasHeard'
         /\ \A u \in Thread :
              job'[u].step # "idle" => job'[u].report \in heard[job'[u].req]
<1>1. CASE packet.kind = "routing"
  <2>1. UNCHANGED msgs
        /\ job' = [job EXCEPT ![t] = StatusUpdate(packet.req, packet.report)]
    BY <1>1 DEF Receive
  <2>2. /\ StatusUpdate(packet.req, packet.report).req = packet.req
        /\ StatusUpdate(packet.req, packet.report).report = packet.report
    BY DEF StatusUpdate, Idle
  <2>3. QED
    BY <1>1, <2>1, <2>2 DEF HeardInv, OnlyWhatWasHeard, TypeOK
<1>2. CASE packet.kind # "routing"
  <2>1. UNCHANGED job /\ ReceiveEcho(packet.req)
    BY <1>2 DEF Receive
  <2>2. CASE UNCHANGED msgs
    BY <2>1, <2>2 DEF HeardInv, OnlyWhatWasHeard
  <2>3. CASE ~ UNCHANGED msgs
    <3>1. PICK wantAck \in BOOLEAN :
            Insert(<<"echo", packet.req>>,
                   [status |-> "sendt", packet |-> TRUE, wantAck |-> wantAck])
      BY <2>1, <2>3 DEF ReceiveEcho
    <3>2. \A k \in Key : msgs'[k].status \in {msgs[k].status, "sendt", "absent"}
      BY <3>1 DEF Insert, Without, TypeOK, Absent
    <3>3. OnlyWhatWasHeard'
      BY <3>2 DEF HeardInv, OnlyWhatWasHeard, Report
    <3>4. QED
      BY <2>1, <3>3 DEF HeardInv
  <2>4. QED
    BY <2>2, <2>3
<1>3. QED
  BY <1>1, <1>2

\* The report a finishing reader passes on was heard.
LEMMA FinishHeard ==
  ASSUME TypeOK, HeardInv, UNCHANGED heard,
         NEW t \in Thread, job[t].step # "idle", Finish(t)
  PROVE  /\ Told(pubq)'
         /\ \A u \in Thread :
              job'[u].step # "idle" => job'[u].report \in heard[job'[u].req]
<1>1. job[t].req \in Request /\ job[t].report \in Report
  BY JobType
<1>2. /\ Routing(job[t].req, job[t].report) \in Packet
      /\ Routing(job[t].req, job[t].report).req = job[t].req
      /\ Routing(job[t].req, job[t].report).report = job[t].report
  BY <1>1, PacketType DEF Routing
<1>3. Told(pubq)'
  <2>1. CASE t = "reader"
    <3>1. /\ pubq \in Seq(Packet)
          /\ pubq' = Append(pubq, Routing(job[t].req, job[t].report))
      BY <2>1 DEF Finish, TypeOK
    <3>2. job[t].report \in heard[job[t].req]
      BY DEF HeardInv
    <3>3. \A i \in 1..Len(pubq) :
            pubq[i].kind = "routing" => pubq[i].report \in heard[pubq[i].req]
      BY DEF HeardInv, Told
    <3> QED BY <1>2, <3>1, <3>2, <3>3, ToldAppend DEF Told
  <2>2. CASE t # "reader"
    BY <2>2 DEF Finish, HeardInv, Told
  <2>3. QED
    BY <2>1, <2>2
<1>4. QED
  BY <1>3 DEF Finish, HeardInv, TypeOK, Idle

\* No step of _send and _send_impl makes a report up.
LEMMA SenderHeard ==
  ASSUME TypeOK, HeardInv, NEW r \in Request, Sender(r)
  PROVE  HeardInv'
<1> USE DEF vars, dbVars, sendVars, obsVars
<1>1. CASE Refuse(r)
  BY <1>1 DEF Refuse, HeardInv, OnlyWhatWasHeard, Told
<1>2. CASE Record(r)
  <2>1. \A k \in Key : msgs'[k].status \in {msgs[k].status, "uviss", "absent"}
    BY <1>2 DEF Record, Insert, Without, TypeOK, Absent
  <2>2. OnlyWhatWasHeard'
    BY <1>2, <2>1 DEF Record, HeardInv, OnlyWhatWasHeard, Report
  <2>3. QED
    BY <1>2, <2>2 DEF Record, HeardInv, Told
<1>3. CASE Transmit(r)
  <2>1. \A q \in Request : call'[q].early = call[q].early
    BY <1>3 DEF Transmit, TypeOK, Call
  <2>2. QED
    BY <1>3, <2>1 DEF Transmit, HeardInv, OnlyWhatWasHeard, Told
<1>4. CASE SendTextReturns(r)
  <2>1. \A q \in Request : call'[q].early = call[q].early
    BY <1>4 DEF SendTextReturns, TypeOK, Call
  <2>2. QED
    BY <1>4, <2>1 DEF SendTextReturns, HeardInv, OnlyWhatWasHeard, Told
<1>5. CASE Complete(r)
  <2>1. \A k \in Key : msgs'[k].status \in {msgs[k].status, "sendt"}
    <3>1. msgs[<<"request", r>>] \in Row
      BY <1>5 DEF Complete, Present, TypeOK, Key, Absent
    <3>2. [msgs[<<"request", r>>] EXCEPT !.status = "sendt",
                                         !.packet = call[r].id].status = "sendt"
      BY <3>1 DEF Row
    <3>3. QED
      BY <1>5, <3>2 DEF Complete, TypeOK
  <2>2. OnlyWhatWasHeard'
    BY <1>5, <2>1 DEF Complete, HeardInv, OnlyWhatWasHeard, Report
  <2>3. QED
    BY <1>5, <2>2 DEF Complete, HeardInv, Told
<1>6. CASE Uncertain(r)
  BY <1>6 DEF Uncertain, HeardInv, OnlyWhatWasHeard, Told
<1>7. CASE Settle(r)
  <2>1. \A q \in Request : call'[q].early = call[q].early
    BY <1>7 DEF Settle, TypeOK, Call
  <2>2. call[r].early # "none" => call[r].early \in heard[r]
    BY DEF HeardInv, TypeOK, Call
  <2>3. /\ StatusUpdate(r, call[r].early).req = r
        /\ StatusUpdate(r, call[r].early).report = call[r].early
    BY DEF StatusUpdate, Idle
  <2>4. \A t \in Thread :
          job'[t].step # "idle" => job'[t].report \in heard[job'[t].req]
    BY <1>7, <2>2, <2>3 DEF Settle, HeardInv, TypeOK
  <2>5. QED
    BY <1>7, <2>1, <2>4 DEF Settle, HeardInv, OnlyWhatWasHeard, Told
<1>8. CASE Announce(r)
  BY <1>8 DEF Announce, HeardInv, OnlyWhatWasHeard, Told
<1>9. CASE Replay(r)
  <2>1. Head(deferred) \in Packet
    BY <1>9, QueueType DEF Replay, TypeOK
  <2>2. /\ Head(deferred).kind = "routing"
             => Head(deferred).report \in heard[Head(deferred).req]
        /\ Told(Tail(deferred))
    BY <1>9, ToldHeadTail DEF Replay, TypeOK, HeardInv
  <2>3. /\ OnlyWhatWasHeard'
        /\ \A u \in Thread :
             job'[u].step # "idle" => job'[u].report \in heard[job'[u].req]
    BY <1>9, <2>1, <2>2, ReceiveHeard DEF Replay, Thread
  <2>4. QED
    BY <1>9, <2>2, <2>3 DEF Replay, HeardInv, Told
<1>10. CASE Release(r)
  BY <1>10 DEF Release, HeardInv, OnlyWhatWasHeard, Told
<1>11. QED
  BY <1>1, <1>2, <1>3, <1>4, <1>5, <1>6, <1>7, <1>8, <1>9, <1>10 DEF Sender

\* update_message_status stores the report it was called with, on a row of its packet.
LEMMA UpdateHeard ==
  ASSUME TypeOK, HeardInv, NEW t \in Thread, Update(t)
  PROVE  HeardInv'
<1> USE DEF vars, dbVars, sendVars, obsVars
<1>1. /\ job[t].step # "idle"
      /\ job[t].req \in Request /\ job[t].report \in Report
      /\ UNCHANGED <<heard, call, deferred>>
  BY JobType DEF Update, Select, Write, PublishStatus, UpdateFails
<1>2. Told(deferred)'
  BY <1>1 DEF HeardInv, Told
<1>3. CASE Finish(t) /\ UNCHANGED msgs
  BY <1>1, <1>2, <1>3, FinishHeard DEF HeardInv, OnlyWhatWasHeard
<1>4. CASE Select(t) /\ ~ Finish(t)
  <2>1. PICK target \in {"request", "echo"} :
          job' = [job EXCEPT ![t].step = "write", ![t].target = target]
    BY <1>4 DEF Select, Candidates
  <2>2. \A u \in Thread :
          job'[u].report = job[u].report /\ job'[u].req = job[u].req
    <3>1. job[t] \in [step : {"select", "write", "publish"}, req : Request,
                      report : Report, target : {"request", "echo"}]
      BY <1>1, JobType
    <3>2. [job[t] EXCEPT !.step = "write", !.target = target].report = job[t].report
          /\ [job[t] EXCEPT !.step = "write", !.target = target].req = job[t].req
      BY <3>1
    <3>3. QED
      BY <2>1, <3>2 DEF TypeOK
  <2>3. \A u \in Thread : job'[u].step # "idle" => job[u].step # "idle"
    BY <1>1, <2>1 DEF TypeOK
  <2>4. UNCHANGED <<msgs, pubq>>
    BY <1>4 DEF Select
  <2>5. QED
    BY <1>1, <1>2, <2>2, <2>3, <2>4 DEF HeardInv, OnlyWhatWasHeard, Told
<1>5. CASE Write(t) /\ ~ (Finish(t) /\ UNCHANGED msgs)
  <2> DEFINE key == <<job[t].target, job[t].req>>
  <2>1. /\ msgs' = [msgs EXCEPT ![key].status = job[t].report]
        /\ job' = [job EXCEPT ![t].step = "publish"]
        /\ UNCHANGED pubq
    BY <1>5 DEF Write
  <2>2. job[t].report \in heard[job[t].req]
    BY <1>1 DEF HeardInv
  <2>3. \A k \in Key : msgs'[k].status = msgs[k].status
                       \/ (k = key /\ msgs'[k].status = job[t].report)
    <3>1. msgs[key] \in Row
      <4>1. msgs[key].status # "absent"
        BY <1>1, <1>5, ReplaceableType DEF Write
      <4>2. msgs[key] \in Row \cup {Absent}
        BY <1>1, JobType DEF TypeOK, Key
      <4>3. QED
        BY <4>1, <4>2 DEF Absent
    <3>2. [msgs[key] EXCEPT !.status = job[t].report].status = job[t].report
      BY <3>1 DEF Row
    <3>3. QED
      BY <2>1, <3>2 DEF TypeOK
  <2>4. key[2] = job[t].req
    OBVIOUS
  <2>5. OnlyWhatWasHeard'
    BY <1>1, <2>2, <2>3, <2>4 DEF HeardInv, OnlyWhatWasHeard
  <2>6. \A u \in Thread : /\ job'[u].report = job[u].report
                          /\ job'[u].req = job[u].req
                          /\ job'[u].step # "idle" => job[u].step # "idle"
    <3>1. job[t] \in [step : {"select", "write", "publish"}, req : Request,
                      report : Report, target : {"request", "echo"}]
      BY <1>1, JobType
    <3>2. [job[t] EXCEPT !.step = "publish"].report = job[t].report
          /\ [job[t] EXCEPT !.step = "publish"].req = job[t].req
      BY <3>1
    <3>3. QED
      BY <1>1, <2>1, <3>2 DEF TypeOK
  <2>7. QED
    BY <1>1, <1>2, <2>1, <2>5, <2>6 DEF HeardInv, Told
<1>6. QED
  BY <1>3, <1>4, <1>5 DEF Update, Select, Write, PublishStatus, UpdateFails

\* What the reader thread takes from the radio has been heard.
LEMMA RadioHeard ==
  ASSUME TypeOK, HeardInv, NEW r \in Request, Radio(r)
  PROVE  HeardInv'
<1> USE DEF vars, dbVars, sendVars, obsVars
<1>1. ASSUME NEW report \in Reports, ReaderRouting(r, report)
      PROVE  HeardInv'
  <2>1. /\ heard' = [heard EXCEPT ![r] = @ \cup {report}]
        /\ UNCHANGED <<msgs, deferred>>
    BY <1>1 DEF ReaderRouting
  <2>2. /\ \A q \in Request : heard[q] \subseteq heard'[q]
        /\ report \in heard'[r]
        /\ report \in Report
    BY <2>1, ReportAssumption DEF TypeOK
  <2>3. OnlyWhatWasHeard'
    BY <2>1, <2>2 DEF HeardInv, OnlyWhatWasHeard, Key
  <2>4. Told(deferred)'
    BY <2>1, <2>2, ToldStays DEF HeardInv, TypeOK, Told
  <2>5. \A q \in Request : call'[q].early \in {call[q].early, report}
                           /\ (q # r => call'[q].early = call[q].early)
    <3>1. [call[r] EXCEPT !.waiting = FALSE, !.early = report].early = report
          /\ [call[r] EXCEPT !.waiting = FALSE, !.early = @].early = call[r].early
      BY DEF TypeOK, Call
    <3>2. QED
      BY <1>1, <3>1 DEF ReaderRouting, TypeOK
  <2>6. \A q \in Request :
          call'[q].early \in Report => call'[q].early \in heard'[q]
    BY <2>2, <2>5 DEF HeardInv
  <2>7. Told(pubq)'
    <3>1. Told(pubq)' \/ pubq' = Append(pubq, Routing(r, report))
      BY <1>1, <2>2, ToldStays DEF ReaderRouting, HeardInv, TypeOK, Told
    <3>2. /\ Routing(r, report) \in Packet
          /\ Routing(r, report).report \in heard'[Routing(r, report).req]
      BY <2>2, PacketType DEF Routing
    <3>3. pubq' = Append(pubq, Routing(r, report)) => Told(pubq)'
      BY <2>2, <3>2, ToldStays, ToldAppend DEF HeardInv, TypeOK, Told
    <3>4. QED
      BY <3>1, <3>3
  <2>8. \A t \in Thread :
          job'[t].step # "idle" => job'[t].report \in heard'[job'[t].req]
    <3>1. /\ StatusUpdate(r, report).req = r
          /\ StatusUpdate(r, report).report = report
      BY DEF StatusUpdate, Idle
    <3>2. \A t \in Thread : job[t].step # "idle" => job[t].req \in Request
      BY JobType
    <3>3. job' = job \/ job' = [job EXCEPT !["reader"] = StatusUpdate(r, report)]
      BY <1>1 DEF ReaderRouting
    <3>4. QED
      BY <2>2, <3>1, <3>2, <3>3 DEF HeardInv, TypeOK
  <2>9. QED
    BY <2>3, <2>4, <2>6, <2>7, <2>8 DEF HeardInv
<1>2. CASE ReaderEcho(r)
  <2>1. Echo(r) \in Packet /\ Echo(r).kind # "routing"
    BY DEF Echo, Packet, Report
  <2>2. Told(pubq)'
    BY <1>2, <2>1, ToldAppend DEF ReaderEcho, HeardInv, TypeOK, Told
  <2>3. QED
    BY <1>2, <2>2 DEF ReaderEcho, HeardInv, OnlyWhatWasHeard, Told
<1>3. CASE InsideSendText(r)
  <2>1. ASSUME NEW report \in Reports,
               heard' = [heard EXCEPT ![r] = @ \cup {report}],
               deferred' = Append(deferred, Routing(r, report)),
               call' = IF call[r].waiting
                       THEN [call EXCEPT ![r].waiting = FALSE,
                                         ![r].early = report]
                       ELSE call
        PROVE  HeardInv'
    <3>1. UNCHANGED <<msgs, pubq, job>>
      BY <1>3 DEF InsideSendText
    <3>2. /\ \A q \in Request : heard[q] \subseteq heard'[q]
          /\ report \in heard'[r]
          /\ report \in Report
      BY <2>1, ReportAssumption DEF TypeOK
    <3>3. OnlyWhatWasHeard'
      BY <3>1, <3>2 DEF HeardInv, OnlyWhatWasHeard, Key
    <3>4. Told(pubq)'
      BY <3>1, <3>2, ToldStays DEF HeardInv, TypeOK, Told
    <3>5. \A q \in Request : call'[q].early \in {call[q].early, report}
                             /\ (q # r => call'[q].early = call[q].early)
      <4>1. [call[r] EXCEPT !.waiting = FALSE, !.early = report].early = report
        BY DEF TypeOK, Call
      <4>2. QED
        BY <2>1, <4>1 DEF TypeOK
    <3>6. \A q \in Request :
            call'[q].early \in Report => call'[q].early \in heard'[q]
      BY <3>2, <3>5 DEF HeardInv
    <3>7. /\ Routing(r, report) \in Packet
          /\ Routing(r, report).report \in heard'[Routing(r, report).req]
      BY <3>2, PacketType DEF Routing
    <3>8. Told(deferred)'
      BY <2>1, <3>2, <3>7, ToldStays, ToldAppend DEF HeardInv, TypeOK, Told
    <3>9. \A t \in Thread : job[t].step # "idle" => job[t].req \in Request
      BY JobType
    <3>10. QED
      BY <3>1, <3>2, <3>3, <3>4, <3>6, <3>8, <3>9 DEF HeardInv
  <2>2. CASE deferred' = Append(deferred, Echo(r)) /\ UNCHANGED <<heard, call>>
    <3>1. Echo(r) \in Packet /\ Echo(r).kind # "routing"
      BY DEF Echo, Packet, Report
    <3>2. Told(deferred)'
      BY <2>2, <3>1, ToldAppend DEF HeardInv, TypeOK, Told
    <3>3. QED
      BY <1>3, <2>2, <3>2 DEF InsideSendText, HeardInv, OnlyWhatWasHeard, Told
  <2>3. QED
    BY <1>3, <2>1, <2>2 DEF InsideSendText
<1>4. QED
  BY <1>1, <1>2, <1>3 DEF Radio

\* The strengthened invariant holds initially and is kept by every step.
LEMMA NextHeard == TypeOK /\ HeardInv /\ [Next]_vars => HeardInv'
<1> USE DEF vars, dbVars, sendVars, obsVars
<1> SUFFICES ASSUME TypeOK, HeardInv, [Next]_vars PROVE HeardInv'
  OBVIOUS
<1>1. ASSUME NEW r \in Request, Sender(r) \/ Radio(r)
      PROVE  HeardInv'
  BY <1>1, SenderHeard, RadioHeard
<1>2. ASSUME NEW t \in Thread, Update(t)
      PROVE  HeardInv'
  BY <1>2, UpdateHeard
<1>3. CASE Publish
  <2>1. Head(pubq) \in Packet
    BY <1>3, QueueType DEF Publish, TypeOK
  <2>2. /\ Head(pubq).kind = "routing"
             => Head(pubq).report \in heard[Head(pubq).req]
        /\ Told(Tail(pubq))
    BY <1>3, ToldHeadTail DEF Publish, TypeOK, HeardInv
  <2>3. /\ OnlyWhatWasHeard'
        /\ \A u \in Thread :
             job'[u].step # "idle" => job'[u].report \in heard[job'[u].req]
    BY <1>3, <2>1, <2>2, ReceiveHeard DEF Publish, Thread
  <2>4. QED
    BY <1>3, <2>2, <2>3 DEF Publish, HeardInv, Told
<1>4. CASE Drop
  <2>1. Told(Tail(pubq))
    BY <1>4, ToldHeadTail DEF Drop, TypeOK, HeardInv
  <2>2. QED
    BY <1>4, <2>1 DEF Drop, HeardInv, OnlyWhatWasHeard, Told
<1>5. CASE Traffic \/ DeleteMessages
  <2>1. \A k \in Key : msgs'[k].status \in {msgs[k].status, "absent"}
    BY <1>5 DEF Traffic, DeleteMessages, Without, Absent, TypeOK
  <2>2. OnlyWhatWasHeard'
    BY <1>5, <2>1 DEF Traffic, DeleteMessages, HeardInv, OnlyWhatWasHeard, Report
  <2>3. QED
    BY <1>5, <2>2 DEF Traffic, DeleteMessages, HeardInv, Told
<1>6. CASE Crash
  BY <1>6 DEF Crash, HeardInv, OnlyWhatWasHeard, Told, Fresh, Idle, Report
<1>7. CASE UNCHANGED vars
  BY <1>7 DEF HeardInv, OnlyWhatWasHeard, Told
<1>8. QED
  BY <1>1, <1>2, <1>3, <1>4, <1>5, <1>6, <1>7 DEF Next

\* In every reachable state all reports under way have been heard.
LEMMA AllHeard == Spec => []HeardInv
<1>1. Init => HeardInv
  BY DEF Init, HeardInv, OnlyWhatWasHeard, Told, Absent, Fresh, Idle, Report
<1>2. QED
  BY <1>1, NextHeard, TypeCorrect, PTL DEF Spec

\* No row ever claims an acknowledgement, a failure or a delivery that the
\* radio did not report for that very request: not after a crash, not from an
\* early report, not from another request's packet.
THEOREM ReportsAreHeard == Spec => []OnlyWhatWasHeard
<1>1. HeardInv => OnlyWhatWasHeard
  BY DEF HeardInv
<1>2. QED
  BY <1>1, AllHeard, PTL
-----------------------------------------------------------------------------
(* Lemmas about rows *)

\* The key of a request's own row, and of the row of its radio echo.
RequestKey(r) == <<"request", r>>
EchoKey(r) == <<"echo", r>>

\* The keys of a request are keys, and no two of them are the same.
LEMMA KeyType ==
  ASSUME NEW r \in Request
  PROVE  /\ RequestKey(r) \in Key /\ EchoKey(r) \in Key
         /\ \A q \in Request : /\ RequestKey(q) # EchoKey(r)
                               /\ RequestKey(q) = RequestKey(r) => q = r
                               /\ EchoKey(q) = EchoKey(r) => q = r
BY DEF RequestKey, EchoKey, Key

\* A row that has a status is a whole row; one without is the absent row.
LEMMA RowType ==
  ASSUME TypeOK, NEW k \in Key
  PROVE  /\ Present(k) => msgs[k] \in Row /\ msgs[k].status \in Status
         /\ ~ Present(k) => msgs[k] = Absent
         /\ msgs[k].packet \in BOOLEAN
<1>1. CASE msgs[k] \in Row
  <2>1. msgs[k].status \in Status /\ msgs[k].packet \in BOOLEAN
    BY <1>1 DEF Row
  <2>2. msgs[k].status # "absent"
    BY <2>1 DEF Status, Report
  <2>3. QED
    BY <1>1, <2>1, <2>2 DEF Present
<1>2. CASE msgs[k] = Absent
  BY <1>2 DEF Present, Absent
<1>3. QED
  BY <1>1, <1>2 DEF TypeOK

\* The row k is untouched, or the retention limit has dropped it.
Kept(k) ==
  msgs'[k] = msgs[k] \/ (Prunable(msgs[k]) /\ msgs'[k] = Absent)

\* An insertion writes its own row; every other one is kept or dropped.
LEMMA InsertRows ==
  ASSUME TypeOK, NEW key \in Key, NEW row, Insert(key, row)
  PROVE  /\ msgs'[key] = row
         /\ \A k \in Key \ {key} : Kept(k)
<1>1. PICK gone \in SUBSET {k \in Key \ {key} : Prunable(msgs[k])} :
        msgs' = Without([msgs EXCEPT ![key] = row], gone)
  BY DEF Insert
<1>2. QED
  BY <1>1 DEF Without, Kept, TypeOK

\* Receiving a packet touches no row but the echo of the packet's request, and
\* inserts that one only while no row with this packet exists.
LEMMA ReceiveRows ==
  ASSUME TypeOK, NEW t \in Thread, NEW packet \in Packet, Receive(t, packet)
  PROVE  /\ packet.req \in Request
         /\ \A k \in Key \ {EchoKey(packet.req)} : Kept(k)
         /\ \/ msgs'[EchoKey(packet.req)] = msgs[EchoKey(packet.req)]
            \/ ~ msgs[RequestKey(packet.req)].packet
<1>1. packet.req \in Request
  BY DEF Packet
<1>2. CASE UNCHANGED msgs
  BY <1>1, <1>2 DEF Kept
<1>3. CASE ~ UNCHANGED msgs
  <2>1. ~ msgs[<<"request", packet.req>>].packet
    BY <1>3 DEF Receive, ReceiveEcho
  <2>2. PICK wantAck \in BOOLEAN :
          Insert(<<"echo", packet.req>>,
                 [status |-> "sendt", packet |-> TRUE, wantAck |-> wantAck])
    BY <1>3 DEF Receive, ReceiveEcho
  <2>3. \A k \in Key \ {EchoKey(packet.req)} : Kept(k)
    BY <1>1, <2>2, InsertRows, KeyType DEF EchoKey
  <2>4. QED
    BY <1>1, <2>1, <2>3 DEF RequestKey
<1>4. QED
  BY <1>2, <1>3

\* The retention limit drops prunable rows only.
LEMMA TrafficRows ==
  ASSUME TypeOK, Traffic
  PROVE  \A k \in Key : Kept(k)
BY DEF Traffic, Without, Kept, TypeOK

\* Clearing a scope drops every row of it and no other.
LEMMA DeleteRows ==
  ASSUME TypeOK, NEW scope \in SUBSET Request,
         msgs' = Without(msgs, {"request", "echo"} \X scope)
  PROVE  \A r \in Request :
           IF r \in scope
           THEN msgs'[RequestKey(r)] = Absent /\ msgs'[EchoKey(r)] = Absent
           ELSE /\ msgs'[RequestKey(r)] = msgs[RequestKey(r)]
                /\ msgs'[EchoKey(r)] = msgs[EchoKey(r)]
BY KeyType DEF Without, RequestKey, EchoKey, Key

\* update_message_status writes one row, which had a status that the report
\* may replace, or it writes none.
LEMMA WriteRows ==
  ASSUME TypeOK, NEW t \in Thread, Write(t)
  PROVE  LET key == <<job[t].target, job[t].req>>
         IN  /\ key \in Key
             /\ \/ UNCHANGED msgs
                \/ /\ msgs[key].status \in Replaceable(job[t].report)
                   /\ msgs' = [msgs EXCEPT ![key] =
                                 [msgs[key] EXCEPT !.status = job[t].report]]
                   /\ msgs'[key].status = job[t].report
                   /\ msgs'[key].packet = msgs[key].packet
                   /\ msgs'[key].wantAck = msgs[key].wantAck
<1> DEFINE key == <<job[t].target, job[t].req>>
<1>1. job[t].req \in Request /\ job[t].report \in Report /\ key \in Key
  BY JobType DEF Write, Key
<1>2. CASE msgs[key].status \in Replaceable(job[t].report)
  <2>1. msgs' = [msgs EXCEPT ![key].status = job[t].report]
    BY <1>2 DEF Write
  <2>2. Present(key)
    BY <1>1, <1>2, ReplaceableType DEF Present
  <2>3. msgs[key] \in Row
    BY <1>1, <2>2, RowType
  <2>4. QED
    BY <1>1, <1>2, <2>1, <2>3 DEF Row, TypeOK
<1>3. CASE msgs[key].status \notin Replaceable(job[t].report)
  BY <1>1, <1>3 DEF Write
<1>4. QED
  BY <1>2, <1>3

\* complete_outgoing_message writes the request's own row.
LEMMA CompleteRows ==
  ASSUME TypeOK, NEW r \in Request, Complete(r)
  PROVE  /\ msgs' = [msgs EXCEPT ![RequestKey(r)] =
                       [msgs[RequestKey(r)] EXCEPT !.status = "sendt",
                                                   !.packet = call[r].id]]
         /\ msgs'[RequestKey(r)].status = "sendt"
         /\ msgs'[RequestKey(r)].packet = call[r].id
         /\ msgs'[RequestKey(r)].wantAck = msgs[RequestKey(r)].wantAck
<1>1. msgs[RequestKey(r)] \in Row
  BY RowType, KeyType DEF Complete, RequestKey
<1>2. QED
  BY <1>1, KeyType DEF Complete, RequestKey, Row, TypeOK
-----------------------------------------------------------------------------
(* AnswersAreTrue.  It is not inductive: what a client is told, how often   *)
(* the radio was used and what the row says all follow from how far the     *)
(* send has come.                                                           *)

\* The phases in which the radio has been used, and the ones before it knows
\* the packet and the row is complete.
Used == {"onAir", "handedOver", "completed", "settling", "unwinding"}
Incomplete == {"recorded", "onAir", "handedOver"}

\* The phase of r, its answer, its transmissions and its row agree.
SendAgrees(r) ==
  /\ phase[r] = "waiting" =>
       sent[r] = 0 /\ result[r] = "none" /\ ~ Present(RequestKey(r))
  /\ phase[r] = "recorded" => sent[r] = 0
  /\ phase[r] \in Used => sent[r] = 1
  /\ sent[r] \in {0, 1}
  /\ result[r] = "notSent" =>
       phase[r] = "returned" /\ sent[r] = 0 /\ ~ Present(RequestKey(r))
  /\ result[r] = "sent" => sent[r] = 1
  /\ phase[r] \in Incomplete => msgs[RequestKey(r)].status \in {"absent", "uviss"}
  /\ msgs[RequestKey(r)].status \in {"absent", "uviss"}
       => ~ msgs[RequestKey(r)].packet
  /\ Present(RequestKey(r)) => msgs[RequestKey(r)].wantAck = (r \in Dm)

\* The inductive invariant.
SendInv == \A r \in Request : SendAgrees(r)

\* The agreement outlives every step that leaves the send alone and at most
\* drops its row.
LEMMA SendFrame ==
  ASSUME NEW r \in Request, SendAgrees(r), Kept(RequestKey(r)),
         phase'[r] = phase[r], sent'[r] = sent[r], result'[r] = result[r]
  PROVE  SendAgrees(r)'
BY DEF SendAgrees, Kept, Present, Absent

\* The steps of _send and _send_impl keep the agreement.
LEMMA SenderAgrees ==
  ASSUME TypeOK, SendInv, NEW r \in Request, Sender(r)
  PROVE  SendInv'
<1> USE DEF vars, dbVars, sendVars, obsVars
<1> SUFFICES ASSUME NEW q \in Request PROVE SendAgrees(q)'
  BY DEF SendInv
<1>0. SendAgrees(q) /\ SendAgrees(r)
  BY DEF SendInv
<1>1. CASE Refuse(r)
  BY <1>0, <1>1 DEF Refuse, SendAgrees, Present, TypeOK, Used, Incomplete
<1>2. CASE Record(r)
  <2>1. /\ msgs'[RequestKey(r)] = [status |-> "uviss", packet |-> FALSE,
                                   wantAck |-> r \in Dm]
        /\ \A k \in Key \ {RequestKey(r)} : Kept(k)
    BY <1>2, InsertRows, KeyType DEF Record, RequestKey
  <2>2. CASE q = r
    BY <1>0, <1>2, <2>1, <2>2
       DEF Record, SendAgrees, Present, TypeOK, Used, Incomplete
  <2>3. CASE q # r
    BY <1>0, <1>2, <2>1, <2>3, SendFrame, KeyType DEF Record, TypeOK
  <2>4. QED
    BY <2>2, <2>3
<1>3. CASE Transmit(r)
  BY <1>0, <1>3 DEF Transmit, SendAgrees, Present, TypeOK, Used, Incomplete
<1>4. CASE SendTextReturns(r)
  BY <1>0, <1>4 DEF SendTextReturns, SendAgrees, Present, TypeOK, Used, Incomplete
<1>5. CASE Complete(r)
  <2>1. /\ phase[r] = "handedOver" /\ phase' = [phase EXCEPT ![r] = "completed"]
        /\ UNCHANGED <<sent, result>>
    BY <1>5 DEF Complete
  <2>2. CASE q = r
    <3>1. Present(RequestKey(r))
      BY <1>5 DEF Complete, RequestKey
    <3>2. /\ msgs'[RequestKey(r)].status = "sendt"
          /\ msgs'[RequestKey(r)].wantAck = msgs[RequestKey(r)].wantAck
      BY <1>5, CompleteRows
    <3>3. QED
      BY <1>0, <2>1, <2>2, <3>1, <3>2
         DEF SendAgrees, Present, TypeOK, Used, Incomplete
  <2>3. CASE q # r
    <3>1. Kept(RequestKey(q))
      BY <1>5, <2>3, CompleteRows, KeyType DEF Kept, TypeOK
    <3>2. QED
      BY <1>0, <2>1, <2>3, <3>1, SendFrame DEF TypeOK
  <2>4. QED
    BY <2>2, <2>3
<1>6. CASE Uncertain(r)
  BY <1>0, <1>6 DEF Uncertain, SendAgrees, Present, TypeOK, Used, Incomplete
<1>7. CASE Settle(r)
  BY <1>0, <1>7 DEF Settle, SendAgrees, Present, TypeOK, Used, Incomplete
<1>8. CASE Announce(r)
  BY <1>0, <1>8 DEF Announce, SendAgrees, Present, TypeOK, Used, Incomplete
<1>9. CASE Replay(r)
  <2>1. Receive("sender", Head(deferred)) /\ Head(deferred) \in Packet
    BY <1>9, QueueType DEF Replay, TypeOK
  <2>2. Kept(RequestKey(q))
    BY <2>1, ReceiveRows, KeyType DEF Thread
  <2>3. QED
    BY <1>0, <1>9, <2>2, SendFrame DEF Replay
<1>10. CASE Release(r)
  BY <1>0, <1>10 DEF Release, SendAgrees, Present, TypeOK, Used, Incomplete
<1>11. QED
  BY <1>1, <1>2, <1>3, <1>4, <1>5, <1>6, <1>7, <1>8, <1>9, <1>10 DEF Sender

\* So do the steps of update_message_status: a report replaces the status of
\* a completed row only.
LEMMA UpdateAgrees ==
  ASSUME TypeOK, SendInv, NEW t \in Thread, Update(t)
  PROVE  SendInv'
<1> USE DEF vars, dbVars, sendVars, obsVars
<1> SUFFICES ASSUME NEW q \in Request PROVE SendAgrees(q)'
  BY DEF SendInv
<1>0. SendAgrees(q)
  BY DEF SendInv
<1>1. CASE Select(t) \/ PublishStatus(t)
  BY <1>0, <1>1, SendFrame DEF Select, PublishStatus, Kept
<1>2. CASE Write(t)
  <2> DEFINE key == <<job[t].target, job[t].req>>
  <2>1. UNCHANGED <<phase, sent, result>>
    BY <1>2 DEF Write
  <2>2. CASE Kept(RequestKey(q))
    BY <1>0, <2>1, <2>2, SendFrame
  <2>3. CASE ~ Kept(RequestKey(q))
    <3>1. /\ key \in Key
          /\ msgs[key].status \in Replaceable(job[t].report)
          /\ msgs' = [msgs EXCEPT ![key] =
                        [msgs[key] EXCEPT !.status = job[t].report]]
          /\ msgs'[key].status = job[t].report
          /\ msgs'[key].wantAck = msgs[key].wantAck
      BY <1>2, <2>3, WriteRows DEF Kept
    <3>2. RequestKey(q) = key
      BY <2>3, <3>1, KeyType DEF Kept, TypeOK
    <3>3. job[t].report \in Report
      BY <1>2, JobType DEF Write
    <3>4. msgs[key].status \in {"sendt", "ACK", "feila"}
      BY <3>1, <3>3, ReplaceableType
    <3>5. QED
      BY <1>0, <2>1, <3>1, <3>2, <3>3, <3>4
         DEF SendAgrees, Present, Used, Incomplete, Report
  <2>4. QED
    BY <2>2, <2>3
<1>3. CASE UpdateFails(t)
  BY <1>0, <1>3 DEF UpdateFails, SendAgrees, Present, TypeOK, Used, Incomplete
<1>4. QED
  BY <1>1, <1>2, <1>3 DEF Update

\* So does every step of the daemon, its user and its crashes.
LEMMA NextAgrees == TypeOK /\ SendInv /\ [Next]_vars => SendInv'
<1> USE DEF vars, dbVars, sendVars, obsVars
<1> SUFFICES ASSUME TypeOK, SendInv, [Next]_vars, NEW q \in Request
             PROVE  SendAgrees(q)'
  BY DEF SendInv
<1>0. SendAgrees(q)
  BY DEF SendInv
<1>1. ASSUME NEW r \in Request, Sender(r)
      PROVE  SendAgrees(q)'
  BY <1>1, SenderAgrees DEF SendInv
<1>2. ASSUME NEW r \in Request, Radio(r)
      PROVE  SendAgrees(q)'
  BY <1>0, <1>2, SendFrame
     DEF Radio, ReaderRouting, ReaderEcho, InsideSendText, Kept
<1>3. ASSUME NEW t \in Thread, Update(t)
      PROVE  SendAgrees(q)'
  BY <1>3, UpdateAgrees DEF SendInv
<1>4. CASE Publish
  <2>1. Receive("publisher", Head(pubq)) /\ Head(pubq) \in Packet
    BY <1>4, QueueType DEF Publish, TypeOK
  <2>2. Kept(RequestKey(q))
    BY <2>1, ReceiveRows, KeyType DEF Thread
  <2>3. QED
    BY <1>0, <1>4, <2>2, SendFrame DEF Publish
<1>5. CASE Drop
  BY <1>0, <1>5, SendFrame DEF Drop, Kept
<1>6. CASE Traffic
  BY <1>0, <1>6, TrafficRows, KeyType, SendFrame DEF Traffic
<1>7. CASE DeleteMessages
  <2>1. PICK scope \in SUBSET Request :
          msgs' = Without(msgs, {"request", "echo"} \X scope)
    BY <1>7, RequestAssumption DEF DeleteMessages
  <2>2. msgs'[RequestKey(q)] \in {msgs[RequestKey(q)], Absent}
    BY <2>1, DeleteRows
  <2>3. QED
    BY <1>0, <1>7, <2>2 DEF DeleteMessages, SendAgrees, Present, Absent
<1>8. CASE Crash
  BY <1>0, <1>8 DEF Crash, SendAgrees, Present, TypeOK, Used, Incomplete
<1>9. CASE UNCHANGED vars
  BY <1>0, <1>9, SendFrame DEF Kept
<1>10. QED
  BY <1>1, <1>2, <1>3, <1>4, <1>5, <1>6, <1>7, <1>8, <1>9 DEF Next

\* A send that has not begun agrees with everything.
LEMMA InitAgrees == Init => SendInv
<1> SUFFICES ASSUME Init, NEW r \in Request PROVE SendAgrees(r)
  BY DEF SendInv
<1>1. /\ phase[r] = "waiting" /\ sent[r] = 0 /\ result[r] = "none"
      /\ msgs[RequestKey(r)] = Absent
  BY KeyType DEF Init
<1>2. QED
  BY <1>1 DEF SendAgrees, Present, Absent, Used, Incomplete

\* In every reachable state the phase of a send, its answer, what the radio
\* did and the row agree.
LEMMA SendsAgree == Spec => []SendInv
BY InitAgrees, NextAgrees, TypeCorrect, PTL DEF Spec

\* Whatever interleaving, failure or crash a send meets, the client that is
\* told "not sent" can try again without a second transmission or row, and no
\* message is transmitted twice.
THEOREM AnswersHold == Spec => []AnswersAreTrue
<1>1. TypeOK /\ SendInv => AnswersAreTrue
  <2> SUFFICES ASSUME SendInv, NEW r \in Request
               PROVE  /\ sent[r] <= 1
                      /\ result[r] = "notSent" =>
                           sent[r] = 0 /\ ~ Present(<<"request", r>>)
                      /\ result[r] = "sent" => sent[r] = 1
    BY DEF AnswersAreTrue
  <2>1. SendAgrees(r)
    BY DEF SendInv
  <2>2. QED
    BY <2>1 DEF SendAgrees, RequestKey
<1>2. QED
  BY <1>1, SendsAgree, TypeCorrect, PTL
-----------------------------------------------------------------------------
(* NoEchoBesideRequest is inductive: the row is completed only without an   *)
(* echo, and the echo is inserted only beside a row that is not completed.  *)

\* Rows that are at most dropped do not break it.
LEMMA EchoKept ==
  ASSUME TypeOK, NEW r \in Request, Kept(RequestKey(r)), Kept(EchoKey(r)),
         msgs[RequestKey(r)].packet => ~ Present(EchoKey(r))
  PROVE  msgs'[RequestKey(r)].packet => ~ Present(EchoKey(r))'
BY DEF Kept, Present, Absent

\* Receiving a packet does not break it: the unique index on packet identities.
LEMMA EchoReceived ==
  ASSUME TypeOK, NEW t \in Thread, NEW packet \in Packet, Receive(t, packet),
         NEW r \in Request,
         msgs[RequestKey(r)].packet => ~ Present(EchoKey(r))
  PROVE  msgs'[RequestKey(r)].packet => ~ Present(EchoKey(r))'
<1>1. Kept(RequestKey(r))
  BY ReceiveRows, KeyType
<1>2. CASE Kept(EchoKey(r))
  BY <1>1, <1>2, EchoKept
<1>3. CASE ~ Kept(EchoKey(r))
  <2>1. packet.req = r
    BY <1>3, ReceiveRows, KeyType
  <2>2. ~ msgs[RequestKey(r)].packet
    BY <1>3, <2>1, ReceiveRows DEF Kept
  <2>3. QED
    BY <1>1, <2>2 DEF Kept, Absent
<1>4. QED
  BY <1>2, <1>3

\* No step puts an echo beside a completed row.
LEMMA NextEcho ==
  TypeOK /\ NoEchoBesideRequest /\ [Next]_vars => NoEchoBesideRequest'
<1> USE DEF vars, dbVars, sendVars, obsVars
<1> DEFINE Echoless(q) == msgs[RequestKey(q)].packet => ~ Present(EchoKey(q))
<1> SUFFICES ASSUME TypeOK, [Next]_vars, NEW q \in Request, Echoless(q)
             PROVE  Echoless(q)'
  BY DEF NoEchoBesideRequest, RequestKey, EchoKey
<1>1. CASE Kept(RequestKey(q)) /\ Kept(EchoKey(q))
  BY <1>1, EchoKept
<1>2. ASSUME NEW r \in Request, Record(r)
      PROVE  Echoless(q)'
  <2>1. /\ ~ msgs'[RequestKey(r)].packet
        /\ \A k \in Key \ {RequestKey(r)} : Kept(k)
    BY <1>2, InsertRows, KeyType DEF Record, RequestKey
  <2>2. CASE q = r
    BY <2>1, <2>2
  <2>3. CASE q # r
    BY <2>1, <2>3, EchoKept, KeyType
  <2>4. QED
    BY <2>2, <2>3
<1>3. ASSUME NEW r \in Request, Complete(r)
      PROVE  Echoless(q)'
  <2>1. Kept(EchoKey(q))
    BY <1>3, CompleteRows, KeyType DEF Kept, TypeOK
  <2>2. CASE q = r
    <3>1. msgs'[RequestKey(r)].packet => ~ Present(EchoKey(r))
      BY <1>3, CompleteRows DEF Complete, EchoKey
    <3>2. QED
      BY <2>1, <2>2, <3>1 DEF Kept, Present, Absent
  <2>3. CASE q # r
    <3>1. Kept(RequestKey(q))
      BY <1>3, <2>3, CompleteRows, KeyType DEF Kept, TypeOK
    <3>2. QED
      BY <2>1, <3>1, EchoKept
  <2>4. QED
    BY <2>2, <2>3
<1>4. ASSUME NEW t \in Thread, NEW packet \in Packet, Receive(t, packet)
      PROVE  Echoless(q)'
  BY <1>4, EchoReceived
<1>5. ASSUME NEW t \in Thread, Write(t)
      PROVE  Echoless(q)'
  <2> DEFINE key == <<job[t].target, job[t].req>>
  <2>1. CASE UNCHANGED msgs
    BY <2>1 DEF Present
  <2>2. CASE ~ UNCHANGED msgs
    <3>1. /\ key \in Key
          /\ msgs[key].status \in Replaceable(job[t].report)
          /\ msgs' = [msgs EXCEPT ![key] =
                        [msgs[key] EXCEPT !.status = job[t].report]]
          /\ msgs'[key].packet = msgs[key].packet
      BY <1>5, <2>2, WriteRows
    <3>2. Present(key)
      BY <1>5, <3>1, JobType, ReplaceableType DEF Write, Present
    <3>3. msgs'[RequestKey(q)].packet = msgs[RequestKey(q)].packet
      BY <3>1, KeyType DEF TypeOK
    <3>4. Present(EchoKey(q))' => Present(EchoKey(q))
      BY <3>1, <3>2, KeyType DEF Present, TypeOK
    <3>5. QED
      BY <3>3, <3>4
  <2>3. QED
    BY <2>1, <2>2
<1>6. CASE DeleteMessages
  <2>1. PICK scope \in SUBSET Request :
          msgs' = Without(msgs, {"request", "echo"} \X scope)
    BY <1>6, RequestAssumption DEF DeleteMessages
  <2>2. CASE q \in scope
    <3>1. msgs'[RequestKey(q)] = Absent
      BY <2>1, <2>2, DeleteRows
    <3>2. QED
      BY <3>1 DEF Absent
  <2>3. CASE q \notin scope
    BY <2>1, <2>3, DeleteRows DEF Present
  <2>4. QED
    BY <2>2, <2>3
<1>7. ASSUME NEW r \in Request, Sender(r) \/ Radio(r)
      PROVE  Echoless(q)'
  <2>1. CASE Replay(r)
    BY <1>4, <2>1, QueueType DEF Replay, TypeOK, Thread
  <2>2. CASE UNCHANGED msgs
    BY <2>2 DEF Present
  <2>3. QED
    BY <1>2, <1>3, <1>7, <2>1, <2>2
       DEF Sender, Radio, Refuse, Transmit, SendTextReturns, Uncertain, Settle,
           Announce, Release, ReaderRouting, ReaderEcho, InsideSendText
<1>8. ASSUME NEW t \in Thread, Update(t)
      PROVE  Echoless(q)'
  <2>1. CASE UNCHANGED msgs
    BY <2>1 DEF Present
  <2>2. QED
    BY <1>5, <1>8, <2>1 DEF Update, Select, PublishStatus, UpdateFails
<1>9. CASE Publish
  BY <1>4, <1>9, QueueType DEF Publish, TypeOK, Thread
<1>10. CASE Traffic
  BY <1>1, <1>10, TrafficRows, KeyType
<1>11. CASE Drop \/ Crash \/ UNCHANGED vars
  BY <1>11 DEF Drop, Crash, Present
<1>12. QED
  BY <1>6, <1>7, <1>8, <1>9, <1>10, <1>11 DEF Next

\* The echo of a request, received before, during or after the completion of
\* its row and any number of times, never becomes a row beside it.
THEOREM NoEchoEver == Spec => []NoEchoBesideRequest
<1>1. Init => NoEchoBesideRequest
  <2> SUFFICES ASSUME Init, NEW r \in Request
               PROVE  ~ msgs[RequestKey(r)].packet
    BY DEF NoEchoBesideRequest, RequestKey
  <2>1. msgs[RequestKey(r)] = Absent
    BY KeyType DEF Init
  <2>2. QED
    BY <2>1 DEF Absent
<1>2. QED
  BY <1>1, NextEcho, TypeCorrect, PTL DEF Spec

-----------------------------------------------------------------------------
(* The refinement.  A message's abstract state is read off its row, and     *)
(* where there is none, off its phase and its answer; echoes, queues, locks *)
(* and jobs do not matter.                                                  *)

\* What the abstract specification lets one message do in a step.
Steps(r) == Abstract!Moves(r) /\ Abstract!Transmits(r) /\ Abstract!Hears(r)

\* Nothing the abstract specification can see happens to r.
Unmoved(r) ==
  /\ MessageState(r)' = MessageState(r)
  /\ sent'[r] = sent[r] /\ heard'[r] = heard[r]

\* The abstract state of a message is a status, "unsent" or "gone".
LEMMA StateOf ==
  ASSUME TypeOK, SendInv, NEW r \in Request
  PROVE  /\ Present(RequestKey(r)) =>
              /\ MessageState(r) = msgs[RequestKey(r)].status
              /\ MessageState(r) \in Abstract!Recorded
         /\ ~ Present(RequestKey(r)) => MessageState(r) \in {"unsent", "gone"}
<1>1. Present(RequestKey(r)) => msgs[RequestKey(r)].status \in Status
  BY RowType, KeyType
<1>2. QED
  BY <1>1 DEF MessageState, RequestKey, Status, Report,
              Abstract!Recorded, Abstract!Report

\* A message to which nothing visible happens takes an abstract step.
LEMMA UnmovedSteps ==
  ASSUME NEW r \in Request, Unmoved(r)
  PROVE  Steps(r)
BY DEF Unmoved, Steps, Abstract!Moves, Abstract!Transmits, Abstract!Hears

\* Steps that leave a send alone and at most drop its row, which retention
\* may do, are abstract steps of its message.
LEMMA KeptSteps ==
  ASSUME TypeOK, SendInv, NEW r \in Request, Kept(RequestKey(r)),
         phase'[r] = "waiting" <=> phase[r] = "waiting",
         result'[r] = "notSent" <=> result[r] = "notSent",
         sent'[r] = sent[r], heard'[r] = heard[r]
  PROVE  Steps(r)
<1>0. SendAgrees(r)
  BY DEF SendInv
<1>1. CASE msgs'[RequestKey(r)] = msgs[RequestKey(r)]
  <2>1. MessageState(r)' = MessageState(r)
    BY <1>1 DEF MessageState, Present, RequestKey
  <2>2. QED
    BY <2>1, UnmovedSteps DEF Unmoved
<1>2. CASE Prunable(msgs[RequestKey(r)]) /\ msgs'[RequestKey(r)] = Absent
  <2>1. /\ Present(RequestKey(r))
        /\ msgs[RequestKey(r)].wantAck = (r \in Dm)
        /\ msgs[RequestKey(r)].status # "uviss"
        /\ ~ (msgs[RequestKey(r)].status = "sendt" /\ r \in Dm)
    BY <1>0, <1>2 DEF Prunable, Unresolved, SendAgrees, Present
  <2>2. /\ MessageState(r) = msgs[RequestKey(r)].status
        /\ MessageState(r) \in Abstract!Recorded
    BY <2>1, StateOf
  <2>3. ~ Abstract!Open(r, MessageState(r))
    BY <2>1, <2>2 DEF Abstract!Open
  <2>4. MessageState(r)' = "gone"
    <3>1. phase[r] # "waiting" /\ result[r] # "notSent"
      BY <1>0, <2>1 DEF SendAgrees
    <3>2. ~ Present(RequestKey(r))'
      BY <1>2 DEF Present, Absent
    <3>3. QED
      BY <3>1, <3>2 DEF MessageState, Present, RequestKey
  <2>5. QED
    BY <2>2, <2>3, <2>4
       DEF Steps, Abstract!Moves, Abstract!Transmits, Abstract!Hears
<1>3. QED
  BY <1>1, <1>2 DEF Kept

\* Every step of _send and _send_impl is an abstract step of every message.
LEMMA SenderSteps ==
  ASSUME TypeOK, SendInv, NEW r \in Request, Sender(r), NEW q \in Request
  PROVE  Steps(q)
<1> USE DEF vars, dbVars, sendVars, obsVars
<1>0. SendAgrees(q) /\ SendAgrees(r) /\ SendAgrees(q)'
  BY SenderAgrees DEF SendInv
<1>1. CASE Refuse(r)
  <2>1. MessageState(q)' = MessageState(q)
    BY <1>0, <1>1
       DEF Refuse, SendAgrees, MessageState, Present, RequestKey, TypeOK
  <2>2. QED
    BY <1>1, <2>1, UnmovedSteps DEF Refuse, Unmoved
<1>2. CASE Record(r)
  <2>1. /\ msgs'[RequestKey(r)].status = "uviss"
        /\ \A k \in Key \ {RequestKey(r)} : Kept(k)
    BY <1>2, InsertRows, KeyType DEF Record, RequestKey
  <2>2. CASE q = r
    <3>1. MessageState(r) = "unsent"
      BY <1>0, <1>2 DEF Record, SendAgrees, MessageState, RequestKey
    <3>2. MessageState(r)' = "uviss"
      BY <2>1 DEF MessageState, Present, RequestKey
    <3>3. QED
      BY <1>2, <2>2, <3>1, <3>2
         DEF Record, Steps, Abstract!Moves, Abstract!Transmits, Abstract!Hears
  <2>3. CASE q # r
    BY <1>2, <2>1, <2>3, KeptSteps, KeyType DEF Record, TypeOK
  <2>4. QED
    BY <2>2, <2>3
<1>3. CASE Transmit(r)
  <2>1. MessageState(q)' = MessageState(q)
    BY <1>0, <1>3 DEF Transmit, MessageState, Present, TypeOK
  <2>2. CASE q = r
    <3>1. MessageState(r) \in {"uviss", "gone"}
      BY <1>0, <1>3 DEF Transmit, SendAgrees, Incomplete, MessageState, Present,
                        RequestKey
    <3>2. sent[r] = 0 /\ sent'[r] = 1 /\ heard' = heard
      BY <1>0, <1>3 DEF Transmit, SendAgrees, TypeOK
    <3>3. QED
      BY <2>1, <2>2, <3>1, <3>2
         DEF Steps, Abstract!Moves, Abstract!Transmits, Abstract!Hears
  <2>3. CASE q # r
    BY <1>3, <2>1, <2>3, UnmovedSteps DEF Transmit, Unmoved, TypeOK
  <2>4. QED
    BY <2>2, <2>3
<1>4. CASE SendTextReturns(r)
  BY <1>4, KeptSteps DEF SendTextReturns, Kept, TypeOK
<1>5. CASE Complete(r)
  <2>1. UNCHANGED <<result, sent, heard>> /\ phase[r] = "handedOver"
        /\ phase' = [phase EXCEPT ![r] = "completed"]
    BY <1>5 DEF Complete
  <2>2. CASE q = r
    <3>1. MessageState(r) = "uviss" /\ sent[r] = 1
      BY <1>0, <1>5, <2>2 DEF Complete, SendAgrees, Incomplete, Used,
                              MessageState, Present, RequestKey
    <3>2. MessageState(r)' = "sendt"
      BY <1>5, CompleteRows DEF MessageState, Present, RequestKey
    <3>3. QED
      BY <2>1, <2>2, <3>1, <3>2
         DEF Steps, Abstract!Moves, Abstract!Transmits, Abstract!Hears
  <2>3. CASE q # r
    <3>1. Kept(RequestKey(q))
      BY <1>5, <2>3, CompleteRows, KeyType DEF Kept, TypeOK
    <3>2. QED
      BY <2>1, <2>3, <3>1, KeptSteps DEF TypeOK
  <2>4. QED
    BY <2>2, <2>3
<1>6. CASE Uncertain(r)
  BY <1>0, <1>6, KeptSteps DEF Uncertain, Kept, SendAgrees, TypeOK
<1>7. CASE Settle(r)
  BY <1>7, KeptSteps DEF Settle, Kept, TypeOK
<1>8. CASE Announce(r)
  BY <1>0, <1>8, KeptSteps DEF Announce, Kept, SendAgrees, TypeOK
<1>9. CASE Replay(r)
  <2>1. Receive("sender", Head(deferred)) /\ Head(deferred) \in Packet
    BY <1>9, QueueType DEF Replay, TypeOK
  <2>2. Kept(RequestKey(q))
    BY <2>1, ReceiveRows, KeyType DEF Thread
  <2>3. QED
    BY <1>9, <2>2, KeptSteps DEF Replay
<1>10. CASE Release(r)
  BY <1>10, KeptSteps DEF Release, Kept, TypeOK
<1>11. QED
  BY <1>1, <1>2, <1>3, <1>4, <1>5, <1>6, <1>7, <1>8, <1>9, <1>10 DEF Sender

\* What a report may replace ranks below it.
LEMMA ReplaceableRank ==
  ASSUME NEW report \in Report, NEW s \in Replaceable(report)
  PROVE  /\ Abstract!Rank(s) < Abstract!Rank(report)
         /\ Rank(s) < Rank(report)
BY DEF Report, Replaceable, Abstract!Rank, Rank

\* update_message_status climbs, on a report the mesh has made.
LEMMA UpdateSteps ==
  ASSUME TypeOK, SendInv, HeardInv, NEW t \in Thread, Update(t),
         NEW q \in Request
  PROVE  Steps(q)
<1> USE DEF vars, dbVars, sendVars, obsVars
<1>0. SendAgrees(q)
  BY DEF SendInv
<1>1. CASE Select(t) \/ PublishStatus(t)
  BY <1>1, KeptSteps DEF Select, PublishStatus, Kept
<1>2. CASE Write(t)
  <2> DEFINE key == <<job[t].target, job[t].req>>
  <2>1. UNCHANGED <<phase, sent, result, heard>>
    BY <1>2 DEF Write
  <2>2. CASE Kept(RequestKey(q))
    BY <2>1, <2>2, KeptSteps
  <2>3. CASE ~ Kept(RequestKey(q))
    <3>1. /\ key \in Key
          /\ msgs[key].status \in Replaceable(job[t].report)
          /\ msgs' = [msgs EXCEPT ![key] =
                        [msgs[key] EXCEPT !.status = job[t].report]]
          /\ msgs'[key].status = job[t].report
      BY <1>2, <2>3, WriteRows DEF Kept
    <3>2. RequestKey(q) = key
      BY <2>3, <3>1, KeyType DEF Kept, TypeOK
    <3>3. /\ job[t].report \in Report /\ job[t].req = q
          /\ job[t].report \in heard[q]
      BY <1>2, <3>2, JobType DEF Write, HeardInv, RequestKey
    <3>4. /\ msgs[key].status \in {"sendt", "ACK", "feila"}
          /\ Abstract!Rank(msgs[key].status) < Abstract!Rank(job[t].report)
      BY <3>1, <3>3, ReplaceableType, ReplaceableRank
    <3>5. /\ MessageState(q) = msgs[key].status
          /\ MessageState(q)' = job[t].report
      BY <3>1, <3>2, <3>3, <3>4 DEF MessageState, Present, RequestKey, Report
    <3>6. QED
      BY <2>1, <3>3, <3>4, <3>5
         DEF Steps, Abstract!Moves, Abstract!Transmits, Abstract!Hears
  <2>4. QED
    BY <2>2, <2>3
<1>3. CASE UpdateFails(t)
  BY <1>0, <1>3, KeptSteps DEF UpdateFails, Kept, SendAgrees, TypeOK
<1>4. QED
  BY <1>1, <1>2, <1>3 DEF Update

\* The radio reports on direct messages that have been transmitted.
LEMMA RadioSteps ==
  ASSUME TypeOK, SendInv, NEW r \in Request, Radio(r), NEW q \in Request
  PROVE  Steps(q)
<1> USE DEF vars, dbVars, sendVars, obsVars
<1>0. SendAgrees(r)
  BY DEF SendInv
<1>1. /\ UNCHANGED <<msgs, phase, result, sent>>
      /\ heard[q] \subseteq heard'[q]
      /\ heard'[q] # heard[q] => q = r /\ sent[r] = 1 /\ r \in Dm
  BY <1>0 DEF Radio, ReaderRouting, ReaderEcho, InsideSendText, SendAgrees, Used,
              TypeOK
<1>2. MessageState(q)' = MessageState(q)
  BY <1>1 DEF MessageState, Present
<1>3. QED
  BY <1>1, <1>2 DEF Steps, Abstract!Moves, Abstract!Transmits, Abstract!Hears

\* Clearing a scope is the abstract Purge of it.
LEMMA DeletePurges ==
  ASSUME TypeOK, SendInv, DeleteMessages
  PROVE  \E scope \in Abstract!Scopes : Abstract!Purge(scope)
<1> USE DEF vars, dbVars, sendVars, obsVars
<1>1. PICK scope \in {Dm, Request \ Dm, Request} :
        msgs' = Without(msgs, {"request", "echo"} \X scope)
  BY DEF DeleteMessages
<1>2. scope \subseteq Request /\ scope \in Abstract!Scopes
  BY <1>1, RequestAssumption DEF Abstract!Scopes
<1>3. UNCHANGED <<phase, result, sent, heard>>
  BY DEF DeleteMessages
<1>4. ASSUME NEW r \in Request
      PROVE  MessageState(r)' = IF r \in scope /\ MessageState(r) \in Abstract!Recorded
                                THEN "gone" ELSE MessageState(r)
  <2>0. SendAgrees(r)
    BY DEF SendInv
  <2>1. CASE r \in scope /\ Present(RequestKey(r))
    <3>1. ~ Present(RequestKey(r))'
      <4>1. msgs'[RequestKey(r)] = Absent
        BY <1>1, <1>2, <2>1, DeleteRows
      <4>2. QED
        BY <4>1 DEF Present, Absent
    <3>2. phase[r] # "waiting" /\ result[r] # "notSent"
      BY <2>0, <2>1 DEF SendAgrees
    <3>3. MessageState(r)' = "gone"
      BY <1>3, <3>1, <3>2 DEF MessageState, Present, RequestKey
    <3>4. QED
      BY <2>1, <3>3, StateOf
  <2>2. CASE r \in scope /\ ~ Present(RequestKey(r))
    <3>1. ~ Present(RequestKey(r))'
      <4>1. msgs'[RequestKey(r)] = Absent
        BY <1>1, <1>2, <2>2, DeleteRows
      <4>2. QED
        BY <4>1 DEF Present, Absent
    <3>2. MessageState(r)' = MessageState(r)
      BY <1>3, <2>2, <3>1 DEF MessageState, Present, RequestKey
    <3>3. MessageState(r) \notin Abstract!Recorded
      BY <2>2, StateOf DEF Abstract!Recorded, Abstract!Report
    <3>4. QED
      BY <3>2, <3>3
  <2>3. CASE r \notin scope
    BY <1>1, <1>2, <1>3, <2>3, DeleteRows DEF MessageState, Present, RequestKey
  <2>4. QED
    BY <2>1, <2>2, <2>3
<1>5. Abstract!Purge(scope)
  BY <1>3, <1>4 DEF Abstract!Purge
<1>6. QED
  BY <1>2, <1>5

\* Every step of the daemon, its user and its crashes is an abstract step.
LEMMA NextRefines ==
  TypeOK /\ SendInv /\ HeardInv /\ [Next]_vars => [Abstract!Next]_(Abstract!vars)
<1> USE DEF vars, dbVars, sendVars, obsVars
<1> SUFFICES ASSUME TypeOK, SendInv, HeardInv, [Next]_vars
             PROVE  [Abstract!Next]_(Abstract!vars)
  OBVIOUS
<1>1. SUFFICES ASSUME ~ DeleteMessages PROVE \A q \in Request : Steps(q)
  <2>1. (\A q \in Request : Steps(q)) => Abstract!Next
    BY DEF Steps, Abstract!Next
  <2>2. DeleteMessages => Abstract!Next
    BY DeletePurges DEF Abstract!Next
  <2>3. QED
    BY <1>1, <2>1, <2>2
<1> TAKE q \in Request
<1>2. ASSUME NEW r \in Request, Sender(r)
      PROVE  Steps(q)
  BY <1>2, SenderSteps
<1>3. ASSUME NEW r \in Request, Radio(r)
      PROVE  Steps(q)
  BY <1>3, RadioSteps
<1>4. ASSUME NEW t \in Thread, Update(t)
      PROVE  Steps(q)
  BY <1>4, UpdateSteps
<1>5. CASE Publish
  <2>1. Receive("publisher", Head(pubq)) /\ Head(pubq) \in Packet
    BY <1>5, QueueType DEF Publish, TypeOK
  <2>2. Kept(RequestKey(q))
    BY <2>1, ReceiveRows, KeyType DEF Thread
  <2>3. QED
    BY <1>5, <2>2, KeptSteps DEF Publish
<1>6. CASE Drop
  BY <1>6, KeptSteps DEF Drop, Kept
<1>7. CASE Traffic
  BY <1>7, TrafficRows, KeyType, KeptSteps DEF Traffic
<1>8. CASE Crash
  <2>0. SendAgrees(q)
    BY DEF SendInv
  <2>1. QED
    BY <1>8, <2>0, KeptSteps DEF Crash, Kept, SendAgrees
<1>9. CASE UNCHANGED vars
  BY <1>9, KeptSteps DEF Kept
<1>10. QED
  BY <1>1, <1>2, <1>3, <1>4, <1>5, <1>6, <1>7, <1>8, <1>9 DEF Next

\* The threads, locks, queues and tables keep every promise of the abstract
\* specification: at most one transmission, a status that only climbs on a
\* report the mesh has made, and no open record lost to retention.
THEOREM DeliveryRefines == Spec => ImplementsOutgoingMessage
<1>1. Init => Abstract!Init
  <2> SUFFICES ASSUME Init PROVE Abstract!Init
    OBVIOUS
  <2>1. ASSUME NEW r \in Request PROVE MessageState(r) = "unsent"
    BY KeyType DEF Init, MessageState, Present, Absent, RequestKey
  <2>2. QED
    BY <2>1 DEF Init, Abstract!Init
<1>2. QED
  BY <1>1, NextRefines, TypeCorrect, SendsAgree, AllHeard, PTL
     DEF Spec, ImplementsOutgoingMessage, Abstract!Spec
-----------------------------------------------------------------------------
(* The lock.  One send at a time is under way, and it is the holder's; only *)
(* a completed row can be "stored"; and the sending thread is inside        *)
(* update_message_status only for the holder's early report, or while the   *)
(* holder replays what was deferred.                                        *)

Sending == {"recorded"} \cup Used

\* The phases after complete_outgoing_message has run or the send was over.
Late == {"completed", "settling", "unwinding", "returned"}

Working(t) == job[t].step # "idle"

LockInv ==
  /\ \A r \in Request : phase[r] \in Sending <=> holder = r
  /\ \A r \in Request : call[r].stored => phase[r] \in Late
  /\ Working("sender") =>
       \E r \in Request :
         /\ holder = r
         /\ phase[r] = "unwinding"
            \/ (phase[r] = "settling" /\ job["sender"].req = r)

\* A thread that leaves update_message_status is idle, the others go on.
LEMMA FinishJob ==
  ASSUME TypeOK, NEW t \in Thread, Finish(t)
  PROVE  /\ ~ Working(t)'
         /\ \A u \in Thread \ {t} : job'[u] = job[u]
BY DEF Finish, Working, Idle, TypeOK

\* A thread that receives a packet has its report to take care of.
LEMMA ReceiveJob ==
  ASSUME TypeOK, NEW t \in Thread, NEW packet \in Packet, Receive(t, packet)
  PROVE  /\ job'[t] = job[t] \/ (/\ job'[t].req = packet.req
                                 /\ job'[t].step = "select")
         /\ \A u \in Thread \ {t} : job'[u] = job[u]
BY DEF Receive, StatusUpdate, Idle, TypeOK

\* A thread keeps its request through the steps of update_message_status.
LEMMA UpdateJob ==
  ASSUME TypeOK, NEW t \in Thread, Update(t)
  PROVE  /\ Working(t)
         /\ \A u \in Thread \ {t} : job'[u] = job[u]
         /\ Working(t)' => /\ job'[t].req = job[t].req
                           /\ job'[t].report = job[t].report
<1>1. /\ Working(t)
      /\ job[t] \in [step : {"select", "write", "publish"}, req : Request,
                     report : Report, target : {"request", "echo"}]
  BY JobType DEF Update, Select, Write, PublishStatus, UpdateFails, Working
<1>2. CASE Finish(t)
  BY <1>1, <1>2, FinishJob
<1>3. CASE ~ Finish(t)
  <2>1. \/ \E target \in {"request", "echo"} :
              job' = [job EXCEPT ![t].step = "write", ![t].target = target]
        \/ job' = [job EXCEPT ![t].step = "publish"]
    BY <1>3 DEF Update, Select, Write, PublishStatus, UpdateFails, Candidates
  <2>2. QED
    BY <1>1, <2>1 DEF TypeOK
<1>4. QED
  BY <1>2, <1>3

\* The steps of _send and _send_impl are taken under the lock.
LEMMA SenderLocks ==
  ASSUME TypeOK, LockInv, NEW r \in Request, Sender(r)
  PROVE  LockInv'
<1> USE DEF vars, dbVars, sendVars, obsVars
<1> USE RequestAssumption
<1>1. CASE Refuse(r)
  BY <1>1 DEF Refuse, LockInv, TypeOK, Sending, Used, Late, Working
<1>2. CASE Record(r)
  BY <1>2 DEF Record, LockInv, TypeOK, Sending, Used, Late, Working
<1>3. CASE Transmit(r)
  <2>1. \A q \in Request : call'[q].stored = call[q].stored
    BY <1>3 DEF Transmit, TypeOK, Call
  <2>2. QED
    BY <1>3, <2>1 DEF Transmit, LockInv, TypeOK, Sending, Used, Late, Working
<1>4. CASE SendTextReturns(r)
  <2>1. \A q \in Request : call'[q].stored = call[q].stored
    BY <1>4 DEF SendTextReturns, TypeOK, Call
  <2>2. QED
    BY <1>4, <2>1 DEF SendTextReturns, LockInv, TypeOK, Sending, Used, Late, Working
<1>5. CASE Complete(r)
  BY <1>5 DEF Complete, LockInv, TypeOK, Sending, Used, Late, Working
<1>6. CASE Uncertain(r)
  BY <1>6 DEF Uncertain, LockInv, TypeOK, Sending, Used, Late, Working
<1>7. CASE Settle(r)
  <2>1. \A q \in Request : q # r => call'[q] = call[q]
    BY <1>7 DEF Settle, TypeOK
  <2>2. ~ Working("sender")
    BY <1>7 DEF Settle, LockInv, Sending, Used
  <2>3. Working("sender")' => job'["sender"].req = r
    BY <1>7, <2>2 DEF Settle, Working, StatusUpdate, Idle, TypeOK, Thread
  <2>4. QED
    BY <1>7, <2>1, <2>3 DEF Settle, LockInv, TypeOK, Sending, Used, Late
<1>8. CASE Announce(r)
  BY <1>8 DEF Announce, LockInv, TypeOK, Sending, Used, Late, Working, Idle
<1>9. CASE Replay(r)
  <2>1. UNCHANGED <<holder, phase, call>> /\ phase[r] = "unwinding"
    BY <1>9 DEF Replay
  <2>2. holder = r
    BY <2>1 DEF LockInv, Sending, Used
  <2>3. QED
    BY <2>1, <2>2 DEF LockInv, Late
<1>10. CASE Release(r)
  BY <1>10 DEF Release, LockInv, TypeOK, Sending, Used, Late, Working, Idle
<1>11. QED
  BY <1>1, <1>2, <1>3, <1>4, <1>5, <1>6, <1>7, <1>8, <1>9, <1>10 DEF Sender

\* update_message_status ends on the sending thread before the lock is free.
LEMMA UpdateLocks ==
  ASSUME TypeOK, LockInv, NEW t \in Thread, Update(t)
  PROVE  LockInv'
<1> USE DEF vars, dbVars, sendVars, obsVars
<1>1. /\ UNCHANGED <<holder, call>>
      /\ Working("sender")' =>
           Working("sender") /\ job'["sender"].req = job["sender"].req
  <2>1. UNCHANGED <<holder, call>>
    BY DEF Update, Select, Write, PublishStatus, UpdateFails
  <2>2. CASE t = "sender"
    BY <2>1, <2>2, UpdateJob
  <2>3. CASE t # "sender"
    <3>1. job'["sender"] = job["sender"]
      BY <2>3, UpdateJob DEF Thread
    <3>2. QED
      BY <2>1, <3>1 DEF Working
  <2>4. QED
    BY <2>2, <2>3
<1>2. CASE UNCHANGED phase
  BY <1>1, <1>2 DEF LockInv
<1>3. CASE ~ UNCHANGED phase
  <2>1. /\ t = "sender" /\ Finish(t) /\ Working(t)
        /\ phase[job[t].req] = "settling"
        /\ phase' = [phase EXCEPT ![job[t].req] = "unwinding"]
    BY <1>3, UpdateJob DEF Update, Select, Write, PublishStatus, UpdateFails
  <2>2. ~ Working("sender")'
    BY <2>1, FinishJob
  <2>3. QED
    BY <1>1, <2>1, <2>2 DEF LockInv, TypeOK, Sending, Used, Late
<1>4. QED
  BY <1>2, <1>3

\* Nothing the reader thread does concerns the lock.
LEMMA RadioLocks ==
  ASSUME TypeOK, LockInv, NEW r \in Request, Radio(r)
  PROVE  LockInv'
<1> USE DEF vars, dbVars, sendVars, obsVars
<1>1. /\ UNCHANGED <<holder, phase>>
      /\ job'["sender"] = job["sender"]
  BY DEF Radio, ReaderRouting, ReaderEcho, InsideSendText, TypeOK, Thread
<1>2. \A q \in Request : call'[q].stored = call[q].stored
  <2>1. \/ UNCHANGED call
        \/ \E e \in Report \cup {"none"} :
             call' = [call EXCEPT ![r].waiting = FALSE, ![r].early = e]
    <3>1. call[r].early \in Report \cup {"none"}
      BY DEF TypeOK, Call
    <3>2. QED
      BY <3>1, ReportAssumption
         DEF Radio, ReaderRouting, ReaderEcho, InsideSendText
  <2>2. ASSUME NEW e \in Report \cup {"none"},
               call' = [call EXCEPT ![r].waiting = FALSE, ![r].early = e],
               NEW q \in Request
        PROVE  call'[q].stored = call[q].stored
    <3>1. call[r] \in Call /\ DOMAIN call = Request
      BY DEF TypeOK
    <3>2. [call[r] EXCEPT !.waiting = FALSE, !.early = e].stored = call[r].stored
      BY <3>1 DEF Call
    <3>3. QED
      BY <2>2, <3>1, <3>2
  <2>3. QED
    BY <2>1, <2>2
<1>3. QED
  BY <1>1, <1>2 DEF LockInv, Working

\* The lock is kept by every step.
LEMMA NextLocks == TypeOK /\ LockInv /\ [Next]_vars => LockInv'
<1> USE DEF vars, dbVars, sendVars, obsVars
<1> SUFFICES ASSUME TypeOK, LockInv, [Next]_vars PROVE LockInv'
  OBVIOUS
<1>1. ASSUME NEW r \in Request, Sender(r) \/ Radio(r)
      PROVE  LockInv'
  BY <1>1, SenderLocks, RadioLocks
<1>2. ASSUME NEW t \in Thread, Update(t)
      PROVE  LockInv'
  BY <1>2, UpdateLocks
<1>3. CASE Publish
  <2>1. Head(pubq) \in Packet
    BY <1>3, QueueType DEF Publish, TypeOK
  <2>2. job'["sender"] = job["sender"]
    BY <1>3, <2>1, ReceiveJob DEF Publish, Thread
  <2>3. QED
    BY <1>3, <2>2 DEF Publish, LockInv, Working
<1>4. CASE Drop \/ Traffic \/ DeleteMessages \/ UNCHANGED vars
  BY <1>4 DEF Drop, Traffic, DeleteMessages, LockInv, Working
<1>5. CASE Crash
  BY <1>5, RequestAssumption
     DEF Crash, LockInv, Sending, Used, Working, Idle, Fresh, Thread
<1>6. QED
  BY <1>1, <1>2, <1>3, <1>4, <1>5 DEF Next

\* In every reachable state at most one send is under way, the holder's.
LEMMA LockHeld == Spec => []LockInv
<1>1. Init => LockInv
  BY RequestAssumption
     DEF Init, LockInv, Sending, Used, Working, Idle, Fresh, Thread
<1>2. QED
  BY <1>1, NextLocks, TypeCorrect, PTL DEF Spec
-----------------------------------------------------------------------------
(* Work.  A packet or a report under way is about a request that was sent,  *)
(* and no thread is in update_message_status before the request's row is    *)
(* complete or its send is over.                                            *)

AllSent(q) == \A i \in 1..Len(q) : sent[q[i].req] = 1

WorkInv ==
  /\ AllSent(pubq)
  /\ AllSent(deferred)
  /\ \A t \in Thread : Working(t) =>
       sent[job[t].req] = 1 /\ phase[job[t].req] \in Late

\* What was sent stays sent.
LEMMA AllSentStays ==
  ASSUME NEW q \in Seq(Packet), AllSent(q),
         \A r \in Request : sent[r] = 1 => sent'[r] = 1
  PROVE  \A i \in 1..Len(q) : sent'[q[i].req] = 1
<1>1. \A i \in 1..Len(q) : q[i] \in Packet
  BY ElementOfSeq
<1>2. \A i \in 1..Len(q) : q[i].req \in Request
  BY <1>1 DEF Packet
<1>3. QED
  BY <1>2 DEF AllSent

\* A queue with one more packet about a request that was sent.
LEMMA AllSentAppend ==
  ASSUME NEW q \in Seq(Packet), NEW p \in Packet, AllSent(q), sent[p.req] = 1
  PROVE  AllSent(Append(q, p))
BY AppendProperties DEF AllSent

\* The head of such a queue was sent, and the rest of it.
LEMMA AllSentHeadTail ==
  ASSUME NEW q \in Seq(Packet), q # <<>>, AllSent(q)
  PROVE  sent[Head(q).req] = 1 /\ AllSent(Tail(q))
BY HeadTailProperties DEF AllSent

\* A thread may start on a packet when no other send is under way.
LEMMA ReceiveWork ==
  ASSUME TypeOK, WorkInv, NEW t \in Thread, NEW packet \in Packet,
         Receive(t, packet), UNCHANGED <<sent, phase>>,
         sent[packet.req] = 1, phase[packet.req] \in Late
  PROVE  \A u \in Thread : Working(u)' =>
           sent'[job'[u].req] = 1 /\ phase'[job'[u].req] \in Late
<1> SUFFICES ASSUME NEW u \in Thread, Working(u)'
             PROVE  sent[job'[u].req] = 1 /\ phase[job'[u].req] \in Late
  OBVIOUS
<1>1. CASE job'[u] = job[u]
  BY <1>1 DEF WorkInv, Working
<1>2. CASE job'[u] # job[u]
  BY <1>2, ReceiveJob
<1>3. QED
  BY <1>1, <1>2

\* The steps of _send and _send_impl start work on completed rows only.
LEMMA SenderWorks ==
  ASSUME TypeOK, SendInv, LockInv, WorkInv, NEW r \in Request, Sender(r)
  PROVE  WorkInv'
<1> USE DEF vars, dbVars, sendVars, obsVars
<1>0. SendAgrees(r) /\ SendAgrees(r)'
  BY SenderAgrees DEF SendInv
<1>1. /\ \A q \in Request : sent[q] = 1 => sent'[q] = 1
      /\ UNCHANGED pubq
      /\ deferred' = deferred \/ (deferred # <<>> /\ deferred' = Tail(deferred))
  BY <1>0 DEF Sender, Refuse, Record, Transmit, SendTextReturns, Complete,
              Uncertain, Settle, Announce, Replay, Release, SendAgrees, TypeOK
<1>2. AllSent(pubq)'
  BY <1>1, AllSentStays DEF WorkInv, TypeOK, AllSent
<1>3. AllSent(deferred)'
  <2>1. CASE deferred' = deferred
    BY <1>1, <2>1, AllSentStays DEF WorkInv, TypeOK, AllSent
  <2>2. CASE deferred # <<>> /\ deferred' = Tail(deferred)
    <3>1. AllSent(Tail(deferred)) /\ Tail(deferred) \in Seq(Packet)
      BY <2>2, AllSentHeadTail, QueueType DEF WorkInv, TypeOK
    <3>2. QED
      BY <1>1, <2>2, <3>1, AllSentStays DEF AllSent
  <2>3. QED
    BY <1>1, <2>1, <2>2
<1>4. ASSUME UNCHANGED job, NEW t \in Thread, Working(t),
             \A q \in Request : phase[q] \in Late => phase'[q] \in Late
      PROVE  sent'[job'[t].req] = 1 /\ phase'[job'[t].req] \in Late
  BY <1>1, <1>4, JobType DEF WorkInv, Working
<1>5. CASE Settle(r)
  <2>1. UNCHANGED sent /\ \A q \in Request : phase[q] \in Late => phase'[q] \in Late
    BY <1>5 DEF Settle, TypeOK, Late
  <2>2. sent[r] = 1 /\ phase'[r] \in Late
    BY <1>0, <1>5 DEF Settle, SendAgrees, Used, Late, TypeOK
  <2>3. UNCHANGED job
        \/ job' = [job EXCEPT !["sender"] = StatusUpdate(r, call[r].early)]
    BY <1>5 DEF Settle
  <2>4. ASSUME job' = [job EXCEPT !["sender"] = StatusUpdate(r, call[r].early)],
               NEW t \in Thread, Working(t)'
        PROVE  sent'[job'[t].req] = 1 /\ phase'[job'[t].req] \in Late
    <3>1. CASE t = "sender"
      BY <2>1, <2>2, <2>4, <3>1 DEF StatusUpdate, Idle, TypeOK
    <3>2. CASE t # "sender"
      BY <2>1, <2>4, <3>2, JobType DEF WorkInv, Working, TypeOK
    <3>3. QED
      BY <3>1, <3>2
  <2>5. QED
    BY <1>2, <1>3, <1>4, <2>1, <2>3, <2>4 DEF WorkInv, Working
<1>6. CASE Replay(r)
  <2>1. /\ Receive("sender", Head(deferred)) /\ UNCHANGED <<sent, phase>>
        /\ phase[r] = "unwinding" /\ Head(deferred) \in Packet
        /\ sent[Head(deferred).req] = 1
    BY <1>6, QueueType, AllSentHeadTail DEF Replay, TypeOK, WorkInv
  <2>2. phase[Head(deferred).req] \in Late
    <3> DEFINE q == Head(deferred).req
    <3>1. q \in Request /\ SendAgrees(q)
      BY <2>1 DEF Packet, SendInv
    <3>2. holder = r
      BY <2>1 DEF LockInv, Sending, Used
    <3>3. CASE q = r
      BY <2>1, <3>3 DEF Late
    <3>4. CASE q # r
      <4>1. phase[q] \notin Sending
        BY <3>1, <3>2, <3>4 DEF LockInv
      <4>2. phase[q] # "waiting"
        BY <2>1, <3>1 DEF SendAgrees
      <4>3. phase[q] \in Phases
        BY <3>1 DEF TypeOK
      <4>4. QED
        BY <4>1, <4>2, <4>3 DEF Phases, Sending, Used, Late
    <3>5. QED
      BY <3>3, <3>4
  <2>3. QED
    BY <1>2, <1>3, <2>1, <2>2, ReceiveWork DEF WorkInv, Thread
<1>7. CASE ~ Settle(r) /\ ~ Replay(r)
  <2>1. UNCHANGED job
    BY <1>7 DEF Sender, Refuse, Record, Transmit, SendTextReturns, Complete,
                Uncertain, Announce, Release
  <2>2. \A q \in Request : phase[q] \in Late => phase'[q] \in Late
    BY <1>7 DEF Sender, Refuse, Record, Transmit, SendTextReturns, Complete,
                Uncertain, Announce, Release, Late, TypeOK
  <2>3. QED
    BY <1>2, <1>3, <1>4, <2>1, <2>2 DEF WorkInv, Working
<1>8. QED
  BY <1>5, <1>6, <1>7

\* update_message_status passes on what the reader was given.
LEMMA UpdateWorks ==
  ASSUME TypeOK, WorkInv, NEW t \in Thread, Update(t)
  PROVE  WorkInv'
<1> USE DEF vars, dbVars, sendVars, obsVars
<1>1. Working(t) /\ job[t].req \in Request /\ job[t].report \in Report
  BY UpdateJob, JobType DEF Working
<1>2. /\ UNCHANGED <<sent, deferred>>
      /\ UNCHANGED pubq
         \/ pubq' = Append(pubq, Routing(job[t].req, job[t].report))
  BY DEF Update, Select, Write, PublishStatus, UpdateFails, Finish
<1>3. AllSent(pubq)'
  <2>1. /\ Routing(job[t].req, job[t].report) \in Packet
        /\ sent[Routing(job[t].req, job[t].report).req] = 1
    BY <1>1, PacketType DEF Routing, WorkInv
  <2>2. AllSent(Append(pubq, Routing(job[t].req, job[t].report)))
    BY <2>1, AllSentAppend DEF WorkInv, TypeOK
  <2>3. QED
    BY <1>2, <2>2 DEF WorkInv, AllSent
<1>4. \A q \in Request : phase[q] \in Late => phase'[q] \in Late
  BY <1>1 DEF Update, Select, Write, PublishStatus, UpdateFails, Late, TypeOK
<1>5. ASSUME NEW u \in Thread, Working(u)'
      PROVE  sent'[job'[u].req] = 1 /\ phase'[job'[u].req] \in Late
  <2>1. Working(u) /\ job'[u].req = job[u].req
    BY <1>1, <1>5, UpdateJob DEF Working
  <2>2. QED
    BY <1>2, <1>4, <2>1, JobType DEF WorkInv, Working
<1>6. QED
  BY <1>2, <1>3, <1>5 DEF WorkInv, AllSent

\* The radio sends packets only about requests it was given, and onAckNak
\* takes care of a report itself only once the row is complete.
LEMMA RadioWorks ==
  ASSUME TypeOK, SendInv, LockInv, WorkInv, NEW r \in Request, Radio(r)
  PROVE  WorkInv'
<1> USE DEF vars, dbVars, sendVars, obsVars
<1>0. SendAgrees(r)
  BY DEF SendInv
<1>1. UNCHANGED <<sent, phase>> /\ sent[r] = 1
  BY <1>0 DEF Radio, ReaderRouting, ReaderEcho, InsideSendText, SendAgrees, Used,
              TypeOK
<1> DEFINE About(p) == p = Echo(r) \/ \E report \in Report : p = Routing(r, report)
           With(q, n) == n = q \/ \E p : About(p) /\ n = Append(q, p)
<1>2. ASSUME NEW p, About(p)
      PROVE  p \in Packet /\ p.req = r
  <2>1. CASE p = Echo(r)
    BY <2>1, PacketType DEF Echo, Report
  <2>2. CASE \E report \in Report : p = Routing(r, report)
    BY <2>2, PacketType DEF Routing
  <2>3. QED
    BY <1>2, <2>1, <2>2
<1>3. AllSent(pubq)' /\ AllSent(deferred)'
  <2>1. With(pubq, pubq') /\ With(deferred, deferred')
    <3>1. CASE \E report \in Reports : ReaderRouting(r, report)
      BY <3>1, ReportAssumption DEF ReaderRouting
    <3>2. CASE ReaderEcho(r)
      BY <3>2 DEF ReaderEcho
    <3>3. CASE InsideSendText(r)
      BY <3>3, ReportAssumption DEF InsideSendText
    <3>4. QED
      BY <3>1, <3>2, <3>3 DEF Radio
  <2>2. ASSUME NEW q \in Seq(Packet), AllSent(q), NEW n, With(q, n)
        PROVE  AllSent(n)
    BY <1>1, <1>2, <2>2, AllSentAppend
  <2>3. AllSent(pubq') /\ AllSent(deferred')
    BY <2>1, <2>2 DEF WorkInv, TypeOK
  <2>4. QED
    BY <1>1, <2>3 DEF AllSent
<1>4. ASSUME NEW t \in Thread, Working(t)'
      PROVE  sent'[job'[t].req] = 1 /\ phase'[job'[t].req] \in Late
  <2>1. CASE job'[t] = job[t]
    BY <1>1, <1>4, <2>1 DEF WorkInv, Working
  <2>2. CASE job'[t] # job[t]
    <3>1. PICK report \in Reports :
            /\ ~ TooEarly(r)
            /\ job' = [job EXCEPT !["reader"] = StatusUpdate(r, report)]
      BY <2>2 DEF Radio, ReaderRouting, ReaderEcho, InsideSendText
    <3>2. job'[t].req = r
      BY <2>2, <3>1 DEF StatusUpdate, Idle, TypeOK
    <3>3. phase[r] \in Late
      BY <3>1 DEF TooEarly, LockInv
    <3>4. QED
      BY <1>1, <3>2, <3>3
  <2>3. QED
    BY <2>1, <2>2
<1>5. QED
  BY <1>3, <1>4 DEF WorkInv

\* The invariant on work is kept by every step.
LEMMA NextWorks ==
  TypeOK /\ SendInv /\ LockInv /\ WorkInv /\ [Next]_vars => WorkInv'
<1> USE DEF vars, dbVars, sendVars, obsVars
<1> SUFFICES ASSUME TypeOK, SendInv, LockInv, WorkInv, [Next]_vars PROVE WorkInv'
  OBVIOUS
<1>1. ASSUME NEW r \in Request, Sender(r) \/ Radio(r)
      PROVE  WorkInv'
  BY <1>1, SenderWorks, RadioWorks
<1>2. ASSUME NEW t \in Thread, Update(t)
      PROVE  WorkInv'
  BY <1>2, UpdateWorks
<1>3. CASE Publish
  <2> DEFINE q == Head(pubq).req
  <2>1. /\ Receive("publisher", Head(pubq)) /\ UNCHANGED <<sent, phase, deferred>>
        /\ holder = NoRequest /\ Head(pubq) \in Packet /\ q \in Request
        /\ sent[q] = 1 /\ AllSent(Tail(pubq)) /\ pubq' = Tail(pubq)
    BY <1>3, QueueType, AllSentHeadTail DEF Publish, TypeOK, WorkInv, Packet
  <2>2. phase[q] \in Late
    <3>1. phase[q] \notin Sending /\ phase[q] \in Phases
      BY <2>1, RequestAssumption DEF LockInv, TypeOK
    <3>2. phase[q] # "waiting"
      BY <2>1 DEF SendInv, SendAgrees
    <3>3. QED
      BY <3>1, <3>2 DEF Phases, Sending, Used, Late
  <2>3. \A u \in Thread : Working(u)' =>
          sent'[job'[u].req] = 1 /\ phase'[job'[u].req] \in Late
    BY <2>1, <2>2, ReceiveWork DEF Thread
  <2>4. QED
    BY <2>1, <2>3 DEF WorkInv, AllSent
<1>4. CASE Drop
  <2>1. AllSent(Tail(pubq))
    BY <1>4, AllSentHeadTail DEF Drop, TypeOK, WorkInv
  <2>2. QED
    BY <1>4, <2>1 DEF Drop, WorkInv, AllSent, Working
<1>5. CASE Traffic \/ DeleteMessages \/ UNCHANGED vars
  BY <1>5 DEF Traffic, DeleteMessages, WorkInv, AllSent, Working
<1>6. CASE Crash
  BY <1>6 DEF Crash, WorkInv, AllSent, Working, Idle
<1>7. QED
  BY <1>1, <1>2, <1>3, <1>4, <1>5, <1>6 DEF Next

\* In every reachable state the work under way is about sent requests.
LEMMA WorkIsSent == Spec => []WorkInv
<1>1. Init => WorkInv
  BY DEF Init, WorkInv, AllSent, Working, Idle
<1>2. QED
  BY <1>1, NextWorks, TypeCorrect, SendsAgree, LockHeld, PTL DEF Spec
-----------------------------------------------------------------------------
(* ReportsReachTheRow.  A completed row outranks every report that has been *)
(* taken care of; the early report has been, once the send is answered.     *)

\* Only complete_outgoing_message gives a row its packet, and it comes before
\* anyone works on the request.
LEMMA PacketsGrow ==
  ASSUME TypeOK, [Next]_vars, NEW q \in Request,
         msgs'[RequestKey(q)].packet, ~ msgs[RequestKey(q)].packet
  PROVE  phase[q] = "handedOver"
<1> USE DEF vars, dbVars, sendVars, obsVars
<1>1. ~ Kept(RequestKey(q))
  BY DEF Kept, Absent
<1>2. ASSUME NEW r \in Request, Record(r)
      PROVE  FALSE
  <2>1. /\ ~ msgs'[RequestKey(r)].packet
        /\ \A k \in Key \ {RequestKey(r)} : Kept(k)
    BY <1>2, InsertRows, KeyType DEF Record, RequestKey
  <2>2. QED
    BY <1>1, <2>1, KeyType
<1>3. ASSUME NEW r \in Request, Complete(r)
      PROVE  phase[q] = "handedOver"
  <2>1. q # r => Kept(RequestKey(q))
    BY <1>3, CompleteRows, KeyType DEF Kept, TypeOK
  <2>2. q = r
    BY <1>1, <2>1
  <2>3. QED
    BY <1>3, <2>2 DEF Complete
<1>4. ASSUME NEW t \in Thread, NEW packet \in Packet, Receive(t, packet)
      PROVE  FALSE
  BY <1>1, <1>4, ReceiveRows, KeyType
<1>5. ASSUME NEW t \in Thread, Write(t)
      PROVE  msgs'[RequestKey(q)].packet = msgs[RequestKey(q)].packet
  BY <1>5, WriteRows, KeyType DEF TypeOK
<1>6. ASSUME DeleteMessages
      PROVE  FALSE
  <2>1. PICK scope \in SUBSET Request :
          msgs' = Without(msgs, {"request", "echo"} \X scope)
    BY <1>6, RequestAssumption DEF DeleteMessages
  <2>2. msgs'[RequestKey(q)] \in {msgs[RequestKey(q)], Absent}
    BY <2>1, DeleteRows
  <2>3. QED
    BY <2>2 DEF Absent
<1>7. ASSUME NEW r \in Request, Sender(r) \/ Radio(r), ~ Complete(r)
      PROVE  FALSE
  <2>1. CASE Replay(r)
    BY <1>4, <2>1, QueueType DEF Replay, TypeOK, Thread
  <2>2. CASE UNCHANGED msgs
    BY <2>2
  <2>3. QED
    BY <1>2, <1>7, <2>1, <2>2
       DEF Sender, Radio, Refuse, Transmit, SendTextReturns, Uncertain, Settle,
           Announce, Release, ReaderRouting, ReaderEcho, InsideSendText
<1>8. ASSUME NEW t \in Thread, Update(t)
      PROVE  FALSE
  BY <1>5, <1>8 DEF Update, Select, PublishStatus, UpdateFails
<1>9. ASSUME Publish
      PROVE  FALSE
  BY <1>4, <1>9, QueueType DEF Publish, TypeOK, Thread
<1>10. ASSUME Traffic
      PROVE  FALSE
  BY <1>1, <1>10, TrafficRows, KeyType
<1>11. ASSUME Drop \/ Crash \/ UNCHANGED vars
      PROVE  FALSE
  BY <1>11 DEF Drop, Crash
<1>12. \E r \in Request : Complete(r)
  BY <1>6, <1>7, <1>8, <1>9, <1>10, <1>11 DEF Next
<1>13. QED
  BY <1>3, <1>12

\* A thread is about to write the echo's row only while the request's own row
\* has no packet.
TargetInv ==
  \A t \in Thread : job[t].step = "write" /\ job[t].target = "echo" =>
    ~ msgs[RequestKey(job[t].req)].packet

\* The packet of a row is not known twice.
LEMMA NextTargets ==
  /\ TypeOK /\ SendInv /\ WorkInv /\ NoEchoBesideRequest
  /\ TargetInv /\ [Next]_vars
  => TargetInv'
<1> USE DEF vars, dbVars, sendVars, obsVars
<1> SUFFICES ASSUME TypeOK, SendInv, WorkInv, NoEchoBesideRequest,
                    TargetInv, [Next]_vars, NEW t \in Thread,
                    job'[t].step = "write", job'[t].target = "echo"
             PROVE  ~ msgs'[RequestKey(job'[t].req)].packet
  BY DEF TargetInv
<1>1. CASE job'[t] = job[t]
  <2>1. /\ ~ msgs[RequestKey(job[t].req)].packet
        /\ job[t].req \in Request /\ phase[job[t].req] \in Late
    BY <1>1, JobType DEF TargetInv, WorkInv, Working
  <2>2. QED
    BY <1>1, <2>1, PacketsGrow DEF Late
<1>2. CASE job'[t] # job[t]
  <2>1. Select(t) /\ UNCHANGED msgs
    <3>1. ASSUME NEW packet \in Packet, NEW u \in Thread, Receive(u, packet)
          PROVE  FALSE
      BY <1>2, <3>1, ReceiveJob
    <3>2. ASSUME NEW u \in Thread, Update(u)
          PROVE  t = u /\ Select(t) /\ UNCHANGED msgs
      <4>1. t = u
        BY <1>2, <3>2, UpdateJob
      <4>2. ~ Finish(t)
        BY FinishJob DEF Working
      <4>3. ~ (job' = [job EXCEPT ![t].step = "publish"])
        <5>1. job[t] \in [step : {"select", "write", "publish"}, req : Request,
                          report : Report, target : {"request", "echo"}]
          BY <3>2, <4>1, UpdateJob, JobType DEF Working
        <5>2. [job[t] EXCEPT !.step = "publish"].step = "publish"
          BY <5>1
        <5>3. QED
          BY <5>2 DEF TypeOK
      <4>4. QED
        BY <3>2, <4>1, <4>2, <4>3
           DEF Update, Select, Write, PublishStatus, UpdateFails
    <3>3. ASSUME NEW r \in Request, NEW report
          PROVE  job' # [job EXCEPT !["sender"] = StatusUpdate(r, report)]
                 /\ job' # [job EXCEPT !["reader"] = StatusUpdate(r, report)]
      BY <1>2 DEF StatusUpdate, Idle, TypeOK
    <3>4. ASSUME NEW r \in Request, Sender(r) \/ Radio(r)
          PROVE  FALSE
      <4>1. CASE Replay(r)
        BY <3>1, <4>1, QueueType DEF Replay, TypeOK, Thread
      <4>2. CASE Settle(r)
        BY <1>2, <3>3, <4>2 DEF Settle
      <4>3. CASE \E report \in Reports : ReaderRouting(r, report)
        BY <1>2, <3>3, <4>3 DEF ReaderRouting
      <4>4. QED
        BY <1>2, <3>4, <4>1, <4>2, <4>3
           DEF Sender, Radio, Refuse, Record, Transmit, SendTextReturns, Complete,
               Uncertain, Announce, Release, ReaderEcho, InsideSendText
    <3>5. CASE Publish
      BY <3>1, <3>5, QueueType DEF Publish, TypeOK, Thread
    <3>6. CASE Drop \/ Traffic \/ DeleteMessages \/ Crash \/ UNCHANGED vars
      BY <1>2, <3>6 DEF Drop, Traffic, DeleteMessages, Crash, Idle
    <3>7. QED
      BY <3>2, <3>4, <3>5, <3>6 DEF Next
  <2>2. PICK target \in Candidates(t) :
          job' = [job EXCEPT ![t].step = "write", ![t].target = target]
    BY <2>1, FinishJob DEF Select, Working
  <2>3. job[t] \in [step : {"select", "write", "publish"}, req : Request,
                    report : Report, target : {"request", "echo"}]
    BY <2>1, JobType DEF Select
  <2>4. target = "echo" /\ job'[t].req = job[t].req
    BY <2>2, <2>3 DEF TypeOK
  <2>5. Present(EchoKey(job[t].req))
    BY <2>2, <2>3, <2>4, ReplaceableType DEF Candidates, Present, EchoKey
  <2>6. ~ msgs[RequestKey(job[t].req)].packet
    BY <2>3, <2>5 DEF NoEchoBesideRequest, RequestKey, EchoKey
  <2>7. QED
    BY <2>1, <2>4, <2>6
<1>3. QED
  BY <1>1, <1>2

\* The send was over when the daemon last died: onAckNak is forgotten.
Forgotten(r) == phase[r] = "returned" /\ call[r] = Fresh

\* The sending thread is taking care of the early report.
Handling(r) ==
  /\ job["sender"].step \in {"select", "write"}
  /\ job["sender"].req = r
  /\ job["sender"].report = call[r].early

\* Early reports, reports that were taken care of, and the row agree.
ReportAgrees(r) ==
  /\ phase[r] \notin Late => handled[r] = {}
  /\ msgs[RequestKey(r)].packet => call[r].id \/ Forgotten(r)
  /\ phase[r] = "settling" \/ result[r] = "sent" => call[r].stored \/ Forgotten(r)
  /\ result[r] = "sent" => phase[r] \in {"unwinding", "returned"}
  /\ result[r] = "sent" /\ call[r].id /\ call[r].early # "none"
       => call[r].early \in handled[r]
  /\ phase[r] = "settling" /\ call[r].id /\ call[r].early # "none"
       => call[r].early \in handled[r] \/ Handling(r)
  /\ msgs[RequestKey(r)].packet =>
       \A report \in handled[r] :
         Rank(msgs[RequestKey(r)].status) >= Rank(report)

\* The inductive invariant.
ReportInv == \A r \in Request : ReportAgrees(r)

\* What a report may not replace, on a completed row, is at least as far.
LEMMA NotReplaceableRank ==
  ASSUME NEW report \in Report, NEW s \in Status,
         s # "uviss", s \notin Replaceable(report)
  PROVE  Rank(s) >= Rank(report)
BY DEF Report, Status, Replaceable, Rank

\* The agreement outlives every step that leaves the send, its call and its
\* reports alone, at most drops its row, and does not abandon the early report.
LEMMA ReportFrame ==
  ASSUME NEW r \in Request, ReportAgrees(r),
         msgs'[RequestKey(r)] \in {msgs[RequestKey(r)], Absent},
         phase'[r] = phase[r], call'[r] = call[r], result'[r] = result[r],
         handled'[r] = handled[r],
         phase[r] = "settling" /\ Handling(r) => Handling(r)'
  PROVE  ReportAgrees(r)'
BY DEF ReportAgrees, Forgotten, Absent

\* The steps of _send and _send_impl keep the agreement.
LEMMA SenderReports ==
  ASSUME TypeOK, SendInv, LockInv, ReportInv, NEW r \in Request, Sender(r)
  PROVE  ReportInv'
<1> USE DEF vars, dbVars, sendVars, obsVars
<1> SUFFICES ASSUME NEW q \in Request PROVE ReportAgrees(q)'
  BY DEF ReportInv
<1>0. ReportAgrees(q) /\ SendAgrees(q) /\ ReportAgrees(r) /\ SendAgrees(r)
  BY DEF ReportInv, SendInv
<1>1. ASSUME q # r, UNCHANGED <<handled>>,
             phase'[q] = phase[q], call'[q] = call[q], result'[q] = result[q],
             msgs'[RequestKey(q)] \in {msgs[RequestKey(q)], Absent},
             UNCHANGED job \/ phase[q] # "settling"
      PROVE  ReportAgrees(q)'
  BY <1>0, <1>1, ReportFrame DEF Handling
<1>2. phase[r] \in Incomplete =>
        ~ msgs[RequestKey(r)].packet /\ handled[r] = {} /\ result[r] # "sent"
  BY <1>0 DEF SendAgrees, ReportAgrees, Incomplete, Late
<1>3. CASE Refuse(r)
  <2>1. CASE q = r
    <3>1. ~ msgs[RequestKey(r)].packet /\ handled[r] = {} /\ result'[r] = "notSent"
          /\ phase'[r] = "returned"
      BY <1>0, <1>3 DEF Refuse, SendAgrees, ReportAgrees, Present, Late, TypeOK
    <3>2. QED
      BY <1>3, <2>1, <3>1 DEF Refuse, ReportAgrees
  <2>2. CASE q # r
    BY <1>1, <1>3, <2>2 DEF Refuse, TypeOK
  <2>3. QED
    BY <2>1, <2>2
<1>4. CASE Record(r)
  <2>1. /\ ~ msgs'[RequestKey(r)].packet
        /\ \A k \in Key \ {RequestKey(r)} : Kept(k)
    BY <1>4, InsertRows, KeyType DEF Record, RequestKey
  <2>2. CASE q = r
    <3>1. handled'[r] = {} /\ result'[r] # "sent" /\ phase'[r] = "recorded"
      BY <1>0, <1>4 DEF Record, SendAgrees, ReportAgrees, Late, TypeOK
    <3>2. QED
      BY <2>1, <2>2, <3>1 DEF ReportAgrees
  <2>3. CASE q # r
    BY <1>1, <1>4, <2>1, <2>3, KeyType DEF Record, Kept, TypeOK
  <2>4. QED
    BY <2>2, <2>3
<1>5. CASE Transmit(r)
  <2>1. CASE q = r
    BY <1>2, <1>5, <2>1 DEF Transmit, ReportAgrees, Incomplete, TypeOK
  <2>2. CASE q # r
    BY <1>1, <1>5, <2>2 DEF Transmit, TypeOK
  <2>3. QED
    BY <2>1, <2>2
<1>6. CASE SendTextReturns(r)
  <2>1. CASE q = r
    BY <1>2, <1>6, <2>1 DEF SendTextReturns, ReportAgrees, Incomplete, TypeOK
  <2>2. CASE q # r
    BY <1>1, <1>6, <2>2 DEF SendTextReturns, TypeOK
  <2>3. QED
    BY <2>1, <2>2
<1>7. CASE Complete(r)
  <2>1. CASE q = r
    <3>1. msgs'[RequestKey(r)].packet = call[r].id
      BY <1>7, CompleteRows
    <3>2. handled'[r] = {} /\ result'[r] # "sent" /\ phase'[r] = "completed"
          /\ call'[r] = call[r]
      BY <1>2, <1>7 DEF Complete, Incomplete, TypeOK
    <3>3. QED
      BY <2>1, <3>1, <3>2 DEF ReportAgrees
  <2>2. CASE q # r
    <3>1. msgs'[RequestKey(q)] = msgs[RequestKey(q)]
      BY <1>7, <2>2, CompleteRows, KeyType DEF TypeOK
    <3>2. QED
      BY <1>1, <1>7, <2>2, <3>1 DEF Complete, TypeOK
  <2>3. QED
    BY <2>1, <2>2
<1>8. CASE Uncertain(r)
  <2>1. CASE q = r
    <3>1. /\ ~ msgs'[RequestKey(r)].packet /\ handled'[r] = {}
          /\ result'[r] = "uncertain" /\ phase'[r] = "unwinding"
      BY <1>2, <1>8 DEF Uncertain, Incomplete, TypeOK
    <3>2. QED
      BY <2>1, <3>1 DEF ReportAgrees
  <2>2. CASE q # r
    BY <1>1, <1>8, <2>2 DEF Uncertain, TypeOK
  <2>3. QED
    BY <2>1, <2>2
<1>9. CASE Settle(r)
  <2>1. CASE q = r
    <3>1. /\ UNCHANGED <<msgs, handled, result>> /\ phase'[r] = "settling"
          /\ phase[r] = "completed" /\ result[r] # "sent"
      BY <1>0, <1>9 DEF Settle, ReportAgrees, TypeOK
    <3>2. /\ call'[r].stored /\ call'[r].id = call[r].id
          /\ call'[r].early = call[r].early
      BY <1>9 DEF Settle, TypeOK, Call
    <3>3. call[r].id /\ call[r].early # "none" => Handling(r)'
      BY <1>9, <3>2 DEF Settle, Handling, StatusUpdate, Idle, TypeOK, Thread
    <3>4. /\ handled'[r] = handled[r] /\ result'[r] # "sent"
          /\ msgs'[RequestKey(r)] = msgs[RequestKey(r)]
          /\ msgs[RequestKey(r)].packet => call[r].id
      BY <1>0, <3>1 DEF ReportAgrees, Forgotten
    <3>5. ReportAgrees(r)'
      BY <1>0, <3>1, <3>2, <3>3, <3>4 DEF ReportAgrees, Late
    <3>6. QED
      BY <2>1, <3>5
  <2>2. CASE q # r
    <3>1. phase[q] # "settling"
      BY <1>9, <2>2 DEF Settle, LockInv, Sending, Used
    <3>2. QED
      BY <1>1, <1>9, <2>2, <3>1 DEF Settle, TypeOK
  <2>3. QED
    BY <2>1, <2>2
<1>10. CASE Announce(r)
  <2>1. CASE q = r
    <3>1. /\ UNCHANGED <<msgs, call, handled>> /\ phase[r] = "settling"
          /\ phase'[r] = "unwinding" /\ result'[r] = "sent"
      BY <1>10 DEF Announce, TypeOK
    <3>2. ~ Handling(r)
      BY <1>10 DEF Announce, Handling, Idle
    <3>3. QED
      BY <1>0, <2>1, <3>1, <3>2 DEF ReportAgrees, Forgotten, Late
  <2>2. CASE q # r
    BY <1>1, <1>10, <2>2 DEF Announce, TypeOK
  <2>3. QED
    BY <2>1, <2>2
<1>11. CASE Replay(r)
  <2>1. Receive("sender", Head(deferred)) /\ Head(deferred) \in Packet
    BY <1>11, QueueType DEF Replay, TypeOK
  <2>2. Kept(RequestKey(q))
    BY <2>1, ReceiveRows, KeyType DEF Thread
  <2>3. phase[q] # "settling"
    BY <1>11 DEF Replay, LockInv, Sending, Used
  <2>4. QED
    BY <1>0, <1>11, <2>2, <2>3, ReportFrame DEF Replay, Kept
<1>12. CASE Release(r)
  <2>1. CASE q = r
    <3>1. UNCHANGED <<msgs, call, handled, result>> /\ phase[r] = "unwinding"
          /\ phase'[r] = "returned"
      BY <1>12 DEF Release, TypeOK
    <3>2. QED
      BY <1>0, <2>1, <3>1 DEF ReportAgrees, Forgotten, Late
  <2>2. CASE q # r
    BY <1>1, <1>12, <2>2 DEF Release, TypeOK
  <2>3. QED
    BY <2>1, <2>2
<1>13. QED
  BY <1>3, <1>4, <1>5, <1>6, <1>7, <1>8, <1>9, <1>10, <1>11, <1>12 DEF Sender

\* A report that is taken care of and that its row has reached.
LEMMA TookReports ==
  ASSUME TypeOK, ReportInv, NEW t \in Thread, NEW q \in Request, Took(t),
         job[t].req \in Request, job[t].report \in Report,
         phase[job[t].req] \in Late,
         UNCHANGED <<phase, call, result>>,
         \A u \in Thread \ {t} : job'[u] = job[u],
         msgs'[RequestKey(q)].packet = msgs[RequestKey(q)].packet,
         job[t].req # q => msgs'[RequestKey(q)] = msgs[RequestKey(q)],
         job[t].req = q /\ msgs[RequestKey(q)].packet =>
           /\ Rank(msgs'[RequestKey(q)].status) >= Rank(job[t].report)
           /\ Rank(msgs'[RequestKey(q)].status) >= Rank(msgs[RequestKey(q)].status)
  PROVE  ReportAgrees(q)'
<1>0. ReportAgrees(q)
  BY DEF ReportInv
<1>1. handled'[q] = IF job[t].req = q THEN handled[q] \cup {job[t].report}
                    ELSE handled[q]
  BY DEF Took, TypeOK
<1>2. Handling(q) => Handling(q)' \/ call[q].early \in handled'[q]
  <2>1. CASE t = "sender"
    BY <1>1, <2>1 DEF Handling
  <2>2. CASE t # "sender"
    BY <2>2 DEF Handling, Thread
  <2>3. QED
    BY <2>1, <2>2
<1>3. ASSUME msgs'[RequestKey(q)].packet, NEW report \in handled'[q]
      PROVE  Rank(msgs'[RequestKey(q)].status) >= Rank(report)
  <2>1. \A s : Rank(s) \in Nat
    BY DEF Rank
  <2>2. report \in handled[q] => Rank(msgs[RequestKey(q)].status) >= Rank(report)
    BY <1>0, <1>3 DEF ReportAgrees
  <2>3. QED
    BY <1>1, <1>3, <2>1, <2>2
<1>4. QED
  BY <1>0, <1>1, <1>2, <1>3 DEF ReportAgrees, Forgotten

\* update_message_status leaves the row at least as far as its report.
LEMMA UpdateReports ==
  ASSUME TypeOK, SendInv, LockInv, WorkInv, TargetInv, ReportInv,
         NEW t \in Thread, Update(t)
  PROVE  ReportInv'
<1> USE DEF vars, dbVars, sendVars, obsVars
<1> SUFFICES ASSUME NEW q \in Request PROVE ReportAgrees(q)'
  BY DEF ReportInv
<1>0. ReportAgrees(q) /\ SendAgrees(q)
  BY DEF ReportInv, SendInv
<1>1. /\ Working(t) /\ job[t].req \in Request /\ job[t].report \in Report
      /\ phase[job[t].req] \in Late
      /\ job[t].step # "idle" /\ UNCHANGED call
      /\ \A u \in Thread \ {t} : job'[u] = job[u]
  <2>1. Working(t) /\ \A u \in Thread \ {t} : job'[u] = job[u]
    BY UpdateJob
  <2>2. job[t].req \in Request /\ job[t].report \in Report
    BY <2>1, JobType DEF Working
  <2>3. UNCHANGED call
    BY DEF Update, Select, Write, PublishStatus, UpdateFails
  <2>4. QED
    BY <2>1, <2>2, <2>3 DEF WorkInv, Working
<1>2. ASSUME msgs[RequestKey(q)].packet, job[t].req = q,
             msgs[RequestKey(q)].status \notin Replaceable(job[t].report)
      PROVE  Rank(msgs[RequestKey(q)].status) >= Rank(job[t].report)
  <2>1. msgs[RequestKey(q)].status \notin {"absent", "uviss"}
    BY <1>0, <1>2 DEF SendAgrees
  <2>2. msgs[RequestKey(q)].status \in Status
    BY <2>1, RowType, KeyType DEF Present
  <2>3. QED
    BY <1>1, <1>2, <2>1, <2>2, NotReplaceableRank
<1>3. CASE Select(t) /\ Candidates(t) = {} /\ Took(t) /\ Finish(t)
  <2>1. UNCHANGED <<msgs, phase, result>>
    BY <1>3 DEF Select
  <2>2. job[t].req = q /\ msgs[RequestKey(q)].packet =>
          Rank(msgs[RequestKey(q)].status) >= Rank(job[t].report)
    BY <1>2, <1>3 DEF Candidates, RequestKey
  <2>3. \A s : Rank(s) >= Rank(s)
    BY DEF Rank
  <2>4. QED
    BY <1>1, <1>3, <2>1, <2>2, <2>3, TookReports
<1>4. CASE Select(t) /\ ~ (Candidates(t) = {} /\ Took(t) /\ Finish(t))
  <2>1. PICK target \in {"request", "echo"} :
          /\ job' = [job EXCEPT ![t].step = "write", ![t].target = target]
          /\ UNCHANGED <<msgs, phase, result, handled>>
    BY <1>4 DEF Select, Candidates
  <2>2. job[t] \in [step : {"select", "write", "publish"}, req : Request,
                    report : Report, target : {"request", "echo"}]
    BY <1>1, JobType
  <2>3. Handling(q) => Handling(q)'
    BY <1>1, <2>1, <2>2 DEF Handling, TypeOK, Thread
  <2>4. QED
    BY <1>0, <1>1, <2>1, <2>3, ReportFrame
<1>5. CASE Write(t)
  <2> DEFINE key == <<job[t].target, job[t].req>>
  <2>1. Took(t) /\ UNCHANGED <<phase, call, result>>
    BY <1>5 DEF Write
  <2>2. key \in Key /\ job[t].step = "write" /\ job[t].target \in {"request", "echo"}
    BY <1>1, <1>5, JobType, WriteRows DEF Write
  <2>3. key = RequestKey(q) \/ key = EchoKey(job[t].req)
        \/ (job[t].req # q /\ key # RequestKey(q))
    BY <2>2 DEF RequestKey, EchoKey
  <2>4. \A s : Rank(s) \in Nat
    BY DEF Rank
  <2>5. CASE msgs[key].status \notin Replaceable(job[t].report)
    <3>1. UNCHANGED msgs
      BY <1>5, <2>5 DEF Write
    <3>2. job[t].req = q /\ msgs[RequestKey(q)].packet =>
            Rank(msgs[RequestKey(q)].status) >= Rank(job[t].report)
      <4>1. ASSUME job[t].req = q, msgs[RequestKey(q)].packet
            PROVE  key = RequestKey(q)
        BY <2>2, <4>1 DEF TargetInv, RequestKey
      <4>2. QED
        BY <1>2, <2>5, <4>1
    <3>3. QED
      BY <1>1, <2>1, <2>4, <3>1, <3>2, TookReports
  <2>6. CASE msgs[key].status \in Replaceable(job[t].report)
    <3>1. /\ msgs' = [msgs EXCEPT ![key] =
                        [msgs[key] EXCEPT !.status = job[t].report]]
          /\ msgs'[key].status = job[t].report
          /\ msgs'[key].packet = msgs[key].packet
      <4>1. Present(key)
        BY <1>1, <2>6, ReplaceableType DEF Present
      <4>2. msgs[key] \in Row
        BY <2>2, <4>1, RowType
      <4>3. msgs' = [msgs EXCEPT ![key].status = job[t].report]
        BY <1>5, <2>6 DEF Write
      <4>4. QED
        BY <2>2, <4>2, <4>3 DEF Row, TypeOK
    <3>2. CASE key = RequestKey(q)
      <4>1. job[t].req = q
        BY <3>2 DEF RequestKey
      <4>2. Rank(msgs[key].status) < Rank(job[t].report)
        BY <1>1, <2>6, ReplaceableRank
      <4>3. QED
        BY <1>1, <2>1, <2>4, <3>1, <3>2, <4>1, <4>2, TookReports
    <3>3. CASE key # RequestKey(q)
      <4>1. msgs'[RequestKey(q)] = msgs[RequestKey(q)]
        BY <3>1, <3>3, KeyType DEF TypeOK
      <4>2. job[t].req = q => ~ msgs[RequestKey(q)].packet
        BY <2>2, <3>3 DEF TargetInv, RequestKey
      <4>3. QED
        BY <1>1, <2>1, <4>1, <4>2, TookReports
    <3>4. QED
      BY <3>2, <3>3
  <2>7. QED
    BY <2>5, <2>6
<1>6. CASE PublishStatus(t)
  <2>1. UNCHANGED <<msgs, phase, result, handled>> /\ job[t].step = "publish"
    BY <1>6 DEF PublishStatus
  <2>2. Handling(q) => Handling(q)'
    BY <1>1, <2>1 DEF Handling, Thread
  <2>3. QED
    BY <1>0, <1>1, <2>1, <2>2, ReportFrame
<1>7. CASE UpdateFails(t)
  <2>1. UNCHANGED <<msgs, handled>>
    BY <1>7 DEF UpdateFails
  <2>2. CASE t = "sender" /\ phase[job[t].req] = "settling" /\ job[t].req = q
    <3>1. phase'[q] = "unwinding" /\ result'[q] = "uncertain"
      BY <1>7, <2>2 DEF UpdateFails, TypeOK
    <3>2. QED
      BY <1>0, <1>1, <2>1, <2>2, <3>1 DEF ReportAgrees, Forgotten, Late
  <2>3. CASE t = "sender" /\ phase[job[t].req] = "settling" /\ job[t].req # q
    <3>1. phase'[q] = phase[q] /\ result'[q] = result[q]
      BY <1>7, <2>3 DEF UpdateFails, TypeOK
    <3>2. phase[q] # "settling"
      BY <1>1, <2>3 DEF LockInv, Sending, Used
    <3>3. QED
      BY <1>0, <1>1, <2>1, <3>1, <3>2, ReportFrame
  <2>4. CASE ~ (t = "sender" /\ phase[job[t].req] = "settling")
    <3>1. UNCHANGED <<phase, result>>
      BY <1>7, <2>4 DEF UpdateFails
    <3>2. phase[q] = "settling" /\ Handling(q) => t # "sender"
      BY <2>4 DEF Handling
    <3>3. phase[q] = "settling" /\ Handling(q) => Handling(q)'
      BY <1>1, <3>2 DEF Handling, Thread
    <3>4. QED
      BY <1>0, <1>1, <2>1, <3>1, <3>3, ReportFrame
  <2>5. QED
    BY <2>2, <2>3, <2>4
<1>8. QED
  BY <1>3, <1>4, <1>5, <1>6, <1>7 DEF Update

\* onAckNak holds back a report until the row is complete, and not after.
LEMMA RadioReports ==
  ASSUME TypeOK, SendInv, ReportInv, NEW r \in Request, Radio(r)
  PROVE  ReportInv'
<1> USE DEF vars, dbVars, sendVars, obsVars
<1> SUFFICES ASSUME NEW q \in Request PROVE ReportAgrees(q)'
  BY DEF ReportInv
<1>0. ReportAgrees(q) /\ SendAgrees(q)
  BY DEF ReportInv, SendInv
<1>1. /\ UNCHANGED <<msgs, phase, result, handled>>
      /\ job'["sender"] = job["sender"]
  BY DEF Radio, ReaderRouting, ReaderEcho, InsideSendText, TypeOK, Thread
<1>2. CASE call'[q] = call[q]
  BY <1>0, <1>1, <1>2, ReportFrame DEF Handling
<1>3. CASE call'[q] # call[q]
  <2>1. q = r /\ call[q].waiting
    BY <1>3 DEF Radio, ReaderRouting, ReaderEcho, InsideSendText, TypeOK
  <2>2. ~ Forgotten(q)
    BY <2>1 DEF Forgotten, Fresh
  <2>3. call[q] \in Call
    BY DEF TypeOK
  <2>4. CASE \E report \in Reports : ReaderRouting(r, report)
    <3>1. PICK report \in Reports :
            call' = [call EXCEPT ![r].waiting = FALSE,
                                 ![r].early = IF TooEarly(r) THEN report ELSE @]
      BY <2>1, <2>4 DEF ReaderRouting
    <3>2. /\ call'[q].id = call[q].id /\ call'[q].stored = call[q].stored
          /\ ~ TooEarly(q) => call'[q].early = call[q].early
      BY <2>1, <2>3, <3>1 DEF TypeOK, Call
    <3>3. phase[q] = "settling" \/ result[q] = "sent" =>
            call[q].stored /\ (call[q].id => call'[q].early = call[q].early)
      BY <1>0, <2>2, <3>2 DEF ReportAgrees, TooEarly
    <3>4. QED
      BY <1>0, <1>1, <2>2, <3>2, <3>3 DEF ReportAgrees, Handling
  <2>5. CASE InsideSendText(r)
    <3>1. phase[q] = "onAir"
      BY <2>1, <2>5 DEF InsideSendText
    <3>2. ~ msgs[RequestKey(q)].packet /\ result[q] # "sent" /\ handled[q] = {}
      BY <1>0, <3>1 DEF SendAgrees, ReportAgrees, Incomplete, Late
    <3>3. QED
      BY <1>1, <3>1, <3>2 DEF ReportAgrees
  <2>6. CASE ReaderEcho(r)
    BY <1>3, <2>6 DEF ReaderEcho
  <2>7. QED
    BY <2>4, <2>5, <2>6 DEF Radio
<1>4. QED
  BY <1>2, <1>3

\* The agreement is kept by every step.
LEMMA NextReports ==
  /\ TypeOK /\ SendInv /\ LockInv /\ WorkInv /\ TargetInv /\ ReportInv
  /\ [Next]_vars
  => ReportInv'
<1> USE DEF vars, dbVars, sendVars, obsVars
<1> SUFFICES ASSUME TypeOK, SendInv, LockInv, WorkInv, TargetInv, ReportInv,
                    [Next]_vars, NEW q \in Request
             PROVE  ReportAgrees(q)'
  BY DEF ReportInv
<1>0. ReportAgrees(q) /\ SendAgrees(q)
  BY DEF ReportInv, SendInv
<1>1. ASSUME NEW r \in Request, Sender(r) \/ Radio(r)
      PROVE  ReportAgrees(q)'
  BY <1>1, SenderReports, RadioReports DEF ReportInv
<1>2. ASSUME NEW t \in Thread, Update(t)
      PROVE  ReportAgrees(q)'
  BY <1>2, UpdateReports DEF ReportInv
<1>3. CASE Publish
  <2>1. Receive("publisher", Head(pubq)) /\ Head(pubq) \in Packet
    BY <1>3, QueueType DEF Publish, TypeOK
  <2>2. Kept(RequestKey(q))
    BY <2>1, ReceiveRows, KeyType DEF Thread
  <2>3. job'["sender"] = job["sender"]
    BY <2>1, ReceiveJob DEF Thread
  <2>4. QED
    BY <1>0, <1>3, <2>2, <2>3, ReportFrame DEF Publish, Kept, Handling
<1>4. CASE Drop \/ UNCHANGED vars
  BY <1>0, <1>4, ReportFrame DEF Drop, Handling
<1>5. CASE Traffic
  <2>1. Kept(RequestKey(q))
    BY <1>5, TrafficRows, KeyType
  <2>2. QED
    BY <1>0, <1>5, <2>1, ReportFrame DEF Traffic, Kept, Handling
<1>6. CASE DeleteMessages
  <2>1. PICK scope \in SUBSET Request :
          msgs' = Without(msgs, {"request", "echo"} \X scope)
    BY <1>6, RequestAssumption DEF DeleteMessages
  <2>2. msgs'[RequestKey(q)] \in {msgs[RequestKey(q)], Absent}
    BY <2>1, DeleteRows
  <2>3. QED
    BY <1>0, <1>6, <2>2, ReportFrame DEF DeleteMessages, Handling
<1>7. CASE Crash
  <2>1. /\ UNCHANGED <<msgs, handled>> /\ call'[q] = Fresh
        /\ phase'[q] = (IF phase[q] = "waiting" THEN "waiting" ELSE "returned")
        /\ result'[q] = "sent" => result[q] = "sent"
    BY <1>7 DEF Crash
  <2>2. phase[q] = "waiting" => ~ msgs[RequestKey(q)].packet /\ handled[q] = {}
                                /\ result[q] # "sent"
    BY <1>0 DEF SendAgrees, ReportAgrees, Present, Late
  <2>3. Fresh.early = "none"
    BY DEF Fresh
  <2>4. QED
    BY <1>0, <2>1, <2>2, <2>3 DEF ReportAgrees, Forgotten, Late
<1>8. QED
  BY <1>1, <1>2, <1>3, <1>4, <1>5, <1>6, <1>7 DEF Next

\* However onAckNak, _on_receive and the sending thread interleave, a completed
\* row is at least as far as every report this daemon has taken care of, and an
\* answered send at least as far as the report that came before its row.
THEOREM ReportsReach == Spec => []ReportsReachTheRow
<1>1. Init => TargetInv /\ ReportInv
  <2> SUFFICES ASSUME Init PROVE TargetInv /\ ReportInv
    OBVIOUS
  <2>1. TargetInv
    BY DEF Init, TargetInv, Idle
  <2>2. ASSUME NEW r \in Request PROVE ReportAgrees(r)
    <3>1. /\ msgs[RequestKey(r)] = Absent /\ phase[r] = "waiting"
          /\ result[r] = "none" /\ handled[r] = {}
      BY KeyType DEF Init
    <3>2. QED
      BY <3>1 DEF ReportAgrees, Absent
  <2>3. QED
    BY <2>1, <2>2 DEF ReportInv
<1>2. ReportInv => ReportsReachTheRow
  <2> SUFFICES ASSUME ReportInv, NEW r \in Request, msgs[RequestKey(r)].packet
               PROVE  LET row == msgs[RequestKey(r)]
                      IN  /\ \A report \in handled[r] : Rank(row.status) >= Rank(report)
                          /\ result[r] = "sent" /\ call[r].early # "none"
                               => Rank(row.status) >= Rank(call[r].early)
    BY DEF ReportsReachTheRow, RequestKey
  <2>1. ReportAgrees(r)
    BY DEF ReportInv
  <2>2. call[r].early # "none" => ~ Forgotten(r)
    BY DEF Forgotten, Fresh
  <2>3. QED
    BY <2>1, <2>2 DEF ReportAgrees
<1>3. QED
  BY <1>1, <1>2, NextTargets, NextReports, TypeCorrect, SendsAgree, LockHeld,
     WorkIsSent, NoEchoEver, PTL DEF Spec
=============================================================================
