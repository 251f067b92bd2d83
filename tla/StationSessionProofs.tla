------------------------ MODULE StationSessionProofs ------------------------
(***************************************************************************)
(* Theorems about StationSession for every set of devices, stations and    *)
(* threads, every table size and every timeout.                            *)
(***************************************************************************)
EXTENDS StationSession, TLAPS

-----------------------------------------------------------------------------
(* The inductive invariant.                                                *)

\* Ids are handed out in order, and a row that exists names a device and a station.
TableInv ==
    \A r \in Session :
        /\ rows[r].status = "none" <=> r > used
        /\ rows[r].status # "none" => rows[r].client \in Client /\ rows[r].station \in Station

PcOf(op) ==
    CASE op = "acquire"   -> {"acquiring"}
      [] op = "force"     -> {"forcing"}
      [] op = "heartbeat" -> {"beating"}
      [] op = "report"    -> {"reporting"}
      [] op = "release"   -> {"switching", "closing"}

\* What a request remembers agrees with the table: its phase fits its operation,
\* the session it takes over and the session it writes exist.
RequestOk(q, table) ==
    /\ q.phase \in {"insert", "overwrite"} => q.op \in {"acquire", "force"}
    /\ q.phase = "commit" =>
           /\ q.op \in {"heartbeat", "report", "release"}
           /\ q.sid \in Session
           /\ table[q.sid].status # "none"
    /\ q.seen # NoSession =>
           /\ table[q.seen].status # "none"
           /\ table[q.seen].station = q.station
           /\ q.op = "force"
    /\ q.phase = "begin" => q.seen = NoSession

RequestInv == \A t \in Thread : req[t] # None => RequestOk(req[t], rows)

\* A client waits for at most one request, made for the station it shows.
LiveInv ==
    /\ \A t \in Thread :
           req[t] # None /\ req[t].live =>
               /\ cl[req[t].client].pc \in PcOf(req[t].op)
               /\ cl[req[t].client].station = req[t].station
    /\ \A t, u \in Thread :
           /\ req[t] # None /\ req[t].live
           /\ req[u] # None /\ req[u].live
           /\ req[t].client = req[u].client
           => t = u

IInv == TypeOK /\ TableInv /\ OneHolder /\ RequestInv /\ LiveInv /\ SessionOfMyStation

Answers == [kind: {"ok", "conflict", "error"}, sid: 0..MaxSession]

-----------------------------------------------------------------------------
(* Types.                                                                  *)

LEMMA NoSessionType == NoSession \in 0..MaxSession
BY BoundAssumption DEF NoSession

LEMMA ZeroAge == 0 \in 0..Timeout + 1
BY BoundAssumption

LEMMA StartType == \A s \in Station : Start(s) \in Desk
BY NoSessionType DEF Start, Desk

LEMMA DeadType == \A d \in Desk : Dead(d) \in Desk /\ Dead(d).sid = NoSession
BY NoSessionType DEF Start, Dead, Desk

\* Every answer leaves the client in a state it can be in.
LEMMA AfterType ==
    ASSUME NEW d \in Desk, NEW answer \in Answers
    PROVE  After(d, answer) \in Desk
<1> USE NoSessionType DEF Desk, Answers, Waiting
<1>1. Released(d) \in Desk
    BY DEF Released
<1>2. Acquired(d, answer) \in Desk
    BY DEF Acquired
<1>3. Forced(d, answer) \in Desk
    BY DEF Forced
<1>4. Dead(d) \in Desk
    BY DeadType
<1>5. [d EXCEPT !.pc = "idle"] \in Desk
    OBVIOUS
<1>6. QED
    BY <1>1, <1>2, <1>3, <1>4, <1>5 DEF After

LEMMA AnswerType ==
    ASSUME TypeOK, NEW t \in Thread, NEW answer \in Answers, req[t] # None, Answer(t, answer)
    PROVE  req' \in [Thread -> Request \cup {None}] /\ cl' \in [Client -> Desk]
<1>1. req[t].client \in Client
    BY DEF TypeOK, Request
<1>2. After(cl[req[t].client], answer) \in Desk
    BY <1>1, AfterType DEF TypeOK
<1>3. QED
    BY <1>1, <1>2 DEF TypeOK, Answer

\* Closing, sweeping and beating keep a row a row.
LEMMA RowTypes ==
    ASSUME TypeOK
    PROVE  /\ Swept \in [Session -> Row]
           /\ \A row \in Row : Closed(row) \in Row /\ Beaten(row) \in Row
<1>1. \A row \in Row, a \in 0..Timeout + 1 :
          [row EXCEPT !.status = "offline", !.age = a] \in Row /\ [row EXCEPT !.age = a] \in Row
    BY DEF Row
<1>2. \A row \in Row : Closed(row) \in Row /\ Beaten(row) \in Row
    BY <1>1, ZeroAge DEF Closed, Beaten
<1>3. QED
    BY <1>2 DEF TypeOK, Swept

LEMMA HandlerType ==
    ASSUME TypeOK, NEW t \in Thread, Handler(t)
    PROVE  TypeOK'
<1> USE NoSessionType
<1>0. /\ Conflict \in Answers /\ Error \in Answers
      /\ \A r \in 0..MaxSession : Ok(r) \in Answers
    BY DEF Conflict, Error, Ok, Answers
<1>1. CASE AcquireRead(t)
    <2>1. rows' \in [Session -> Row] /\ used' = used
        BY <1>1, RowTypes DEF AcquireRead
    <2>2. CASE Answer(t, Conflict)
        BY <1>0, <1>1, <2>1, <2>2, AnswerType DEF AcquireRead, At, TypeOK
    <2>3. CASE ~Answer(t, Conflict)
        <3>1. PICK r \in 0..MaxSession :
                  req' = [req EXCEPT ![t].phase = "insert", ![t].seen = r] /\ cl' = cl
            BY <1>1, <2>3 DEF AcquireRead, Session, OnlineAt
        <3>2. req[t] \in Request
            BY <1>1 DEF AcquireRead, At, TypeOK
        <3>3. QED
            BY <2>1, <3>1, <3>2 DEF TypeOK, Request
    <2>4. QED
        BY <2>2, <2>3
<1>2. CASE AcquireInsert(t)
    <2>1. req[t] \in Request
        BY <1>2 DEF AcquireInsert, At, TypeOK
    <2> DEFINE table == [r \in Session |-> IF r = req[t].seen THEN Closed(rows[r]) ELSE rows[r]]
    <2>2. table \in [Session -> Row]
        BY RowTypes DEF TypeOK
    <2>3. CASE /\ used < MaxSession
               /\ used' = used + 1
               /\ rows' = [table EXCEPT ![used + 1] =
                              [status |-> "online", client |-> req[t].client,
                               station |-> req[t].station, age |-> 0]]
               /\ Answer(t, Ok(used + 1))
        <3>1. used + 1 \in 0..MaxSession
            BY <2>3, BoundAssumption DEF TypeOK
        <3>2. \A a \in 0..Timeout + 1 :
                  [status |-> "online", client |-> req[t].client,
                   station |-> req[t].station, age |-> a] \in Row
            BY <2>1 DEF Row, Request
        <3>3. rows' \in [Session -> Row]
            BY <2>2, <2>3, <3>2, ZeroAge
        <3>4. QED
            BY <1>0, <1>2, <2>3, <3>1, <3>3, AnswerType DEF AcquireInsert, At, TypeOK
    <2>4. CASE /\ rows' = table
               /\ req' = [req EXCEPT ![t].phase = "overwrite", ![t].seen = NoSession]
               /\ UNCHANGED <<cl, used>>
        BY <2>1, <2>2, <2>4 DEF TypeOK, Request
    <2>5. QED
        BY <1>2, <2>3, <2>4 DEF AcquireInsert
<1>3. CASE AcquireOverwrite(t)
    <2>1. req[t] \in Request
        BY <1>3 DEF AcquireOverwrite, At, TypeOK
    <2>2. \A row \in Row, a \in 0..Timeout + 1 :
              [row EXCEPT !.client = req[t].client, !.age = a] \in Row
        BY <2>1 DEF Row, Request
    <2>3. rows' \in [Session -> Row] /\ used' = used
        BY <1>3, <2>2, ZeroAge DEF AcquireOverwrite, TypeOK
    <2>4. OnlineAt(rows, req[t].station) \subseteq 0..MaxSession
        BY BoundAssumption DEF OnlineAt, Session
    <2>5. PICK r \in 0..MaxSession : Answer(t, Ok(r))
        BY <1>3, <2>4 DEF AcquireOverwrite
    <2>6. QED
        BY <1>0, <1>3, <2>3, <2>5, AnswerType DEF AcquireOverwrite, At, TypeOK
<1>4. CASE Validate(t)
    <2>1. rows' \in [Session -> Row] /\ used' = used
        BY <1>4, RowTypes DEF Validate, TypeOK
    <2>2. CASE Answer(t, Error)
        BY <1>0, <1>4, <2>1, <2>2, AnswerType DEF Validate, At, TypeOK
    <2>3. CASE Goto(t, "commit")
        BY <1>4, <2>1, <2>3 DEF Validate, At, Goto, TypeOK, Request
    <2>4. QED
        BY <1>4, <2>2, <2>3 DEF Validate
<1>5. CASE HeartbeatWrite(t)
    <2>1. req[t] \in Request
        BY <1>5 DEF HeartbeatWrite, At, TypeOK
    <2>2. rows' \in [Session -> Row]
        BY <1>5, RowTypes DEF HeartbeatWrite, TypeOK
    <2>3. QED
        BY <1>0, <1>5, <2>1, <2>2, AnswerType DEF HeartbeatWrite, At, TypeOK, Request
<1>6. CASE ReportWrite(t)
    BY <1>0, <1>6, AnswerType DEF ReportWrite, At, TypeOK, Request
<1>7. CASE ReleaseRead(t)
    <2>1. CASE Answer(t, Error)
        BY <1>0, <1>7, <2>1, AnswerType DEF ReleaseRead, At, TypeOK
    <2>2. CASE Goto(t, "commit")
        BY <1>7, <2>2 DEF ReleaseRead, At, Goto, TypeOK, Request
    <2>3. QED
        BY <1>7, <2>1, <2>2 DEF ReleaseRead
<1>8. CASE ReleaseWrite(t)
    <2>1. req[t] \in Request
        BY <1>8 DEF ReleaseWrite, At, TypeOK
    <2>2. rows' \in [Session -> Row]
        BY <1>8, RowTypes DEF ReleaseWrite, TypeOK
    <2>3. QED
        BY <1>0, <1>8, <2>1, <2>2, AnswerType DEF ReleaseWrite, At, TypeOK, Request
<1>9. CASE HandlerFails(t)
    BY <1>0, <1>9, AnswerType DEF HandlerFails, TypeOK
<1>10. QED
    BY <1>1, <1>2, <1>3, <1>4, <1>5, <1>6, <1>7, <1>8, <1>9 DEF Handler

LEMMA SendType ==
    ASSUME TypeOK, NEW c \in Client, NEW op \in Op, NEW desk \in Desk, Send(c, op, desk)
    PROVE  TypeOK'
BY NoSessionType DEF Send, TypeOK, Request, Desk

LEMMA BecomeType ==
    ASSUME TypeOK, NEW c \in Client, NEW desk \in Desk, Become(c, desk)
    PROVE  TypeOK'
BY DEF Become, TypeOK

\* Forgetting who waits keeps a request a request.
LEMMA UnwatchedType ==
    ASSUME TypeOK, NEW c \in Client,
           req' = [t \in Thread |->
                      IF req[t] # None /\ req[t].client = c
                      THEN [req[t] EXCEPT !.live = FALSE] ELSE req[t]]
    PROVE  req' \in [Thread -> Request \cup {None}]
BY DEF TypeOK, Request

\* What a client sends: it was at rest, it now waits for an operation's answer,
\* and it has changed neither its station nor its session.
Asks(c) ==
    \E op \in Op, desk \in Desk :
        /\ Send(c, op, desk)
        /\ cl[c].pc \notin Waiting
        /\ desk.pc \in PcOf(op)
        /\ desk.sid = cl[c].sid /\ desk.station = cl[c].station

\* What it does alone: it was at rest, and it has kept its station and session
\* or forgotten the session.
Moves(c) ==
    \E desk \in Desk :
        /\ Become(c, desk)
        /\ cl[c].pc \notin Waiting
        /\ desk.sid = NoSession \/ (desk.sid = cl[c].sid /\ desk.station = cl[c].station)

LEMMA AsksIntro ==
    ASSUME NEW c \in Client, NEW op \in Op, NEW desk \in Desk,
           desk.pc \in PcOf(op), desk.sid = cl[c].sid, desk.station = cl[c].station,
           cl[c].pc \in {"idle", "conflict", "download", "down"}
    PROVE  Send(c, op, desk) => Asks(c)
<1>1. cl[c].pc \notin Waiting
    BY DEF Waiting
<1>2. QED
    BY <1>1 DEF Asks

LEMMA MovesIntro ==
    ASSUME NEW c \in Client, NEW desk \in Desk,
           desk.sid = cl[c].sid, desk.station = cl[c].station,
           cl[c].pc \in {"idle", "conflict", "download", "down"}
    PROVE  Become(c, desk) => Moves(c)
<1>1. cl[c].pc \notin Waiting
    BY DEF Waiting
<1>2. QED
    BY <1>1 DEF Moves

LEMMA ForgetsIntro ==
    ASSUME NEW c \in Client, NEW desk \in Desk, desk.sid = NoSession,
           cl[c].pc \in {"idle", "conflict", "download", "down"}
    PROVE  Become(c, desk) => Moves(c)
<1>1. cl[c].pc \notin Waiting
    BY DEF Waiting
<1>2. QED
    BY <1>1 DEF Moves

LEMMA Calls ==
    /\ {"acquire", "force", "heartbeat", "report", "release"} \subseteq Op
    /\ "acquiring" \in PcOf("acquire") /\ "forcing" \in PcOf("force")
    /\ "beating" \in PcOf("heartbeat") /\ "reporting" \in PcOf("report")
    /\ "switching" \in PcOf("release") /\ "closing" \in PcOf("release")
BY DEF Op, PcOf

LEMMA DesktopSteps ==
    ASSUME TypeOK, NEW c \in Client, Desktop(c)
    PROVE  Asks(c) \/ Moves(c) \/ GiveUp(c) \/ Crash(c)
<1> USE NoSessionType
<1>0. cl[c] \in Desk
    BY DEF TypeOK
<1>1. ASSUME NEW s \in Station, SwitchStation(c, s) PROVE Asks(c) \/ Moves(c)
    <2> DEFINE leaving == [cl[c] EXCEPT !.goal = s, !.acquired = FALSE, !.config = FALSE,
                                        !.pc = "switching"]
               alone == [cl[c] EXCEPT !.station = s, !.goal = s, !.sid = NoSession,
                                      !.acquired = TRUE, !.config = TRUE, !.pc = "idle"]
    <2>1. /\ leaving \in Desk /\ leaving.pc = "switching"
          /\ leaving.sid = cl[c].sid /\ leaving.station = cl[c].station
        BY <1>0 DEF Desk, Waiting
    <2>2. alone \in Desk /\ alone.sid = NoSession
        BY <1>0 DEF Desk
    <2>3. Send(c, "release", leaving) \/ Become(c, alone)
        BY <1>1 DEF SwitchStation
    <2>4. cl[c].pc \in {"idle", "conflict", "download", "down"}
        BY <1>1 DEF SwitchStation
    <2> HIDE DEF leaving, alone
    <2>5. QED
        BY <2>1, <2>2, <2>3, <2>4, AsksIntro, ForgetsIntro, Calls
<1>2. CASE DownloadConfig(c)
    <2> DEFINE asking == [cl[c] EXCEPT !.config = TRUE, !.pc = "acquiring"]
               failed == [cl[c] EXCEPT !.pc = "idle"]
    <2>1. /\ asking \in Desk /\ asking.pc = "acquiring"
          /\ asking.sid = cl[c].sid /\ asking.station = cl[c].station
        BY <1>0 DEF Desk, Waiting
    <2>2. failed \in Desk /\ failed.sid = cl[c].sid /\ failed.station = cl[c].station
        BY <1>0 DEF Desk
    <2>3. Send(c, "acquire", asking) \/ Become(c, failed)
        BY <1>2 DEF DownloadConfig
    <2>4. cl[c].pc = "download"
        BY <1>2 DEF DownloadConfig
    <2> HIDE DEF asking, failed
    <2>5. QED
        BY <2>1, <2>2, <2>3, <2>4, AsksIntro, MovesIntro, Calls
<1>3. CASE ForceAcquire(c)
    <2> DEFINE desk == [cl[c] EXCEPT !.pc = "forcing"]
    <2>1. desk \in Desk /\ desk.pc = "forcing" /\ desk.sid = cl[c].sid /\ desk.station = cl[c].station
        BY <1>0 DEF Desk, Waiting
    <2>2. Send(c, "force", desk) /\ cl[c].pc \in {"idle", "conflict"}
        BY <1>3 DEF ForceAcquire
    <2> HIDE DEF desk
    <2>3. QED
        BY <2>1, <2>2, AsksIntro, Calls
<1>4. CASE DismissConflict(c)
    <2> DEFINE desk == [cl[c] EXCEPT !.pc = "idle"]
    <2>1. desk \in Desk /\ desk.sid = cl[c].sid /\ desk.station = cl[c].station
        BY <1>0 DEF Desk
    <2>2. Become(c, desk) /\ cl[c].pc = "conflict"
        BY <1>4 DEF DismissConflict
    <2> HIDE DEF desk
    <2>3. QED
        BY <2>1, <2>2, MovesIntro
<1>5. CASE SendHeartbeat(c)
    <2> DEFINE desk == [cl[c] EXCEPT !.pc = "beating"]
    <2>1. desk \in Desk /\ desk.pc = "beating" /\ desk.sid = cl[c].sid /\ desk.station = cl[c].station
        BY <1>0 DEF Desk, Waiting
    <2>2. Send(c, "heartbeat", desk) /\ cl[c].pc \in {"idle", "conflict"}
        BY <1>5 DEF SendHeartbeat
    <2> HIDE DEF desk
    <2>3. QED
        BY <2>1, <2>2, AsksIntro, Calls
<1>6. CASE SendReport(c)
    <2> DEFINE desk == [cl[c] EXCEPT !.pc = "reporting"]
    <2>1. desk \in Desk /\ desk.pc = "reporting" /\ desk.sid = cl[c].sid /\ desk.station = cl[c].station
        BY <1>0 DEF Desk, Waiting
    <2>2. Send(c, "report", desk) /\ cl[c].pc \in {"idle", "conflict"}
        BY <1>6 DEF SendReport
    <2> HIDE DEF desk
    <2>3. QED
        BY <2>1, <2>2, AsksIntro, Calls
<1>7. CASE ChangeMode(c)
    <2> DEFINE desk == [cl[c] EXCEPT !.online = ~cl[c].online, !.config = cl[c].online,
                                     !.acquired = cl[c].online]
    <2>1. desk \in Desk /\ desk.sid = cl[c].sid /\ desk.station = cl[c].station
        BY <1>0 DEF Desk
    <2>2. Become(c, desk) /\ cl[c].pc = "idle"
        BY <1>7 DEF ChangeMode
    <2> HIDE DEF desk
    <2>3. QED
        BY <2>1, <2>2, MovesIntro
<1>8. ASSUME NEW s \in Station, SyncProjects(c, s) PROVE Moves(c)
    <2> DEFINE desk == [cl[c] EXCEPT !.station = s, !.goal = s, !.sid = NoSession,
                                     !.acquired = FALSE, !.config = FALSE]
    <2>1. desk \in Desk /\ desk.sid = NoSession
        BY <1>0 DEF Desk
    <2>2. Become(c, desk) /\ cl[c].pc = "idle"
        BY <1>8 DEF SyncProjects
    <2> HIDE DEF desk
    <2>3. QED
        BY <2>1, <2>2, ForgetsIntro
<1>9. CASE CloseWindow(c)
    <2> DEFINE desk == [cl[c] EXCEPT !.pc = "closing"]
    <2>1. desk \in Desk /\ desk.pc = "closing" /\ desk.sid = cl[c].sid /\ desk.station = cl[c].station
        BY <1>0 DEF Desk, Waiting
    <2>2. Send(c, "release", desk) \/ Become(c, Dead(cl[c]))
        BY <1>9 DEF CloseWindow
    <2>3. cl[c].pc = "idle"
        BY <1>9 DEF CloseWindow
    <2> HIDE DEF desk
    <2>4. QED
        BY <1>0, <2>1, <2>2, <2>3, DeadType, AsksIntro, ForgetsIntro, Calls
<1>10. ASSUME NEW s \in Station, Restart(c, s) PROVE Moves(c)
    <2>1. Start(s) \in Desk /\ Start(s).sid = NoSession
        BY StartType DEF Start
    <2>2. Become(c, Start(s)) /\ cl[c].pc = "down"
        BY <1>10 DEF Restart
    <2>3. QED
        BY <2>1, <2>2, ForgetsIntro
<1>11. QED
    BY <1>1, <1>2, <1>3, <1>4, <1>5, <1>6, <1>7, <1>8, <1>9, <1>10 DEF Desktop

LEMMA DesktopType ==
    ASSUME TypeOK, NEW c \in Client, Desktop(c)
    PROVE  TypeOK'
<1>1. CASE Asks(c)
    BY <1>1, SendType DEF Asks
<1>2. CASE Moves(c)
    BY <1>2, BecomeType DEF Moves
<1>3. CASE GiveUp(c)
    <2>1. After(cl[c], Error) \in Desk
        BY NoSessionType, AfterType DEF Error, Answers, TypeOK
    <2>2. QED
        BY <1>3, <2>1, UnwatchedType DEF GiveUp, TypeOK
<1>4. CASE Crash(c)
    BY <1>4, DeadType, UnwatchedType DEF Crash, TypeOK
<1>5. QED
    BY <1>1, <1>2, <1>3, <1>4, DesktopSteps

LEMMA TypeStep == TypeOK /\ [Next]_vars => TypeOK'
<1> SUFFICES ASSUME TypeOK, [Next]_vars PROVE TypeOK'
    OBVIOUS
<1>1. ASSUME NEW r \in Session, AdminRelease(r) PROVE TypeOK'
    BY <1>1, RowTypes DEF AdminRelease, TypeOK
<1>2. CASE Tick
    BY <1>2, BoundAssumption DEF Tick, TypeOK, Row
<1>3. CASE UNCHANGED vars
    BY <1>3 DEF vars, TypeOK
<1>4. QED
    BY <1>1, <1>2, <1>3, HandlerType, DesktopType DEF Next

LEMMA TypeInit == Init => TypeOK
BY BoundAssumption, StartType DEF Init, TypeOK, Row

\* Every variable keeps its type.
THEOREM TypeCorrect == Spec => []TypeOK
BY TypeInit, TypeStep, PTL DEF Spec

-----------------------------------------------------------------------------
(* The table: what any step does to the rows.                              *)

\* Rows that exist keep existing, at their station, and closed rows are frozen.
Grows ==
    /\ used <= used'
    /\ \A r \in Session :
           rows[r].status # "none" => rows'[r].status # "none" /\ rows'[r].station = rows[r].station
    /\ \A r \in Session :
           rows[r].status = "offline" => rows'[r].status = "offline" /\ rows'[r].client = rows[r].client

TableStep == Grows /\ TableInv' /\ OneHolder'

\* A step that adds no row and gives no row to another device, and at most
\* closes rows or changes their age.
Quiet ==
    /\ used' = used
    /\ \A r \in Session :
           /\ rows'[r].client = rows[r].client
           /\ rows'[r].station = rows[r].station
           /\ \/ rows'[r].status = rows[r].status
              \/ rows[r].status = "online" /\ rows'[r].status = "offline"

LEMMA QuietTable ==
    ASSUME IInv, TypeOK', Quiet
    PROVE  TableStep
<1>1. Grows
    BY DEF Quiet, Grows, IInv, TypeOK
<1>2. TableInv'
    BY DEF Quiet, IInv, TableInv, TypeOK, Row
<1>3. OneHolder'
    BY DEF Quiet, IInv, OneHolder
<1>4. QED
    BY <1>1, <1>2, <1>3 DEF TableStep

LEMMA SweptQuiet ==
    ASSUME TypeOK, rows' = Swept, used' = used
    PROVE  Quiet
BY DEF Swept, Stale, Closed, Quiet, TypeOK, Row

LEMMA HandlerQuiet ==
    ASSUME IInv, NEW t \in Thread, Handler(t)
    PROVE  AcquireInsert(t) \/ AcquireOverwrite(t) \/ Quiet
<1>1. CASE AcquireRead(t)
    BY <1>1, SweptQuiet DEF AcquireRead, IInv
<1>2. CASE Validate(t)
    <2>1. CASE rows' = Swept
        BY <1>2, <2>1, SweptQuiet DEF Validate, IInv
    <2>2. CASE UNCHANGED rows
        BY <1>2, <2>2 DEF Validate, Quiet
    <2>3. QED
        BY <1>2, <2>1, <2>2 DEF Validate
<1>3. CASE HeartbeatWrite(t)
    BY <1>3 DEF HeartbeatWrite, Quiet, Beaten, IInv, TypeOK, Row
<1>4. CASE ReleaseWrite(t)
    <2>1. req[t].sid \in Session /\ rows[req[t].sid].status # "none"
        BY <1>4 DEF ReleaseWrite, At, IInv, RequestInv, RequestOk
    <2>2. rows[req[t].sid].status \in {"online", "offline"}
        BY <2>1 DEF IInv, TypeOK, Row
    <2>3. QED
        BY <1>4, <2>1, <2>2 DEF ReleaseWrite, Quiet, Closed, IInv, TypeOK, Row
<1>5. CASE ReportWrite(t) \/ ReleaseRead(t) \/ HandlerFails(t)
    BY <1>5 DEF ReportWrite, ReleaseRead, HandlerFails, Quiet
<1>6. QED
    BY <1>1, <1>2, <1>3, <1>4, <1>5 DEF Handler

LEMMA InsertTable ==
    ASSUME IInv, TypeOK', NEW t \in Thread, AcquireInsert(t)
    PROVE  TableStep
<1> DEFINE table == [r \in Session |-> IF r = req[t].seen THEN Closed(rows[r]) ELSE rows[r]]
<1>1. req[t] \in Request
    BY DEF AcquireInsert, At, IInv, TypeOK
<1>2. req[t].seen \in Session => rows[req[t].seen].status \in {"online", "offline"}
    BY <1>1, BoundAssumption DEF AcquireInsert, At, IInv, RequestInv, RequestOk, TypeOK, Row, Session, NoSession
<1>3. \A r \in Session :
          /\ table[r].client = rows[r].client
          /\ table[r].station = rows[r].station
          /\ \/ table[r].status = rows[r].status
             \/ rows[r].status = "online" /\ table[r].status = "offline"
    BY <1>2 DEF Closed, IInv, TypeOK, Row
<1>4. CASE rows' = table /\ used' = used
    BY <1>3, <1>4, QuietTable DEF Quiet
<1>5. CASE /\ OnlineAt(table, req[t].station) = {}
           /\ used < MaxSession
           /\ used' = used + 1
           /\ rows' = [table EXCEPT ![used + 1] =
                          [status |-> "online", client |-> req[t].client,
                           station |-> req[t].station, age |-> 0]]
    <2>1. used \in Nat /\ used + 1 \in Session
        BY <1>5, BoundAssumption DEF IInv, TypeOK, Session
    <2>2. rows[used + 1].status = "none"
        BY <2>1 DEF IInv, TableInv
    <2>3. \A r \in Session \ {used + 1} : rows'[r] = table[r]
        BY <1>5, <2>1
    <2>4. /\ rows'[used + 1].status = "online"
          /\ rows'[used + 1].client = req[t].client
          /\ rows'[used + 1].station = req[t].station
        BY <1>5, <2>1
    <2>5. Grows
        BY <1>3, <1>5, <2>1, <2>2, <2>3 DEF Grows, IInv, TypeOK
    <2>6. TableInv'
        <3> SUFFICES ASSUME NEW r \in Session
                     PROVE  /\ rows'[r].status = "none" <=> r > used'
                            /\ rows'[r].status # "none" => rows'[r].client \in Client /\ rows'[r].station \in Station
            BY DEF TableInv
        <3>1. CASE r = used + 1
            BY <1>1, <1>5, <2>1, <2>4, <3>1 DEF Request
        <3>2. CASE r # used + 1
            BY <1>3, <1>5, <2>1, <2>3, <3>2, BoundAssumption DEF IInv, TableInv, Session
        <3>3. QED
            BY <3>1, <3>2
    <2>7. OneHolder'
        BY <1>3, <1>5, <2>1, <2>3, <2>4 DEF IInv, OneHolder, OnlineAt
    <2>8. QED
        BY <2>5, <2>6, <2>7 DEF TableStep
<1>6. QED
    BY <1>4, <1>5 DEF AcquireInsert, Insertable

LEMMA OverwriteTable ==
    ASSUME IInv, TypeOK', NEW t \in Thread, AcquireOverwrite(t)
    PROVE  TableStep
<1>1. req[t] \in Request
    BY DEF AcquireOverwrite, At, IInv, TypeOK
<1>2. ASSUME NEW r \in Session
      PROVE  /\ rows'[r].station = rows[r].station
             /\ rows'[r].status = rows[r].status
             /\ \/ rows'[r].client = rows[r].client
                \/ rows[r].status = "online" /\ rows'[r].client = req[t].client
    <2>1. rows[r] \in Row
        BY DEF IInv, TypeOK
    <2>2. CASE r \in OnlineAt(rows, req[t].station)
        <3>1. rows'[r] = [rows[r] EXCEPT !.client = req[t].client, !.age = 0]
            BY <2>2 DEF AcquireOverwrite
        <3>2. rows[r].status = "online"
            BY <2>2 DEF OnlineAt
        <3>3. QED
            BY <2>1, <3>1, <3>2 DEF Row
    <2>3. CASE r \notin OnlineAt(rows, req[t].station)
        BY <2>3 DEF AcquireOverwrite
    <2>4. QED
        BY <2>2, <2>3
<1>3. used' = used
    BY DEF AcquireOverwrite
<1>4. Grows
    BY <1>2, <1>3 DEF Grows, IInv, TypeOK
<1>5. TableInv'
    BY <1>1, <1>2, <1>3 DEF TableInv, IInv, Request
<1>6. OneHolder'
    BY <1>2 DEF OneHolder, IInv
<1>7. QED
    BY <1>4, <1>5, <1>6 DEF TableStep

LEMMA DesktopQuiet ==
    ASSUME IInv, NEW c \in Client, Desktop(c)
    PROVE  UNCHANGED <<rows, used>>
BY DesktopSteps DEF IInv, Asks, Moves, GiveUp, Crash, Send, Become

LEMMA TableOfNext ==
    ASSUME IInv, TypeOK', [Next]_vars
    PROVE  TableStep
<1>1. ASSUME NEW t \in Thread, Handler(t) PROVE TableStep
    BY <1>1, HandlerQuiet, QuietTable, InsertTable, OverwriteTable
<1>2. ASSUME NEW c \in Client, Desktop(c) PROVE TableStep
    <2>1. Quiet
        BY <1>2, DesktopQuiet DEF Quiet
    <2>2. QED
        BY <2>1, QuietTable
<1>3. ASSUME NEW r \in Session, AdminRelease(r) PROVE TableStep
    <2>1. rows[r].status \in {"online", "offline"}
        BY <1>3 DEF AdminRelease, IInv, TypeOK, Row
    <2>2. Quiet
        BY <1>3, <2>1 DEF AdminRelease, Closed, Quiet, IInv, TypeOK, Row
    <2>3. QED
        BY <2>2, QuietTable
<1>4. CASE Tick
    <2>1. Quiet
        BY <1>4 DEF Tick, Quiet, IInv, TypeOK, Row
    <2>2. QED
        BY <2>1, QuietTable
<1>5. CASE UNCHANGED vars
    <2>1. Quiet
        BY <1>5 DEF vars, Quiet
    <2>2. QED
        BY <2>1, QuietTable
<1>6. QED
    BY <1>1, <1>2, <1>3, <1>4, <1>5 DEF Next

-----------------------------------------------------------------------------
(* Requests.                                                               *)

\* A step that leaves a request alone cannot make it disagree with the table.
LEMMA RequestKept ==
    ASSUME TypeOK, Grows, NEW t \in Thread, req[t] # None, RequestOk(req[t], rows),
           NEW p \in Request,
           p.op = req[t].op /\ p.phase = req[t].phase /\ p.sid = req[t].sid
               /\ p.seen = req[t].seen /\ p.station = req[t].station
    PROVE  RequestOk(p, rows')
<1>1. p.seen # NoSession => p.seen \in Session
    BY BoundAssumption DEF Request, Session, NoSession
<1>2. QED
    BY <1>1 DEF RequestOk, Grows

LEMMA HandlerRequest ==
    ASSUME IInv, TypeOK', Grows, NEW t \in Thread, Handler(t)
    PROVE  RequestInv'
<1>1. req[t] \in Request /\ RequestOk(req[t], rows)
    BY DEF Handler, AcquireRead, AcquireInsert, AcquireOverwrite, Validate, HeartbeatWrite,
           ReportWrite, ReleaseRead, ReleaseWrite, HandlerFails, At, IInv, RequestInv, TypeOK
<1>2. \A u \in Thread \ {t} : req'[u] = req[u]
    BY DEF Handler, AcquireRead, AcquireInsert, AcquireOverwrite, Validate, HeartbeatWrite,
           ReportWrite, ReleaseRead, ReleaseWrite, HandlerFails, Answer, Goto, IInv, TypeOK
<1>3. ASSUME NEW u \in Thread \ {t}, req'[u] # None PROVE RequestOk(req'[u], rows')
    BY <1>2, <1>3, RequestKept DEF IInv, RequestInv, TypeOK
<1>4. ASSUME req'[t] # None PROVE RequestOk(req'[t], rows')
    <2>1. AcquireRead(t) \/ AcquireInsert(t) \/ Validate(t) \/ ReleaseRead(t)
        BY <1>4 DEF Handler, AcquireOverwrite, HeartbeatWrite, ReportWrite, ReleaseWrite,
                    HandlerFails, Answer, IInv, TypeOK
    <2>2. req[t] # None
        BY <2>1 DEF AcquireRead, AcquireInsert, Validate, ReleaseRead, At
    <2>3. CASE AcquireRead(t)
        <3>1. PICK r \in OnlineAt(Swept, req[t].station) \cup {NoSession} :
                  /\ r # NoSession => req[t].op # "acquire"
                  /\ req' = [req EXCEPT ![t].phase = "insert", ![t].seen = r]
            BY <1>4, <2>3 DEF AcquireRead, Answer, Refused, IInv, TypeOK
        <3>2. req'[t] = [req[t] EXCEPT !.phase = "insert", !.seen = r]
            BY <3>1 DEF IInv, TypeOK
        <3>3. rows' = Swept /\ req[t].op \in {"acquire", "force"}
            BY <2>3 DEF AcquireRead, At
        <3>4. r # NoSession => rows'[r].status = "online" /\ rows'[r].station = req[t].station
            BY <3>1, <3>3 DEF OnlineAt
        <3>5. /\ req'[t].phase = "insert" /\ req'[t].seen = r
              /\ req'[t].op = req[t].op /\ req'[t].station = req[t].station
            BY <1>1, <3>2 DEF Request
        <3>6. QED
            BY <3>1, <3>3, <3>4, <3>5 DEF RequestOk
    <2>4. CASE AcquireInsert(t)
        <3>1. req' = [req EXCEPT ![t].phase = "overwrite", ![t].seen = NoSession]
            BY <1>4, <2>4 DEF AcquireInsert, Answer, IInv, TypeOK
        <3>2. req'[t] = [req[t] EXCEPT !.phase = "overwrite", !.seen = NoSession]
            BY <3>1 DEF IInv, TypeOK
        <3>3. req[t].op \in {"acquire", "force"}
            BY <2>4 DEF AcquireInsert, At
        <3>4. QED
            BY <1>1, <3>2, <3>3 DEF RequestOk, Request
    <2>5. CASE Validate(t) \/ ReleaseRead(t)
        <3>1. req' = [req EXCEPT ![t].phase = "commit"]
            BY <1>4, <2>5 DEF Validate, ReleaseRead, Goto, Answer, IInv, TypeOK
        <3>2. req'[t] = [req[t] EXCEPT !.phase = "commit"]
            BY <3>1 DEF IInv, TypeOK
        <3>3. req[t].op \in {"heartbeat", "report", "release"} /\ req[t].phase = "begin"
            BY <2>5 DEF Validate, ReleaseRead, At
        <3>4. Current(t) \/ Releasable(t)
            BY <1>4, <2>5 DEF Validate, ReleaseRead, Answer, IInv, TypeOK
        <3>5. req[t].sid \in Session /\ rows[req[t].sid].status # "none"
            BY <1>1, <3>4, BoundAssumption DEF Current, Owns, Releasable, Request, Session, NoSession
        <3>6. rows'[req[t].sid].status # "none"
            BY <3>5 DEF Grows
        <3>7. QED
            BY <1>1, <3>2, <3>3, <3>5, <3>6 DEF RequestOk, Request
    <2>6. QED
        BY <2>1, <2>3, <2>4, <2>5
<1>5. QED
    BY <1>3, <1>4 DEF RequestInv

LEMMA DesktopRequest ==
    ASSUME IInv, TypeOK', Grows, NEW c \in Client, Desktop(c)
    PROVE  RequestInv'
<1>1. ASSUME NEW t \in Thread, req[t] # None, NEW p \in Request,
             p.op = req[t].op /\ p.phase = req[t].phase /\ p.sid = req[t].sid
                 /\ p.seen = req[t].seen /\ p.station = req[t].station
      PROVE  RequestOk(p, rows')
    BY <1>1, RequestKept DEF IInv, RequestInv
<1>2. ASSUME NEW op \in Op, NEW desk, Send(c, op, desk) PROVE RequestInv'
    <2>1. PICK t \in Thread :
              req' = [req EXCEPT ![t] =
                         [op |-> op, client |-> c, station |-> desk.station,
                          sid |-> IF op \in {"acquire", "force"} THEN NoSession ELSE desk.sid,
                          phase |-> "begin", seen |-> NoSession, live |-> TRUE]]
        BY <1>2 DEF Send
    <2>2. RequestOk(req'[t], rows')
        BY <2>1 DEF RequestOk, IInv, TypeOK
    <2>3. ASSUME NEW u \in Thread \ {t}, req'[u] # None PROVE RequestOk(req'[u], rows')
        BY <1>1, <2>1, <2>3 DEF IInv, TypeOK
    <2>4. QED
        BY <2>2, <2>3 DEF RequestInv
<1>3. ASSUME UNCHANGED req PROVE RequestInv'
    BY <1>1, <1>3 DEF RequestInv, IInv, TypeOK
<1>4. CASE GiveUp(c) \/ Crash(c)
    <2>1. SUFFICES ASSUME NEW t \in Thread, req'[t] # None PROVE RequestOk(req'[t], rows')
        BY DEF RequestInv
    <2>2. req'[t] = IF req[t] # None /\ req[t].client = c THEN [req[t] EXCEPT !.live = FALSE] ELSE req[t]
        BY <1>4 DEF GiveUp, Crash
    <2>3. req[t] # None /\ req[t] \in Request /\ req'[t] \in Request
        BY <2>1, <2>2, NoneAssumption DEF IInv, TypeOK
    <2>4. /\ req'[t].op = req[t].op /\ req'[t].phase = req[t].phase /\ req'[t].sid = req[t].sid
          /\ req'[t].seen = req[t].seen /\ req'[t].station = req[t].station
        BY <2>2, <2>3 DEF Request
    <2>5. QED
        BY <1>1, <2>3, <2>4
<1>5. QED
    BY <1>2, <1>3, <1>4, DesktopSteps DEF IInv, Asks, Moves, Become

-----------------------------------------------------------------------------
(* Who waits for what.                                                     *)

\* A client that is not blocked in a call waits for no request.
LEMMA NobodyWaits ==
    ASSUME IInv, NEW c \in Client, cl[c].pc \notin Waiting, NEW t \in Thread, req[t] # None,
           req[t].client = c
    PROVE  ~req[t].live
<1>1. req[t] \in Request
    BY DEF IInv, TypeOK
<1>2. PcOf(req[t].op) \subseteq Waiting
    BY <1>1 DEF PcOf, Waiting, Request, Op
<1>3. QED
    BY <1>1, <1>2 DEF IInv, LiveInv

\* A step after which no new client waits, and the waiting ones are where they were.
FewerWait ==
    \A t \in Thread :
        req'[t] # None /\ req'[t].live =>
            /\ req[t] # None /\ req[t].live
            /\ req'[t].client = req[t].client
            /\ req'[t].op = req[t].op
            /\ req'[t].station = req[t].station
            /\ cl'[req[t].client] = cl[req[t].client]

LEMMA FewerWaitLive ==
    ASSUME IInv, FewerWait
    PROVE  LiveInv'
BY DEF IInv, LiveInv, FewerWait

LEMMA AnswerWait ==
    ASSUME IInv, NEW t \in Thread, NEW answer, req[t] # None, Answer(t, answer)
    PROVE  FewerWait
<1> SUFFICES ASSUME NEW u \in Thread, req'[u] # None, req'[u].live
             PROVE  /\ req[u] # None /\ req[u].live
                    /\ req'[u] = req[u]
                    /\ cl'[req[u].client] = cl[req[u].client]
    BY DEF FewerWait
<1>1. u # t /\ req'[u] = req[u]
    BY DEF Answer, IInv, TypeOK
<1>2. CASE req[t].live
    <2>1. req[u].client # req[t].client
        BY <1>1, <1>2 DEF IInv, LiveInv
    <2>2. QED
        BY <1>1, <1>2, <2>1 DEF Answer, IInv, TypeOK
<1>3. CASE ~req[t].live
    BY <1>1, <1>3 DEF Answer
<1>4. QED
    BY <1>2, <1>3

LEMMA HandlerLive ==
    ASSUME IInv, NEW t \in Thread, Handler(t)
    PROVE  LiveInv'
<1>1. req[t] # None /\ req[t] \in Request
    BY DEF Handler, AcquireRead, AcquireInsert, AcquireOverwrite, Validate, HeartbeatWrite,
           ReportWrite, ReleaseRead, ReleaseWrite, HandlerFails, At, IInv, TypeOK
<1>2. ASSUME NEW answer, Answer(t, answer) PROVE LiveInv'
    BY <1>1, <1>2, AnswerWait, FewerWaitLive
<1>3. ASSUME cl' = cl,
             \/ \E r : req' = [req EXCEPT ![t].phase = "insert", ![t].seen = r]
             \/ req' = [req EXCEPT ![t].phase = "overwrite", ![t].seen = NoSession]
             \/ req' = [req EXCEPT ![t].phase = "commit"]
      PROVE  LiveInv'
    <2>1. /\ req'[t].live = req[t].live /\ req'[t].client = req[t].client
          /\ req'[t].op = req[t].op /\ req'[t].station = req[t].station
        BY <1>1, <1>3 DEF IInv, TypeOK, Request
    <2>2. \A u \in Thread \ {t} : req'[u] = req[u]
        BY <1>3 DEF IInv, TypeOK
    <2>3. FewerWait
        BY <1>1, <1>3, <2>1, <2>2 DEF FewerWait
    <2>4. QED
        BY <2>3, FewerWaitLive
<1>4. QED
    BY <1>2, <1>3 DEF Handler, AcquireRead, AcquireInsert, AcquireOverwrite, Validate, HeartbeatWrite,
                      ReportWrite, ReleaseRead, ReleaseWrite, HandlerFails, Goto

LEMMA SendLive ==
    ASSUME IInv, NEW c \in Client, NEW op \in Op, NEW desk \in Desk, Send(c, op, desk),
           cl[c].pc \notin Waiting, desk.pc \in PcOf(op)
    PROVE  LiveInv'
<1>1. PICK t \in Thread :
          /\ req[t] = None
          /\ req' = [req EXCEPT ![t] =
                        [op |-> op, client |-> c, station |-> desk.station,
                         sid |-> IF op \in {"acquire", "force"} THEN NoSession ELSE desk.sid,
                         phase |-> "begin", seen |-> NoSession, live |-> TRUE]]
    BY DEF Send
<1>2. \A u \in Thread \ {t} : req'[u] = req[u]
    BY <1>1 DEF IInv, TypeOK
<1>3. req'[t].client = c /\ req'[t].op = op /\ req'[t].station = desk.station
    BY <1>1 DEF IInv, TypeOK
<1>4. cl'[c] = desk /\ \A d \in Client \ {c} : cl'[d] = cl[d]
    BY DEF Send, IInv, TypeOK
<1>5. ASSUME NEW u \in Thread \ {t}, req[u] # None, req[u].live PROVE req[u].client \in Client \ {c}
    BY <1>5, NobodyWaits DEF IInv, TypeOK, Request
<1>6. QED
    BY <1>2, <1>3, <1>4, <1>5 DEF IInv, LiveInv

LEMMA BecomeLive ==
    ASSUME IInv, NEW c \in Client, NEW desk \in Desk, Become(c, desk), cl[c].pc \notin Waiting
    PROVE  LiveInv'
<1>1. ASSUME NEW t \in Thread, req[t] # None, req[t].live PROVE req[t].client \in Client \ {c}
    BY <1>1, NobodyWaits DEF IInv, TypeOK, Request
<1>2. FewerWait
    BY <1>1 DEF FewerWait, Become, IInv, TypeOK
<1>3. QED
    BY <1>2, FewerWaitLive

LEMMA DesktopLive ==
    ASSUME IInv, NEW c \in Client, Desktop(c)
    PROVE  LiveInv'
<1>1. CASE Asks(c)
    BY <1>1, SendLive DEF Asks
<1>2. CASE Moves(c)
    BY <1>2, BecomeLive DEF Moves
<1>3. CASE GiveUp(c) \/ Crash(c)
    <2>1. SUFFICES ASSUME NEW t \in Thread, req'[t] # None, req'[t].live
                   PROVE  /\ req[t] # None /\ req[t].live /\ req'[t] = req[t]
                          /\ cl'[req[t].client] = cl[req[t].client]
        BY FewerWaitLive DEF FewerWait
    <2>2. req'[t] = IF req[t] # None /\ req[t].client = c THEN [req[t] EXCEPT !.live = FALSE] ELSE req[t]
        BY <1>3 DEF GiveUp, Crash
    <2>3. req[t] # None /\ req[t] \in Request
        BY <2>1, <2>2 DEF IInv, TypeOK
    <2>4. req[t].client # c
        BY <2>1, <2>2, <2>3 DEF Request
    <2>5. cl'[req[t].client] = cl[req[t].client]
        BY <1>3, <2>3, <2>4 DEF GiveUp, Crash, IInv, TypeOK, Request
    <2>6. QED
        BY <2>1, <2>2, <2>3, <2>4, <2>5
<1>4. QED
    BY <1>1, <1>2, <1>3, DesktopSteps DEF IInv

-----------------------------------------------------------------------------
(* The client's session.                                                   *)

\* A client that keeps its station and session, or forgets the session, keeps
\* them in agreement.
LEMMA SessionKept ==
    ASSUME IInv, Grows, NEW c \in Client, NEW d,
           d.sid = NoSession \/ (d.sid = cl[c].sid /\ d.station = cl[c].station),
           d.sid # NoSession
    PROVE  rows'[d.sid].status # "none" /\ rows'[d.sid].station = d.station
<1>1. d.sid \in Session
    BY BoundAssumption DEF IInv, TypeOK, Desk, Session, NoSession
<1>2. QED
    BY <1>1 DEF IInv, SessionOfMyStation, Grows

\* An answered client either keeps or forgets its session, or takes the one an
\* acquire answered.
LEMMA AfterSession ==
    ASSUME NEW d \in Desk, NEW answer \in Answers
    PROVE  LET e == After(d, answer)
           IN \/ e.sid = NoSession
              \/ e.sid = d.sid /\ e.station = d.station
              \/ /\ d.pc \in {"acquiring", "forcing"} /\ answer.kind # "error"
                 /\ e.sid = answer.sid /\ e.station = d.station
<1> USE NoSessionType DEF Desk, Answers, Waiting
<1>1. Released(d).sid = NoSession
    BY DEF Released
<1>2. \/ Acquired(d, answer).sid = d.sid /\ Acquired(d, answer).station = d.station
      \/ /\ answer.kind # "error"
         /\ Acquired(d, answer).sid = answer.sid /\ Acquired(d, answer).station = d.station
    BY DEF Acquired
<1>3. \/ Forced(d, answer).sid = d.sid /\ Forced(d, answer).station = d.station
      \/ /\ answer.kind # "error"
         /\ Forced(d, answer).sid = answer.sid /\ Forced(d, answer).station = d.station
    BY DEF Forced
<1>4. Dead(d).sid = NoSession
    BY DeadType
<1>5. [d EXCEPT !.pc = "idle"].sid = d.sid /\ [d EXCEPT !.pc = "idle"].station = d.station
    OBVIOUS
<1>6. QED
    BY <1>1, <1>2, <1>3, <1>4, <1>5 DEF After

\* An answer keeps every client's session in agreement when an accepted acquire
\* answers a session of the station it was asked for.
LEMMA AnswerSession ==
    ASSUME IInv, Grows, NEW t \in Thread, NEW answer \in Answers, req[t] # None, Answer(t, answer),
           req[t].op \in {"acquire", "force"} /\ answer.kind # "error" /\ answer.sid # NoSession =>
               /\ rows'[answer.sid].status # "none"
               /\ rows'[answer.sid].station = req[t].station
    PROVE  SessionOfMyStation'
<1>1. SUFFICES ASSUME NEW c \in Client, cl'[c].sid # NoSession
               PROVE  rows'[cl'[c].sid].status # "none" /\ rows'[cl'[c].sid].station = cl'[c].station
    BY DEF SessionOfMyStation
<1>2. CASE req[t].live /\ c = req[t].client
    <2>1. cl'[c] = After(cl[c], answer) /\ cl[c] \in Desk
        BY <1>2 DEF Answer, IInv, TypeOK
    <2>2. CASE cl'[c].sid = cl[c].sid /\ cl'[c].station = cl[c].station
        BY <1>1, <2>2, SessionKept
    <2>3. CASE /\ cl[c].pc \in {"acquiring", "forcing"} /\ answer.kind # "error"
               /\ cl'[c].sid = answer.sid /\ cl'[c].station = cl[c].station
        <3>1. cl[c].pc \in PcOf(req[t].op) /\ cl[c].station = req[t].station /\ req[t].op \in Op
            BY <1>2 DEF IInv, LiveInv, TypeOK, Request
        <3>2. req[t].op \in {"acquire", "force"}
            BY <2>3, <3>1 DEF PcOf, Op
        <3>3. QED
            BY <1>1, <2>3, <3>1, <3>2
    <2>4. QED
        BY <1>1, <2>1, <2>2, <2>3, AfterSession
<1>3. CASE ~(req[t].live /\ c = req[t].client)
    <2>1. cl'[c] = cl[c]
        BY <1>3 DEF Answer, IInv, TypeOK
    <2>2. QED
        BY <1>1, <2>1, SessionKept
<1>4. QED
    BY <1>2, <1>3

LEMMA HandlerSession ==
    ASSUME IInv, TypeOK', Grows, NEW t \in Thread, Handler(t)
    PROVE  SessionOfMyStation'
<1> USE NoSessionType
<1>0. /\ Conflict \in Answers /\ Error \in Answers
      /\ Conflict.sid = NoSession /\ Error.kind = "error"
      /\ \A r \in 0..MaxSession : Ok(r) \in Answers /\ Ok(r).sid = r
    BY DEF Conflict, Error, Ok, Answers
<1>1. req[t] \in Request /\ req[t] # None
    BY DEF Handler, AcquireRead, AcquireInsert, AcquireOverwrite, Validate, HeartbeatWrite,
           ReportWrite, ReleaseRead, ReleaseWrite, HandlerFails, At, IInv, TypeOK
<1>2. CASE Answer(t, Error) \/ Answer(t, Conflict)
    BY <1>0, <1>1, <1>2, AnswerSession
<1>3. CASE cl' = cl
    BY <1>3, SessionKept DEF SessionOfMyStation
<1>4. CASE AcquireInsert(t) /\ Answer(t, Ok(used + 1))
    <2>1. req[t].op \in {"acquire", "force"}
        BY <1>4 DEF AcquireInsert, At
    <2>2. CASE /\ used < MaxSession
               /\ used' = used + 1
               /\ rows' = [[r \in Session |-> IF r = req[t].seen THEN Closed(rows[r]) ELSE rows[r]]
                            EXCEPT ![used + 1] =
                              [status |-> "online", client |-> req[t].client,
                               station |-> req[t].station, age |-> 0]]
        <3>1. used + 1 \in Session /\ used + 1 \in 0..MaxSession
            BY <2>2, BoundAssumption DEF IInv, TypeOK, Session
        <3>2. rows'[used + 1].status # "none" /\ rows'[used + 1].station = req[t].station
            BY <2>2, <3>1
        <3>3. QED
            BY <1>0, <1>1, <1>4, <3>1, <3>2, AnswerSession
    <2>3. CASE cl' = cl
        BY <2>3, <1>3
    <2>4. QED
        BY <1>4, <2>2, <2>3 DEF AcquireInsert
<1>5. CASE AcquireOverwrite(t)
    <2>1. PICK r \in OnlineAt(rows, req[t].station) \cup {NoSession} : Answer(t, Ok(r))
        BY <1>5 DEF AcquireOverwrite
    <2>2. r \in 0..MaxSession
        BY BoundAssumption DEF OnlineAt, Session
    <2>3. r # NoSession => /\ r \in Session
                          /\ rows[r].status = "online"
                          /\ rows[r].station = req[t].station
        BY DEF OnlineAt
    <2>4. r # NoSession => rows'[r].status # "none" /\ rows'[r].station = req[t].station
        BY <2>3 DEF Grows
    <2>5. QED
        BY <1>0, <1>1, <2>1, <2>2, <2>4, AnswerSession
<1>6. CASE HeartbeatWrite(t) \/ ReportWrite(t) \/ ReleaseWrite(t)
    <2>1. Answer(t, Ok(req[t].sid)) /\ req[t].op \in {"heartbeat", "report", "release"}
        BY <1>6 DEF HeartbeatWrite, ReportWrite, ReleaseWrite, At
    <2>2. req[t].sid \in 0..MaxSession
        BY <1>1 DEF Request
    <2>3. QED
        BY <1>0, <1>1, <2>1, <2>2, AnswerSession
<1>7. QED
    BY <1>2, <1>3, <1>4, <1>5, <1>6
       DEF Handler, AcquireRead, AcquireInsert, Validate, ReleaseRead, HandlerFails, Goto

LEMMA DesktopSession ==
    ASSUME IInv, Grows, NEW c \in Client, Desktop(c)
    PROVE  SessionOfMyStation'
<1>1. SUFFICES ASSUME NEW d \in Client, cl'[d].sid # NoSession
               PROVE  rows'[cl'[d].sid].status # "none" /\ rows'[cl'[d].sid].station = cl'[d].station
    BY DEF SessionOfMyStation
<1>2. CASE cl'[d] = cl[d]
    BY <1>1, <1>2, SessionKept
<1>3. CASE Asks(c) \/ Moves(c)
    <2>1. PICK desk \in Desk : /\ cl' = [cl EXCEPT ![c] = desk]
                               /\ desk.sid = NoSession \/ (desk.sid = cl[c].sid /\ desk.station = cl[c].station)
        BY <1>3 DEF Asks, Moves, Send, Become
    <2>2. CASE d = c
        <3>1. cl'[d] = desk
            BY <2>1, <2>2 DEF IInv, TypeOK
        <3>2. QED
            BY <1>1, <2>1, <2>2, <3>1, SessionKept
    <2>3. CASE d # c
        BY <1>2, <2>1, <2>3 DEF IInv, TypeOK
    <2>4. QED
        BY <2>2, <2>3
<1>4. CASE GiveUp(c)
    <2>1. CASE d = c
        <3>1. cl'[d] = After(cl[d], Error)
            BY <1>4, <2>1 DEF GiveUp, IInv, TypeOK
        <3>2. Error \in Answers /\ Error.kind = "error"
            BY NoSessionType DEF Error, Answers
        <3>3. cl'[d].sid = NoSession \/ (cl'[d].sid = cl[d].sid /\ cl'[d].station = cl[d].station)
            BY <3>1, <3>2, AfterSession DEF IInv, TypeOK
        <3>4. QED
            BY <1>1, <3>3, SessionKept
    <2>2. CASE d # c
        BY <1>2, <1>4, <2>2 DEF GiveUp, IInv, TypeOK
    <2>3. QED
        BY <2>1, <2>2
<1>5. CASE Crash(c)
    <2>1. CASE d = c
        BY <1>1, <1>5, <2>1, DeadType DEF Crash, IInv, TypeOK
    <2>2. CASE d # c
        BY <1>2, <1>5, <2>2 DEF Crash, IInv, TypeOK
    <2>3. QED
        BY <2>1, <2>2
<1>6. QED
    BY <1>3, <1>4, <1>5, DesktopSteps DEF IInv

-----------------------------------------------------------------------------
(* The invariant and what follows from it.                                 *)

LEMMA InvInit == Init => IInv
<1> SUFFICES ASSUME Init PROVE IInv
    OBVIOUS
<1>1. \A r \in Session : rows[r].status = "none" /\ r > used
    BY BoundAssumption DEF Init, Session
<1>2. \A c \in Client : cl[c].sid = NoSession
    BY DEF Init, Start
<1>3. TableInv /\ OneHolder
    BY <1>1 DEF TableInv, OneHolder
<1>4. RequestInv /\ LiveInv
    BY DEF Init, RequestInv, LiveInv
<1>5. QED
    BY <1>2, <1>3, <1>4, TypeInit DEF IInv, SessionOfMyStation

LEMMA InvStep == IInv /\ [Next]_vars => IInv' /\ Grows
<1> SUFFICES ASSUME IInv, [Next]_vars PROVE IInv' /\ Grows
    OBVIOUS
<1>1. TypeOK'
    BY TypeStep DEF IInv
<1>2. TableStep
    BY <1>1, TableOfNext
<1>3. Grows
    BY <1>2 DEF TableStep
<1>4. RequestInv' /\ LiveInv' /\ SessionOfMyStation'
    <2>1. ASSUME NEW t \in Thread, Handler(t) PROVE RequestInv' /\ LiveInv' /\ SessionOfMyStation'
        BY <1>1, <1>3, <2>1, HandlerRequest, HandlerLive, HandlerSession
    <2>2. ASSUME NEW c \in Client, Desktop(c) PROVE RequestInv' /\ LiveInv' /\ SessionOfMyStation'
        BY <1>1, <1>3, <2>2, DesktopRequest, DesktopLive, DesktopSession
    <2>3. CASE UNCHANGED <<req, cl>>
        <3>1. RequestInv'
            BY <1>3, <2>3, RequestKept DEF RequestInv, IInv, TypeOK
        <3>2. LiveInv'
            BY <2>3 DEF LiveInv, IInv
        <3>3. SessionOfMyStation'
            BY <1>3, <2>3, SessionKept DEF SessionOfMyStation
        <3>4. QED
            BY <3>1, <3>2, <3>3
    <2>4. QED
        BY <2>1, <2>2, <2>3 DEF Next, AdminRelease, Tick, vars
<1>5. QED
    BY <1>1, <1>2, <1>3, <1>4 DEF TableStep, IInv

\* The table, the requests inside the server and the waiting clients agree in
\* every reachable state.
THEOREM InvCorrect == Spec => []IInv
<1>1. IInv /\ [Next]_vars => IInv'
    BY InvStep
<1>2. QED
    BY <1>1, InvInit, PTL DEF Spec

\* However the requests of any number of devices overlap on any number of
\* threads, with timeouts, releases and takeovers between their statements, a
\* station never has two online sessions.
THEOREM OneHolderAlways == Spec => []OneHolder
<1>1. IInv => OneHolder
    BY DEF IInv
<1>2. QED
    BY <1>1, InvCorrect, PTL

\* A client's session id is never that of another station.
THEOREM SessionOfMyStationAlways == Spec => []SessionOfMyStation
<1>1. IInv => SessionOfMyStation
    BY DEF IInv
<1>2. QED
    BY <1>1, InvCorrect, PTL

\* A closed session is never revived or given to another device.
THEOREM ClosedStaysClosed == Spec => ClosedIsFinal
<1> DEFINE Frozen ==
        \A r \in Session :
            rows[r].status = "offline" =>
                /\ rows'[r].status = "offline"
                /\ rows'[r].client = rows[r].client
                /\ rows'[r].station = rows[r].station
<1>1. IInv /\ [Next]_vars => [Frozen]_vars
    <2> SUFFICES ASSUME IInv, [Next]_vars PROVE Frozen
        OBVIOUS
    <2>1. Grows
        BY InvStep
    <2>2. QED
        BY <2>1 DEF Grows
<1>2. QED
    BY <1>1, InvCorrect, PTL DEF Spec, ClosedIsFinal
=============================================================================
