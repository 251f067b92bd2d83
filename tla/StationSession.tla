--------------------------- MODULE StationSession ---------------------------
(***************************************************************************)
(* The station lease: table station_sessions, the request handlers that    *)
(* read and write it on the server's threads, the request gate in front of *)
(* the production endpoints, and the desktop clients that acquire a lease,  *)
(* keep it alive with a heartbeat and report work under it.                *)
(*                                                                         *)
(* A handler is one database transaction under READ COMMITTED: every       *)
(* statement sees what other requests committed before it.  A step of this *)
(* module is one statement, or several that hold the row they wrote, so    *)
(* that a commit of another request can fall between any two steps.  The   *)
(* sweep of stale rows is one step.  Time is the age of a row's last       *)
(* heartbeat, in ticks, up to Timeout + 1.                                 *)
(***************************************************************************)
EXTENDS Integers, FiniteSets

CONSTANTS
    Client,       \* client_id of the desktop clients
    Station,      \* station_id, of one project
    Thread,       \* server threads that can be inside a handler at once
    MaxSession,   \* bound: rows of station_sessions
    Timeout,      \* STATION_SESSION_TIMEOUT_SECONDS, in ticks
    None          \* SQL NULL, and an idle thread

ASSUME BoundAssumption == MaxSession \in Nat /\ Timeout \in Nat

VARIABLES
    rows,   \* station_sessions, by id
    used,   \* ids handed out so far
    req,    \* the request each thread is serving
    cl      \* the desktop clients

vars == <<rows, used, req, cl>>

Session == 1..MaxSession
NoSession == 0

Row == [status: {"none", "online", "offline"}, client: Client \cup {None},
        station: Station \cup {None}, age: 0..Timeout + 1]

Op == {"acquire", "force", "heartbeat", "report", "release"}

\* "seen" is the foreign session a forced acquire found online; "live" holds
\* while the client still waits for the answer.
Request == [op: Op, client: Client, station: Station, sid: 0..MaxSession,
            phase: {"begin", "insert", "overwrite", "commit"},
            seen: 0..MaxSession, live: BOOLEAN]

ASSUME NoneAssumption ==
    /\ None \notin Client \cup Station \cup Request
    /\ None \notin [client: Client, station: Station, forced: BOOLEAN]

\* Where the client's GUI thread is: at rest, in the conflict dialog, or
\* blocked in an HTTP call ("closing" is the release of closeEvent).
Waiting == {"switching", "acquiring", "forcing", "beating", "reporting", "closing"}

Desk == [online: BOOLEAN, config: BOOLEAN, acquired: BOOLEAN, sid: 0..MaxSession,
         station: Station, goal: Station,
         pc: Waiting \cup {"idle", "download", "conflict", "down"}]

TypeOK ==
    /\ rows \in [Session -> Row]
    /\ used \in 0..MaxSession
    /\ req \in [Thread -> Request \cup {None}]
    /\ cl \in [Client -> Desk]

-----------------------------------------------------------------------------
(* The table.                                                              *)

Stale(row) == row.status = "online" /\ row.age > Timeout

\* Mutant: the row is marked with a status nobody looks for.
ClosedReleased(row) == [row EXCEPT !.status = "released", !.age = 0]

\* The age of a row that is not online is never read.
Closed(row) == [row EXCEPT !.status = "offline", !.age = 0]

\* Mutant: the heartbeat also writes the status, as the UPDATE of acquire does.
BeatenOnline(row) == [row EXCEPT !.status = "online", !.age = 0]

\* The heartbeat updates by id, whatever the status.
Beaten(row) == [row EXCEPT !.age = 0]

\* Mutant: no sweep.
SweptNever == rows

Swept == [r \in Session |-> IF Stale(rows[r]) THEN Closed(rows[r]) ELSE rows[r]]

OnlineAt(table, s) ==
    {r \in Session : table[r].status = "online" /\ table[r].station = s}

\* Mutant: no ON CONFLICT clause and no partial unique index.
InsertableAlways(table, s) == TRUE

Insertable(table, s) == OnlineAt(table, s) = {}

\* Mutant: the conflict check is skipped.
RefusedNever(q, foreign) == FALSE

\* The conflict check of acquire_station_session.
Refused(q, foreign) == foreign # {} /\ q.op = "acquire"

\* The devices that hold the lease of a station, as the server sees it.
Holders(s) == {rows[r].client : r \in OnlineAt(rows, s)}

Owns(c, s, r) ==
    /\ r \in Session
    /\ rows[r].status = "online"
    /\ rows[r].station = s
    /\ rows[r].client = c

ProductionEnabled(c) ==
    \/ ~cl[c].online
    \/ cl[c].config /\ cl[c].acquired /\ cl[c].sid # NoSession

-----------------------------------------------------------------------------
(* Answers.  An error stands for an HTTP error, a refused connection and   *)
(* the 3 s client timeout alike: api_post raises in each case.             *)

Error == [kind |-> "error", sid |-> NoSession]
Conflict == [kind |-> "conflict", sid |-> NoSession]
Ok(r) == [kind |-> "ok", sid |-> r]

\* A new process: offline mode; only the client_id is kept, in config.ini.
Start(s) ==
    [online |-> FALSE, config |-> TRUE, acquired |-> FALSE, sid |-> NoSession,
     station |-> s, goal |-> s, pc |-> "idle"]

Dead(d) == [Start(d.station) EXCEPT !.pc = "down"]

\* Mutant: the old session id survives the switch.
ReleasedKeepingId(d) ==
    [d EXCEPT !.station = d.goal, !.acquired = FALSE, !.config = FALSE, !.pc = "download"]

\* switch_station goes on whatever the release answered.
Released(d) ==
    [d EXCEPT !.station = d.goal, !.sid = NoSession, !.acquired = FALSE,
              !.config = FALSE, !.pc = "download"]

Acquired(d, answer) ==
    IF answer.kind = "error"
    THEN [d EXCEPT !.acquired = FALSE, !.pc = "idle"]
    ELSE [d EXCEPT !.sid = answer.sid, !.acquired = answer.sid # NoSession,
                   !.pc = IF answer.sid # NoSession THEN "idle" ELSE "conflict"]

Forced(d, answer) ==
    IF answer.kind = "error"
    THEN [d EXCEPT !.pc = "idle"]
    ELSE [d EXCEPT !.sid = answer.sid, !.acquired = answer.sid # NoSession, !.pc = "idle"]

\* A failed heartbeat only writes the message line, and the server never
\* answers a heartbeat with ok = false.
After(d, answer) ==
    CASE d.pc = "switching" -> Released(d)
      [] d.pc = "acquiring" -> Acquired(d, answer)
      [] d.pc = "forcing"   -> Forced(d, answer)
      [] d.pc = "closing"   -> Dead(d)
      [] OTHER              -> [d EXCEPT !.pc = "idle"]

\* The thread ends its request; a client that still waits takes the answer.
Answer(t, answer) ==
    /\ req' = [req EXCEPT ![t] = None]
    /\ cl' = IF req[t].live
             THEN [cl EXCEPT ![req[t].client] = After(@, answer)]
             ELSE cl

Goto(t, phase) ==
    /\ req' = [req EXCEPT ![t].phase = phase]
    /\ UNCHANGED cl

At(t, ops, phase) == req[t] # None /\ req[t].op \in ops /\ req[t].phase = phase

-----------------------------------------------------------------------------
(* Handlers.                                                               *)

\* acquire_station_session up to the conflict check.
AcquireRead(t) ==
    /\ At(t, {"acquire", "force"}, "begin")
    /\ LET foreign == {r \in OnlineAt(Swept, req[t].station) :
                           Swept[r].client # req[t].client}
       IN /\ rows' = Swept
          /\ \/ /\ Refused(req[t], foreign)
                /\ Answer(t, Conflict)
             \/ /\ ~Refused(req[t], foreign)
                /\ \E r \in IF foreign = {} THEN {NoSession} ELSE foreign :
                       req' = [req EXCEPT ![t].phase = "insert", ![t].seen = r]
                /\ UNCHANGED cl
    /\ UNCHANGED used

\* Close the session taken over, then INSERT ... ON CONFLICT DO NOTHING.  The
\* inserted row is locked until the commit; the UPDATE that follows can only
\* meet another request's row when the INSERT did nothing.
AcquireInsert(t) ==
    /\ At(t, {"acquire", "force"}, "insert")
    /\ LET table == [r \in Session |->
                        IF r = req[t].seen THEN Closed(rows[r]) ELSE rows[r]]
       IN \/ /\ Insertable(table, req[t].station)
             /\ used < MaxSession
             /\ used' = used + 1
             /\ rows' = [table EXCEPT ![used + 1] =
                            [status |-> "online", client |-> req[t].client,
                             station |-> req[t].station, age |-> 0]]
             /\ Answer(t, Ok(used + 1))
          \/ /\ ~Insertable(table, req[t].station)
             /\ rows' = table
             /\ req' = [req EXCEPT ![t].phase = "overwrite", ![t].seen = NoSession]
             /\ UNCHANGED cl
             /\ UNCHANGED used

\* UPDATE ... SET client_id, last_heartbeat_at WHERE the station's row is
\* online, then read back the id (NULL when there is no such row any more).
AcquireOverwrite(t) ==
    /\ At(t, {"acquire", "force"}, "overwrite")
    /\ LET mine == OnlineAt(rows, req[t].station)
       IN /\ rows' = [r \in Session |->
                         IF r \in mine
                         THEN [rows[r] EXCEPT !.client = req[t].client, !.age = 0]
                         ELSE rows[r]]
          /\ \E r \in IF mine = {} THEN {NoSession} ELSE mine : Answer(t, Ok(r))
    /\ UNCHANGED used

Current(t) ==
    LET r == req[t].sid
    IN r # NoSession /\ Owns(req[t].client, req[t].station, r) /\ ~Stale(rows[r])

\* validate_station_session: its own transaction, rolled back when it refuses.
Validate(t) ==
    /\ At(t, {"heartbeat", "report"}, "begin")
    /\ \/ /\ Current(t)
          /\ rows' = Swept
          /\ Goto(t, "commit")
       \/ /\ ~Current(t)
          /\ Answer(t, Error)
          /\ UNCHANGED rows
    /\ UNCHANGED used

\* The second transaction of the heartbeat.
HeartbeatWrite(t) ==
    /\ At(t, {"heartbeat"}, "commit")
    /\ rows' = [rows EXCEPT ![req[t].sid] = Beaten(@)]
    /\ Answer(t, Ok(req[t].sid))
    /\ UNCHANGED used

\* A production endpoint writes its record in a transaction of its own.
ReportWrite(t) ==
    /\ At(t, {"report"}, "commit")
    /\ Answer(t, Ok(req[t].sid))
    /\ UNCHANGED <<rows, used>>

Releasable(t) ==
    LET r == req[t].sid
    IN /\ r # NoSession
       /\ rows[r].status # "none"
       /\ rows[r].station = req[t].station
       /\ rows[r].client = req[t].client

ReleaseRead(t) ==
    /\ At(t, {"release"}, "begin")
    /\ \/ Releasable(t) /\ Goto(t, "commit")
       \/ ~Releasable(t) /\ Answer(t, Error)
    /\ UNCHANGED <<rows, used>>

ReleaseWrite(t) ==
    /\ At(t, {"release"}, "commit")
    /\ rows' = [rows EXCEPT ![req[t].sid] = Closed(@)]
    /\ Answer(t, Ok(req[t].sid))
    /\ UNCHANGED used

\* The request is lost on its way, refused (wrong administrator password) or
\* its transaction fails and is rolled back.
HandlerFails(t) ==
    /\ req[t] # None
    /\ Answer(t, Error)
    /\ UNCHANGED <<rows, used>>

\* An administrator releases a session from the web page.
AdminRelease(r) ==
    /\ rows[r].status # "none"
    /\ rows' = [rows EXCEPT ![r] = Closed(@)]
    /\ UNCHANGED <<used, req, cl>>

Tick ==
    /\ \E r \in Session : rows[r].status = "online" /\ rows[r].age <= Timeout
    /\ rows' = [r \in Session |->
                   IF rows[r].status = "online" /\ rows[r].age <= Timeout
                   THEN [rows[r] EXCEPT !.age = @ + 1] ELSE rows[r]]
    /\ UNCHANGED <<used, req, cl>>

-----------------------------------------------------------------------------
(* Clients.                                                                *)

\* Bound: an acquire is sent only while a row is left for it.
RowLeft ==
    used + Cardinality({t \in Thread : At(t, {"acquire", "force"}, "begin")
                                    \/ At(t, {"acquire", "force"}, "insert")}) < MaxSession

\* The payload carries the session id, which acquire does not read.
Send(c, op, desk) ==
    \E t \in Thread :
        /\ req[t] = None
        /\ req' = [req EXCEPT ![t] =
                      [op |-> op, client |-> c, station |-> desk.station,
                       sid |-> IF op \in {"acquire", "force"} THEN NoSession ELSE desk.sid,
                       phase |-> "begin", seen |-> NoSession, live |-> TRUE]]
        /\ cl' = [cl EXCEPT ![c] = desk]
        /\ UNCHANGED <<rows, used>>

Become(c, desk) ==
    /\ cl' = [cl EXCEPT ![c] = desk]
    /\ UNCHANGED <<rows, used, req>>

\* switch_station, and the refresh button of the conflict dialog: give the old
\* lease back, take over the new station's configuration, acquire its lease.
SwitchStation(c, s) ==
    /\ cl[c].pc \in {"idle", "conflict"}
    /\ \/ /\ cl[c].online
          /\ Send(c, "release", [cl[c] EXCEPT !.goal = s, !.acquired = FALSE,
                                              !.config = FALSE, !.pc = "switching"])
       \/ /\ ~cl[c].online
          /\ Become(c, [cl[c] EXCEPT !.station = s, !.goal = s, !.sid = NoSession,
                                     !.acquired = TRUE, !.config = TRUE, !.pc = "idle"])

DownloadConfig(c) ==
    /\ cl[c].pc = "download"
    /\ \/ /\ RowLeft
          /\ Send(c, "acquire", [cl[c] EXCEPT !.config = TRUE, !.pc = "acquiring"])
       \/ Become(c, [cl[c] EXCEPT !.pc = "idle"])

ForceAcquire(c) ==
    /\ cl[c].pc = "conflict"
    /\ RowLeft
    /\ Send(c, "force", [cl[c] EXCEPT !.pc = "forcing"])

DismissConflict(c) ==
    /\ cl[c].pc = "conflict"
    /\ Become(c, [cl[c] EXCEPT !.pc = "idle"])

SendHeartbeat(c) ==
    /\ cl[c].pc = "idle"
    /\ cl[c].online
    /\ cl[c].acquired
    /\ Send(c, "heartbeat", [cl[c] EXCEPT !.pc = "beating"])

\* A scan, a record or a completion: every production call of an online client.
SendReport(c) ==
    /\ cl[c].pc = "idle"
    /\ cl[c].online
    /\ ProductionEnabled(c)
    /\ Send(c, "report", [cl[c] EXCEPT !.pc = "reporting"])

\* The session id survives the change, and so does the row on the server.
ChangeMode(c) ==
    /\ cl[c].pc = "idle"
    /\ Become(c, [cl[c] EXCEPT !.online = ~cl[c].online, !.config = cl[c].online,
                               !.acquired = cl[c].online])

\* load_station after a project sync forgets the session without releasing it.
SyncProjects(c, s) ==
    /\ cl[c].pc = "idle"
    /\ cl[c].online
    /\ Become(c, [cl[c] EXCEPT !.station = s, !.goal = s, !.sid = NoSession,
                               !.acquired = FALSE, !.config = FALSE])

CloseWindow(c) ==
    /\ cl[c].pc = "idle"
    /\ \/ cl[c].online /\ Send(c, "release", [cl[c] EXCEPT !.pc = "closing"])
       \/ ~cl[c].online /\ Become(c, Dead(cl[c]))

\* urlopen gives up after 3 s; the server's thread goes on.
GiveUp(c) ==
    /\ cl[c].pc \in Waiting
    /\ req' = [t \in Thread |->
                  IF req[t] # None /\ req[t].client = c
                  THEN [req[t] EXCEPT !.live = FALSE] ELSE req[t]]
    /\ cl' = [cl EXCEPT ![c] = After(@, Error)]
    /\ UNCHANGED <<rows, used>>

\* Power loss or a killed process, at any point.
Crash(c) ==
    /\ cl[c].pc # "down"
    /\ req' = [t \in Thread |->
                  IF req[t] # None /\ req[t].client = c
                  THEN [req[t] EXCEPT !.live = FALSE] ELSE req[t]]
    /\ cl' = [cl EXCEPT ![c] = Dead(@)]
    /\ UNCHANGED <<rows, used>>

Restart(c, s) ==
    /\ cl[c].pc = "down"
    /\ Become(c, Start(s))

-----------------------------------------------------------------------------
Init ==
    /\ rows = [r \in Session |->
                  [status |-> "none", client |-> None, station |-> None, age |-> 0]]
    /\ used = 0
    /\ req = [t \in Thread |-> None]
    /\ cl \in [Client -> {Start(s) : s \in Station}]

Handler(t) ==
    \/ AcquireRead(t) \/ AcquireInsert(t) \/ AcquireOverwrite(t)
    \/ Validate(t) \/ HeartbeatWrite(t) \/ ReportWrite(t)
    \/ ReleaseRead(t) \/ ReleaseWrite(t) \/ HandlerFails(t)

Desktop(c) ==
    \/ \E s \in Station : SwitchStation(c, s) \/ SyncProjects(c, s) \/ Restart(c, s)
    \/ DownloadConfig(c) \/ ForceAcquire(c) \/ DismissConflict(c)
    \/ SendHeartbeat(c) \/ SendReport(c) \/ ChangeMode(c)
    \/ CloseWindow(c) \/ GiveUp(c) \/ Crash(c)

Next ==
    \/ \E t \in Thread : Handler(t)
    \/ \E c \in Client : Desktop(c)
    \/ \E r \in Session : AdminRelease(r)
    \/ Tick

Spec == Init /\ [][Next]_vars

\* Time passes; nothing else is assumed of the devices or of the server.
FairSpec == Spec /\ WF_vars(Tick)

\* The server answers, and the heartbeat timer of a running client fires (strong
\* fairness: in this bounded model a thread is not always free, in the program
\* every request gets one).
BeatingSpec ==
    /\ FairSpec
    /\ \A t \in Thread : WF_vars(Handler(t))
    /\ \A c \in Client : SF_vars(SendHeartbeat(c))
-----------------------------------------------------------------------------
(* Properties.                                                             *)

\* At any moment a station has at most one online session: the partial unique
\* index, the conflict clause and the overwrite of acquire_station_session
\* together keep one holder, whatever requests overlap.
OneHolder ==
    \A r1, r2 \in Session :
        /\ rows[r1].status = "online" /\ rows[r2].status = "online"
        /\ rows[r1].station = rows[r2].station
        => r1 = r2

\* A session that was closed (timeout, release, takeover) never comes back, and
\* its device is never rewritten: a late heartbeat, release or acquire that was
\* under way when the lease was lost cannot revive it.
ClosedIsFinal ==
    [][\A r \in Session :
           rows[r].status = "offline" =>
               /\ rows'[r].status = "offline"
               /\ rows'[r].client = rows[r].client
               /\ rows'[r].station = rows[r].station]_vars

\* The session id a client keeps always belongs to the station it shows:
\* switch_station, a project sync, a failed release or a lost answer never leave
\* it reporting one station's work under another station's session.
SessionOfMyStation ==
    \A c \in Client :
        cl[c].sid # NoSession =>
            /\ rows[cl[c].sid].status # "none"
            /\ rows[cl[c].sid].station = cl[c].station

Fresh(c) ==
    \E r \in Session : rows[r].status = "online" /\ rows[r].client = c /\ rows[r].age <= Timeout

\* The lease of a device that has died is given up in the end, provided some
\* other device keeps a lease alive: each of its accepted requests sweeps the
\* whole table, and only a refused one is rolled back with its sweep.
DeadDeviceIsReleased ==
    \A c, d \in Client :
        c # d /\ <>[](cl[c].pc = "down") /\ <>[]Fresh(d)
            => <>[](\A s \in Station : c \notin Holders(s))

ClaimOf(q) ==
    IF q # None /\ q.phase \in {"insert", "overwrite"}
    THEN [client |-> q.client, station |-> q.station, forced |-> q.op = "force"]
    ELSE None

Lease == INSTANCE StationLease WITH
            holders <- [s \in Station |-> Holders(s)],
            claim <- [t \in Thread |-> ClaimOf(req[t])]

\* The contract of StationLease: a lease is granted only to a request that saw
\* the station free, its own, or forced it.
LeaseContract == Lease!Spec

LostLease(c) ==
    /\ cl[c].online
    /\ ProductionEnabled(c)
    /\ ~Owns(c, cl[c].station, cl[c].sid)

HealthyNetwork == <>[][\A c \in Client : ~GiveUp(c)]_vars

\* The client's own message for a lost lease, "当前工位占用已失效或被其他电脑接管，
\* 已停止生产": a device that has lost its lease stops producing, once its
\* heartbeats run.  (They are refused with an HTTP error, which the client only
\* shows: the branch that stops production is never reached.)
LostLeaseStopsDevice ==
    HealthyNetwork => \A c \in Client : LostLease(c) ~> ~LostLease(c)
=============================================================================
