-------------------------- MODULE StationLeaseProofs --------------------------
(***************************************************************************)
(* StationSession implements StationLease: the requests, statements and    *)
(* rows of the server keep the contract of the lease.                      *)
(***************************************************************************)
EXTENDS StationSessionProofs

HoldersMap == [s \in Station |-> Holders(s)]
ClaimMap == [t \in Thread |-> ClaimOf(req[t])]

LEMMA ClaimType ==
    \A q \in Request \cup {None} : ClaimOf(q) \in Lease!Claim \cup {None}
BY NoneAssumption DEF ClaimOf, Lease!Claim, Request

\* A station has at most one holder, so a step that only closes rows and changes
\* their age leaves each station its holder or nobody.
LEMMA QuietLapse ==
    ASSUME IInv, Quiet
    PROVE  Lease!Lapse
<1>1. SUFFICES ASSUME NEW s \in Station PROVE HoldersMap'[s] \in {HoldersMap[s], {}}
    BY DEF Lease!Lapse, HoldersMap
<1>2. OnlineAt(rows', s) \subseteq OnlineAt(rows, s)
    BY DEF Quiet, OnlineAt
<1>3. \A r1, r2 \in OnlineAt(rows, s) : r1 = r2
    BY DEF OnlineAt, IInv, OneHolder
<1>4. OnlineAt(rows', s) = OnlineAt(rows, s) \/ OnlineAt(rows', s) = {}
    BY <1>2, <1>3
<1>5. \A r \in OnlineAt(rows, s) : rows'[r].client = rows[r].client
    BY DEF Quiet, OnlineAt
<1>6. HoldersMap[s] = {rows[r].client : r \in OnlineAt(rows, s)}
    BY DEF HoldersMap, Holders
<1>7. HoldersMap'[s] = {rows'[r].client : r \in OnlineAt(rows', s)}
    BY DEF HoldersMap, Holders
<1>8. QED
    BY <1>4, <1>5, <1>6, <1>7

\* A quiet step that leaves every claim as it is.
LEMMA FreeStep ==
    ASSUME IInv, Quiet, ClaimMap' = ClaimMap
    PROVE  Lease!Next
BY QuietLapse DEF Lease!Next, Lease!Free, ClaimMap

\* The request of t changes so that its claim becomes k.
LEMMA ClaimChange ==
    ASSUME TypeOK, TypeOK', NEW t \in Thread, \A u \in Thread \ {t} : req'[u] = req[u]
    PROVE  ClaimMap' = [ClaimMap EXCEPT ![t] = ClaimOf(req'[t])]
BY DEF ClaimMap

LEMMA ReadContract ==
    ASSUME IInv, TypeOK', NEW t \in Thread, AcquireRead(t)
    PROVE  Lease!Next
<1> DEFINE foreign == {r \in OnlineAt(Swept, req[t].station) : Swept[r].client # req[t].client}
<1>1. rows' = Swept /\ Quiet
    BY SweptQuiet DEF AcquireRead, IInv
<1>2. /\ req[t] \in Request /\ req[t].phase = "begin" /\ req[t].op \in {"acquire", "force"}
      /\ \A u \in Thread \ {t} : req'[u] = req[u]
    BY DEF AcquireRead, Answer, At, IInv, TypeOK
<1>3. ClaimOf(req[t]) = None
    BY <1>2 DEF ClaimOf
<1>4. CASE req'[t] = None
    <2>1. ClaimMap' = ClaimMap
        BY <1>2, <1>3, <1>4, ClaimChange DEF ClaimMap, ClaimOf, IInv
    <2>2. QED
        BY <1>1, <2>1, FreeStep
<1>5. CASE req'[t] # None
    <2>1. PICK r \in OnlineAt(Swept, req[t].station) \cup {NoSession} :
              /\ req[t].op = "acquire" => foreign = {}
              /\ req' = [req EXCEPT ![t].phase = "insert", ![t].seen = r]
        BY <1>5 DEF AcquireRead, Answer, Refused, IInv, TypeOK
    <2>2. /\ req'[t].phase = "insert" /\ req'[t].op = req[t].op
          /\ req'[t].client = req[t].client /\ req'[t].station = req[t].station
        BY <1>2, <2>1 DEF IInv, TypeOK, Request
    <2> DEFINE k == [client |-> req[t].client, station |-> req[t].station, forced |-> req[t].op = "force"]
    <2>3. ClaimOf(req'[t]) = k
        BY <1>5, <2>2 DEF ClaimOf
    <2>4. k \in Lease!Claim
        BY <1>2 DEF Lease!Claim, Request
    <2>5. ~k.forced => HoldersMap'[k.station] \subseteq {k.client}
        BY <1>1, <1>2, <2>1 DEF HoldersMap, Holders, Request
    <2>6. ClaimMap[t] = None /\ ClaimMap' = [ClaimMap EXCEPT ![t] = k]
        BY <1>2, <1>3, <2>3, ClaimChange DEF ClaimMap, IInv
    <2>7. Lease!Clear(t, k)
        BY <1>1, <2>5, <2>6, QuietLapse DEF Lease!Clear, ClaimMap, HoldersMap
    <2>8. QED
        BY <2>4, <2>7 DEF Lease!Next
<1>6. QED
    BY <1>4, <1>5

\* A request that has been cleared and ends gives up its claim.
LEMMA EndOfClaim ==
    ASSUME IInv, TypeOK', NEW t \in Thread, NEW answer, Answer(t, answer), req[t] # None,
           req[t].phase \in {"insert", "overwrite"}
    PROVE  /\ ClaimMap[t] = [client |-> req[t].client, station |-> req[t].station,
                             forced |-> req[t].op = "force"]
           /\ ClaimMap[t] # None
           /\ ClaimMap' = [ClaimMap EXCEPT ![t] = None]
<1>1. ClaimMap[t] = [client |-> req[t].client, station |-> req[t].station,
                     forced |-> req[t].op = "force"]
    BY DEF ClaimMap, ClaimOf
<1>2. ClaimMap[t] \in Lease!Claim
    BY <1>1 DEF Lease!Claim, IInv, TypeOK, Request
<1>3. ClaimMap[t] # None
    BY <1>2, NoneAssumption DEF Lease!Claim
<1>4. req'[t] = None /\ \A u \in Thread \ {t} : req'[u] = req[u]
    BY DEF Answer, IInv, TypeOK
<1>5. ClaimOf(req'[t]) = None
    BY <1>4 DEF ClaimOf
<1>6. QED
    BY <1>1, <1>3, <1>4, <1>5, ClaimChange DEF IInv

\* A request that ends and leaves its station to its own device alone, and every
\* other station as it was, is granted the lease.
LEMMA GrantStep ==
    ASSUME IInv, TypeOK', NEW t \in Thread, NEW answer, Answer(t, answer), req[t] # None,
           req[t].phase \in {"insert", "overwrite"},
           HoldersMap'[req[t].station] = {req[t].client},
           \A s \in Station \ {req[t].station} : HoldersMap'[s] = HoldersMap[s]
    PROVE  Lease!Next
<1>1. /\ ClaimMap[t].station = req[t].station /\ ClaimMap[t].client = req[t].client
      /\ ClaimMap[t] # None
      /\ ClaimMap' = [ClaimMap EXCEPT ![t] = None]
    <2>1. /\ ClaimMap[t] = [client |-> req[t].client, station |-> req[t].station,
                             forced |-> req[t].op = "force"]
          /\ ClaimMap[t] # None
          /\ ClaimMap' = [ClaimMap EXCEPT ![t] = None]
        BY EndOfClaim
    <2>2. QED
        BY <2>1
<1>2. HoldersMap' = [HoldersMap EXCEPT ![req[t].station] = {req[t].client}]
    BY DEF HoldersMap
<1>3. Lease!Grant(t)
    BY <1>1, <1>2 DEF Lease!Grant, ClaimMap, HoldersMap
<1>4. QED
    BY <1>3 DEF Lease!Next

\* A request that ends and leaves every station as it was abandons its claim.
LEMMA AbandonStep ==
    ASSUME IInv, TypeOK', NEW t \in Thread, NEW answer, Answer(t, answer), req[t] # None,
           req[t].phase \in {"insert", "overwrite"},
           HoldersMap' = HoldersMap
    PROVE  Lease!Next
<1>1. Lease!Abandon(t)
    BY EndOfClaim DEF Lease!Abandon, ClaimMap, HoldersMap
<1>2. QED
    BY <1>1 DEF Lease!Next

LEMMA InsertContract ==
    ASSUME IInv, TypeOK', NEW t \in Thread, AcquireInsert(t)
    PROVE  Lease!Next
<1> DEFINE table == [r \in Session |-> IF r = req[t].seen THEN Closed(rows[r]) ELSE rows[r]]
<1>1. /\ req[t] \in Request /\ req[t] # None /\ req[t].phase = "insert"
      /\ req[t].seen # NoSession =>
             /\ req[t].seen \in Session
             /\ rows[req[t].seen].status \in {"online", "offline"}
             /\ rows[req[t].seen].station = req[t].station
    BY BoundAssumption DEF AcquireInsert, At, IInv, RequestInv, RequestOk, TypeOK, Request, Session, NoSession, Row
<1>2. \A r \in Session :
          /\ table[r].client = rows[r].client
          /\ table[r].station = rows[r].station
          /\ \/ table[r].status = rows[r].status
             \/ /\ rows[r].status = "online" /\ table[r].status = "offline"
                /\ rows[r].station = req[t].station
    BY <1>1, BoundAssumption DEF Closed, IInv, TypeOK, Row, Session, NoSession
<1>3. CASE /\ rows' = table /\ used' = used
           /\ req' = [req EXCEPT ![t].phase = "overwrite", ![t].seen = NoSession]
    <2>1. Quiet
        BY <1>2, <1>3 DEF Quiet
    <2>2. /\ req'[t].phase = "overwrite" /\ req'[t].op = req[t].op
          /\ req'[t].client = req[t].client /\ req'[t].station = req[t].station
        BY <1>1, <1>3 DEF IInv, TypeOK, Request
    <2>3. req'[t] # None
        <3>1. req'[t] \in Request
            BY <1>1, <1>3, NoSessionType DEF IInv, TypeOK, Request
        <3>2. QED
            BY <3>1, NoneAssumption
    <2>4. ClaimOf(req'[t]) = ClaimOf(req[t])
        BY <1>1, <2>2, <2>3 DEF ClaimOf
    <2>5. \A u \in Thread \ {t} : req'[u] = req[u]
        BY <1>3 DEF IInv, TypeOK
    <2>6. ClaimMap' = ClaimMap
        BY <2>4, <2>5 DEF ClaimMap
    <2>7. QED
        BY <2>1, <2>6, FreeStep
<1>4. CASE /\ OnlineAt(table, req[t].station) = {}
           /\ used < MaxSession
           /\ rows' = [table EXCEPT ![used + 1] =
                          [status |-> "online", client |-> req[t].client,
                           station |-> req[t].station, age |-> 0]]
           /\ Answer(t, Ok(used + 1))
    <2>1. used + 1 \in Session /\ rows[used + 1].status = "none"
        BY <1>4, BoundAssumption DEF IInv, TypeOK, TableInv, Session
    <2>2. /\ rows'[used + 1].status = "online"
          /\ rows'[used + 1].client = req[t].client
          /\ rows'[used + 1].station = req[t].station
        BY <1>4, <2>1
    <2>3. \A r \in Session \ {used + 1} : rows'[r] = table[r]
        BY <1>4, <2>1
    <2>4. OnlineAt(rows', req[t].station) = {used + 1}
        BY <1>4, <2>1, <2>2, <2>3 DEF OnlineAt
    <2>5. HoldersMap'[req[t].station] = {req[t].client}
        BY <1>1, <2>2, <2>4 DEF HoldersMap, Holders, Request
    <2>6. ASSUME NEW s \in Station \ {req[t].station} PROVE HoldersMap'[s] = HoldersMap[s]
        <3>1. OnlineAt(rows', s) = OnlineAt(rows, s)
            BY <1>2, <2>1, <2>2, <2>3 DEF OnlineAt
        <3>2. \A r \in OnlineAt(rows, s) : rows'[r].client = rows[r].client
            BY <1>2, <2>1, <2>3 DEF OnlineAt
        <3>3. HoldersMap[s] = {rows[r].client : r \in OnlineAt(rows, s)}
            BY DEF HoldersMap, Holders
        <3>4. HoldersMap'[s] = {rows'[r].client : r \in OnlineAt(rows', s)}
            BY DEF HoldersMap, Holders
        <3>5. QED
            BY <3>1, <3>2, <3>3, <3>4
    <2>7. QED
        BY <1>1, <1>4, <2>5, <2>6, GrantStep
<1>5. QED
    BY <1>3, <1>4 DEF AcquireInsert, Insertable

LEMMA OverwriteContract ==
    ASSUME IInv, TypeOK', NEW t \in Thread, AcquireOverwrite(t)
    PROVE  Lease!Next
<1> DEFINE mine == OnlineAt(rows, req[t].station)
<1>1. /\ req[t] \in Request /\ req[t] # None /\ req[t].phase = "overwrite"
      /\ \E r : Answer(t, Ok(r))
    BY DEF AcquireOverwrite, At, IInv, TypeOK
<1>2. \A r \in Session : rows'[r] = IF r \in mine THEN [rows[r] EXCEPT !.client = req[t].client, !.age = 0]
                                                   ELSE rows[r]
    BY DEF AcquireOverwrite
<1>3. \A r \in mine : /\ r \in Session
                      /\ rows'[r].status = rows[r].status
                      /\ rows'[r].station = rows[r].station
                      /\ rows'[r].client = req[t].client
    BY <1>2 DEF OnlineAt, IInv, TypeOK, Row
<1>4. \A s \in Station : OnlineAt(rows', s) = OnlineAt(rows, s)
    BY <1>2, <1>3 DEF OnlineAt
<1>5. ASSUME NEW s \in Station, s # req[t].station \/ mine = {} PROVE HoldersMap'[s] = HoldersMap[s]
    <2>1. \A r \in OnlineAt(rows, s) : rows'[r] = rows[r]
        BY <1>2, <1>5 DEF OnlineAt
    <2>2. HoldersMap[s] = {rows[r].client : r \in OnlineAt(rows, s)}
        BY DEF HoldersMap, Holders
    <2>3. HoldersMap'[s] = {rows'[r].client : r \in OnlineAt(rows', s)}
        BY DEF HoldersMap, Holders
    <2>4. QED
        BY <1>4, <2>1, <2>2, <2>3
<1>6. CASE mine = {}
    <2>1. HoldersMap' = HoldersMap
        BY <1>5, <1>6 DEF HoldersMap
    <2>2. QED
        BY <1>1, <2>1, AbandonStep
<1>7. CASE mine # {}
    <2>1. req[t].station \in Station
        BY <1>1 DEF Request
    <2>2. HoldersMap'[req[t].station] = {rows'[r].client : r \in mine}
        BY <1>4, <2>1 DEF HoldersMap, Holders
    <2>3. HoldersMap'[req[t].station] = {req[t].client}
        BY <1>3, <1>7, <2>2
    <2>4. QED
        BY <1>1, <1>5, <2>3, GrantStep
<1>8. QED
    BY <1>6, <1>7

-----------------------------------------------------------------------------
LEMMA HandlerContract ==
    ASSUME IInv, TypeOK', NEW t \in Thread, Handler(t)
    PROVE  Lease!Next
<1>1. CASE AcquireRead(t)
    BY <1>1, ReadContract
<1>2. CASE AcquireInsert(t)
    BY <1>2, InsertContract
<1>3. CASE AcquireOverwrite(t)
    BY <1>3, OverwriteContract
<1>4. CASE Validate(t) \/ HeartbeatWrite(t) \/ ReportWrite(t) \/ ReleaseRead(t) \/ ReleaseWrite(t)
    <2>1. ~AcquireInsert(t) /\ ~AcquireOverwrite(t)
        BY <1>4 DEF Validate, HeartbeatWrite, ReportWrite, ReleaseRead, ReleaseWrite, AcquireInsert,
                    AcquireOverwrite, At
    <2>2. Quiet
        BY <1>4, <2>1, HandlerQuiet
    <2>3. /\ req[t] \in Request /\ req[t].phase \in {"begin", "commit"}
          /\ \A u \in Thread \ {t} : req'[u] = req[u]
        BY <1>4 DEF Validate, HeartbeatWrite, ReportWrite, ReleaseRead, ReleaseWrite, Answer, Goto, At,
                    IInv, TypeOK
    <2>4. req'[t] = None \/ req'[t] = [req[t] EXCEPT !.phase = "commit"]
        BY <1>4 DEF Validate, HeartbeatWrite, ReportWrite, ReleaseRead, ReleaseWrite, Answer, Goto,
                    IInv, TypeOK
    <2>5. req'[t] = None \/ req'[t].phase = "commit"
        BY <2>3, <2>4 DEF Request
    <2>6. ClaimOf(req[t]) = None /\ ClaimOf(req'[t]) = None
        BY <2>3, <2>5 DEF ClaimOf
    <2>7. ClaimMap' = ClaimMap
        BY <2>3, <2>6 DEF ClaimMap
    <2>8. QED
        BY <2>2, <2>7, FreeStep
<1>5. CASE HandlerFails(t)
    <2>1. /\ req[t] # None /\ req'[t] = None /\ Answer(t, Error)
          /\ \A u \in Thread \ {t} : req'[u] = req[u]
        BY <1>5 DEF HandlerFails, Answer, IInv, TypeOK
    <2>2. CASE req[t].phase \in {"insert", "overwrite"}
        <3>1. HoldersMap' = HoldersMap
            BY <1>5 DEF HandlerFails, HoldersMap, Holders, OnlineAt
        <3>2. QED
            BY <2>1, <2>2, <3>1, AbandonStep
    <2>3. CASE req[t].phase \notin {"insert", "overwrite"}
        <3>1. ClaimMap' = ClaimMap
            BY <2>1, <2>3 DEF ClaimMap, ClaimOf
        <3>2. Quiet
            BY <1>5 DEF HandlerFails, Quiet
        <3>3. QED
            BY <3>1, <3>2, FreeStep
    <2>4. QED
        BY <2>2, <2>3
<1>6. QED
    BY <1>1, <1>2, <1>3, <1>4, <1>5 DEF Handler

LEMMA DesktopContract ==
    ASSUME IInv, TypeOK', NEW c \in Client, Desktop(c)
    PROVE  Lease!Next
<1>1. Quiet
    BY DesktopQuiet DEF Quiet
<1>2. CASE Asks(c)
    <2>1. PICK t \in Thread : /\ req[t] = None /\ req'[t].phase = "begin"
                              /\ \A u \in Thread \ {t} : req'[u] = req[u]
        BY <1>2 DEF Asks, Send, IInv, TypeOK
    <2>2. ClaimMap' = ClaimMap
        BY <2>1 DEF ClaimMap, ClaimOf
    <2>3. QED
        BY <1>1, <2>2, FreeStep
<1>3. CASE Moves(c)
    BY <1>1, <1>3, FreeStep DEF Moves, Become, ClaimMap
<1>4. CASE GiveUp(c) \/ Crash(c)
    <2>1. ASSUME NEW t \in Thread PROVE ClaimOf(req'[t]) = ClaimOf(req[t])
        <3>1. req'[t] = IF req[t] # None /\ req[t].client = c
                        THEN [req[t] EXCEPT !.live = FALSE] ELSE req[t]
            BY <1>4 DEF GiveUp, Crash
        <3>2. CASE req[t] # None
            <4>1. req[t] \in Request
                BY <3>2 DEF IInv, TypeOK
            <4>2. req'[t] \in Request
                BY <3>1, <4>1 DEF Request
            <4>3. /\ req'[t].phase = req[t].phase /\ req'[t].op = req[t].op
                  /\ req'[t].client = req[t].client /\ req'[t].station = req[t].station
                BY <3>1, <4>1 DEF Request
            <4>4. QED
                BY <3>2, <4>2, <4>3, NoneAssumption DEF ClaimOf
        <3>3. CASE req[t] = None
            BY <3>1, <3>3
        <3>4. QED
            BY <3>2, <3>3
    <2>2. ClaimMap' = ClaimMap
        BY <2>1 DEF ClaimMap
    <2>3. QED
        BY <1>1, <2>2, FreeStep
<1>5. QED
    BY <1>2, <1>3, <1>4, DesktopSteps DEF IInv

LEMMA ContractInit == Init => Lease!Init
<1> SUFFICES ASSUME Init PROVE Lease!Init
    OBVIOUS
<1>1. \A s \in Station : Holders(s) = {}
    BY DEF Init, Holders, OnlineAt
<1>2. \A t \in Thread : ClaimOf(req[t]) = None
    BY DEF Init, ClaimOf
<1>3. QED
    BY <1>1, <1>2 DEF Lease!Init

LEMMA ContractStep == IInv /\ [Next]_vars => [Lease!Next]_(Lease!vars)
<1> SUFFICES ASSUME IInv, [Next]_vars PROVE [Lease!Next]_(Lease!vars)
    OBVIOUS
<1>1. TypeOK'
    BY TypeStep DEF IInv
<1>2. ASSUME NEW t \in Thread, Handler(t) PROVE Lease!Next
    BY <1>1, <1>2, HandlerContract
<1>3. ASSUME NEW c \in Client, Desktop(c) PROVE Lease!Next
    BY <1>1, <1>3, DesktopContract
<1>4. ASSUME UNCHANGED req, Quiet PROVE Lease!Next
    BY <1>4, FreeStep DEF ClaimMap
<1>5. CASE UNCHANGED vars
    BY <1>4, <1>5 DEF vars, Quiet
<1>6. ASSUME NEW r \in Session, AdminRelease(r) PROVE Lease!Next
    <2>1. rows[r].status \in {"online", "offline"}
        BY <1>6 DEF AdminRelease, IInv, TypeOK, Row
    <2>2. Quiet
        BY <1>6, <2>1 DEF AdminRelease, Closed, Quiet, IInv, TypeOK, Row
    <2>3. QED
        BY <1>4, <1>6, <2>2 DEF AdminRelease
<1>7. CASE Tick
    <2>1. Quiet
        BY <1>7 DEF Tick, Quiet, IInv, TypeOK, Row
    <2>2. QED
        BY <1>4, <1>7, <2>1 DEF Tick
<1>8. QED
    BY <1>2, <1>3, <1>5, <1>6, <1>7 DEF Next

\* The server, its clients and their failures implement the contract of the
\* lease: whatever requests overlap, a device is granted a station only after it
\* was seen free or its own, or by force.
THEOREM LeaseContractHolds == Spec => LeaseContract
<1>1. Spec => []IInv
    BY InvCorrect
<1>2. QED
    BY <1>1, ContractInit, ContractStep, PTL DEF Spec, LeaseContract, Lease!Spec
=============================================================================
