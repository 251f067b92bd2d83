-------------------------- MODULE StationConfigProofs --------------------------
(* What StationConfig keeps for every number of threads, stations, steps and *)
(* edits: its types, the rule of a station however edits overlap, and what a *)
(* device makes of the steps it downloads.                                   *)
EXTENDS StationConfig, FiniteSetTheorems, WellFoundedInduction, TLAPS

-----------------------------------------------------------------------------
(* The inductive invariant, said of the record q of an open edit             *)

\* A row as the transaction of edit q sees it.
Sees(q, i) == IF q.own[i] = Same THEN steps[i] ELSE q.own[i]

\* What an edit is at each of its stages.
Shape(q) ==
    /\ q.op = "delete" <=> q.row = None
    /\ q.op = "add" <=> q.step = None
    /\ q.op = "add" => q.old = None
    /\ q.op # "add" => q.old \in Station
    /\ q.stage = "clear" => q.row # None /\ \A i \in StepId : q.own[i] = Same
    /\ q.stage = "write" => q.waits \subseteq {q.step}
    /\ q.stage \in {"clear", "write"} => q.todo = {} /\ q.checked = {} /\ q.excused = {}
    /\ q.stage = "check" => q.todo # {}
    /\ q.stage = "commit" => q.todo = {}
    /\ q.stage \in {"check", "commit"} => q.todo \cup q.checked = Touched(q)

\* A committed step has an id that was given out, and its station exists.
StepsPlaced ==
    \A i \in StepId : steps[i] # None => i <= lastStep /\ number[steps[i].station] # None

\* What an edit has written was at a station it knows of, and is at one it validates.
OwnPlaced(q) ==
    \A i \in StepId :
        q.own[i] # Same =>
            /\ i <= lastStep
            /\ steps[i] # None => steps[i].station \in Touched(q) \cup q.excused
            /\ q.own[i] # None => /\ q.own[i].station \in Touched(q)
                                  /\ number[q.own[i].station] # None

\* A station an edit has validated keeps the rule as the edit sees it, unless it is excused.
CheckHolds(q) ==
    \A s \in q.checked \ q.excused :
        Valid(OfStation([i \in StepId |-> Sees(q, i)], s), number[s])

\* The validation of a station holds the lock of a row that every other must lock.
LockHeld(q) ==
    \A s \in q.checked \ q.bare : \E i \in Anchors(s) : q.own[i] # Same

EditGood(q) == Shape(q) /\ OwnPlaced(q) /\ CheckHolds(q) /\ LockHeld(q)

\* Two open edits have written no step both, and of a station both have validated one of
\* them holds no lock.
Apart(q, p) ==
    /\ \A i \in StepId : q.own[i] = Same \/ p.own[i] = Same
    /\ q.checked \cap p.checked \subseteq q.bare \cup p.bare

IInv ==
    /\ TypeOK
    /\ StepsPlaced
    /\ MainRule
    /\ \A t \in Thread : edit[t] # None => EditGood(edit[t])
    /\ \A t, u \in Thread :
        t # u /\ edit[t] # None /\ edit[u] # None => Apart(edit[t], edit[u])

-----------------------------------------------------------------------------
(* The rule of a station                                                     *)

\* Where no row is left the rule holds.
LEMMA EmptyRule ==
    ASSUME NEW f, \A i \in DOMAIN f : f[i] = None, NEW n
    PROVE  Valid(f, n)
BY DEF Valid, ScansIn

\* The rule looks at the kinds of rows, and at the marks and the places of scans.
LEMMA SameRule ==
    ASSUME NEW f, NEW g, DOMAIN f = DOMAIN g, NEW n,
           \A i \in DOMAIN f :
               /\ f[i] = None <=> g[i] = None
               /\ f[i] # None => /\ f[i].kind = g[i].kind
                                 /\ f[i].order = g[i].order
                                 /\ f[i].kind = "scan" => f[i].main = g[i].main,
           Valid(f, n)
    PROVE  Valid(g, n)
<1>1. ScansIn(f) = ScansIn(g)
    BY DEF ScansIn
<1>2. MainsIn(f) = MainsIn(g)
    BY <1>1 DEF MainsIn, ScansIn
<1>3. FlowsIn(f) = FlowsIn(g)
    BY DEF FlowsIn
<1>4. QED
    BY <1>1, <1>2, <1>3 DEF Valid, MainsIn, ScansIn

\* The rule holds of rows that are given other ids, one after the other.
LEMMA ShiftRule ==
    ASSUME NEW f, NEW g, NEW n, NEW m \in Nat, NEW k \in Nat, NEW l \in Nat, m + k <= l,
           DOMAIN f = 1 .. m, DOMAIN g = 1 .. l,
           \A i \in 1 .. l : g[i] = IF i > k /\ i - k \in 1 .. m THEN f[i - k] ELSE None,
           Valid(f, n)
    PROVE  Valid(g, n)
<1>1. \A j \in 1 .. m : j + k \in 1 .. l /\ g[j + k] = f[j]
    <2> TAKE j \in 1 .. m
    <2>1. j + k \in 1 .. l /\ j + k > k /\ (j + k) - k = j
        OBVIOUS
    <2>2. QED
        BY <2>1
<1>2. \A i \in 1 .. l : g[i] # None => i - k \in 1 .. m /\ g[i] = f[i - k] /\ (i - k) + k = i
    OBVIOUS
<1>3. ScansIn(f) = {} => ScansIn(g) = {}
    BY <1>2 DEF ScansIn
<1>4. MainsIn(f) = {} => MainsIn(g) = {}
    BY <1>2 DEF MainsIn, ScansIn
<1>5. FlowsIn(f) # {} => FlowsIn(g) # {}
    BY <1>1 DEF FlowsIn
<1>6. ASSUME NEW j \in 1 .. m, MainsIn(f) = {j}
      PROVE  MainsIn(g) = {j + k}
    <2>1. j \in MainsIn(f) /\ \A i \in MainsIn(f) : i = j
        BY <1>6
    <2>2. j + k \in MainsIn(g)
        BY <2>1, <1>1 DEF MainsIn, ScansIn
    <2>3. \A i \in MainsIn(g) : i = j + k
        <3> TAKE i \in MainsIn(g)
        <3>1. i \in 1 .. l /\ i - k \in MainsIn(f) /\ (i - k) + k = i
            BY <1>2 DEF MainsIn, ScansIn
        <3>2. QED
            BY <3>1, <2>1
    <2>4. QED
        BY <2>2, <2>3
<1>7. CASE \E j \in 1 .. m : MainsIn(f) = {j} /\ ((n # None /\ n > 1) => f[j].order = 1)
    <2>1. PICK j \in 1 .. m : MainsIn(f) = {j} /\ ((n # None /\ n > 1) => f[j].order = 1)
        BY <1>7
    <2>2. MainsIn(g) = {j + k} /\ j + k \in DOMAIN g /\ g[j + k] = f[j]
        BY <2>1, <1>1, <1>6
    <2>3. QED
        BY <2>1, <2>2 DEF Valid
<1>8. QED
    BY <1>3, <1>4, <1>5, <1>7 DEF Valid

-----------------------------------------------------------------------------
(* Records                                                                   *)

LEMMA FieldsOfRow ==
    ASSUME NEW S, NEW O, NEW K, NEW M,
           NEW r \in [station : S, order : O, kind : K, main : M], NEW b \in M
    PROVE  /\ [r EXCEPT !.main = b] \in [station : S, order : O, kind : K, main : M]
           /\ [r EXCEPT !.main = b].station = r.station
           /\ [r EXCEPT !.main = b].order = r.order
           /\ [r EXCEPT !.main = b].kind = r.kind
           /\ [r EXCEPT !.main = b].main = b
OBVIOUS

\* A step keeps all but its mark when it is marked or loses its mark.
LEMMA MarkSet ==
    ASSUME NEW r \in Row, NEW b \in BOOLEAN
    PROVE  /\ [r EXCEPT !.main = b] \in Row
           /\ [r EXCEPT !.main = b].station = r.station
           /\ [r EXCEPT !.main = b].order = r.order
           /\ [r EXCEPT !.main = b].kind = r.kind
           /\ [r EXCEPT !.main = b].main = b
BY FieldsOfRow, Zenon DEF Row

LEMMA RowType ==
    ASSUME NEW r \in Row
    PROVE  /\ r.station \in Station /\ r.order \in Nat /\ r.kind \in Kind
           /\ r # None /\ r # Same
<1>1. r.station \in Station /\ r.order \in Order /\ r.kind \in Kind
    BY DEF Row
<1>2. QED
    BY <1>1, NumberAssumption, NoneAssumption

LEMMA EditType ==
    ASSUME NEW q \in Edit
    PROVE  /\ q.op \in {"add", "update", "delete"}
           /\ q.step \in StepId \cup {None}
           /\ q.row \in Row \cup {None}
           /\ q.old \in Station \cup {None}
           /\ q.stage \in {"clear", "write", "check", "commit"}
           /\ q.own \in [StepId -> Row \cup {None, Same}]
           /\ q.waits \subseteq StepId
           /\ q.todo \subseteq Station
           /\ q.bare \subseteq Station
           /\ q.checked \subseteq Station
           /\ q.excused \subseteq Station
BY DEF Edit

LEMMA TouchedType ==
    ASSUME NEW q \in Edit
    PROVE  /\ Touched(q) \subseteq Station
           /\ q.row # None => q.row.station \in Touched(q)
           /\ q.old # None => q.old \in Touched(q)
           /\ \A s \in Touched(q) : s = q.old \/ (q.row # None /\ s = q.row.station)
BY EditType, RowType DEF Touched

\* The validation that comes next is of a station the edit has still to validate.
LEMMA FollowingType ==
    ASSUME NEW q \in Edit, Shape(q), q.stage = "check"
    PROVE  Following(q) \in q.todo /\ Following(q) \in Station /\ Following(q) \in Touched(q)
<1>1. q.todo # {} /\ q.todo \cup q.checked = Touched(q) /\ q.todo \subseteq Station
    BY EditType DEF Shape
<1>2. CASE q.old \in q.todo
    BY <1>1, <1>2 DEF Following
<1>3. CASE q.old \notin q.todo
    <2>1. PICK s \in q.todo : s = q.row.station
        BY <1>1, <1>3, TouchedType
    <2>2. QED
        BY <2>1, <1>1, <1>3 DEF Following
<1>4. QED
    BY <1>2, <1>3

LEMMA CheckedType ==
    ASSUME NEW q \in Edit, Shape(q)
    PROVE  q.checked \subseteq Touched(q)
<1>1. q.stage \in {"clear", "write", "check", "commit"}
    BY EditType
<1>2. QED
    BY <1>1 DEF Shape

LEMMA OpenEdit ==
    ASSUME IInv, NEW t \in Thread, edit[t] # None
    PROVE  edit[t] \in Edit /\ EditGood(edit[t])
BY DEF IInv, TypeOK

\* What a transaction sees, or has written, is a row, or none; its id was given out and its
\* station exists.
LEMMA SeesPlaced ==
    ASSUME IInv, NEW t \in Thread, edit[t] # None, NEW i \in StepId
    PROVE  /\ View(t, i) = Sees(edit[t], i)
           /\ View(t, i) \in Row \cup {None}
           /\ View(t, i) # None => /\ View(t, i).station \in Station
                                   /\ i <= lastStep
                                   /\ number[View(t, i).station] # None
<1>1. edit[t] \in Edit /\ OwnPlaced(edit[t])
    BY OpenEdit DEF EditGood
<1>2. edit[t].own[i] \in Row \cup {None, Same} /\ steps[i] \in Row \cup {None}
    BY <1>1, EditType DEF IInv, TypeOK, Steps
<1>3. View(t, i) = Sees(edit[t], i) /\ View(t, i) \in Row \cup {None}
    BY <1>2 DEF View, Sees
<1>4. CASE edit[t].own[i] = Same
    BY <1>3, <1>4, RowType DEF View, IInv, StepsPlaced
<1>5. CASE edit[t].own[i] # Same
    BY <1>1, <1>3, <1>5, RowType DEF View, OwnPlaced
<1>6. QED
    BY <1>3, <1>4, <1>5

-----------------------------------------------------------------------------
(* Steps that change one edit                                                *)

\* An edit stays good while what is committed stays.
LEMMA GoodKept ==
    ASSUME IInv, NEW q, EditGood(q), UNCHANGED <<number, steps>>,
           lastStep' \in Nat, lastStep' >= lastStep
    PROVE  EditGood(q)'
<1>1. Shape(q)'
    BY DEF EditGood, Shape, Touched
<1>2. OwnPlaced(q)'
    <2>1. lastStep \in Nat /\ StepId \subseteq Nat
        BY NumberAssumption DEF IInv, TypeOK, StepId
    <2>2. QED
        BY <2>1 DEF EditGood, OwnPlaced, Touched
<1>3. CheckHolds(q)' /\ LockHeld(q)'
    BY DEF EditGood, CheckHolds, LockHeld, Sees, Anchors
<1>4. QED
    BY <1>1, <1>2, <1>3 DEF EditGood

\* A step that only puts r in the place of the edit of thread t.
LEMMA OneEdit ==
    ASSUME IInv, NEW t \in Thread, NEW r \in Edit \cup {None},
           edit' = [edit EXCEPT ![t] = r], UNCHANGED <<number, steps, loose>>,
           lastStep' \in lastStep .. MaxStep, begun' \in 0 .. MaxEdit,
           r # None => EditGood(r)',
           \A u \in Thread \ {t} : r # None /\ edit[u] # None => Apart(r, edit[u])
    PROVE  IInv'
<1>1. lastStep \in Nat /\ lastStep' \in Nat /\ lastStep' >= lastStep /\ StepId \subseteq Nat
    BY NumberAssumption DEF IInv, TypeOK, StepId
<1>2. edit'[t] = r /\ \A u \in Thread \ {t} : edit'[u] = edit[u]
    BY DEF IInv, TypeOK
<1>3. TypeOK'
    <2>1. edit' \in [Thread -> Edit \cup {None}]
        BY DEF IInv, TypeOK
    <2>2. QED
        BY <1>1, <2>1, NumberAssumption DEF IInv, TypeOK
<1>4. StepsPlaced'
    BY <1>1 DEF IInv, StepsPlaced
<1>5. MainRule'
    BY DEF IInv, MainRule
<1>6. \A u \in Thread : edit'[u] # None => EditGood(edit[u])'
    <2> TAKE u \in Thread
    <2> HAVE edit'[u] # None
    <2>1. PICK q : q = edit'[u]
        OBVIOUS
    <2>2. EditGood(q)'
        <3>1. CASE u = t
            BY <3>1, <2>1, <1>2
        <3>2. CASE u # t
            <4>1. q = edit[u] /\ q # None
                BY <3>2, <2>1, <1>2
            <4>2. EditGood(q)
                BY <4>1 DEF IInv
            <4>3. QED
                BY <4>2, <1>1, GoodKept
        <3>3. QED
            BY <3>1, <3>2
    <2>3. QED
        BY <2>1, <2>2
<1>7. \A u, v \in Thread : u # v /\ edit'[u] # None /\ edit'[v] # None => Apart(edit'[u], edit'[v])
    BY <1>2 DEF IInv, Apart
<1>8. QED
    BY <1>3, <1>4, <1>5, <1>6, <1>7 DEF IInv

-----------------------------------------------------------------------------
(* An edit begins, waits, and is undone                                      *)

\* An edit that begins has written and validated nothing.
LEMMA BegunGood ==
    ASSUME NEW op \in {"add", "update", "delete"}, NEW step \in StepId \cup {None},
           NEW row \in Row \cup {None}, NEW old \in Station \cup {None},
           op = "delete" <=> row = None, op = "add" <=> step = None,
           op = "add" <=> old = None
    PROVE  /\ Begun(op, step, row, old) \in Edit
           /\ EditGood(Begun(op, step, row, old))
           /\ \A p : Apart(Begun(op, step, row, old), p)
<1> DEFINE r == Begun(op, step, row, old)
<1>1. /\ r.op = op /\ r.step = step /\ r.row = row /\ r.old = old
      /\ r.stage = IF row # None /\ row.main THEN "clear" ELSE "write"
      /\ r.own = [i \in StepId |-> Same] /\ r.waits = {} /\ r.todo = {} /\ r.bare = {}
      /\ r.checked = {} /\ r.excused = {}
    BY DEF Begun
<1>2. r \in Edit
    BY <1>1 DEF Begun, Edit
<1>3. \A i \in StepId : r.own[i] = Same
    BY <1>1
<1>4. r.stage \in {"clear", "write"} /\ (r.stage = "clear" => r.row # None)
    BY <1>1
<1> HIDE DEF r
<1>5. Shape(r)
    BY <1>1, <1>3, <1>4 DEF Shape
<1>6. OwnPlaced(r) /\ CheckHolds(r) /\ LockHeld(r)
    BY <1>1, <1>3 DEF OwnPlaced, CheckHolds, LockHeld
<1>7. \A p : Apart(r, p)
    BY <1>1, <1>3 DEF Apart
<1>8. EditGood(r)
    BY <1>5, <1>6 DEF EditGood
<1>9. QED
    BY <1>2, <1>7, <1>8 DEF r

LEMMA BeginGood ==
    ASSUME IInv, NEW t \in Thread,
           NEW op \in {"add", "update", "delete"}, NEW step \in StepId \cup {None},
           NEW row \in Row \cup {None}, NEW old \in Station \cup {None},
           op = "delete" <=> row = None, op = "add" <=> step = None,
           op = "add" <=> old = None,
           edit' = [edit EXCEPT ![t] = Begun(op, step, row, old)],
           begun < MaxEdit, begun' = begun + 1, UNCHANGED <<number, steps, lastStep, loose>>
    PROVE  IInv'
<1>1. PICK r : r = Begun(op, step, row, old)
    OBVIOUS
<1>2. r \in Edit /\ EditGood(r) /\ \A p : Apart(r, p)
    BY <1>1, BegunGood
<1>3. lastStep \in Nat /\ lastStep' \in lastStep .. MaxStep /\ begun' \in 0 .. MaxEdit
    BY NumberAssumption DEF IInv, TypeOK
<1>4. EditGood(r)'
    BY <1>2, <1>3, GoodKept
<1>5. edit' = [edit EXCEPT ![t] = r]
    BY <1>1
<1>6. QED
    BY <1>2, <1>3, <1>4, <1>5, OneEdit

LEMMA AddStepGood ==
    ASSUME IInv, NEW t \in Thread, AddStep(t)
    PROVE  IInv'
<1>1. PICK row \in Payloads : edit' = [edit EXCEPT ![t] = Begun("add", None, row, None)]
    BY DEF AddStep
<1>2. row \in Row /\ row # None
    BY PayloadsAssumption, NoneAssumption
<1>3. begun < MaxEdit /\ begun' = begun + 1 /\ UNCHANGED <<number, steps, lastStep, loose>>
    BY DEF AddStep
<1>4. QED
    BY <1>1, <1>2, <1>3, BeginGood

LEMMA UpdateStepGood ==
    ASSUME IInv, NEW t \in Thread, NEW i \in StepId, UpdateStep(t, i)
    PROVE  IInv'
<1>1. PICK row \in Payloads, old \in Station :
            edit' = [edit EXCEPT ![t] = Begun("update", i, row, old)]
    <2>1. steps[i].station \in Station
        BY RowType DEF UpdateStep, IInv, TypeOK, Steps
    <2>2. QED
        BY <2>1 DEF UpdateStep
<1>2. row \in Row /\ row # None /\ old # None /\ i # None
    BY PayloadsAssumption, NoneAssumption DEF StepId
<1>3. begun < MaxEdit /\ begun' = begun + 1 /\ UNCHANGED <<number, steps, lastStep, loose>>
    BY DEF UpdateStep
<1>4. QED
    BY <1>1, <1>2, <1>3, BeginGood

LEMMA DeleteStepGood ==
    ASSUME IInv, NEW t \in Thread, NEW i \in StepId, DeleteStep(t, i)
    PROVE  IInv'
<1>1. PICK old \in Station : edit' = [edit EXCEPT ![t] = Begun("delete", i, None, old)]
    <2>1. steps[i].station \in Station
        BY RowType DEF DeleteStep, IInv, TypeOK, Steps
    <2>2. QED
        BY <2>1 DEF DeleteStep
<1>2. old # None /\ i # None
    BY NoneAssumption DEF StepId
<1>3. begun < MaxEdit /\ begun' = begun + 1 /\ UNCHANGED <<number, steps, lastStep, loose>>
    BY DEF DeleteStep
<1>4. QED
    BY <1>1, <1>2, <1>3, BeginGood

LEMMA UndoneGood ==
    ASSUME IInv, NEW t \in Thread, edit' = [edit EXCEPT ![t] = None],
           UNCHANGED <<number, steps, lastStep, loose, begun>>
    PROVE  IInv'
<1>1. lastStep' \in lastStep .. MaxStep /\ begun' \in 0 .. MaxEdit
    BY NumberAssumption DEF IInv, TypeOK
<1>2. QED
    BY <1>1, OneEdit

\* The rows of a statement are steps.
LEMMA TargetsType ==
    ASSUME IInv, NEW t \in Thread, edit[t] # None
    PROVE  /\ Targets(t) \subseteq StepId /\ Found(t) \subseteq StepId
           /\ edit[t].stage = "write" => Found(t) \subseteq {edit[t].step}
<1>1. edit[t] \in Edit /\ Shape(edit[t])
    BY OpenEdit DEF EditGood
<1>2. Targets(t) \subseteq StepId
    BY DEF Targets, RowsAt, ToMark
<1>3. edit[t].stage = "write" => Targets(t) \subseteq {edit[t].step}
    BY DEF Targets
<1>4. QED
    BY <1>1, <1>2, <1>3, EditType DEF Found, Shape

LEMMA WaitForRowGood ==
    ASSUME IInv, NEW t \in Thread, WaitForRow(t)
    PROVE  IInv'
<1>1. PICK r : r = [edit[t] EXCEPT !.waits = Targets(t)]
    OBVIOUS
<1>2. edit[t] \in Edit /\ EditGood(edit[t]) /\ edit[t] # None
    BY OpenEdit DEF WaitForRow
<1>3. Targets(t) \subseteq StepId /\ (edit[t].stage = "write" => Targets(t) \subseteq {edit[t].step})
    BY TargetsType DEF WaitForRow, Found
<1>4. r \in Edit
    BY <1>1, <1>2, <1>3 DEF Edit
<1>5. /\ r.op = edit[t].op /\ r.step = edit[t].step /\ r.row = edit[t].row
      /\ r.old = edit[t].old /\ r.stage = edit[t].stage /\ r.own = edit[t].own
      /\ r.waits = Targets(t) /\ r.todo = edit[t].todo /\ r.bare = edit[t].bare
      /\ r.checked = edit[t].checked /\ r.excused = edit[t].excused
    BY <1>1, <1>2 DEF Edit
<1>6. Touched(r) = Touched(edit[t])
    BY <1>5 DEF Touched
<1>7. Shape(r)
    BY <1>2, <1>3, <1>5, <1>6 DEF EditGood, Shape
<1>8. OwnPlaced(r) /\ CheckHolds(r) /\ LockHeld(r)
    BY <1>2, <1>5, <1>6 DEF EditGood, OwnPlaced, CheckHolds, LockHeld, Sees
<1>9. \A u \in Thread \ {t} : edit[u] # None => Apart(r, edit[u])
    BY <1>2, <1>5 DEF IInv, Apart
<1>10. EditGood(r) /\ lastStep' \in Nat /\ lastStep' >= lastStep
    BY <1>7, <1>8 DEF EditGood, WaitForRow, IInv, TypeOK
<1>11. EditGood(r)'
    BY <1>10, GoodKept DEF WaitForRow
<1>12. lastStep' \in lastStep .. MaxStep /\ begun' \in 0 .. MaxEdit
    BY NumberAssumption DEF WaitForRow, IInv, TypeOK
<1>13. QED
    BY <1>1, <1>4, <1>9, <1>11, <1>12, OneEdit DEF WaitForRow

-----------------------------------------------------------------------------
(* The statements of an edit                                                 *)

\* A statement is executed when no row it is about has been written by another edit.
LEMMA NotLocked ==
    ASSUME IInv, NEW t \in Thread, NEW i \in StepId, ~Locked(t, i),
           NEW u \in Thread \ {t}, edit[u] # None
    PROVE  edit[u].own[i] = Same
BY DEF Locked

LEMMA ClearMainGood ==
    ASSUME IInv, NEW t \in Thread, ClearMain(t)
    PROVE  IInv'
<1> DEFINE s == edit[t].row.station
           hit == {i \in Found(t) : i \in RowsAt(t, s)}
<1>1. PICK f : f = [i \in StepId |-> IF i \in hit THEN [View(t, i) EXCEPT !.main = FALSE]
                                     ELSE edit[t].own[i]]
    OBVIOUS
<1>2. PICK r : r = [edit[t] EXCEPT !.stage = "write", !.waits = {}, !.own = f]
    OBVIOUS
<1>3. edit' = [edit EXCEPT ![t] = r] /\ UNCHANGED <<number, steps, lastStep, loose, begun>>
    BY <1>1, <1>2 DEF ClearMain
<1>4. /\ edit[t] # None /\ edit[t].stage = "clear" /\ edit[t] \in Edit
      /\ Shape(edit[t]) /\ OwnPlaced(edit[t])
    BY OpenEdit DEF ClearMain, Ready, EditGood
<1>5. /\ edit[t].row \in Row /\ \A i \in StepId : edit[t].own[i] = Same
      /\ edit[t].checked = {} /\ edit[t].excused = {} /\ edit[t].todo = {}
      /\ s \in Touched(edit[t])
    BY <1>4, EditType, TouchedType DEF Shape
<1>6. ASSUME NEW i \in StepId, i \in hit
      PROVE  /\ f[i] \in Row /\ f[i] # Same /\ f[i] # None /\ f[i].station = s
             /\ i <= lastStep /\ number[s] # None
             /\ steps[i] # None => steps[i].station = s
             /\ \A u \in Thread \ {t} : edit[u] # None => edit[u].own[i] = Same
    <2>1. View(t, i) \in Row /\ View(t, i).station = s /\ View(t, i) = steps[i]
        BY <1>4, <1>5, <1>6, SeesPlaced DEF RowsAt, View
    <2>2. i <= lastStep /\ number[s] # None
        BY <1>4, <2>1, SeesPlaced, RowType
    <2>3. [View(t, i) EXCEPT !.main = FALSE] \in Row /\ [View(t, i) EXCEPT !.main = FALSE].station = s
        BY <2>1, MarkSet
    <2>4. f[i] = [View(t, i) EXCEPT !.main = FALSE]
        BY <1>1, <1>6
    <2>5. ~Locked(t, i)
        BY <1>6 DEF ClearMain, Ready
    <2>6. QED
        BY <2>1, <2>2, <2>3, <2>4, <2>5, RowType, NotLocked
<1>7. ASSUME NEW i \in StepId, i \notin hit
      PROVE  f[i] = Same
    BY <1>1, <1>5, <1>7
<1>8. f \in [StepId -> Row \cup {None, Same}]
    <2>1. \A i \in StepId : f[i] \in Row \cup {None, Same}
        BY <1>6, <1>7
    <2>2. QED
        BY <1>1, <2>1
<1> HIDE DEF hit, s
<1>9. r \in Edit
    BY <1>2, <1>4, <1>8 DEF Edit
<1>10. /\ r.op = edit[t].op /\ r.step = edit[t].step /\ r.row = edit[t].row
       /\ r.old = edit[t].old /\ r.stage = "write" /\ r.own = f
       /\ r.waits = {} /\ r.todo = {} /\ r.bare = edit[t].bare
       /\ r.checked = {} /\ r.excused = {}
    BY <1>2, <1>4, <1>5 DEF Edit
<1>11. Touched(r) = Touched(edit[t])
    BY <1>10 DEF Touched
<1>12. Shape(r)
    BY <1>4, <1>10 DEF Shape
<1>13. OwnPlaced(r)
    BY <1>5, <1>6, <1>7, <1>10, <1>11 DEF OwnPlaced
<1>14. CheckHolds(r) /\ LockHeld(r)
    BY <1>10 DEF CheckHolds, LockHeld
<1>15. \A u \in Thread \ {t} : edit[u] # None => Apart(r, edit[u])
    BY <1>6, <1>7, <1>10 DEF Apart
<1>16. lastStep' \in Nat /\ lastStep' >= lastStep /\ lastStep' \in lastStep .. MaxStep /\ begun' \in 0 .. MaxEdit
    BY <1>3, NumberAssumption DEF IInv, TypeOK
<1>17. EditGood(r)'
    BY <1>3, <1>12, <1>13, <1>14, <1>16, GoodKept DEF EditGood
<1>18. QED
    BY <1>3, <1>9, <1>15, <1>16, <1>17, OneEdit

LEMMA InsertStepGood ==
    ASSUME IInv, NEW t \in Thread, InsertStep(t)
    PROVE  IInv'
<1> DEFINE q == edit[t]
<1>1. PICK k : k = lastStep + 1
    OBVIOUS
<1>2. PICK r : r = [q EXCEPT !.stage = "check", !.own = [q.own EXCEPT ![k] = q.row],
                             !.todo = Touched(q)]
    OBVIOUS
<1>3. q # None /\ q.stage = "write" /\ q.op = "add" /\ q \in Edit /\ EditGood(q)
    BY OpenEdit DEF InsertStep, Ready
<1>4. k \in StepId /\ k \in Nat /\ lastStep \in Nat /\ lastStep < k
    BY <1>1, NumberAssumption DEF InsertStep, IInv, TypeOK, StepId
<1>5. edit' = [edit EXCEPT ![t] = r] /\ UNCHANGED <<number, steps, loose, begun>> /\ lastStep' = k
    BY <1>1, <1>2, <1>3, <1>4 DEF InsertStep, IInv, TypeOK, Edit
<1>6. /\ q.row \in Row /\ q.checked = {} /\ q.excused = {} /\ number[q.row.station] # None
      /\ q.row.station \in Touched(q) /\ Touched(q) \subseteq Station
      /\ q.row # Same /\ q.row # None
    BY <1>3, EditType, TouchedType, RowType DEF InsertStep, StationExists, EditGood, Shape
<1>7. q.own \in [StepId -> Row \cup {None, Same}]
    BY <1>3, EditType
<1>8. r \in Edit
    BY <1>2, <1>3, <1>6, <1>7 DEF Edit
<1>9. /\ r.op = q.op /\ r.step = q.step /\ r.row = q.row
      /\ r.old = q.old /\ r.stage = "check" /\ r.own = [q.own EXCEPT ![k] = q.row]
      /\ r.waits = q.waits /\ r.todo = Touched(q) /\ r.bare = q.bare
      /\ r.checked = {} /\ r.excused = {}
    BY <1>2, <1>3, <1>6 DEF Edit
<1>10. r.own[k] = q.row /\ \A i \in StepId : i # k => r.own[i] = q.own[i]
    BY <1>4, <1>7, <1>9
<1>11. steps[k] = None /\ \A u \in Thread : edit[u] # None => edit[u].own[k] = Same
    <2>1. steps[k] = None
        BY <1>4 DEF IInv, StepsPlaced
    <2>2. \A u \in Thread : edit[u] # None => OwnPlaced(edit[u])
        BY OpenEdit DEF EditGood
    <2>3. QED
        BY <1>4, <2>1, <2>2 DEF OwnPlaced
<1> HIDE DEF q
<1>12. Touched(r) = Touched(q)
    BY <1>9 DEF Touched
<1>13. Shape(r)
    BY <1>3, <1>6, <1>9, <1>12 DEF EditGood, Shape
<1>14. OwnPlaced(r)'
    <2> SUFFICES ASSUME NEW i \in StepId, r.own[i] # Same
                 PROVE  /\ i <= k
                        /\ steps[i] # None => steps[i].station \in Touched(r) \cup r.excused
                        /\ r.own[i] # None => /\ r.own[i].station \in Touched(r)
                                              /\ number[r.own[i].station] # None
        BY <1>5 DEF OwnPlaced, Touched
    <2>1. CASE i = k
        BY <2>1, <1>4, <1>6, <1>10, <1>11, <1>12
    <2>2. CASE i # k
        <3>1. i \in Nat
            BY NumberAssumption DEF StepId
        <3>2. OwnPlaced(q)
            BY <1>3 DEF EditGood
        <3>3. QED
            BY <2>2, <3>1, <3>2, <1>4, <1>6, <1>9, <1>10, <1>12 DEF OwnPlaced
    <2>3. QED
        BY <2>1, <2>2
<1>15. Shape(r)' /\ CheckHolds(r)' /\ LockHeld(r)'
    BY <1>9, <1>13 DEF Shape, Touched, CheckHolds, LockHeld
<1>16. \A u \in Thread \ {t} : edit[u] # None => Apart(r, edit[u])
    <2> TAKE u \in Thread \ {t}
    <2> HAVE edit[u] # None
    <2>1. Apart(q, edit[u])
        BY <1>3 DEF IInv, q
    <2>2. QED
        BY <2>1, <1>9, <1>10, <1>11 DEF Apart
<1>17. lastStep' \in lastStep .. MaxStep /\ begun' \in 0 .. MaxEdit
    BY <1>4, <1>5, NumberAssumption DEF IInv, TypeOK, StepId
<1>18. EditGood(r)'
    BY <1>14, <1>15 DEF EditGood
<1>19. QED
    BY <1>5, <1>8, <1>16, <1>17, <1>18, OneEdit

LEMMA WriteStepGood ==
    ASSUME IInv, NEW t \in Thread, WriteStep(t)
    PROVE  IInv'
<1> DEFINE q == edit[t]
           hit == {i \in Found(t) : View(t, i) # None}
           left == {View(t, i).station : i \in hit} \ Touched(q)
<1>1. PICK f : f = [i \in StepId |-> IF i \in hit THEN q.row ELSE q.own[i]]
    OBVIOUS
<1>2. PICK x : x = left
    OBVIOUS
<1>3. PICK r : r = [q EXCEPT !.stage = "check", !.waits = {}, !.todo = Touched(q),
                             !.excused = x, !.own = f]
    OBVIOUS
<1>4. edit' = [edit EXCEPT ![t] = r] /\ UNCHANGED <<number, steps, lastStep, loose, begun>>
    BY <1>1, <1>2, <1>3 DEF WriteStep
<1>5. q # None /\ q.stage = "write" /\ q.op # "add" /\ q \in Edit /\ EditGood(q)
    BY OpenEdit DEF WriteStep, Ready
<1>6. /\ q.row \in Row \cup {None} /\ q.checked = {} /\ q.excused = {} /\ q.old \in Touched(q)
      /\ Touched(q) \subseteq Station
      /\ q.row # None => q.op = "update" /\ q.row.station \in Touched(q)
    BY <1>5, EditType, TouchedType, NoneAssumption DEF EditGood, Shape
<1>7. ASSUME NEW i \in hit
      PROVE  /\ i \in StepId /\ i <= lastStep
             /\ View(t, i) \in Row /\ View(t, i).station \in Station
             /\ q.row # None => number[q.row.station] # None
             /\ steps[i] # None => steps[i].station \in Touched(q) \cup x
             /\ \A u \in Thread \ {t} : edit[u] # None => edit[u].own[i] = Same
    <2>1. i \in StepId /\ i = q.step /\ View(t, i) # None /\ i \in Found(t)
        BY <1>5, TargetsType
    <2>2. i <= lastStep /\ View(t, i) \in Row /\ View(t, i).station \in Station
        BY <1>5, <2>1, SeesPlaced
    <2>3. q.row # None => number[q.row.station] # None
        BY <1>6, <2>1 DEF WriteStep, StationExists
    <2>4. ~Locked(t, i)
        BY <2>1 DEF WriteStep, Ready
    <2>5. View(t, i).station \in Touched(q) \cup x
        BY <1>2, <1>7
    <2>6. steps[i] # None => steps[i].station \in Touched(q) \cup x
        <3>1. CASE q.own[i] = Same
            BY <3>1, <2>5 DEF View
        <3>2. CASE q.own[i] # Same
            BY <3>2, <2>1, <1>5, <1>6 DEF EditGood, OwnPlaced
        <3>3. QED
            BY <3>1, <3>2
    <2>7. QED
        BY <2>1, <2>2, <2>3, <2>4, <2>6, NotLocked
<1>8. \A i \in StepId : f[i] = IF i \in hit THEN q.row ELSE q.own[i]
    BY <1>1
<1>9. f \in [StepId -> Row \cup {None, Same}] /\ x \subseteq Station
    <2>1. q.own \in [StepId -> Row \cup {None, Same}]
        BY <1>5, EditType
    <2>2. f \in [StepId -> Row \cup {None, Same}]
        BY <2>1, <1>1, <1>6
    <2>3. x \subseteq Station
        BY <1>2, <1>7
    <2>4. QED
        BY <2>2, <2>3
<1> HIDE DEF hit, left
<1>10. r \in Edit
    BY <1>3, <1>5, <1>6, <1>9 DEF Edit
<1>11. /\ r.op = q.op /\ r.step = q.step /\ r.row = q.row
       /\ r.old = q.old /\ r.stage = "check" /\ r.own = f
       /\ r.waits = {} /\ r.todo = Touched(q) /\ r.bare = q.bare
       /\ r.checked = {} /\ r.excused = x
    BY <1>3, <1>5, <1>6 DEF Edit
<1> HIDE DEF q
<1>12. Touched(r) = Touched(q)
    BY <1>11 DEF Touched
<1>13. Shape(r)
    BY <1>5, <1>6, <1>11, <1>12 DEF EditGood, Shape
<1>14. OwnPlaced(r)
    <2> SUFFICES ASSUME NEW i \in StepId, r.own[i] # Same
                 PROVE  /\ i <= lastStep
                        /\ steps[i] # None => steps[i].station \in Touched(r) \cup r.excused
                        /\ r.own[i] # None => /\ r.own[i].station \in Touched(r)
                                              /\ number[r.own[i].station] # None
        BY DEF OwnPlaced
    <2>1. CASE i \in hit
        BY <2>1, <1>6, <1>7, <1>8, <1>11, <1>12
    <2>2. CASE i \notin hit
        <3>1. OwnPlaced(q)
            BY <1>5 DEF EditGood
        <3>2. QED
            BY <2>2, <3>1, <1>6, <1>8, <1>11, <1>12 DEF OwnPlaced
    <2>3. QED
        BY <2>1, <2>2
<1>15. CheckHolds(r) /\ LockHeld(r)
    BY <1>11 DEF CheckHolds, LockHeld
<1>16. \A u \in Thread \ {t} : edit[u] # None => Apart(r, edit[u])
    <2> TAKE u \in Thread \ {t}
    <2> HAVE edit[u] # None
    <2>1. Apart(q, edit[u])
        BY <1>5 DEF IInv, q
    <2>2. QED
        BY <2>1, <1>7, <1>8, <1>11 DEF Apart
<1>17. lastStep' \in Nat /\ lastStep' >= lastStep /\ lastStep' \in lastStep .. MaxStep /\ begun' \in 0 .. MaxEdit
    BY <1>4, NumberAssumption DEF IInv, TypeOK
<1>18. EditGood(r)'
    BY <1>4, <1>13, <1>14, <1>15, <1>17, GoodKept DEF EditGood
<1>19. QED
    BY <1>4, <1>10, <1>16, <1>17, <1>18, OneEdit

\* What the UPDATE of a validation leaves: it writes rows of its station that scan nothing,
\* which no other edit has written, and takes no mark of a scan.
LEMMA MarkedRows ==
    ASSUME IInv, NEW t \in Thread, edit[t] # None, edit[t].stage = "check",
           NEW i \in Marked(t)
    PROVE  LET v == [View(t, i) EXCEPT !.main = FALSE]
               s == Following(edit[t])
           IN  /\ i \in StepId /\ i \in Found(t) /\ i <= lastStep
               /\ View(t, i) \in Row /\ View(t, i).station = s /\ View(t, i).kind # "scan"
               /\ number[s] # None
               /\ v \in Row /\ v # None /\ v # Same
               /\ v.station = s /\ v.order = View(t, i).order /\ v.kind = View(t, i).kind
               /\ steps[i] # None =>
                    steps[i].station \in Touched(edit[t]) \cup edit[t].excused
<1> DEFINE s == Following(edit[t])
<1>1. edit[t] \in Edit /\ Shape(edit[t]) /\ OwnPlaced(edit[t])
    BY OpenEdit DEF EditGood
<1>2. s \in Touched(edit[t])
    BY <1>1, FollowingType
<1>3. /\ i \in StepId /\ i \in Found(t) /\ View(t, i) # None /\ View(t, i).station = s
      /\ View(t, i).kind # "scan"
    BY DEF Marked, ToMark, RowsAt
<1>4. View(t, i) \in Row /\ i <= lastStep /\ number[s] # None
    BY <1>3, SeesPlaced
<1>5. steps[i] # None => steps[i].station \in Touched(edit[t]) \cup edit[t].excused
    BY <1>1, <1>2, <1>3 DEF View, OwnPlaced
<1> HIDE DEF s
<1>6. /\ [View(t, i) EXCEPT !.main = FALSE] \in Row
      /\ [View(t, i) EXCEPT !.main = FALSE].station = View(t, i).station
      /\ [View(t, i) EXCEPT !.main = FALSE].order = View(t, i).order
      /\ [View(t, i) EXCEPT !.main = FALSE].kind = View(t, i).kind
    BY <1>4, MarkSet
<1>7. [View(t, i) EXCEPT !.main = FALSE] # None /\ [View(t, i) EXCEPT !.main = FALSE] # Same
    BY <1>6, NoneAssumption
<1>8. QED
    BY <1>3, <1>4, <1>5, <1>6, <1>7 DEF s

LEMMA CheckStepsGood ==
    ASSUME IInv, NEW t \in Thread, CheckSteps(t)
    PROVE  IInv'
<1> DEFINE q == edit[t]
           s == Following(q)
<1>1. PICK f : f = [i \in StepId |-> IF i \in Marked(t) THEN [View(t, i) EXCEPT !.main = FALSE]
                                     ELSE q.own[i]]
    OBVIOUS
<1>2. PICK b : b = IF Bare(t) THEN q.bare \cup {s} ELSE q.bare
    OBVIOUS
<1>3. PICK g : g = IF q.todo = {s} THEN "commit" ELSE "check"
    OBVIOUS
<1>4. PICK r : r = [q EXCEPT !.stage = g, !.waits = {}, !.todo = q.todo \ {s},
                             !.checked = q.checked \cup {s}, !.bare = b, !.own = f]
    OBVIOUS
<1>5. edit' = [edit EXCEPT ![t] = r] /\ UNCHANGED <<number, steps, lastStep, loose, begun>>
    BY <1>1, <1>2, <1>3, <1>4 DEF CheckSteps
<1>6. /\ q # None /\ q.stage = "check" /\ q \in Edit /\ EditGood(q) /\ Accepted(t)
      /\ \A i \in Found(t) : ~Locked(t, i)
    BY OpenEdit DEF CheckSteps, Ready
<1>7. s \in q.todo /\ s \in Station /\ s \in Touched(q)
    BY <1>6, FollowingType DEF EditGood
<1>8. \A i \in Marked(t) :
          /\ i \in StepId /\ i \in Found(t) /\ i <= lastStep
          /\ View(t, i) \in Row /\ View(t, i).station = s /\ View(t, i).kind # "scan"
          /\ number[s] # None
          /\ f[i] \in Row /\ f[i] # None /\ f[i] # Same
          /\ f[i].station = s /\ f[i].order = View(t, i).order /\ f[i].kind = View(t, i).kind
          /\ steps[i] # None => steps[i].station \in Touched(q) \cup q.excused
    <2> TAKE i \in Marked(t)
    <2>1. i \in StepId
        BY DEF Marked, ToMark, RowsAt
    <2>2. f[i] = [View(t, i) EXCEPT !.main = FALSE]
        BY <1>1, <2>1
    <2>3. QED
        BY <1>6, <2>2, MarkedRows
<1>9. \A i \in StepId : i \notin Marked(t) => f[i] = q.own[i]
    BY <1>1
<1>10. /\ f \in [StepId -> Row \cup {None, Same}]
       /\ b \subseteq Station /\ q.bare \subseteq b /\ (~Bare(t) \/ s \in b)
       /\ g \in {"clear", "write", "check", "commit"}
       /\ q.todo \ {s} \subseteq Station /\ q.checked \cup {s} \subseteq Station
    <2>1. q.own \in [StepId -> Row \cup {None, Same}]
        BY <1>6, EditType
    <2>2. \A i \in StepId : f[i] \in Row \cup {None, Same}
        BY <2>1, <1>8, <1>9
    <2>3. f \in [StepId -> Row \cup {None, Same}]
        BY <2>2, <1>1
    <2>4. QED
        BY <2>3, <1>2, <1>3, <1>6, <1>7, EditType
<1>11. r \in Edit
    BY <1>4, <1>6, <1>10 DEF Edit
<1>12. /\ r.op = q.op /\ r.step = q.step /\ r.row = q.row
       /\ r.old = q.old /\ r.stage = g /\ r.own = f
       /\ r.waits = {} /\ r.todo = q.todo \ {s} /\ r.bare = b
       /\ r.checked = q.checked \cup {s} /\ r.excused = q.excused
    BY <1>4, <1>6 DEF Edit
<1>13. Touched(r) = Touched(q)
    BY <1>12 DEF Touched
<1>14. Shape(r)
    <2>1. g = "check" => q.todo \ {s} # {}
        BY <1>3, <1>7
    <2>2. g = "commit" => q.todo \ {s} = {}
        BY <1>3
    <2>3. (q.todo \ {s}) \cup (q.checked \cup {s}) = Touched(q)
        BY <1>6, <1>7 DEF EditGood, Shape
    <2>4. g \in {"check", "commit"}
        BY <1>3
    <2>5. QED
        BY <2>1, <2>2, <2>3, <2>4, <1>6, <1>12, <1>13 DEF EditGood, Shape
<1>15. OwnPlaced(r)
    <2> SUFFICES ASSUME NEW i \in StepId, f[i] # Same
                 PROVE  /\ i <= lastStep
                        /\ steps[i] # None => steps[i].station \in Touched(q) \cup q.excused
                        /\ f[i] # None => /\ f[i].station \in Touched(q)
                                          /\ number[f[i].station] # None
        BY <1>12, <1>13 DEF OwnPlaced
    <2>1. CASE i \in Marked(t)
        BY <2>1, <1>7, <1>8
    <2>2. CASE i \notin Marked(t)
        BY <2>2, <1>6, <1>9 DEF EditGood, OwnPlaced
    <2>3. QED
        BY <2>1, <2>2
<1>16. CheckHolds(r)
    <2> SUFFICES ASSUME NEW c \in (q.checked \cup {s}) \ q.excused
                 PROVE  Valid(OfStation([i \in StepId |-> Sees(r, i)], c), number[c])
        BY <1>12 DEF CheckHolds
    <2>1. [i \in StepId |-> View(t, i)] = [i \in StepId |-> Sees(q, i)]
        BY DEF View, Sees
    <2>2. Valid(OfStation([i \in StepId |-> View(t, i)], c), number[c])
        <3>1. CASE c = s
            BY <3>1, <1>6 DEF Accepted
        <3>2. CASE c # s
            BY <3>2, <2>1, <1>6 DEF EditGood, CheckHolds
        <3>3. QED
            BY <3>1, <3>2
    <2>3. PICK h : h = OfStation([i \in StepId |-> View(t, i)], c)
        OBVIOUS
    <2>4. PICK k : k = OfStation([i \in StepId |-> Sees(r, i)], c)
        OBVIOUS
    <2>5. DOMAIN h = StepId /\ DOMAIN k = StepId
        BY <2>3, <2>4 DEF OfStation
    <2>6. \A i \in StepId :
              /\ h[i] = IF View(t, i) # None /\ View(t, i).station = c THEN View(t, i) ELSE None
              /\ k[i] = IF Sees(r, i) # None /\ Sees(r, i).station = c THEN Sees(r, i) ELSE None
        BY <2>3, <2>4 DEF OfStation
    <2>7. \A i \in StepId : i \notin Marked(t) => Sees(r, i) = View(t, i)
        BY <1>9, <1>12 DEF Sees, View
    <2>8. \A i \in StepId : i \in Marked(t) => Sees(r, i) = f[i]
        BY <1>8, <1>12 DEF Sees
    <2>9. \A i \in StepId :
              /\ h[i] = None <=> k[i] = None
              /\ h[i] # None => /\ h[i].kind = k[i].kind
                                /\ h[i].order = k[i].order
                                /\ h[i].kind = "scan" => h[i].main = k[i].main
        <3> TAKE i \in StepId
        <3>1. CASE i \in Marked(t)
            BY <3>1, <2>6, <2>8, <1>8, RowType
        <3>2. CASE i \notin Marked(t)
            BY <3>2, <2>6, <2>7
        <3>3. QED
            BY <3>1, <3>2
    <2>10. Valid(h, number[c])
        BY <2>2, <2>3
    <2>11. Valid(k, number[c])
        BY <2>5, <2>9, <2>10, SameRule
    <2>12. QED
        BY <2>4, <2>11
<1>17. \A i \in StepId : q.own[i] # Same => f[i] # Same
    BY <1>8, <1>9
<1>18. ~Bare(t) => /\ Anchors(s) # {}
                   /\ \A i \in Anchors(s) : i \in Found(t) \/ q.own[i] # Same
    BY DEF Bare
<1>19. LockHeld(r)
    <2> SUFFICES ASSUME NEW c \in (q.checked \cup {s}) \ b
                 PROVE  \E i \in Anchors(c) : f[i] # Same
        BY <1>12 DEF LockHeld
    <2>1. CASE c \in q.checked
        <3>1. PICK i \in Anchors(c) : q.own[i] # Same
            BY <2>1, <1>6, <1>10 DEF EditGood, LockHeld
        <3>2. QED
            BY <3>1, <1>17 DEF Anchors
    <2>2. CASE c \notin q.checked
        <3>1. c = s /\ ~Bare(t)
            BY <2>2, <1>10
        <3>2. PICK i \in Anchors(s) : i \in Found(t) \/ q.own[i] # Same
            BY <3>1, <1>18
        <3>3. i \in StepId /\ steps[i] # None /\ steps[i].station = s /\ steps[i].kind # "scan"
            BY <3>2 DEF Anchors
        <3>4. CASE q.own[i] # Same
            BY <3>1, <3>2, <3>3, <3>4, <1>17
        <3>5. CASE q.own[i] = Same
            <4>1. i \in Marked(t)
                BY <3>2, <3>3, <3>5 DEF Marked, ToMark, RowsAt, View
            <4>2. QED
                BY <4>1, <3>1, <3>2, <1>8
        <3>6. QED
            BY <3>4, <3>5
    <2>3. QED
        BY <2>1, <2>2
<1>20. \A u \in Thread \ {t} : edit[u] # None => Apart(r, edit[u])
    <2> TAKE u \in Thread \ {t}
    <2> HAVE edit[u] # None
    <2>1. Apart(q, edit[u]) /\ LockHeld(edit[u])
        BY <1>6 DEF IInv, EditGood
    <2>2. \A i \in Found(t) : edit[u].own[i] = Same
        BY <1>6 DEF Locked
    <2>3. \A i \in StepId : f[i] = Same \/ edit[u].own[i] = Same
        BY <2>1, <2>2, <1>8, <1>9 DEF Apart
    <2>4. ASSUME NEW c \in (q.checked \cup {s}) \cap edit[u].checked,
                 c \notin b, c \notin edit[u].bare
          PROVE  FALSE
        <3>1. c \notin q.checked
            BY <2>1, <2>4, <1>10 DEF Apart
        <3>2. c = s /\ ~Bare(t)
            BY <3>1, <2>4, <1>10
        <3>3. PICK i \in Anchors(s) : edit[u].own[i] # Same
            BY <3>2, <2>1, <2>4 DEF LockHeld
        <3>4. i \in StepId /\ (i \in Found(t) \/ q.own[i] # Same)
            BY <3>2, <3>3, <1>18 DEF Anchors
        <3>5. QED
            BY <3>3, <3>4, <2>1, <2>2 DEF Apart
    <2>5. QED
        BY <2>3, <2>4, <1>12 DEF Apart
<1>21. lastStep' \in Nat /\ lastStep' >= lastStep /\ lastStep' \in lastStep .. MaxStep /\ begun' \in 0 .. MaxEdit
    BY <1>5, NumberAssumption DEF IInv, TypeOK
<1>22. EditGood(r)'
    BY <1>5, <1>14, <1>15, <1>16, <1>19, <1>21, GoodKept DEF EditGood
<1>23. QED
    BY <1>5, <1>11, <1>20, <1>21, <1>22, OneEdit

-----------------------------------------------------------------------------
(* An edit is committed                                                      *)

\* What another open edit becomes when an edit is committed or a station renamed.
LEMMA ExcusedMore ==
    ASSUME NEW p \in Edit, NEW x \in SUBSET p.checked
    PROVE  LET r == [p EXCEPT !.excused = p.excused \cup x]
           IN  /\ r \in Edit
               /\ r.op = p.op /\ r.step = p.step /\ r.row = p.row /\ r.old = p.old
               /\ r.stage = p.stage /\ r.own = p.own /\ r.waits = p.waits /\ r.todo = p.todo
               /\ r.bare = p.bare /\ r.checked = p.checked /\ r.excused = p.excused \cup x
               /\ Touched(r) = Touched(p)
               /\ Shape(p) => Shape(r)
<1>1. PICK r : r = [p EXCEPT !.excused = p.excused \cup x]
    OBVIOUS
<1>2. p.excused \cup x \subseteq Station
    BY EditType
<1>3. r \in Edit
    BY <1>1, <1>2 DEF Edit
<1>4. /\ r.op = p.op /\ r.step = p.step /\ r.row = p.row /\ r.old = p.old
      /\ r.stage = p.stage /\ r.own = p.own /\ r.waits = p.waits /\ r.todo = p.todo
      /\ r.bare = p.bare /\ r.checked = p.checked /\ r.excused = p.excused \cup x
    BY <1>1 DEF Edit
<1>5. Touched(r) = Touched(p)
    BY <1>4 DEF Touched
<1>6. Shape(p) => Shape(r)
    BY <1>4, <1>5 DEF Shape
<1>7. QED
    BY <1>1, <1>3, <1>4, <1>5, <1>6

\* An edit that is committed changes steps of the stations it knows of only, and at those
\* it did not validate they were.
LEMMA CommittedRows ==
    ASSUME IInv, NEW t \in Thread, edit[t] # None, edit[t].stage = "commit",
           NEW c \in Station, c \notin edit[t].checked, c \notin edit[t].excused,
           NEW i \in StepId
    PROVE  /\ View(t, i) # None /\ View(t, i).station = c => View(t, i) = steps[i]
           /\ steps[i] # None /\ steps[i].station = c => View(t, i) = steps[i]
<1>1. edit[t] \in Edit /\ Shape(edit[t]) /\ OwnPlaced(edit[t])
    BY OpenEdit DEF EditGood
<1>2. c \notin Touched(edit[t])
    BY <1>1 DEF Shape
<1>3. QED
    BY <1>1, <1>2 DEF View, OwnPlaced

LEMMA CommitEditGood ==
    ASSUME IInv, NEW t \in Thread, CommitEdit(t)
    PROVE  IInv'
<1> DEFINE q == edit[t]
<1>1. /\ q # None /\ q.stage = "commit" /\ q \in Edit /\ EditGood(q)
      /\ UNCHANGED <<number, lastStep, begun>>
      /\ steps' = [i \in StepId |-> View(t, i)]
      /\ loose' = (loose \ q.checked) \cup q.excused
      /\ edit'[t] = None
    BY OpenEdit DEF CommitEdit, Ready
<1>2. \A i \in StepId : steps'[i] = View(t, i)
    BY <1>1
<1>3. ASSUME NEW u \in Thread, edit'[u] # None
      PROVE  /\ u # t /\ edit[u] # None /\ edit[u] \in Edit /\ EditGood(edit[u])
             /\ Apart(q, edit[u])
             /\ Unseen(t, u) \in SUBSET edit[u].checked
             /\ edit'[u] = [edit[u] EXCEPT !.excused = edit[u].excused \cup Unseen(t, u)]
             /\ edit'[u] \in Edit
             /\ edit'[u].own = edit[u].own /\ edit'[u].checked = edit[u].checked
             /\ edit'[u].bare = edit[u].bare
    <2>1. u # t /\ edit[u] # None
        BY <1>3 DEF CommitEdit
    <2>2. edit[u] \in Edit /\ EditGood(edit[u])
        BY <2>1, OpenEdit
    <2>3. Apart(q, edit[u])
        BY <2>1, <1>1 DEF IInv
    <2>4. edit'[u] = [edit[u] EXCEPT !.excused = edit[u].excused \cup Unseen(t, u)]
        BY <2>1 DEF CommitEdit
    <2>5. PICK p : p = edit[u]
        OBVIOUS
    <2>6. PICK x : x = Unseen(t, u)
        OBVIOUS
    <2>7. PICK r : r = [p EXCEPT !.excused = p.excused \cup x]
        OBVIOUS
    <2>8. p \in Edit /\ x \in SUBSET p.checked
        BY <2>2, <2>5, <2>6 DEF Unseen
    <2>9. r \in Edit /\ r.own = p.own /\ r.checked = p.checked /\ r.bare = p.bare
        BY <2>7, <2>8, ExcusedMore
    <2>10. edit'[u] = r
        BY <2>4, <2>5, <2>6, <2>7
    <2>11. QED
        BY <2>1, <2>2, <2>3, <2>4, <2>5, <2>6, <2>8, <2>9, <2>10
<1>4. TypeOK'
    <2>1. \A u \in Thread : edit'[u] \in Edit \cup {None}
        BY <1>3
    <2>2. edit' \in [Thread -> Edit \cup {None}]
        BY <2>1 DEF CommitEdit
    <2>3. steps' \in Steps
        BY <1>1, SeesPlaced DEF Steps
    <2>4. loose' \subseteq Station
        BY <1>1, EditType DEF IInv, TypeOK
    <2>5. QED
        BY <1>1, <2>2, <2>3, <2>4 DEF IInv, TypeOK
<1>5. StepsPlaced'
    BY <1>1, <1>2, SeesPlaced DEF StepsPlaced
<1>6. MainRule'
    <2> SUFFICES ASSUME NEW c \in Station, c \notin loose'
                 PROVE  Valid(OfStation(steps', c), number[c])
        BY <1>1 DEF MainRule
    <2>1. c \notin q.excused
        BY <1>1
    <2>2. CASE c \in q.checked
        <3>1. [i \in StepId |-> View(t, i)] = [i \in StepId |-> Sees(q, i)]
            BY DEF View, Sees
        <3>2. QED
            BY <3>1, <2>1, <2>2, <1>1 DEF EditGood, CheckHolds
    <2>3. CASE c \notin q.checked
        <3>1. \A i \in StepId : OfStation(steps', c)[i] = OfStation(steps, c)[i]
            BY <2>1, <2>3, <1>1, <1>2, CommittedRows DEF OfStation, IInv, TypeOK, Steps
        <3>2. OfStation(steps', c) = OfStation(steps, c)
            BY <3>1, <1>1 DEF OfStation, IInv, TypeOK, Steps
        <3>3. c \notin loose
            BY <2>3, <1>1
        <3>4. QED
            BY <3>2, <3>3 DEF IInv, MainRule
    <2>4. QED
        BY <2>2, <2>3
<1>7. \A u \in Thread : edit'[u] # None => EditGood(edit[u])'
    <2> TAKE u \in Thread
    <2> HAVE edit'[u] # None
    <2>1. PICK p : p = edit[u]
        OBVIOUS
    <2>2. PICK x : x = Unseen(t, u)
        OBVIOUS
    <2>3. PICK r : r = edit'[u]
        OBVIOUS
    <2>4. /\ u # t /\ p \in Edit /\ EditGood(p) /\ Apart(q, p) /\ x \in SUBSET p.checked
          /\ r = [p EXCEPT !.excused = p.excused \cup x]
        BY <2>1, <2>2, <2>3, <1>3
    <2>5. /\ r.own = p.own /\ r.checked = p.checked /\ r.bare = p.bare
          /\ r.excused = p.excused \cup x /\ Touched(r) = Touched(p) /\ Shape(r)
        BY <2>4, ExcusedMore DEF EditGood
    <2>6. \A i \in StepId : p.own[i] # Same => steps'[i] = steps[i]
        BY <2>4, <1>2 DEF Apart, View
    <2>7. OwnPlaced(r)'
        <3>1. OwnPlaced(p)
            BY <2>4 DEF EditGood
        <3>2. QED
            BY <3>1, <2>5, <2>6, <1>1 DEF OwnPlaced, Touched
    <2>8. LockHeld(r)'
        <3>1. LockHeld(p)
            BY <2>4 DEF EditGood
        <3>2. QED
            BY <3>1, <2>5, <2>6 DEF LockHeld, Anchors
    <2>9. CheckHolds(r)'
        <3> SUFFICES ASSUME NEW c \in p.checked, c \notin p.excused, c \notin x
                     PROVE  Valid(OfStation([i \in StepId |-> Sees(r, i)'], c), number[c])
            BY <2>5, <1>1 DEF CheckHolds
        <3>1. c \in Station
            BY <2>4, EditType
        <3>2. c \notin q.excused
            BY <2>1, <2>2 DEF Unseen
        <3>3. c \notin q.checked
            <4>1. q.checked \subseteq Touched(q)
                BY <1>1 DEF EditGood, Shape
            <4>2. c \in q.checked => c \in q.bare \cup p.bare
                BY <2>4 DEF Apart
            <4>3. QED
                BY <4>1, <4>2, <2>1, <2>2 DEF Unseen
        <3>4. \A i \in StepId :
                OfStation([j \in StepId |-> Sees(r, j)'], c)[i]
                  = OfStation([j \in StepId |-> Sees(p, j)], c)[i]
            <4> TAKE i \in StepId
            <4>1. CASE p.own[i] # Same
                BY <4>1, <2>5 DEF Sees, OfStation
            <4>2. CASE p.own[i] = Same
                <5>1. Sees(r, i)' = View(t, i) /\ Sees(p, i) = steps[i]
                    BY <4>2, <2>5, <1>2 DEF Sees
                <5>2. QED
                    BY <5>1, <3>1, <3>2, <3>3, <1>1, CommittedRows DEF OfStation
            <4>3. QED
                BY <4>1, <4>2
        <3>5. OfStation([j \in StepId |-> Sees(r, j)'], c) = OfStation([j \in StepId |-> Sees(p, j)], c)
            BY <3>4 DEF OfStation
        <3>6. QED
            BY <3>5, <2>4 DEF EditGood, CheckHolds
    <2>10. Shape(r)'
        BY <2>5 DEF Shape, Touched
    <2>11. EditGood(r)'
        BY <2>7, <2>8, <2>9, <2>10 DEF EditGood
    <2>12. QED
        BY <2>3, <2>11
<1>8. \A u, v \in Thread : u # v /\ edit'[u] # None /\ edit'[v] # None => Apart(edit'[u], edit'[v])
    <2> TAKE u \in Thread, v \in Thread
    <2> HAVE u # v /\ edit'[u] # None /\ edit'[v] # None
    <2>1. Apart(edit[u], edit[v])
        BY <1>3 DEF IInv
    <2>2. /\ edit'[u].own = edit[u].own /\ edit'[u].checked = edit[u].checked
          /\ edit'[u].bare = edit[u].bare
          /\ edit'[v].own = edit[v].own /\ edit'[v].checked = edit[v].checked
          /\ edit'[v].bare = edit[v].bare
        BY <1>3
    <2>3. QED
        BY <2>1, <2>2 DEF Apart
<1>9. QED
    BY <1>4, <1>5, <1>6, <1>7, <1>8 DEF IInv

-----------------------------------------------------------------------------
(* The server restarts; stations are made, renamed and dropped               *)

LEMMA RestartServerGood ==
    ASSUME IInv, RestartServer
    PROVE  IInv'
<1>1. /\ edit' = [t \in Thread |-> None] /\ UNCHANGED <<number, lastStep, begun, loose>>
      /\ steps' = [i \in StepId |-> IF \E s \in Station : i \in Unmarked(s)
                                    THEN [steps[i] EXCEPT !.main = TRUE] ELSE steps[i]]
    BY DEF RestartServer
<1>2. ASSUME NEW s \in Station, NEW i \in Unmarked(s)
      PROVE  /\ i \in StepId /\ steps[i] \in Row /\ steps[i].station = s
             /\ ~Valid(OfStation(steps, s), number[s])
             /\ steps'[i] \in Row /\ steps'[i].station = s
    <2>1. PICK rows : rows = OfStation(steps, s)
        OBVIOUS
    <2>2. i \in ScansIn(rows) /\ MainsIn(rows) = {} /\ FlowsIn(rows) = {}
        BY <2>1, <1>2 DEF Unmarked
    <2>3. ~Valid(rows, number[s])
        BY <2>2 DEF Valid
    <2>4. i \in StepId /\ rows[i] # None
        BY <2>1, <2>2 DEF ScansIn, OfStation, IInv, TypeOK, Steps
    <2>5. steps[i] \in Row /\ steps[i].station = s
        BY <2>1, <2>4 DEF OfStation, IInv, TypeOK, Steps
    <2>6. steps'[i] = [steps[i] EXCEPT !.main = TRUE]
        BY <1>1, <1>2, <2>4
    <2>7. [steps[i] EXCEPT !.main = TRUE] \in Row /\ [steps[i] EXCEPT !.main = TRUE].station = s
        BY <2>5, MarkSet
    <2>8. QED
        BY <2>1, <2>3, <2>4, <2>5, <2>6, <2>7
<1>3. ASSUME NEW i \in StepId, \A s \in Station : i \notin Unmarked(s)
      PROVE  steps'[i] = steps[i]
    BY <1>1, <1>3
<1>4. \A i \in StepId : /\ steps'[i] \in Row \cup {None}
                        /\ steps'[i] # None => steps[i] # None /\ steps'[i].station = steps[i].station
    <2> TAKE i \in StepId
    <2>1. CASE \E s \in Station : i \in Unmarked(s)
        BY <2>1, <1>2, NoneAssumption
    <2>2. CASE \A s \in Station : i \notin Unmarked(s)
        BY <2>2, <1>3 DEF IInv, TypeOK, Steps
    <2>3. QED
        BY <2>1, <2>2
<1>5. TypeOK'
    <2>1. steps' \in Steps
        BY <1>1, <1>4 DEF Steps
    <2>2. QED
        BY <2>1, <1>1 DEF IInv, TypeOK
<1>6. StepsPlaced'
    BY <1>1, <1>4 DEF IInv, StepsPlaced
<1>7. MainRule'
    <2> SUFFICES ASSUME NEW c \in Station, c \notin loose
                 PROVE  Valid(OfStation(steps', c), number[c])
        BY <1>1 DEF MainRule
    <2>1. Valid(OfStation(steps, c), number[c])
        BY DEF IInv, MainRule
    <2>2. ASSUME NEW i \in StepId
          PROVE  OfStation(steps', c)[i] = OfStation(steps, c)[i]
        <3>1. CASE \E s \in Station : i \in Unmarked(s)
            <4>1. PICK s \in Station : i \in Unmarked(s)
                BY <3>1
            <4>2. s # c
                BY <4>1, <2>1, <1>2
            <4>3. QED
                BY <4>1, <4>2, <1>1, <1>2 DEF OfStation, IInv, TypeOK, Steps
        <3>2. CASE \A s \in Station : i \notin Unmarked(s)
            BY <3>2, <1>1, <1>3 DEF OfStation, IInv, TypeOK, Steps
        <3>3. QED
            BY <3>1, <3>2
    <2>3. OfStation(steps', c) = OfStation(steps, c)
        BY <2>2, <1>1 DEF OfStation, IInv, TypeOK, Steps
    <2>4. QED
        BY <2>1, <2>3
<1>8. QED
    BY <1>1, <1>5, <1>6, <1>7 DEF IInv

\* A step that leaves the edits and the loose stations alone, and the edits good.
LEMMA EditsKept ==
    ASSUME IInv, edit' = edit, TypeOK', StepsPlaced', MainRule',
           \A p \in Edit, t \in Thread : edit[t] = p /\ p # None => EditGood(p)'
    PROVE  IInv'
<1>1. \A t \in Thread : edit'[t] # None => EditGood(edit[t])'
    <2> TAKE t \in Thread
    <2> HAVE edit'[t] # None
    <2>1. PICK p : p = edit'[t]
        OBVIOUS
    <2>2. p \in Edit /\ edit[t] = p
        BY <2>1, OpenEdit
    <2>3. EditGood(p)'
        BY <2>2
    <2>4. QED
        BY <2>1, <2>3
<1>2. \A t, u \in Thread : t # u /\ edit'[t] # None /\ edit'[u] # None => Apart(edit'[t], edit'[u])
    BY DEF IInv
<1>3. QED
    BY <1>1, <1>2 DEF IInv

LEMMA AddStationGood ==
    ASSUME IInv, NEW s \in Station, AddStation(s)
    PROVE  IInv'
<1>1. /\ edit' = edit /\ steps' = steps /\ lastStep' = lastStep /\ begun' = begun /\ loose' = loose
      /\ number[s] = None /\ number'[s] \in Number /\ number'[s] # None
      /\ number' \in [Station -> Number \cup {None}]
      /\ \A c \in Station \ {s} : number'[c] = number[c]
    BY NoneAssumption DEF AddStation, Fresh, IInv, TypeOK
<1>2. \A i \in StepId : steps[i] # None => steps[i].station \in Station \ {s}
    BY <1>1, RowType DEF IInv, StepsPlaced, TypeOK, Steps
<1>3. TypeOK'
    BY <1>1 DEF IInv, TypeOK
<1>4. StepsPlaced'
    BY <1>1, <1>2 DEF IInv, StepsPlaced
<1>5. MainRule'
    <2> SUFFICES ASSUME NEW c \in Station, c \notin loose
                 PROVE  Valid(OfStation(steps, c), number'[c])
        BY <1>1 DEF MainRule
    <2>1. CASE c = s
        <3>1. \A i \in StepId : OfStation(steps, c)[i] = None
            BY <1>2, <2>1 DEF OfStation, IInv, TypeOK, Steps
        <3>2. DOMAIN OfStation(steps, c) = StepId
            BY DEF OfStation, IInv, TypeOK, Steps
        <3>3. QED
            BY <3>1, <3>2, EmptyRule
    <2>2. CASE c # s
        BY <2>2, <1>1 DEF IInv, MainRule
    <2>3. QED
        BY <2>1, <2>2
<1>6. \A p \in Edit, t \in Thread : edit[t] = p /\ p # None => EditGood(p)'
    <2> TAKE p \in Edit, t \in Thread
    <2> HAVE edit[t] = p /\ p # None
    <2>1. EditGood(p)
        BY OpenEdit
    <2>2. s \notin Touched(p) /\ p.checked \subseteq Touched(p) /\ Touched(p) \subseteq Station
        <3>1. s \notin Touched(p)
            BY DEF AddStation, Fresh
        <3>2. QED
            BY <2>1, <3>1, TouchedType, CheckedType DEF EditGood
    <2>3. Shape(p)'
        BY <2>1 DEF EditGood, Shape, Touched
    <2>4. OwnPlaced(p)'
        BY <2>1, <2>2, <1>1 DEF EditGood, OwnPlaced, Touched
    <2>5. CheckHolds(p)'
        BY <2>1, <2>2, <1>1 DEF EditGood, CheckHolds, Sees
    <2>6. LockHeld(p)'
        BY <2>1, <1>1 DEF EditGood, LockHeld, Anchors
    <2>7. QED
        BY <2>3, <2>4, <2>5, <2>6 DEF EditGood
<1>7. QED
    BY <1>1, <1>3, <1>4, <1>5, <1>6, EditsKept

LEMMA RenameStationGood ==
    ASSUME IInv, NEW s \in Station, RenameStation(s)
    PROVE  IInv'
<1>1. /\ steps' = steps /\ lastStep' = lastStep /\ begun' = begun /\ loose' = loose \cup {s}
      /\ number'[s] \in Number /\ number'[s] # None
      /\ number' \in [Station -> Number \cup {None}]
      /\ \A c \in Station \ {s} : number'[c] = number[c]
    BY NoneAssumption DEF RenameStation, IInv, TypeOK
<1>2. ASSUME NEW u \in Thread, edit'[u] # None, NEW p, p = edit[u], NEW r, r = edit'[u]
      PROVE  /\ p # None /\ p \in Edit /\ EditGood(p) /\ r \in Edit
             /\ r.own = p.own /\ r.checked = p.checked /\ r.bare = p.bare
             /\ r.excused = p.excused \cup ({s} \cap p.checked)
             /\ Touched(r) = Touched(p) /\ Shape(r)
    <2>1. p # None /\ r = [p EXCEPT !.excused = p.excused \cup ({s} \cap p.checked)]
        BY <1>2 DEF RenameStation
    <2>2. p \in Edit /\ EditGood(p)
        BY <2>1, <1>2, OpenEdit
    <2>3. PICK x : x = {s} \cap p.checked
        OBVIOUS
    <2>4. x \in SUBSET p.checked /\ r = [p EXCEPT !.excused = p.excused \cup x]
        BY <2>1, <2>3
    <2>5. QED
        BY <2>1, <2>2, <2>3, <2>4, ExcusedMore DEF EditGood
<1>3. TypeOK'
    <2>1. \A u \in Thread : edit'[u] \in Edit \cup {None}
        <3> TAKE u \in Thread
        <3>1. PICK p : p = edit[u]
            OBVIOUS
        <3>2. PICK r : r = edit'[u]
            OBVIOUS
        <3>3. QED
            BY <3>1, <3>2, <1>2
    <2>2. edit' \in [Thread -> Edit \cup {None}]
        BY <2>1 DEF RenameStation
    <2>3. QED
        BY <1>1, <2>2 DEF IInv, TypeOK
<1>4. StepsPlaced'
    <2>1. \A i \in StepId : steps[i] # None => steps[i].station \in Station
        BY RowType DEF IInv, TypeOK, Steps
    <2>2. QED
        BY <1>1, <2>1 DEF IInv, StepsPlaced
<1>5. MainRule'
    BY <1>1 DEF IInv, MainRule
<1>6. \A u \in Thread : edit'[u] # None => EditGood(edit[u])'
    <2> TAKE u \in Thread
    <2> HAVE edit'[u] # None
    <2>1. PICK p : p = edit[u]
        OBVIOUS
    <2>2. PICK r : r = edit'[u]
        OBVIOUS
    <2>3. /\ p \in Edit /\ EditGood(p) /\ r \in Edit
          /\ r.own = p.own /\ r.checked = p.checked /\ r.bare = p.bare
          /\ r.excused = p.excused \cup ({s} \cap p.checked)
          /\ Touched(r) = Touched(p) /\ Shape(r)
        BY <2>1, <2>2, <1>2
    <2>4. Touched(p) \subseteq Station /\ p.checked \subseteq Station
        BY <2>3, TouchedType, EditType
    <2>5. OwnPlaced(r)'
        BY <2>3, <2>4, <1>1 DEF EditGood, OwnPlaced, Touched
    <2>6. CheckHolds(r)'
        <3> SUFFICES ASSUME NEW c \in p.checked, c \notin p.excused, c # s
                     PROVE  Valid(OfStation([i \in StepId |-> Sees(r, i)'], c), number'[c])
            BY <2>3 DEF CheckHolds
        <3>1. Valid(OfStation([i \in StepId |-> Sees(p, i)], c), number[c])
            BY <2>3 DEF EditGood, CheckHolds
        <3>2. [i \in StepId |-> Sees(r, i)'] = [i \in StepId |-> Sees(p, i)]
            BY <2>3, <1>1 DEF Sees
        <3>3. number'[c] = number[c]
            BY <2>4, <1>1
        <3>4. QED
            BY <3>1, <3>2, <3>3
    <2>7. LockHeld(r)'
        BY <2>3, <1>1 DEF EditGood, LockHeld, Anchors
    <2>8. Shape(r)'
        BY <2>3 DEF Shape, Touched
    <2>9. EditGood(r)'
        BY <2>5, <2>6, <2>7, <2>8 DEF EditGood
    <2>10. QED
        BY <2>2, <2>9
<1>7. \A u, v \in Thread : u # v /\ edit'[u] # None /\ edit'[v] # None => Apart(edit'[u], edit'[v])
    <2> TAKE u \in Thread, v \in Thread
    <2> HAVE u # v /\ edit'[u] # None /\ edit'[v] # None
    <2>1. PICK p : p = edit[u]
        OBVIOUS
    <2>2. PICK r : r = edit'[u]
        OBVIOUS
    <2>3. PICK y : y = edit[v]
        OBVIOUS
    <2>4. PICK z : z = edit'[v]
        OBVIOUS
    <2>5. p # None /\ r.own = p.own /\ r.checked = p.checked /\ r.bare = p.bare
        BY <2>1, <2>2, <1>2
    <2>6. y # None /\ z.own = y.own /\ z.checked = y.checked /\ z.bare = y.bare
        BY <2>3, <2>4, <1>2
    <2>7. Apart(p, y)
        BY <2>1, <2>3, <2>5, <2>6 DEF IInv
    <2>8. Apart(r, z)
        BY <2>5, <2>6, <2>7 DEF Apart
    <2>9. QED
        BY <2>2, <2>4, <2>8
<1>8. QED
    BY <1>3, <1>4, <1>5, <1>6, <1>7 DEF IInv

LEMMA DropStationsGood ==
    ASSUME IInv, NEW S \in SUBSET Station, DropStations(S)
    PROVE  IInv'
<1>1. /\ edit' = edit /\ lastStep' = lastStep /\ begun' = begun /\ loose' = loose \ S
      /\ number' = [s \in Station |-> IF s \in S THEN None ELSE number[s]]
      /\ steps' = [i \in StepId |-> IF steps[i] # None /\ steps[i].station \in S THEN None
                                    ELSE steps[i]]
    BY DEF DropStations
<1>2. \A i \in StepId : /\ steps'[i] # None => steps'[i] = steps[i] /\ steps[i].station \notin S
                        /\ steps[i] # None /\ steps[i].station \notin S => steps'[i] = steps[i]
                        /\ steps[i] # None => steps[i].station \in Station
    BY <1>1, RowType DEF IInv, TypeOK, Steps
<1>3. TypeOK'
    BY <1>1 DEF IInv, TypeOK, Steps
<1>4. StepsPlaced'
    BY <1>1, <1>2 DEF IInv, StepsPlaced
<1>5. \A f \in [StepId -> Row \cup {None}], g \in [StepId -> Row \cup {None}] : \A c \in Station :
          /\ \A i \in StepId : /\ g[i] # None => g[i] = f[i] /\ f[i].station \notin S
                               /\ f[i] # None /\ f[i].station \notin S => g[i] = f[i]
          /\ c \notin S => Valid(OfStation(f, c), number[c])
          => Valid(OfStation(g, c), number'[c])
    <2> SUFFICES ASSUME NEW f \in [StepId -> Row \cup {None}], NEW g \in [StepId -> Row \cup {None}],
                        NEW c \in Station,
                        \A i \in StepId : /\ g[i] # None => g[i] = f[i] /\ f[i].station \notin S
                                          /\ f[i] # None /\ f[i].station \notin S => g[i] = f[i],
                        c \notin S => Valid(OfStation(f, c), number[c])
                 PROVE  Valid(OfStation(g, c), number'[c])
        OBVIOUS
    <2>1. CASE c \in S
        <3>1. DOMAIN OfStation(g, c) = StepId /\ \A i \in StepId : OfStation(g, c)[i] = None
            BY <2>1 DEF OfStation
        <3>2. QED
            BY <3>1, EmptyRule
    <2>2. CASE c \notin S
        <3>1. \A i \in StepId : OfStation(g, c)[i] = OfStation(f, c)[i]
            BY <2>2 DEF OfStation
        <3>2. OfStation(g, c) = OfStation(f, c)
            BY <3>1 DEF OfStation
        <3>3. QED
            BY <3>2, <2>2, <1>1
    <2>3. QED
        BY <2>1, <2>2
<1>6. MainRule'
    <2> SUFFICES ASSUME NEW c \in Station, c \in S \/ c \notin loose
                 PROVE  Valid(OfStation(steps', c), number'[c])
        BY <1>1 DEF MainRule
    <2>1. steps \in [StepId -> Row \cup {None}] /\ steps' \in [StepId -> Row \cup {None}]
        BY <1>3 DEF IInv, TypeOK, Steps
    <2>2. c \notin S => Valid(OfStation(steps, c), number[c])
        BY DEF IInv, MainRule
    <2>3. QED
        BY <2>1, <2>2, <1>2, <1>5
<1>7. \A p \in Edit, t \in Thread : edit[t] = p /\ p # None => EditGood(p)'
    <2> TAKE p \in Edit, t \in Thread
    <2> HAVE edit[t] = p /\ p # None
    <2>1. EditGood(p)
        BY OpenEdit
    <2>2. \A i \in StepId : p.own[i] # Same => /\ p.own[i] # None => p.own[i].station \notin S
                                               /\ steps[i] # None => steps[i].station \notin S
                                               /\ steps'[i] = steps[i]
        BY <1>1 DEF DropStations, InUse
    <2>3. Touched(p) \subseteq Station /\ p.checked \subseteq Station
        BY TouchedType, EditType
    <2>4. Shape(p)'
        BY <2>1 DEF EditGood, Shape, Touched
    <2>5. OwnPlaced(p)'
        BY <2>1, <2>2, <2>3, <1>1 DEF EditGood, OwnPlaced, Touched
    <2>6. LockHeld(p)'
        BY <2>1, <2>2 DEF EditGood, LockHeld, Anchors
    <2>7. CheckHolds(p)'
        <3> SUFFICES ASSUME NEW c \in p.checked, c \notin p.excused
                     PROVE  Valid(OfStation([i \in StepId |-> Sees(p, i)'], c), number'[c])
            BY DEF CheckHolds
        <3>1. PICK f : f = [i \in StepId |-> Sees(p, i)]
            OBVIOUS
        <3>2. PICK g : g = [i \in StepId |-> Sees(p, i)']
            OBVIOUS
        <3>3. \A i \in StepId : /\ f[i] = IF p.own[i] = Same THEN steps[i] ELSE p.own[i]
                                /\ g[i] = IF p.own[i] = Same THEN steps'[i] ELSE p.own[i]
            BY <3>1, <3>2 DEF Sees
        <3>4. p.own \in [StepId -> Row \cup {None, Same}]
            BY EditType
        <3>5. f \in [StepId -> Row \cup {None}] /\ g \in [StepId -> Row \cup {None}]
            BY <3>1, <3>2, <3>3, <3>4, <1>3 DEF IInv, TypeOK, Steps
        <3>6. \A i \in StepId : /\ g[i] # None => g[i] = f[i] /\ f[i].station \notin S
                                /\ f[i] # None /\ f[i].station \notin S => g[i] = f[i]
            BY <3>3, <2>2, <1>2
        <3>7. Valid(OfStation(f, c), number[c])
            BY <3>1, <2>1 DEF EditGood, CheckHolds
        <3>8. c \in Station
            BY <2>3
        <3>9. QED
            BY <3>2, <3>5, <3>6, <3>7, <3>8, <1>5
    <2>8. QED
        BY <2>4, <2>5, <2>6, <2>7 DEF EditGood
<1>8. QED
    BY <1>1, <1>3, <1>4, <1>6, <1>7, EditsKept

LEMMA CreateRouteGood ==
    ASSUME IInv, NEW r \in Templates, CreateRoute(r)
    PROVE  IInv'
<1> DEFINE n == Len(r.rows)
<1>1. /\ edit' = edit /\ begun' = begun /\ loose' = loose
      /\ lastStep' = lastStep + n /\ lastStep + Pending + n <= MaxStep
      /\ number' = [s \in Station |-> IF r.number[s] # None THEN r.number[s] ELSE number[s]]
      /\ steps' = [i \in StepId |-> IF i > lastStep /\ i - lastStep \in DOMAIN r.rows
                                    THEN r.rows[i - lastStep] ELSE steps[i]]
      /\ \A s \in Station : r.number[s] # None => Fresh(s)
    BY DEF CreateRoute
<1>2. /\ n \in Nat /\ DOMAIN r.rows = 1 .. n /\ \A k \in 1 .. n : r.rows[k] \in Row
      /\ r.number \in [Station -> Number \cup {None}]
      /\ \A k \in 1 .. n : r.number[r.rows[k].station] # None
      /\ \A s \in Station : Valid(OfStation(r.rows, s), r.number[s])
    BY TemplatesAssumption
<1> HIDE DEF n
<1>3. lastStep \in Nat /\ MaxStep \in Nat /\ lastStep + n \in Nat /\ lastStep + n <= MaxStep
    <2>1. Pending \in Nat
        BY ThreadAssumption, FS_Subset, FS_CardinalityType DEF Pending
    <2>2. QED
        BY <2>1, <1>1, <1>2, NumberAssumption DEF IInv, TypeOK
\* The new rows are at stations that are new.
<1>4. \A i \in StepId :
          \/ /\ i > lastStep /\ i <= lastStep + n /\ steps[i] = None
             /\ steps'[i] \in Row /\ steps'[i].station \in Station
             /\ r.number[steps'[i].station] # None
          \/ steps'[i] = steps[i]
    <2> TAKE i \in StepId
    <2>1. i \in Nat
        BY NumberAssumption DEF StepId
    <2>2. CASE i > lastStep /\ i - lastStep \in 1 .. n
        <3>1. steps'[i] = r.rows[i - lastStep] /\ i <= lastStep + n
            BY <2>1, <2>2, <1>1, <1>2, <1>3
        <3>2. steps[i] = None
            BY <2>1, <2>2, <1>3 DEF IInv, StepsPlaced
        <3>3. QED
            BY <3>1, <3>2, <2>2, <1>2, RowType
    <2>3. CASE ~(i > lastStep /\ i - lastStep \in 1 .. n)
        BY <2>3, <1>1, <1>2
    <2>4. QED
        BY <2>2, <2>3
<1>5. \A s \in Station : /\ number'[s] = IF r.number[s] # None THEN r.number[s] ELSE number[s]
                         /\ r.number[s] # None => number[s] = None
    BY <1>1 DEF Fresh
<1>6. TypeOK'
    <2>1. number' \in [Station -> Number \cup {None}]
        BY <1>1, <1>2 DEF IInv, TypeOK
    <2>2. steps' \in Steps
        BY <1>1, <1>4 DEF IInv, TypeOK, Steps
    <2>3. lastStep' \in 0 .. MaxStep
        BY <1>1, <1>3
    <2>4. QED
        BY <2>1, <2>2, <2>3, <1>1 DEF IInv, TypeOK
<1>7. StepsPlaced'
    <2> SUFFICES ASSUME NEW i \in StepId, steps'[i] # None
                 PROVE  i <= lastStep + n /\ number'[steps'[i].station] # None
        BY <1>1 DEF StepsPlaced
    <2>1. CASE steps'[i] = steps[i]
        <3>1. i <= lastStep /\ number[steps[i].station] # None /\ steps[i].station \in Station /\ i \in Nat
            BY <2>1, RowType, NumberAssumption DEF IInv, StepsPlaced, TypeOK, Steps, StepId
        <3>2. QED
            BY <3>1, <2>1, <1>2, <1>3, <1>5
    <2>2. CASE steps'[i] # steps[i]
        BY <2>2, <1>4, <1>5
    <2>3. QED
        BY <2>1, <2>2
<1>8. MainRule'
    <2> SUFFICES ASSUME NEW c \in Station, c \notin loose
                 PROVE  Valid(OfStation(steps', c), number'[c])
        BY <1>1 DEF MainRule
    <2>1. CASE r.number[c] # None
        <3>1. number'[c] = r.number[c] /\ number[c] = None
            BY <2>1, <1>5
        <3>2. PICK f : f = OfStation(r.rows, c)
            OBVIOUS
        <3>3. PICK g : g = OfStation(steps', c)
            OBVIOUS
        <3>4. DOMAIN f = 1 .. n /\ DOMAIN g = 1 .. MaxStep
            BY <3>2, <3>3, <1>1, <1>2 DEF OfStation, StepId
        <3>5. \A i \in 1 .. MaxStep :
                g[i] = IF i > lastStep /\ i - lastStep \in 1 .. n THEN f[i - lastStep] ELSE None
            <4> TAKE i \in 1 .. MaxStep
            <4>1. CASE i > lastStep /\ i - lastStep \in 1 .. n
                BY <4>1, <3>2, <3>3, <1>1, <1>2 DEF OfStation, StepId
            <4>2. CASE ~(i > lastStep /\ i - lastStep \in 1 .. n)
                <5>1. steps'[i] = steps[i]
                    BY <4>2, <1>1, <1>2 DEF StepId
                <5>2. steps[i] # None => steps[i].station # c
                    BY <3>1 DEF IInv, StepsPlaced, StepId
                <5>3. g[i] = None
                    BY <5>1, <5>2, <3>3, <1>1 DEF OfStation, StepId
                <5>4. QED
                    BY <5>3, <4>2
            <4>3. QED
                BY <4>1, <4>2
        <3>6. Valid(f, r.number[c])
            BY <3>2, <1>2
        <3>7. n + lastStep <= MaxStep
            BY <1>2, <1>3
        <3>8. Valid(g, r.number[c])
            BY <3>4, <3>5, <3>6, <3>7, <1>2, <1>3, ShiftRule
        <3>9. QED
            BY <3>1, <3>3, <3>8
    <2>2. CASE r.number[c] = None
        <3>1. \A i \in StepId : OfStation(steps', c)[i] = OfStation(steps, c)[i]
            BY <2>2, <1>1, <1>4 DEF OfStation, IInv, TypeOK, Steps
        <3>2. OfStation(steps', c) = OfStation(steps, c)
            BY <3>1, <1>1 DEF OfStation, IInv, TypeOK, Steps
        <3>3. number'[c] = number[c]
            BY <2>2, <1>5
        <3>4. QED
            BY <3>2, <3>3 DEF IInv, MainRule
    <2>3. QED
        BY <2>1, <2>2
<1>9. \A p \in Edit, t \in Thread : edit[t] = p /\ p # None => EditGood(p)'
    <2> TAKE p \in Edit, t \in Thread
    <2> HAVE edit[t] = p /\ p # None
    <2>1. EditGood(p)
        BY OpenEdit
    <2>2. Touched(p) \subseteq Station /\ p.checked \subseteq Touched(p)
        BY <2>1, TouchedType, CheckedType DEF EditGood
    <2>3. \A s \in Touched(p) : r.number[s] = None /\ number'[s] = number[s]
        BY <2>2, <1>1, <1>5 DEF Fresh
    <2>4. \A i \in StepId : p.own[i] # Same => i <= lastStep /\ i \in Nat /\ steps'[i] = steps[i]
        <3> TAKE i \in StepId
        <3> HAVE p.own[i] # Same
        <3>1. i <= lastStep /\ i \in Nat
            BY <2>1, NumberAssumption DEF EditGood, OwnPlaced, StepId
        <3>2. ~(i > lastStep)
            BY <3>1, <1>3
        <3>3. QED
            BY <3>1, <3>2, <1>4
    <2>5. Shape(p)'
        BY <2>1 DEF EditGood, Shape, Touched
    <2>6. OwnPlaced(p)'
        <3>1. \A i \in StepId : p.own[i] # Same => i <= lastStep + n
            BY <2>4, <1>2, <1>3
        <3>2. OwnPlaced(p)
            BY <2>1 DEF EditGood
        <3>3. QED
            BY <3>1, <3>2, <2>3, <2>4, <1>1 DEF OwnPlaced, Touched
    <2>7. LockHeld(p)'
        BY <2>1, <2>4 DEF EditGood, LockHeld, Anchors
    <2>8. CheckHolds(p)'
        <3> SUFFICES ASSUME NEW c \in p.checked, c \notin p.excused
                     PROVE  Valid(OfStation([i \in StepId |-> Sees(p, i)'], c), number'[c])
            BY DEF CheckHolds
        <3>1. c \in Touched(p)
            BY <2>2
        <3>2. \A i \in StepId : OfStation([j \in StepId |-> Sees(p, j)'], c)[i]
                                  = OfStation([j \in StepId |-> Sees(p, j)], c)[i]
            <4> TAKE i \in StepId
            <4>1. CASE p.own[i] # Same
                BY <4>1 DEF Sees, OfStation
            <4>2. CASE p.own[i] = Same
                <5>1. Sees(p, i) = steps[i] /\ Sees(p, i)' = steps'[i]
                    BY <4>2 DEF Sees
                <5>2. \/ steps'[i] = steps[i]
                      \/ steps[i] = None /\ steps'[i] # None /\ steps'[i].station # c
                    BY <3>1, <2>3, <1>4, NoneAssumption
                <5>3. QED
                    BY <5>1, <5>2 DEF OfStation
            <4>3. QED
                BY <4>1, <4>2
        <3>3. OfStation([i \in StepId |-> Sees(p, i)'], c) = OfStation([i \in StepId |-> Sees(p, i)], c)
            BY <3>2 DEF OfStation
        <3>4. Valid(OfStation([i \in StepId |-> Sees(p, i)], c), number[c])
            BY <2>1 DEF EditGood, CheckHolds
        <3>5. QED
            BY <3>1, <3>3, <3>4, <2>3
    <2>9. QED
        BY <2>5, <2>6, <2>7, <2>8 DEF EditGood
<1>10. QED
    BY <1>1, <1>6, <1>7, <1>8, <1>9, EditsKept

-----------------------------------------------------------------------------
(* The theorems                                                              *)

LEMMA InitGood ==
    ASSUME Init
    PROVE  IInv
<1>1. StepId \subseteq Nat /\ \A i \in StepId : steps[i] = None
    BY NumberAssumption DEF Init, StepId
<1>2. TypeOK
    BY NumberAssumption DEF Init, TypeOK, Steps
<1>3. MainRule
    <2> SUFFICES ASSUME NEW s \in Station
                 PROVE  Valid(OfStation(steps, s), number[s])
        BY DEF MainRule
    <2>1. DOMAIN OfStation(steps, s) = StepId /\ \A i \in StepId : OfStation(steps, s)[i] = None
        BY <1>1 DEF OfStation, Init
    <2>2. QED
        BY <2>1, EmptyRule
<1>4. QED
    BY <1>1, <1>2, <1>3 DEF Init, IInv, StepsPlaced

LEMMA NextGood ==
    ASSUME IInv, [Next]_vars
    PROVE  IInv'
<1>1. CASE UNCHANGED vars
    <2>1. TypeOK' /\ StepsPlaced'
        BY <1>1 DEF vars, IInv, TypeOK, StepsPlaced
    <2>2. MainRule'
        BY <1>1 DEF vars, IInv, MainRule
    <2>3. \A p \in Edit, t \in Thread : edit[t] = p /\ p # None => EditGood(p)'
        <3> TAKE p \in Edit, t \in Thread
        <3> HAVE edit[t] = p /\ p # None
        <3>1. EditGood(p) /\ lastStep' \in Nat /\ lastStep' >= lastStep
            BY <1>1, OpenEdit DEF vars, IInv, TypeOK
        <3>2. QED
            BY <3>1, <1>1, GoodKept DEF vars
    <2>4. QED
        BY <2>1, <2>2, <2>3, <1>1, EditsKept DEF vars
<1>2. ASSUME NEW t \in Thread, Proceed(t)
      PROVE  IInv'
    <2>1. CASE RefuseEdit(t)
        BY <2>1, UndoneGood DEF RefuseEdit
    <2>2. QED
        BY <1>2, <2>1, WaitForRowGood, ClearMainGood, InsertStepGood, WriteStepGood,
           CheckStepsGood, CommitEditGood DEF Proceed
<1>3. ASSUME NEW t \in Thread, FailEdit(t)
      PROVE  IInv'
    BY <1>3, UndoneGood DEF FailEdit
<1>4. QED
    BY <1>1, <1>2, <1>3, AddStepGood, UpdateStepGood, DeleteStepGood, RestartServerGood,
       AddStationGood, RenameStationGood, DropStationsGood, CreateRouteGood DEF Next

\* What is stored and what edits hold keep their types.
THEOREM TypeCorrect == Spec => []TypeOK
<1>1. IInv => TypeOK
    BY DEF IInv
<1>2. QED
    BY <1>1, InitGood, NextGood, PTL DEF Spec

(* A station keeps one main step, or a step that brings the product, however *)
(* edits overlap, but where their validations could not meet                 *)
(* (services.py:1411-1460).                                                  *)
THEOREM StationKeepsMainRule == Spec => []MainRule
<1>1. IInv => MainRule
    BY DEF IInv
<1>2. QED
    BY <1>1, InitGood, NextGood, PTL DEF Spec

-----------------------------------------------------------------------------
(* A device                                                                  *)

\* A set of numbers that is not empty has a least one.
LEMMA LeastNumber ==
    ASSUME NEW T \in SUBSET Nat, T # {}
    PROVE  \E x \in T : \A y \in T : x <= y
<1>1. \E x \in T : \A y \in T : ~(<<y, x>> \in OpToRel(<, Nat))
    BY NatLessThanWellFounded, WFMin
<1>2. \A x, y \in T : ~(<<y, x>> \in OpToRel(<, Nat)) => x <= y
    BY DEF OpToRel
<1>3. QED
    BY <1>1, <1>2

\* One of the steps is the first.
LEMMA FirstIsOne ==
    ASSUME NEW f, NEW T \in SUBSET Nat, T # {}, \A i \in T : f[i].order \in Nat
    PROVE  FirstOf(f, T) \in T
<1> DEFINE P == {f[i].order : i \in T}
<1>1. PICK o \in P : \A x \in P : o <= x
    <2>1. P \in SUBSET Nat /\ P # {}
        OBVIOUS
    <2> HIDE DEF P
    <2>2. QED
        BY <2>1, LeastNumber
<1> DEFINE Q == {i \in T : f[i].order = o}
<1>2. PICK m \in Q : \A i \in Q : m <= i
    <2>1. Q \in SUBSET Nat /\ Q # {}
        BY <1>1
    <2> HIDE DEF Q
    <2>2. QED
        BY <2>1, LeastNumber
<1>3. \A j \in T : f[m].order < f[j].order \/ (f[m].order = f[j].order /\ m <= j)
    <2> TAKE j \in T
    <2>1. f[m].order = o /\ o \in Nat /\ f[j].order \in Nat /\ o <= f[j].order
        BY <1>1, <1>2
    <2>2. CASE f[j].order = o
        BY <2>1, <2>2, <1>2
    <2>3. CASE f[j].order # o
        BY <2>1, <2>3
    <2>4. QED
        BY <2>2, <2>3
<1>4. m \in T
    BY <1>2
<1>5. QED
    BY <1>3, <1>4 DEF FirstOf

\* With step m made the main step, the scans are the same and m is the only main step.
LEMMA OneMainSet ==
    ASSUME NEW f \in [StepId -> Row \cup {None}], NEW m \in ScansIn(f)
    PROVE  MainsIn(WithMain(f, m)) = {m}
<1>1. PICK g : g = WithMain(f, m)
    OBVIOUS
<1>2. ScansIn(f) \subseteq StepId /\ DOMAIN g = StepId
    BY <1>1 DEF ScansIn, WithMain
<1>3. ASSUME NEW i \in ScansIn(f)
      PROVE  g[i] # None /\ g[i].kind = "scan" /\ g[i].main = (i = m)
    <2>1. f[i] \in Row /\ f[i].kind = "scan"
        BY DEF ScansIn
    <2>2. PICK b \in BOOLEAN : b = (i = m)
        OBVIOUS
    <2>3. g[i] = [f[i] EXCEPT !.main = b]
        BY <1>1, <1>2, <2>2 DEF WithMain
    <2>4. /\ [f[i] EXCEPT !.main = b] \in Row
          /\ [f[i] EXCEPT !.main = b].kind = f[i].kind
          /\ [f[i] EXCEPT !.main = b].main = b
        BY <2>1, <2>2, MarkSet
    <2>5. g[i] \in Row /\ g[i].kind = "scan" /\ g[i].main = b
        BY <2>1, <2>3, <2>4, Zenon
    <2>6. g[i].main = (i = m)
        BY <2>2, <2>5, Zenon
    <2>7. QED
        BY <2>5, <2>6, NoneAssumption
<1>4. ASSUME NEW i \in StepId, i \notin ScansIn(f)
      PROVE  i \notin ScansIn(g)
    BY <1>1, <1>4 DEF ScansIn, WithMain
<1>5. m \in MainsIn(g)
    BY <1>2, <1>3 DEF MainsIn, ScansIn
<1>6. \A i \in MainsIn(g) : i = m
    BY <1>2, <1>3, <1>4 DEF MainsIn, ScansIn
<1>7. QED
    BY <1>1, <1>5, <1>6

(* A device works from one main step, or from none where a switch or a       *)
(* binding brings the product; it changes nothing where the server's rule is *)
(* kept (window.py:2833-2852).                                               *)
THEOREM DeviceWorksFromOneMain == Spec => []DeviceHasOneMain
<1>1. IInv => DeviceHasOneMain
    <2> SUFFICES ASSUME IInv, NEW s \in Station
                 PROVE  LET rows == Loaded(s)
                        IN  /\ \/ ScansIn(rows) = {}
                               \/ (MainsIn(rows) = {} /\ FlowsIn(rows) # {})
                               \/ \E i \in StepId : MainsIn(rows) = {i}
                            /\ s \notin loose => rows = OfStation(steps, s)
        BY DEF DeviceHasOneMain
    <2>1. PICK f : f = OfStation(steps, s)
        OBVIOUS
    <2>2. f \in [StepId -> Row \cup {None}]
        BY <2>1 DEF OfStation, IInv, TypeOK, Steps
    <2>3. MainsIn(f) \subseteq ScansIn(f) /\ ScansIn(f) \subseteq StepId /\ StepId \subseteq Nat
        BY <2>2, NumberAssumption DEF MainsIn, ScansIn, StepId
    <2>4. IsFiniteSet(MainsIn(f))
        <3>1. IsFiniteSet(StepId)
            BY NumberAssumption, FS_Interval DEF StepId
        <3>2. QED
            BY <3>1, <2>3, FS_Subset
    <2>5. Cardinality(MainsIn(f)) = 1 <=> \E i \in StepId : MainsIn(f) = {i}
        <3>1. Cardinality(MainsIn(f)) = 1 <=> \E x : MainsIn(f) = {x}
            BY <2>4, FS_Singleton
        <3>2. QED
            BY <3>1, <2>3
    <2>6. s \notin loose => \/ ScansIn(f) = {}
                            \/ Cardinality(MainsIn(f)) = 1
                            \/ MainsIn(f) = {} /\ FlowsIn(f) # {}
        <3>1. s \notin loose => Valid(f, number[s])
            BY <2>1 DEF IInv, MainRule
        <3>2. QED
            BY <3>1, <2>2, <2>5 DEF Valid
    <2>7. CASE \/ ScansIn(f) = {}
               \/ Cardinality(MainsIn(f)) = 1
               \/ MainsIn(f) = {} /\ FlowsIn(f) # {}
        <3>1. Loaded(s) = f
            BY <2>1, <2>7 DEF Loaded, Ensured
        <3>2. QED
            BY <3>1, <2>1, <2>5, <2>7
    <2>8. CASE ~(\/ ScansIn(f) = {}
                 \/ Cardinality(MainsIn(f)) = 1
                 \/ MainsIn(f) = {} /\ FlowsIn(f) # {})
        <3>1. PICK T : T = IF MainsIn(f) # {} THEN MainsIn(f) ELSE ScansIn(f)
            OBVIOUS
        <3>2. Loaded(s) = WithMain(f, FirstOf(f, T))
            BY <2>1, <2>8, <3>1 DEF Loaded, Ensured
        <3>3. T \in SUBSET Nat /\ T # {} /\ T \subseteq ScansIn(f)
            BY <2>3, <2>8, <3>1
        <3>4. \A i \in T : f[i].order \in Nat
            BY <3>3, <2>2, RowType DEF ScansIn
        <3>5. FirstOf(f, T) \in ScansIn(f)
            BY <3>3, <3>4, FirstIsOne
        <3>6. MainsIn(Loaded(s)) = {FirstOf(f, T)}
            BY <3>2, <3>5, <2>2, OneMainSet
        <3>7. QED
            BY <3>5, <3>6, <2>3, <2>6, <2>8
    <2>9. QED
        BY <2>7, <2>8
<1>2. QED
    BY <1>1, InitGood, NextGood, PTL DEF Spec
=============================================================================
