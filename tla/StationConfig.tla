---------------------------- MODULE StationConfig ----------------------------
(* Stations and steps: services.py edited by administrators, and window.py   *)
(* that works from a downloaded copy.                                        *)
(*                                                                           *)
(* An edit of a step runs in one transaction: it clears the main marks of    *)
(* the station when it sets one, writes the step, and validates the station. *)
(* There is no lock on the station.  At READ COMMITTED a statement sees what *)
(* was committed when it began, and an UPDATE or DELETE waits for rows that  *)
(* an open transaction has written; so two edits may validate without seeing *)
(* each other.  A device repairs what it downloads before it works from it.  *)
EXTENDS Naturals, Sequences, FiniteSets

CONSTANTS Thread,    \* server threads that handle edits
          Station,   \* places for stations
          Number,    \* numbers that stations have in their names
          Order,     \* positions of steps
          Payloads,  \* steps administrators enter
          Templates, \* routes made from a template: for each station, its steps
          MaxStep,   \* bound: steps ever inserted
          MaxEdit,   \* bound: edits ever begun
          Same,      \* a row that a transaction has not written
          None

\* Scans and PLC receptions; screws and measurements; switches and bindings.
Kind == {"scan", "work", "flow"}

Row == [station : Station, order : Order, kind : Kind, main : BOOLEAN]

ASSUME NumberAssumption == Number \subseteq Nat /\ Order \subseteq Nat /\ MaxStep \in Nat /\ MaxEdit \in Nat

\* normalize_main_barcode refuses a main mark on a step that scans nothing.
ASSUME PayloadsAssumption ==
    /\ Payloads \subseteq Row
    /\ \A row \in Payloads : row.main => row.kind = "scan"

ASSUME NoneAssumption ==
    /\ None \notin Row /\ None \notin Number /\ None \notin Station /\ None \notin 1 .. MaxStep
    /\ Same \notin Row /\ Same # None

ASSUME ThreadAssumption == IsFiniteSet(Thread)

-----------------------------------------------------------------------------
(* The rule of a station.  Rows are a function from ids, or from places in a *)
(* template, to rows or None.                                                *)

ScansIn(rows) == {i \in DOMAIN rows : rows[i] # None /\ rows[i].kind = "scan"}

MainsIn(rows) == {i \in ScansIn(rows) : rows[i].main}

FlowsIn(rows) == {i \in DOMAIN rows : rows[i] # None /\ rows[i].kind = "flow"}

\* validate_station_main_barcode: what it accepts of the steps of a station with number n.
\* The main step of a station whose number is above one is step 1.
Valid(rows, n) ==
    \/ ScansIn(rows) = {}
    \/ (MainsIn(rows) = {} /\ FlowsIn(rows) # {})
    \/ \E i \in DOMAIN rows :
          /\ MainsIn(rows) = {i}
          /\ (n # None /\ n > 1) => rows[i].order = 1

OfStation(rows, s) ==
    [i \in DOMAIN rows |-> IF rows[i] # None /\ rows[i].station = s THEN rows[i] ELSE None]

(* route_template_specs: the steps of a template are at its stations, and    *)
(* keep the rule there; nothing validates them when the route is made.       *)
ASSUME TemplatesAssumption ==
    \A r \in Templates :
        /\ r.number \in [Station -> Number \cup {None}]
        /\ r.rows \in Seq(Row)
        /\ \A k \in DOMAIN r.rows : r.number[r.rows[k].station] # None
        /\ \A s \in Station : Valid(OfStation(r.rows, s), r.number[s])

-----------------------------------------------------------------------------
VARIABLES number,    \* the number in each station's name
          steps,     \* committed rows of steps, by id
          lastStep,  \* the latest id
          begun,     \* edits begun
          edit,      \* the edit each thread handles
          loose      \* history: stations about which nothing is promised

vars == <<number, steps, lastStep, begun, edit, loose>>

StepId == 1 .. MaxStep

Steps == [StepId -> Row \cup {None}]

Edit == [op : {"add", "update", "delete"}, step : StepId \cup {None}, row : Row \cup {None},
         old : Station \cup {None}, stage : {"clear", "write", "check", "commit"},
         own : [StepId -> Row \cup {None, Same}], waits : SUBSET StepId,
         todo : SUBSET Station, bare : SUBSET Station, checked : SUBSET Station,
         excused : SUBSET Station]

TypeOK ==
    /\ number \in [Station -> Number \cup {None}]
    /\ steps \in Steps
    /\ lastStep \in 0 .. MaxStep
    /\ begun \in 0 .. MaxEdit
    /\ edit \in [Thread -> Edit \cup {None}]
    /\ loose \subseteq Station

Init ==
    /\ number = [s \in Station |-> None]
    /\ steps = [i \in StepId |-> None]
    /\ lastStep = 0
    /\ begun = 0
    /\ edit = [t \in Thread |-> None]
    /\ loose = {}

-----------------------------------------------------------------------------
(* What a transaction sees and what it waits for                             *)

View(t, i) == IF edit[t].own[i] = Same THEN steps[i] ELSE edit[t].own[i]

\* A row that another open transaction has written.
Locked(t, i) == \E u \in Thread \ {t} : edit[u] # None /\ edit[u].own[i] # Same

RowsAt(t, s) == {i \in StepId : View(t, i) # None /\ View(t, i).station = s}

\* Mutant: an edit validates the station a step was at even if it was at none.
TouchedAlways(q) == {q.old} \cup IF q.row = None THEN {} ELSE {q.row.station}

\* The stations whose steps an edit validates.
Touched(q) ==
    {s \in Station : s = q.old \/ (q.row # None /\ s = q.row.station)}

\* The station validated next: the one a step leaves comes first.
Following(q) == IF q.old \in q.todo THEN q.old ELSE q.row.station

ToMark(t, s) == {i \in RowsAt(t, s) : View(t, i).kind # "scan"}

\* The rows the next statement of an edit is about, as it sees them when it begins.
Targets(t) ==
    LET q == edit[t]
    IN  CASE q.stage = "clear" -> RowsAt(t, q.row.station)
          [] q.stage = "write" -> {i \in StepId : i = q.step /\ View(t, i) # None}
          [] q.stage = "check" -> ToMark(t, Following(q))
          [] OTHER -> {}

\* The rows of a statement that waited are those it saw before.
Found(t) == IF edit[t].waits # {} THEN edit[t].waits ELSE Targets(t)

\* The next statement of the edit can be executed.
Ready(t, stage) ==
    /\ edit[t] # None
    /\ edit[t].stage = stage
    /\ \A i \in Found(t) : ~Locked(t, i)

\* Steps are taken in the order of their positions, then of their ids.
FirstOf(rows, S) ==
    CHOOSE i \in S : \A j \in S : \/ rows[i].order < rows[j].order
                                 \/ (rows[i].order = rows[j].order /\ i <= j)

-----------------------------------------------------------------------------
(* Edits of steps                                                            *)

\* Rows that edits under way may still insert.
Pending ==
    Cardinality({t \in Thread : /\ edit[t] # None /\ edit[t].op = "add"
                                /\ edit[t].stage \in {"clear", "write"}})

Begun(op, step, row, old) ==
    [op |-> op, step |-> step, row |-> row, old |-> old,
     stage |-> IF row # None /\ row.main THEN "clear" ELSE "write",
     own |-> [i \in StepId |-> Same], waits |-> {}, todo |-> {}, bare |-> {},
     checked |-> {}, excused |-> {}]

AddStep(t) ==
    /\ edit[t] = None
    /\ begun < MaxEdit
    /\ begun' = begun + 1
    /\ lastStep + Pending < MaxStep
    /\ \E row \in Payloads : edit' = [edit EXCEPT ![t] = Begun("add", None, row, None)]
    /\ UNCHANGED <<number, steps, lastStep, loose>>

\* The station of the step is read first; the statement that follows may find another.
UpdateStep(t, i) ==
    /\ edit[t] = None
    /\ begun < MaxEdit
    /\ begun' = begun + 1
    /\ steps[i] # None
    /\ \E row \in Payloads :
        edit' = [edit EXCEPT ![t] = Begun("update", i, row, steps[i].station)]
    /\ UNCHANGED <<number, steps, lastStep, loose>>

DeleteStep(t, i) ==
    /\ edit[t] = None
    /\ begun < MaxEdit
    /\ begun' = begun + 1
    /\ steps[i] # None
    /\ edit' = [edit EXCEPT ![t] = Begun("delete", i, None, steps[i].station)]
    /\ UNCHANGED <<number, steps, lastStep, loose>>

\* A statement begins, and waits for a row another transaction has written.
WaitForRow(t) ==
    /\ edit[t] # None
    /\ edit[t].waits = {}
    /\ \E i \in Targets(t) : Locked(t, i)
    /\ edit' = [edit EXCEPT ![t].waits = Targets(t)]
    /\ UNCHANGED <<number, steps, lastStep, loose, begun>>

\* clear_station_main_barcode
ClearMain(t) ==
    /\ Ready(t, "clear")
    /\ LET q == edit[t]
           hit == {i \in Found(t) : i \in RowsAt(t, q.row.station)}
       IN  edit' = [edit EXCEPT ![t] =
               [q EXCEPT !.stage = "write", !.waits = {},
                         !.own = [i \in StepId |-> IF i \in hit
                                                   THEN [View(t, i) EXCEPT !.main = FALSE]
                                                   ELSE q.own[i]]]]
    /\ UNCHANGED <<number, steps, lastStep, loose, begun>>

\* The station a step is written to must exist.
StationExists(t) ==
    LET q == edit[t]
    IN  q.op = "add" \/ (q.op = "update" /\ View(t, q.step) # None)
            => number[q.row.station] # None

InsertStep(t) ==
    /\ Ready(t, "write")
    /\ edit[t].op = "add"
    /\ StationExists(t)
    /\ lastStep < MaxStep
    /\ lastStep' = lastStep + 1
    /\ edit' = [edit EXCEPT ![t].stage = "check", ![t].own[lastStep'] = edit[t].row,
                            ![t].todo = Touched(edit[t])]
    /\ UNCHANGED <<number, steps, loose, begun>>

(* The step is written or deleted where it is now, if it still exists; only  *)
(* the stations known before are validated afterwards.                       *)
WriteStep(t) ==
    /\ Ready(t, "write")
    /\ edit[t].op # "add"
    /\ StationExists(t)
    /\ LET q == edit[t]
           hit == {i \in Found(t) : View(t, i) # None}
       IN  edit' = [edit EXCEPT ![t] =
               [q EXCEPT !.stage = "check", !.waits = {}, !.todo = Touched(q),
                         !.excused = {View(t, i).station : i \in hit} \ Touched(q),
                         !.own = [i \in StepId |-> IF i \in hit THEN q.row ELSE q.own[i]]]]
    /\ UNCHANGED <<number, steps, lastStep, loose, begun>>

\* Mutant: the UPDATE leaves out the steps that have no mark to lose.
MarkedOnlyMain(t) == {i \in Found(t) : i \in ToMark(t, Following(edit[t])) /\ View(t, i).main}

(* validate_station_main_barcode begins with an UPDATE that takes the mark   *)
(* from steps that scan nothing.  They have none, but their rows are locked: *)
(* the next edit of the station waits here until this one has committed.     *)
Marked(t) == {i \in Found(t) : i \in ToMark(t, Following(edit[t]))}

\* The rows that any edit that validates station s now must lock.
Anchors(s) == {i \in StepId : steps[i] # None /\ steps[i].station = s /\ steps[i].kind # "scan"}

\* No other edit waits here for this one: there is no such row, or the UPDATE waited for the
\* rows it saw first and misses one that came since.
Bare(t) ==
    LET s == Following(edit[t])
    IN  \/ Anchors(s) = {}
        \/ \E i \in Anchors(s) : i \notin Found(t) /\ edit[t].own[i] = Same

\* What the transaction sees once the marks are written.
Accepted(t) ==
    LET s == Following(edit[t])
    IN  Valid(OfStation([i \in StepId |-> View(t, i)], s), number[s])

CheckSteps(t) ==
    /\ Ready(t, "check")
    /\ Accepted(t)
    /\ LET q == edit[t]
           s == Following(q)
       IN  edit' = [edit EXCEPT ![t] =
               [q EXCEPT !.stage = IF q.todo = {s} THEN "commit" ELSE "check",
                         !.waits = {}, !.todo = @ \ {s}, !.checked = @ \cup {s},
                         !.bare = IF Bare(t) THEN @ \cup {s} ELSE @,
                         !.own = [i \in StepId |-> IF i \in Marked(t)
                                                   THEN [View(t, i) EXCEPT !.main = FALSE]
                                                   ELSE q.own[i]]]]
    /\ UNCHANGED <<number, steps, lastStep, begun, loose>>

\* Stations that edit u has checked without seeing what edit t commits, and without a row
\* that would have made one of them wait for the other.
Unseen(t, u) ==
    edit[u].checked \cap (edit[t].excused \cup (Touched(edit[t]) \cap (edit[t].bare \cup edit[u].bare)))

CommitEdit(t) ==
    /\ Ready(t, "commit")
    /\ steps' = [i \in StepId |-> View(t, i)]
    /\ edit' = [u \in Thread |->
                  IF u = t THEN None
                  ELSE IF edit[u] = None THEN None
                  ELSE [edit[u] EXCEPT !.excused = @ \cup Unseen(t, u)]]
    /\ loose' = (loose \ edit[t].checked) \cup edit[t].excused
    /\ UNCHANGED <<number, lastStep, begun>>

\* The station does not exist, or the rule refuses its steps: the transaction is undone.
RefuseEdit(t) ==
    /\ \/ Ready(t, "write") /\ ~StationExists(t)
       \/ Ready(t, "check") /\ ~Accepted(t)
    /\ edit' = [edit EXCEPT ![t] = None]
    /\ UNCHANGED <<number, steps, lastStep, loose, begun>>

\* An edit is undone: its settings are refused, the connection is lost, or the database
\* finds edits that wait for one another and ends this one.
FailEdit(t) ==
    /\ edit[t] # None
    /\ edit' = [edit EXCEPT ![t] = None]
    /\ UNCHANGED <<number, steps, lastStep, loose, begun>>

\* ensure_default_main_barcodes: of a station that has scans, no main step and nothing else
\* that brings the product, the first scan.
Unmarked(s) ==
    LET rows == OfStation(steps, s)
    IN  {i \in ScansIn(rows) : /\ MainsIn(rows) = {}
                               /\ FlowsIn(rows) = {}
                               /\ i = FirstOf(rows, ScansIn(rows))}

\* The server stops and starts: open edits are undone, and the main marks completed.
RestartServer ==
    /\ edit' = [t \in Thread |-> None]
    /\ steps' = [i \in StepId |-> IF \E s \in Station : i \in Unmarked(s)
                                   THEN [steps[i] EXCEPT !.main = TRUE] ELSE steps[i]]
    /\ UNCHANGED <<number, lastStep, begun, loose>>

-----------------------------------------------------------------------------
(* Edits of stations                                                         *)

\* The identifier of a station that is gone is not given to another.
Fresh(s) == number[s] = None /\ \A t \in Thread : edit[t] # None => s \notin Touched(edit[t])

AddStation(s) ==
    /\ Fresh(s)
    /\ \E n \in Number : number' = [number EXCEPT ![s] = n]
    /\ UNCHANGED <<steps, lastStep, edit, loose, begun>>

\* update_station gives the station another name, and does not validate its steps.
RenameStation(s) ==
    /\ number[s] # None
    /\ \E n \in Number \ {number[s]} : number' = [number EXCEPT ![s] = n]
    /\ loose' = loose \cup {s}
    /\ edit' = [t \in Thread |->
                  IF edit[t] # None THEN [edit[t] EXCEPT !.excused = @ \cup ({s} \cap edit[t].checked)]
                  ELSE None]
    /\ UNCHANGED <<steps, lastStep, begun>>

\* An open edit has written a step that is, or was, at one of these stations.
InUse(S) ==
    \E t \in Thread : /\ edit[t] # None
                      /\ \E i \in StepId :
                            /\ edit[t].own[i] # Same
                            /\ \/ (edit[t].own[i] # None /\ edit[t].own[i].station \in S)
                               \/ (steps[i] # None /\ steps[i].station \in S)

\* delete_station and delete_project wait for the rows they delete.
DropStations(S) ==
    /\ \E s \in S : number[s] # None
    /\ ~InUse(S)
    /\ number' = [s \in Station |-> IF s \in S THEN None ELSE number[s]]
    /\ steps' = [i \in StepId |-> IF steps[i] # None /\ steps[i].station \in S THEN None
                                   ELSE steps[i]]
    /\ loose' = loose \ S
    /\ UNCHANGED <<lastStep, edit, begun>>

\* create_route_template: stations and steps of a route in one transaction, not validated.
CreateRoute(r) ==
    /\ \A s \in Station : r.number[s] # None => Fresh(s)
    /\ lastStep + Pending + Len(r.rows) <= MaxStep
    /\ number' = [s \in Station |-> IF r.number[s] # None THEN r.number[s] ELSE number[s]]
    /\ steps' = [i \in StepId |-> IF i > lastStep /\ i - lastStep \in DOMAIN r.rows
                                   THEN r.rows[i - lastStep] ELSE steps[i]]
    /\ lastStep' = lastStep + Len(r.rows)
    /\ UNCHANGED <<edit, loose, begun>>

-----------------------------------------------------------------------------
(* A device                                                                  *)

WithMain(rows, m) ==
    [i \in StepId |-> IF i \in ScansIn(rows) THEN [rows[i] EXCEPT !.main = (i = m)] ELSE rows[i]]

\* Mutant: the first scan becomes the main step also where a binding brings the product.
EnsuredAlways(rows) ==
    IF ScansIn(rows) = {} \/ Cardinality(MainsIn(rows)) = 1 THEN rows
    ELSE WithMain(rows, FirstOf(rows, IF MainsIn(rows) # {} THEN MainsIn(rows) ELSE ScansIn(rows)))

\* ensure_main_barcode: of several main steps the first stays, of none the first scan
\* becomes it, unless the station takes its product from a switch or a binding.
Ensured(rows) ==
    IF \/ ScansIn(rows) = {}
       \/ Cardinality(MainsIn(rows)) = 1
       \/ MainsIn(rows) = {} /\ FlowsIn(rows) # {}
    THEN rows
    ELSE WithMain(rows, FirstOf(rows, IF MainsIn(rows) # {} THEN MainsIn(rows) ELSE ScansIn(rows)))

\* download_config: the steps a device works from when it enters station s now.
Loaded(s) == Ensured(OfStation(steps, s))

-----------------------------------------------------------------------------
\* The next statement of an edit, whatever it does.
Proceed(t) ==
    \/ WaitForRow(t) \/ ClearMain(t) \/ InsertStep(t) \/ WriteStep(t) \/ CheckSteps(t)
    \/ CommitEdit(t) \/ RefuseEdit(t)

Next ==
    \/ \E t \in Thread : AddStep(t)
    \/ \E t \in Thread, i \in StepId : UpdateStep(t, i) \/ DeleteStep(t, i)
    \/ \E t \in Thread : Proceed(t) \/ FailEdit(t)
    \/ RestartServer
    \/ \E s \in Station : AddStation(s) \/ RenameStation(s) \/ DropStations({s})
    \/ DropStations(Station)
    \/ \E r \in Templates : CreateRoute(r)

Spec == Init /\ [][Next]_vars

-----------------------------------------------------------------------------
(* Properties                                                                *)

(* A station keeps the rule of validate_station_main_barcode, one main step  *)
(* or a step that brings the product, in whatever order edits of it and of   *)
(* its neighbours overlap: two edits that do not see each other are          *)
(* serialised by the UPDATE with which the validation begins                 *)
(* (services.py:1411-1415).  It excepts the stations where that UPDATE found *)
(* no row, or waited and missed one that came since, those a step was moved  *)
(* to behind the back of its edit, and those renamed since.                  *)
MainRule ==
    \A s \in Station \ loose : Valid(OfStation(steps, s), number[s])

(* A device works from exactly one main step, or from none where a switch or *)
(* a binding brings the product, even if the server's rule was broken        *)
(* (window.py:2833-2852).                                                    *)
DeviceHasOneMain ==
    \A s \in Station :
        LET rows == Loaded(s)
        IN  /\ \/ ScansIn(rows) = {}
               \/ (MainsIn(rows) = {} /\ FlowsIn(rows) # {})
               \/ \E i \in StepId : MainsIn(rows) = {i}
            /\ s \notin loose => rows = OfStation(steps, s)
=============================================================================
