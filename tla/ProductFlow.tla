------------------------------ MODULE ProductFlow ------------------------------
(***************************************************************************)
(* Product identity and flow: products, their barcodes, the switch of the  *)
(* main barcode, the binding of child materials, station completions and   *)
(* their cancellation (tables product_instances, barcode_aliases,          *)
(* barcode_switch_records, material_bindings, station_completions and the  *)
(* main-barcode rows of scan_records), and the desktop clients that drive  *)
(* a product through their station.                                        *)
(*                                                                         *)
(* A handler that only reads is one step.  One that checks and then writes *)
(* is two: requests of other clients commit between its checks and its     *)
(* writes, which hold the rows they touch until the commit.  The checks on *)
(* the child's project, route and material type only refuse, as any        *)
(* handler may (HandlerFails).                                             *)
(***************************************************************************)
EXTENDS Integers, FiniteSets

CONSTANTS
    Barcode,      \* the codes printed on parts
    Client,       \* desktop clients
    Degrading,    \* clients at which an administrator may turn on degraded mode
    Station,      \* station_id, of one project
    At,           \* At[c]: the station of client c
    Thread,       \* handlers that check and write, at once
    MaxProduct,   \* bound: rows of product_instances
    Config,       \* Config[s]: station_dependencies and the steps of station s
    None          \* SQL NULL

Product == 1..MaxProduct
NoProduct == 0

\* How a "主条码切换" step is configured: set_current and disable_old.
Mode == [set: BOOLEAN, disable: BOOLEAN]

\* "creates": the client of the station asks for create_if_missing; "needs": the
\* previous station, if required, and the required stations; "modes": its switch
\* steps.
StationConfig == [creates: BOOLEAN, needs: SUBSET Station, switched: BOOLEAN, current: BOOLEAN,
                  children: Nat, childNeeds: SUBSET Station, modes: SUBSET Mode,
                  binds: BOOLEAN, bindNeeds: SUBSET Station, bindSwitched: BOOLEAN,
                  bindAgain: BOOLEAN]

\* A code under verification, with its product and that product's current code as
\* the server resolved them.
Scan == [barcode: Barcode, code: Barcode, product: Product]

ASSUME ConfigAssumption ==
    /\ MaxProduct \in Nat
    /\ At \in [Client -> Station] /\ Degrading \subseteq Client
    /\ Config \in [Station -> StationConfig]
    /\ None \notin Barcode \cup Mode \cup Scan

VARIABLES
    made,      \* products created so far
    current,   \* product_instances.current_barcode
    alias,     \* barcode_aliases, by barcode (UNIQUE)
    switched,  \* products with a switch record
    bound,     \* active material_bindings
    done,      \* station_completions
    scans,     \* main-barcode scan_records that are not cancelled
    desk,      \* the clients
    req,       \* requests between their checks and their writes
    waived,    \* history: completions cancelled, requirements skipped in degraded mode
    relabelled \* history: codes scanned in degraded mode over a product not theirs

vars == <<made, current, alias, switched, bound, done, scans, desk, req, waived, relabelled>>
tables == <<made, current, alias, switched, bound, done, scans, waived, relabelled>>

Unused == [owner |-> NoProduct, current |-> FALSE, disabled |-> FALSE]

\* "barcode" and "product" are current_barcode and current_product_instance_id; they
\* change only when "scan", if there is one, has been verified.
Desk == [pc: {"idle", "resolved", "entered", "working", "calling"},
         barcode: Barcode \cup {None}, product: 0..MaxProduct, scan: Scan \cup {None}]

Request == [op: {"switch", "bind", "complete"}, phase: {"check", "write"}, client: Client,
            product: 0..MaxProduct, barcode: Barcode, other: Barcode \cup {None}, mode: Mode \cup {None},
            live: BOOLEAN]

\* Types; and no row refers to a product before it exists.
TypeOK ==
    /\ made \in 0..MaxProduct
    /\ current \in [Product -> Barcode \cup {None}]
    /\ alias \in [Barcode -> [owner: 0..made, current: BOOLEAN, disabled: BOOLEAN]]
    /\ switched \subseteq 1..made
    /\ bound \subseteq [station: Station, parent: 1..made, child: 1..made]
    /\ done \subseteq [station: Station, barcode: Barcode, product: 1..made]
    /\ scans \subseteq [station: Station, barcode: Barcode, product: 0..made]
    /\ desk \in [Client -> Desk]
    /\ \A c \in Client : /\ desk[c].product <= made
                         /\ desk[c].scan # None => desk[c].scan.product <= made
    /\ req \in [Thread -> Request \cup {None}]
    /\ waived \subseteq Station \X (1..made)
    /\ relabelled \subseteq [station: Station, barcode: Barcode, product: 1..made]

-----------------------------------------------------------------------------
(* Queries.                                                                *)

Owner(b) == alias[b].owner

Known(b) == Owner(b) # NoProduct

\* Mutant: the flag of the alias is trusted, without its product's current code.
AllowedByFlag(b) == Known(b) /\ ~alias[b].disabled

\* public_identity: the current code of its product, or an old one left enabled.
Allowed(b) ==
    /\ Known(b)
    /\ IF alias[b].current THEN current[Owner(b)] = b ELSE ~alias[b].disabled

\* Mutant: a completion counts for every product.
CompletedAnywhere(p, s) == \E r \in done : r.station = s

Completed(p, s) == \E r \in done : r.station = s /\ r.product = p

\* _verify_station_entry, for a barcode or for none.
EntryAllowed(p, b, s) ==
    /\ Config[s].current /\ b # None => b = current[p]
    /\ \A n \in Config[s].needs : Completed(p, n)
    /\ Config[s].switched => p \in switched
    /\ Config[s].children <=
           Cardinality({k \in bound : /\ k.parent = p
                                      /\ \A n \in Config[s].childNeeds : Completed(k.child, n)})

\* _validate_barcode_use of a main barcode.
Used(b, p, s) ==
    \E r \in done \cup scans :
        r.station = s /\ (r.barcode = b \/ (p # NoProduct /\ r.product = p))

-----------------------------------------------------------------------------
(* A client works on one product at a time.  Which step it shows is not kept: a main *)
(* code may be scanned whenever it is not waiting for an answer.                     *)

Free == [pc |-> "idle", barcode |-> None, product |-> NoProduct, scan |-> None]

Put(c, d) == desk' = [desk EXCEPT ![c] = d]

\* A scan that is refused leaves the client with what it had.
Refused(c) == [desk[c] EXCEPT !.pc = IF desk[c].barcode = None THEN "idle" ELSE "working",
                              !.scan = None]

Verifying(c, scan) == Put(c, [desk[c] EXCEPT !.pc = "resolved", !.scan = scan])

\* resolve_barcode: at a start station an unknown code becomes a new product.
Resolve(c, b) ==
    /\ desk[c].pc \in {"idle", "working"}
    /\ \/ /\ Allowed(b)
          /\ Verifying(c, [barcode |-> b, code |-> current[Owner(b)], product |-> Owner(b)])
          /\ UNCHANGED tables
       \/ /\ ~Known(b)
          /\ Config[At[c]].creates
          /\ made < MaxProduct
          /\ made' = made + 1
          /\ current' = [current EXCEPT ![made + 1] = b]
          /\ alias' = [alias EXCEPT ![b] = [owner |-> made + 1, current |-> TRUE, disabled |-> FALSE]]
          /\ Verifying(c, [barcode |-> b, code |-> b, product |-> made + 1])
          /\ UNCHANGED <<switched, bound, done, scans, waived, relabelled>>
    /\ UNCHANGED req

\* verify-entry: the client sends no barcode, and the server then takes the
\* product's current one.
VerifyEntry(c) ==
    /\ desk[c].pc = "resolved"
    /\ LET p == desk[c].scan.product
       IN desk' = [desk EXCEPT ![c] = IF EntryAllowed(p, current[p], At[c])
                                      THEN [@ EXCEPT !.pc = "entered"] ELSE Refused(c)]
    /\ UNCHANGED <<tables, req>>

\* barcode/validate, for the code that was current when the scan was resolved; the
\* client then works under it, or under the code as scanned when a binding begins so,
\* and posts the scan record, whose loss it does not notice (nor a refusal, when the
\* code has been used meanwhile).
ValidateUse(c) ==
    /\ desk[c].pc = "entered"
    /\ LET scan == desk[c].scan
           p == scan.product
       IN \/ /\ Used(scan.code, p, At[c])
             /\ Put(c, Refused(c))
             /\ UNCHANGED scans
          \/ /\ ~Used(scan.code, p, At[c])
             /\ \E b \in {scan.code} \cup (IF Config[At[c]].binds THEN {scan.barcode} ELSE {}) :
                    Put(c, [pc |-> "working", barcode |-> b, product |-> p, scan |-> None])
             /\ scans' \in {scans, scans \cup {[station |-> At[c], barcode |-> scan.barcode,
                                                product |-> p]}}
    /\ UNCHANGED <<made, current, alias, switched, bound, done, req, waived, relabelled>>

\* Degraded mode accepts any code and asks the server nothing: the code replaces the
\* one in hand, and the product, if there is one, stays.  The record is posted unchecked.
DegradedScan(c, b) ==
    /\ c \in Degrading
    /\ desk[c].pc \in {"idle", "working"}
    /\ desk' = [desk EXCEPT ![c].pc = "working", ![c].barcode = b]
    /\ LET scanned == [station |-> At[c], barcode |-> b, product |-> desk[c].product]
       IN /\ scans' \in {scans, scans \cup {scanned}}
          /\ relabelled' = IF desk[c].product \in {NoProduct, Owner(b)} THEN relabelled
                           ELSE relabelled \cup {scanned}
    /\ UNCHANGED <<made, current, alias, switched, bound, done, waived, req>>

\* The reset button, and a crash.
Reset(c) ==
    /\ desk[c].pc # "idle"
    /\ Put(c, Free)
    /\ req' = [t \in Thread |-> IF req[t] # None /\ req[t].client = c
                                THEN [req[t] EXCEPT !.live = FALSE] ELSE req[t]]
    /\ UNCHANGED tables

Call(c, op, other, mode) ==
    /\ desk[c].pc = "working"
    /\ desk' = [desk EXCEPT ![c].pc = "calling"]
    /\ \E t \in Thread :
           /\ req[t] = None
           /\ req' = [req EXCEPT ![t] =
                         [op |-> op, phase |-> "check", client |-> c, product |-> desk[c].product,
                          barcode |-> desk[c].barcode, other |-> other, mode |-> mode, live |-> TRUE]]
    /\ UNCHANGED tables

\* A switch scans the old code, which must be the one shown, then the new one.
CallSwitch(c, b) ==
    /\ b # desk[c].barcode
    /\ \E mode \in Config[At[c]].modes : Call(c, "switch", b, mode)

\* A binding scans the parent's code, then the child's.
CallBind(c, b) == Config[At[c]].binds /\ Call(c, "bind", b, None)

CallComplete(c) == Call(c, "complete", None, None)

\* urlopen gives up after 3 s; the server goes on, and the client may call again.
GiveUp(c) ==
    /\ desk[c].pc = "calling"
    /\ desk' = [desk EXCEPT ![c].pc = "working"]
    /\ req' = [t \in Thread |-> IF req[t] # None /\ req[t].client = c
                                THEN [req[t] EXCEPT !.live = FALSE] ELSE req[t]]
    /\ UNCHANGED tables

-----------------------------------------------------------------------------
(* Handlers that write.                                                    *)

\* The request ends; a client that still waits goes on as d.
Answer(t, d) ==
    /\ req' = [req EXCEPT ![t] = None]
    /\ desk' = IF req[t].live THEN [desk EXCEPT ![req[t].client] = d] ELSE desk

Failed(t) == [desk[req[t].client] EXCEPT !.pc = "working"]

Checked(t) ==
    /\ req' = [req EXCEPT ![t].phase = "write"]
    /\ UNCHANGED <<desk, tables>>

Doing(t, op, phase) == req[t] # None /\ req[t].op = op /\ req[t].phase = phase

FreeCode(b) == ~Known(b)

SwitchCheck(t) ==
    /\ Doing(t, "switch", "check")
    /\ LET p == Owner(req[t].barcode)
       IN /\ p # NoProduct
          /\ alias[req[t].barcode].current /\ current[p] = req[t].barcode
          /\ req[t].product \in {NoProduct, p}
          /\ FreeCode(req[t].other)
          /\ EntryAllowed(p, None, At[req[t].client])
    /\ Checked(t)

\* Mutant: only the product is told of the new code.
NewAliasUnmarked(p, mode) == [owner |-> p, current |-> FALSE, disabled |-> FALSE]

NewAlias(p, mode) == [owner |-> p, current |-> mode.set, disabled |-> FALSE]

OldAlias(p, mode) == [owner |-> p, current |-> ~mode.set, disabled |-> mode.set /\ mode.disable]

\* The UPDATE of the old alias is by id, whatever another switch made of it.
SwitchWrite(t) ==
    /\ Doing(t, "switch", "write")
    /\ FreeCode(req[t].other)
    /\ LET p == Owner(req[t].barcode)
           mode == req[t].mode
       IN /\ alias' = [alias EXCEPT ![req[t].barcode] = OldAlias(p, mode),
                                    ![req[t].other] = NewAlias(p, mode)]
          /\ current' = IF mode.set THEN [current EXCEPT ![p] = req[t].other] ELSE current
          /\ switched' = switched \cup {p}
          /\ Answer(t, [pc |-> "working", product |-> p, scan |-> None,
                        barcode |-> IF mode.set THEN req[t].other ELSE req[t].barcode])
    /\ UNCHANGED <<made, bound, done, scans, waived, relabelled>>

BindCheck(t) ==
    /\ Doing(t, "bind", "check")
    /\ Allowed(req[t].barcode) /\ Allowed(req[t].other)
    /\ LET parent == Owner(req[t].barcode)
           child == Owner(req[t].other)
           rule == Config[At[req[t].client]]
           active == {k \in bound : k.child = child}
       IN /\ parent # child
          /\ rule.bindSwitched => parent \in switched
          /\ \A n \in rule.bindNeeds : Completed(child, n)
          /\ \/ active = {} /\ Checked(t)
             \/ /\ active # {} /\ rule.bindAgain
                /\ \A k \in active : k.parent = parent
                /\ Answer(t, Failed(t))
                /\ UNCHANGED tables

\* Mutant: no unique index on the active binding of a child.
BindableAlways(child) == TRUE

\* ux_material_bind_child_active.
Bindable(child) == \A k \in bound : k.child # child

BindWrite(t) ==
    /\ Doing(t, "bind", "write")
    /\ Bindable(Owner(req[t].other))
    /\ bound' = bound \cup {[station |-> At[req[t].client], parent |-> Owner(req[t].barcode),
                            child |-> Owner(req[t].other)]}
    /\ Answer(t, Failed(t))
    /\ UNCHANGED <<made, current, alias, switched, done, scans, waived, relabelled>>

\* unbind_material, by an administrator.
Unbind(k) ==
    /\ k \in bound
    /\ bound' = bound \ {k}
    /\ UNCHANGED <<made, current, alias, switched, done, scans, desk, req, waived, relabelled>>

\* Mutant: the product of the completion is the last one created.
ReportedNewest(q) == IF q.product # NoProduct THEN made ELSE Owner(q.barcode)

\* Mutant: the completion names the row that is about to be inserted.
ReportedNext(q) == IF q.product # NoProduct THEN q.product ELSE made + 1

\* ensure_product_for_completion, when the product exists.
Reported(q) == IF q.product # NoProduct THEN q.product ELSE Owner(q.barcode)

CompleteCheck(t) ==
    /\ Doing(t, "complete", "check")
    /\ Reported(req[t]) # NoProduct
    /\ ~\E r \in done : /\ r.station = At[req[t].client]
                        /\ r.barcode = req[t].barcode \/ r.product = Reported(req[t])
    /\ Checked(t)

Record(t, p) ==
    LET s == At[req[t].client]
        record == [station |-> s, barcode |-> req[t].barcode, product |-> p]
    IN /\ done' = done \cup {record}
       /\ scans' = scans \cup {record}
       /\ waived' = IF req[t].product = NoProduct
                    THEN waived \cup {<<n, p>> : n \in Config[s].needs} ELSE waived
       /\ Answer(t, Free)

\* The unique index is on the station and the barcode, not on the product.
CompleteWrite(t) ==
    /\ Doing(t, "complete", "write")
    /\ ~\E r \in done : r.station = At[req[t].client] /\ r.barcode = req[t].barcode
    /\ Record(t, Reported(req[t]))
    /\ UNCHANGED <<made, current, alias, switched, bound, relabelled>>

\* A code nobody knows, scanned in degraded mode, becomes a product; every row is
\* new, and the unique barcode refuses whoever comes second.
CompleteUnknown(t) ==
    /\ Doing(t, "complete", "check")
    /\ Reported(req[t]) = NoProduct
    /\ made < MaxProduct
    /\ made' = made + 1
    /\ current' = [current EXCEPT ![made + 1] = req[t].barcode]
    /\ alias' = [alias EXCEPT ![req[t].barcode] =
                    [owner |-> made + 1, current |-> TRUE, disabled |-> FALSE]]
    /\ Record(t, made + 1)
    /\ UNCHANGED <<switched, bound, relabelled>>

\* A check refuses, a unique index rejects the INSERT, or the transaction fails:
\* nothing is written.
HandlerFails(t) ==
    /\ req[t] # None
    /\ Answer(t, Failed(t))
    /\ UNCHANGED tables

\* cancel_barcode_record of a main code at the client's station, and the client's
\* reset.  The record is that of the code or of the client's product.  One step: the
\* DELETE names the row that was read, and nothing else it writes depends on a read.
Cancel(c, b) ==
    /\ desk[c].pc \in {"idle", "working"}
    /\ LET s == At[c]
           Hit(r) == /\ r.station = s
                     /\ r.barcode = b \/ (desk[c].product # NoProduct /\ r.product = desk[c].product)
           mine == {r \in done : Hit(r)}
           seen == {r \in scans : Hit(r)}
       IN /\ b = desk[c].barcode \/ \E r \in scans : r.station = s /\ r.barcode = b
          /\ mine \cup seen # {}
          /\ \E gone \in IF mine = {} THEN {{}} ELSE {{r} : r \in mine} :
                 /\ done' = done \ gone
                 /\ waived' = waived \cup {<<s, r.product>> : r \in gone}
          /\ scans' = scans \ seen
    /\ Put(c, Free)
    /\ UNCHANGED <<made, current, alias, switched, bound, req, relabelled>>

-----------------------------------------------------------------------------
Init ==
    /\ made = 0
    /\ current = [p \in Product |-> None]
    /\ alias = [b \in Barcode |-> Unused]
    /\ switched = {} /\ bound = {} /\ done = {} /\ scans = {} /\ waived = {}
    /\ relabelled = {}
    /\ desk = [c \in Client |-> Free]
    /\ req = [t \in Thread |-> None]

Desktop(c) ==
    \/ \E b \in Barcode : \/ Resolve(c, b) \/ DegradedScan(c, b) \/ CallSwitch(c, b)
                          \/ CallBind(c, b) \/ Cancel(c, b)
    \/ VerifyEntry(c) \/ ValidateUse(c) \/ CallComplete(c)
    \/ GiveUp(c) \/ Reset(c)

Handler(t) ==
    \/ SwitchCheck(t) \/ SwitchWrite(t) \/ BindCheck(t) \/ BindWrite(t)
    \/ CompleteCheck(t) \/ CompleteWrite(t) \/ CompleteUnknown(t) \/ HandlerFails(t)

Next ==
    \/ \E c \in Client : Desktop(c)
    \/ \E t \in Thread : Handler(t)
    \/ \E k \in bound : Unbind(k)

Spec == Init /\ [][Next]_vars

-----------------------------------------------------------------------------
(* Properties.                                                             *)

\* A product can always be picked up again: the code its row names is one of its
\* own aliases, marked current and enabled, whatever switches of the same product
\* overlap.
CurrentBarcodeResolves ==
    \A p \in 1..made :
        current[p] # None /\ alias[current[p]] = [owner |-> p, current |-> TRUE, disabled |-> FALSE]

SwitchesDisable == \A s \in Station : \A mode \in Config[s].modes : mode.set => mode.disable

\* No code ever changes its product; and where every switch that replaces a code
\* disables it, a code that has been refused never returns to production, even when
\* a second switch of the same product writes its alias again.
NeverBack ==
    [][\A b \in Barcode :
           Known(b) => /\ alias'[b].owner = Owner(b)
                       /\ SwitchesDisable /\ ~Allowed(b) => ~Allowed(b)']_vars

\* A part is built into one parent at most, however many bindings of it are under
\* way.
ChildHasOneParent ==
    \A k, l \in bound : k.child = l.child => k = l

\* No product has passed a station without the stations it needs, except where a
\* completion was cancelled afterwards or the operator went on in degraded mode.
NoSkippedStation ==
    \A r \in done : \A n \in Config[r.station].needs :
        Completed(r.product, n) \/ <<n, r.product>> \in waived

\* Every part built in has passed the stations its binding asks of it, except where
\* its completion was cancelled, be it between the check and the write.
BuiltFromFinished ==
    \A k \in bound : \A n \in Config[k.station].bindNeeds :
        Completed(k.child, n) \/ <<n, k.child>> \in waived

\* Every completion is found under its barcode, through switches, lost answers,
\* repeats and degraded work, except where a code was scanned in degraded mode over a
\* product in hand that it does not belong to: complete_step_in_degraded_mode keeps the
\* product id, and the server takes the code of a completion as it comes.
CompletionTraceable ==
    \A r \in done : Owner(r.barcode) = r.product \/ r \in relabelled

\* docs/PRODUCT_FLOW.md, "`is_current=1` 的别名是当前生产主条码": a product has one
\* alias that is current.  (Two switches of the same code that overlap both add
\* one.)
OneCurrentAlias ==
    \A b, d \in Barcode :
        alias[b].current /\ alias[d].current /\ Owner(b) = Owner(d) => b = d
=============================================================================
