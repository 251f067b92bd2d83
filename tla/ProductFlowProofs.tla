--------------------------- MODULE ProductFlowProofs ---------------------------
(***************************************************************************)
(* Proofs about ProductFlow, for any number of products, barcodes, clients *)
(* and overlapping requests, and any configuration of the stations.        *)
(*                                                                         *)
(* What a client or a request relies on, it has read at some earlier       *)
(* moment: that a code is known, which product it belongs to, which        *)
(* stations that product has reached.  None of these is ever taken back    *)
(* (Grows): a code keeps its product, and a completion that is cancelled   *)
(* leaves its mark in "waived".  So each stays true until it is used.      *)
(***************************************************************************)
EXTENDS ProductFlow, TLAPS, FiniteSetTheorems

\* The stations a product has passed or was excused from.
Past == {<<r.station, r.product>> : r \in done} \cup waived

\* Product p may work at station s.
Entered(p, s) == \A n \in Config[s].needs : <<n, p>> \in Past

\* A code that is named together with a product at a station is that product's, or
\* was put over it in degraded mode.
Names(s, b, p, owners, put) ==
    p # NoProduct => \/ owners[b].owner = p
                     \/ [station |-> s, barcode |-> b, product |-> p] \in put

\* What client c may hold, given the aliases, the codes put over another product and
\* the stations passed.
Fine(c, d, owners, put, past) ==
    /\ d.pc \in {"working", "calling"} \/ d.product # NoProduct => d.barcode \in Barcode
    /\ Names(At[c], d.barcode, d.product, owners, put)
    /\ d.product # NoProduct => \A n \in Config[At[c]].needs : <<n, d.product>> \in past
    /\ d.pc \in {"resolved", "entered"} =>
           /\ d.scan # None
           /\ owners[d.scan.barcode].owner = d.scan.product
           /\ owners[d.scan.code].owner = d.scan.product
    /\ d.pc = "entered" => \A n \in Config[At[c]].needs : <<n, d.scan.product>> \in past

DeskOk(c) == Fine(c, desk[c], alias, relabelled, Past)

SwitchOk(q) ==
    /\ q.other \in Barcode /\ q.mode \in Mode /\ q.mode \in Config[At[q.client]].modes
    /\ q.phase = "write" => Known(q.barcode) /\ Entered(Owner(q.barcode), At[q.client])

BindOk(q) ==
    /\ q.other \in Barcode
    /\ q.phase = "write" =>
           /\ Known(q.barcode) /\ Known(q.other)
           /\ \A n \in Config[At[q.client]].bindNeeds : <<n, Owner(q.other)>> \in Past

CompleteOk(q) == q.phase = "write" => Reported(q) # NoProduct

RequestOk(q) ==
    /\ q.barcode \in Barcode
    /\ Names(At[q.client], q.barcode, q.product, alias, relabelled)
    /\ q.product # NoProduct => Entered(q.product, At[q.client])
    /\ q.op = "switch" => SwitchOk(q)
    /\ q.op = "bind" => BindOk(q)
    /\ q.op = "complete" => CompleteOk(q)

RequestInv == \A t \in Thread : req[t] # None => RequestOk(req[t])

DeskInv == \A c \in Client : DeskOk(c)

\* A request whose answer is awaited is its client's only one.
LiveInv ==
    \A t \in Thread :
        req[t] # None /\ req[t].live =>
            /\ desk[req[t].client].pc = "calling"
            /\ \A u \in Thread : /\ req[u] # None /\ req[u].live
                                 /\ req[u].client = req[t].client
                                 => u = t

IInv == /\ TypeOK /\ CurrentBarcodeResolves /\ RequestInv /\ DeskInv /\ LiveInv
        /\ ChildHasOneParent /\ BuiltFromFinished /\ NoSkippedStation
        /\ CompletionTraceable

USE ConfigAssumption DEF Product, NoProduct

-----------------------------------------------------------------------------
(* What never shrinks.                                                     *)

Grows ==
    /\ made <= made'
    /\ \A b \in Barcode : Known(b) => alias'[b].owner = alias[b].owner
    /\ Past \subseteq Past'
    /\ relabelled \subseteq relabelled'

\* A step that writes none of these leaves them.
LEMMA SameGrows ==
    ASSUME TypeOK, UNCHANGED <<made, alias, done, waived>>, relabelled \subseteq relabelled'
    PROVE  Grows
BY DEF TypeOK, Grows, Known, Owner, Past

\* Recording a completion only adds.
LEMMA RecordGrows ==
    ASSUME NEW t \in Thread, NEW p, Record(t, p)
    PROVE  Past \subseteq Past'
<1>1. done \subseteq done' /\ waived \subseteq waived'
  BY DEF Record
<1> QED BY <1>1 DEF Past

\* A cancellation removes completions of its station and leaves a mark for each.
LEMMA CancelSets ==
    ASSUME NEW c \in Client, NEW b \in Barcode, Cancel(c, b)
    PROVE  /\ \E gone \in SUBSET done :
                  /\ \A r \in gone : r.station = At[c]
                  /\ done' = done \ gone
                  /\ waived' = waived \cup {<<At[c], r.product>> : r \in gone}
                  /\ scans' \subseteq scans
                  /\ UNCHANGED <<made, current, alias, switched, bound, relabelled>>
<1> DEFINE Hit(r) == /\ r.station = At[c]
                     /\ r.barcode = b \/ (desk[c].product # NoProduct /\ r.product = desk[c].product)
           mine == {r \in done : Hit(r)}
<1>1. PICK gone \in IF mine = {} THEN {{}} ELSE {{r} : r \in mine} :
             /\ done' = done \ gone
             /\ waived' = waived \cup {<<At[c], r.product>> : r \in gone}
  BY DEF Cancel
<1>2. gone \subseteq mine
  BY <1>1
<1>3. scans' \subseteq scans /\ UNCHANGED <<made, current, alias, switched, bound, relabelled>>
  BY DEF Cancel
<1> QED BY <1>1, <1>2, <1>3

LEMMA StepGrows ==
    ASSUME TypeOK, [Next]_vars
    PROVE  Grows
<1>1. CASE UNCHANGED vars
  BY <1>1, SameGrows DEF vars
<1>2. ASSUME NEW c \in Client, NEW b \in Barcode, Resolve(c, b)
      PROVE  Grows
  <2>1. CASE UNCHANGED tables
    BY <2>1, SameGrows DEF tables
  <2>2. CASE /\ ~Known(b)
             /\ made' = made + 1
             /\ alias' = [alias EXCEPT ![b] =
                            [owner |-> made + 1, current |-> TRUE, disabled |-> FALSE]]
             /\ UNCHANGED <<done, waived, relabelled>>
    BY <2>2 DEF Grows, Past, TypeOK
  <2> QED BY <1>2, <2>1, <2>2 DEF Resolve
<1>3. ASSUME NEW c \in Client, NEW b \in Barcode, Cancel(c, b)
      PROVE  Grows
  <2>1. UNCHANGED <<made, alias, relabelled>>
    BY <1>3 DEF Cancel
  <2>2. PICK gone \in SUBSET done :
            /\ \A r \in gone : r.station = At[c]
            /\ done' = done \ gone
            /\ waived' = waived \cup {<<At[c], r.product>> : r \in gone}
    BY <1>3, CancelSets
  <2>3. ASSUME NEW r \in done
        PROVE  <<r.station, r.product>> \in Past'
    <3>1. CASE r \in gone
      BY <3>1, <2>2 DEF Past
    <3>2. CASE r \notin gone
      BY <3>2, <2>2 DEF Past
    <3> QED BY <3>1, <3>2
  <2>4. waived \subseteq Past'
    BY <2>2 DEF Past
  <2>5. Past \subseteq Past'
    BY <2>3, <2>4 DEF Past
  <2> QED BY <2>1, <2>5 DEF Grows, TypeOK
<1>4. ASSUME NEW c \in Client, Desktop(c)
      PROVE  Grows
  <2>1. ASSUME NEW b \in Barcode,
               DegradedScan(c, b) \/ CallSwitch(c, b) \/ CallBind(c, b)
        PROVE  Grows
    BY <2>1, SameGrows DEF DegradedScan, CallSwitch, CallBind, Call, tables
  <2>2. CASE \/ VerifyEntry(c) \/ ValidateUse(c) \/ CallComplete(c)
             \/ GiveUp(c) \/ Reset(c)
    BY <2>2, SameGrows DEF VerifyEntry, ValidateUse, CallComplete, Call, GiveUp, Reset, tables
  <2> QED BY <1>2, <1>3, <1>4, <2>1, <2>2 DEF Desktop
<1>5. ASSUME NEW t \in Thread, Handler(t)
      PROVE  Grows
  <2>1. CASE SwitchWrite(t)
    <3> DEFINE old == req[t].barcode
               new == req[t].other
               mode == req[t].mode
    <3>1. /\ ~Known(new)
          /\ alias' = [alias EXCEPT ![old] = OldAlias(Owner(old), mode),
                                    ![new] = NewAlias(Owner(old), mode)]
          /\ UNCHANGED <<made, done, waived, relabelled>>
      BY <2>1 DEF SwitchWrite, FreeCode
    <3>2. ASSUME NEW b \in Barcode, Known(b)
          PROVE  alias'[b].owner = alias[b].owner
      <4> HIDE DEF old, new, mode
      <4>1. b # new
        BY <3>1, <3>2
      <4>2. CASE b = old
        BY <3>1, <4>1, <4>2 DEF OldAlias, Owner, TypeOK
      <4>3. CASE b # old
        BY <3>1, <4>1, <4>3 DEF TypeOK
      <4> QED BY <4>2, <4>3
    <3>3. Past \subseteq Past'
      BY <3>1 DEF Past
    <3>4. made <= made'
      BY <3>1 DEF TypeOK
    <3> QED BY <3>1, <3>2, <3>3, <3>4 DEF Grows
  <2>2. CASE CompleteWrite(t)
    BY <2>2, RecordGrows DEF CompleteWrite, Grows, TypeOK
  <2>3. CASE CompleteUnknown(t)
    <3>1. Past \subseteq Past'
      BY <2>3, RecordGrows DEF CompleteUnknown
    <3>2. /\ made' = made + 1
          /\ alias' = [alias EXCEPT ![req[t].barcode] =
                          [owner |-> made + 1, current |-> TRUE, disabled |-> FALSE]]
          /\ Reported(req[t]) = NoProduct
          /\ UNCHANGED relabelled
      BY <2>3 DEF CompleteUnknown
    <3>3. ~Known(req[t].barcode)
      BY <3>2 DEF Reported, Known
    <3> QED BY <3>1, <3>2, <3>3 DEF Grows, TypeOK
  <2>4. CASE SwitchCheck(t) \/ BindCheck(t) \/ CompleteCheck(t) \/ HandlerFails(t)
    BY <2>4, SameGrows DEF SwitchCheck, BindCheck, CompleteCheck, HandlerFails, Checked, tables
  <2>5. CASE BindWrite(t)
    BY <2>5, SameGrows DEF BindWrite
  <2> QED BY <1>5, <2>1, <2>2, <2>3, <2>4, <2>5 DEF Handler
<1>6. ASSUME NEW k \in bound, Unbind(k)
      PROVE  Grows
  BY <1>6, SameGrows DEF Unbind
<1> QED BY <1>1, <1>4, <1>5, <1>6 DEF Next

-----------------------------------------------------------------------------
(* Types.                                                                  *)

\* The products that a client names exist.
Exist(d, n) == d.product <= n /\ (d.scan # None => d.scan.product <= n)

LEMMA FreeType ==
    /\ Free \in Desk /\ Free.product = NoProduct /\ Free.pc = "idle" /\ Free.scan = None
    /\ \A n \in Nat : Exist(Free, n)
    /\ \A c, owners, put, past : Fine(c, Free, owners, put, past)
BY DEF Free, Desk, Exist, Fine, Names

LEMMA ExistGrows ==
    ASSUME NEW d \in Desk, NEW m \in Nat, NEW n \in Nat, m <= n, Exist(d, m)
    PROVE  Exist(d, n)
<1>1. d.product \in Nat /\ (d.scan # None => d.scan.product \in Nat)
  BY DEF Desk, Scan
<1> QED BY <1>1 DEF Exist

\* Answering a request leaves well-typed requests and clients.
LEMMA AnswerType ==
    ASSUME TypeOK, made' \in Nat, made <= made', NEW t \in Thread, req[t] # None,
           NEW d \in Desk, Exist(d, made'), Answer(t, d)
    PROVE  /\ req' \in [Thread -> Request \cup {None}]
           /\ desk' \in [Client -> Desk]
           /\ \A c \in Client : Exist(desk'[c], made')
<1>1. req[t] \in Request
  BY DEF TypeOK
<1>2. req[t].client \in Client
  BY <1>1 DEF Request
<1>3. \A c \in Client : desk'[c] = desk[c] \/ desk'[c] = d
  BY <1>2 DEF Answer, TypeOK
<1>4. made \in Nat
  BY DEF TypeOK
<1>5. \A c \in Client : desk[c] \in Desk /\ Exist(desk[c], made')
  <2> SUFFICES ASSUME NEW c \in Client PROVE desk[c] \in Desk /\ Exist(desk[c], made')
    OBVIOUS
  <2>1. desk[c] \in Desk /\ Exist(desk[c], made)
    BY DEF TypeOK, Exist
  <2> QED BY <1>4, <2>1, ExistGrows
<1>6. desk' \in [Client -> Desk]
  BY <1>2 DEF Answer, TypeOK
<1>7. req' \in [Thread -> Request \cup {None}]
  BY DEF Answer, TypeOK
<1> QED BY <1>3, <1>5, <1>6, <1>7

\* The tables hold well-typed rows.
TablesOK ==
    /\ made \in 0..MaxProduct
    /\ current \in [Product -> Barcode \cup {None}]
    /\ alias \in [Barcode -> [owner: 0..made, current: BOOLEAN, disabled: BOOLEAN]]
    /\ switched \subseteq 1..made
    /\ bound \subseteq [station: Station, parent: 1..made, child: 1..made]
    /\ done \subseteq [station: Station, barcode: Barcode, product: 1..made]
    /\ scans \subseteq [station: Station, barcode: Barcode, product: 0..made]
    /\ waived \subseteq Station \X (1..made)
    /\ relabelled \subseteq [station: Station, barcode: Barcode, product: 1..made]

\* The clients and their requests are well typed.
CallersOK ==
    /\ desk \in [Client -> Desk]
    /\ \A c \in Client : Exist(desk[c], made)
    /\ req \in [Thread -> Request \cup {None}]

LEMMA TypeParts == TypeOK <=> TablesOK /\ CallersOK
BY DEF TypeOK, TablesOK, CallersOK, Exist

\* A new product under an unknown code.
LEMMA NewProductTables ==
    ASSUME TablesOK, NEW b \in Barcode, made < MaxProduct, made' = made + 1,
           current' = [current EXCEPT ![made + 1] = b],
           alias' = [alias EXCEPT ![b] = [owner |-> made + 1, current |-> TRUE, disabled |-> FALSE]]
    PROVE  /\ made' \in 0..MaxProduct
           /\ 1..made \subseteq 1..made'
           /\ current' \in [Product -> Barcode \cup {None}]
           /\ alias' \in [Barcode -> [owner: 0..made', current: BOOLEAN, disabled: BOOLEAN]]
<1>1. made \in Nat /\ made + 1 \in Product
  BY DEF TablesOK
<1>2. made' \in 0..MaxProduct /\ 1..made \subseteq 1..made'
  BY <1>1
<1>3. alias \in [Barcode -> [owner: 0..made', current: BOOLEAN, disabled: BOOLEAN]]
  BY <1>1 DEF TablesOK
<1>4. [owner |-> made + 1, current |-> TRUE, disabled |-> FALSE]
          \in [owner: 0..made', current: BOOLEAN, disabled: BOOLEAN]
  BY <1>1
<1>5. alias' \in [Barcode -> [owner: 0..made', current: BOOLEAN, disabled: BOOLEAN]]
  BY <1>3, <1>4
<1>6. current' \in [Product -> Barcode \cup {None}]
  BY <1>1 DEF TablesOK
<1> QED BY <1>2, <1>5, <1>6

\* A completion is recorded for a product that exists.
LEMMA RecordTables ==
    ASSUME TypeOK, made' \in Nat, 1..made \subseteq 1..made', NEW t \in Thread, req[t] # None,
           req[t].barcode \in Barcode, NEW p \in 1..made', Record(t, p)
    PROVE  /\ done' \subseteq [station: Station, barcode: Barcode, product: 1..made']
           /\ scans' \subseteq [station: Station, barcode: Barcode, product: 0..made']
           /\ waived' \subseteq Station \X (1..made')
<1>1. req[t].client \in Client
  BY DEF TypeOK, Request
<1> DEFINE s == At[req[t].client]
           record == [station |-> s, barcode |-> req[t].barcode, product |-> p]
           excused == {<<n, p>> : n \in Config[s].needs}
<1>2. s \in Station /\ Config[s].needs \subseteq Station
  BY <1>1 DEF StationConfig
<1>3. /\ done' = done \cup {record}
      /\ scans' = scans \cup {record}
      /\ waived' = waived \/ waived' = waived \cup excused
  BY DEF Record
<1>4. /\ record \in [station: Station, barcode: Barcode, product: 1..made']
      /\ record \in [station: Station, barcode: Barcode, product: 0..made']
  BY <1>2
<1>5. excused \subseteq Station \X (1..made')
  BY <1>2
<1> HIDE DEF record, excused, s
<1>6. /\ done \subseteq [station: Station, barcode: Barcode, product: 1..made']
      /\ scans \subseteq [station: Station, barcode: Barcode, product: 0..made']
      /\ waived \subseteq Station \X (1..made')
  <2>1. 0..made \subseteq 0..made'
    BY DEF TypeOK
  <2> QED BY <2>1 DEF TypeOK
<1> QED BY <1>3, <1>4, <1>5, <1>6

LEMMA HandlerTables ==
    ASSUME IInv, NEW t \in Thread, Handler(t)
    PROVE  TablesOK'
<1> USE DEF TablesOK
<1>1. TypeOK /\ TablesOK /\ (req[t] # None => RequestOk(req[t]))
  BY TypeParts DEF IInv, RequestInv
<1>2. req[t] # None => req[t] \in Request /\ req[t].barcode \in Barcode
  BY <1>1 DEF RequestOk, TypeOK
<1>3. CASE SwitchCheck(t) \/ BindCheck(t) \/ CompleteCheck(t) \/ HandlerFails(t)
  <2>1. UNCHANGED tables
    BY <1>3 DEF SwitchCheck, BindCheck, CompleteCheck, HandlerFails, Checked
  <2> QED BY <1>1, <2>1 DEF tables
<1>4. CASE SwitchWrite(t)
  <2> DEFINE old == req[t].barcode
             new == req[t].other
             mode == req[t].mode
             p == Owner(old)
  <2>1. /\ req[t] # None /\ req[t].op = "switch" /\ req[t].phase = "write"
        /\ alias' = [alias EXCEPT ![old] = OldAlias(p, mode), ![new] = NewAlias(p, mode)]
        /\ current' = IF mode.set THEN [current EXCEPT ![p] = new] ELSE current
        /\ switched' = switched \cup {p}
        /\ UNCHANGED <<made, bound, done, scans, waived, relabelled>>
    BY <1>4 DEF SwitchWrite, Doing
  <2>2. old \in Barcode /\ new \in Barcode /\ mode \in Mode /\ p \in 1..made
    <3>1. SwitchOk(req[t]) /\ old \in Barcode
      BY <1>1, <2>1 DEF RequestOk
    <3>2. alias[old].owner \in 0..made
      BY <1>1, <3>1
    <3> QED BY <1>1, <2>1, <3>1, <3>2 DEF SwitchOk, Known, Owner
  <2> HIDE DEF old, new, mode, p
  <2>3. OldAlias(p, mode) \in [owner: 0..made, current: BOOLEAN, disabled: BOOLEAN]
    BY <1>1, <2>2 DEF OldAlias, Mode
  <2>4. NewAlias(p, mode) \in [owner: 0..made, current: BOOLEAN, disabled: BOOLEAN]
    BY <1>1, <2>2 DEF NewAlias, Mode
  <2>5. alias' \in [Barcode -> [owner: 0..made, current: BOOLEAN, disabled: BOOLEAN]]
    BY <1>1, <2>1, <2>2, <2>3, <2>4
  <2>6. current' \in [Product -> Barcode \cup {None}]
    BY <1>1, <2>1, <2>2
  <2> QED BY <1>1, <2>1, <2>2, <2>5, <2>6
<1>5. CASE BindWrite(t)
  <2> DEFINE k == [station |-> At[req[t].client], parent |-> Owner(req[t].barcode),
                   child |-> Owner(req[t].other)]
  <2>1. /\ req[t] # None /\ req[t].op = "bind" /\ req[t].phase = "write"
        /\ bound' = bound \cup {k}
        /\ UNCHANGED <<made, current, alias, switched, done, scans, waived, relabelled>>
    BY <1>5 DEF BindWrite, Doing
  <2>2. BindOk(req[t]) /\ req[t].barcode \in Barcode /\ req[t].client \in Client
    BY <1>1, <1>2, <2>1 DEF RequestOk, Request
  <2>3. k.parent \in 1..made /\ k.child \in 1..made /\ k.station \in Station
    <3>1. alias[req[t].barcode].owner \in 0..made /\ alias[req[t].other].owner \in 0..made
      BY <1>1, <2>2 DEF BindOk
    <3> QED BY <1>1, <2>1, <2>2, <3>1 DEF BindOk, Known, Owner
  <2>4. k \in [station: Station, parent: 1..made, child: 1..made]
    BY <2>3
  <2> HIDE DEF k
  <2> QED BY <1>1, <2>1, <2>4
<1>6. CASE CompleteWrite(t)
  <2>1. /\ req[t] # None /\ req[t].op = "complete" /\ req[t].phase = "write"
        /\ Record(t, Reported(req[t]))
        /\ UNCHANGED <<made, current, alias, switched, bound, relabelled>>
    BY <1>6 DEF CompleteWrite, Doing
  <2>2. Reported(req[t]) \in 1..made
    <3>1. /\ CompleteOk(req[t]) /\ req[t].barcode \in Barcode
          /\ Names(At[req[t].client], req[t].barcode, req[t].product, alias, relabelled)
      BY <1>1, <2>1 DEF RequestOk
    <3>2. alias[req[t].barcode].owner \in 0..made
      BY <1>1, <3>1
    <3>3. \A r \in relabelled : r.product \in 1..made
      BY <1>1
    <3>4. CASE req[t].product # NoProduct
      BY <1>1, <3>1, <3>2, <3>3, <3>4 DEF Names, Reported
    <3>5. CASE req[t].product = NoProduct
      BY <1>1, <2>1, <3>1, <3>2, <3>5 DEF CompleteOk, Reported, Owner
    <3> QED BY <3>4, <3>5
  <2>3. made' \in Nat /\ 1..made \subseteq 1..made'
    BY <1>1, <2>1
  <2> QED BY <1>1, <1>2, <2>1, <2>2, <2>3, RecordTables
<1>7. CASE CompleteUnknown(t)
  <2>1. /\ req[t] # None
        /\ made < MaxProduct /\ made' = made + 1
        /\ current' = [current EXCEPT ![made + 1] = req[t].barcode]
        /\ alias' = [alias EXCEPT ![req[t].barcode] =
                        [owner |-> made + 1, current |-> TRUE, disabled |-> FALSE]]
        /\ Record(t, made + 1)
        /\ UNCHANGED <<switched, bound, relabelled>>
    BY <1>7 DEF CompleteUnknown, Doing
  <2>2. /\ made' \in 0..MaxProduct
        /\ 1..made \subseteq 1..made'
        /\ current' \in [Product -> Barcode \cup {None}]
        /\ alias' \in [Barcode -> [owner: 0..made', current: BOOLEAN, disabled: BOOLEAN]]
    <3> HIDE DEF TablesOK
    <3> QED BY <1>1, <1>2, <2>1, NewProductTables
  <2>3. made' \in Nat /\ made + 1 \in 1..made'
    BY <1>1, <2>1
  <2>4. /\ done' \subseteq [station: Station, barcode: Barcode, product: 1..made']
        /\ scans' \subseteq [station: Station, barcode: Barcode, product: 0..made']
        /\ waived' \subseteq Station \X (1..made')
    <3> HIDE DEF TablesOK
    <3> QED BY <1>1, <1>2, <2>1, <2>2, <2>3, RecordTables
  <2>5. /\ switched' \subseteq 1..made'
        /\ bound' \subseteq [station: Station, parent: 1..made', child: 1..made']
        /\ relabelled' \subseteq [station: Station, barcode: Barcode, product: 1..made']
    BY <1>1, <2>1, <2>2
  <2> QED BY <2>2, <2>4, <2>5
<1> QED BY <1>3, <1>4, <1>5, <1>6, <1>7 DEF Handler

LEMMA DesktopTables ==
    ASSUME IInv, NEW c \in Client, Desktop(c)
    PROVE  TablesOK'
<1> USE DEF TablesOK
<1>1. /\ TypeOK /\ TablesOK /\ DeskOk(c) /\ CurrentBarcodeResolves
      /\ desk[c] \in Desk /\ Exist(desk[c], made) /\ At[c] \in Station
  BY TypeParts DEF IInv, DeskInv, TypeOK, Exist
<1>2. ASSUME NEW b \in Barcode, Resolve(c, b)
      PROVE  TablesOK'
  <2>1. CASE UNCHANGED tables
    BY <1>1, <2>1 DEF tables
  <2>2. CASE /\ made < MaxProduct /\ made' = made + 1
             /\ current' = [current EXCEPT ![made + 1] = b]
             /\ alias' = [alias EXCEPT ![b] =
                            [owner |-> made + 1, current |-> TRUE, disabled |-> FALSE]]
             /\ UNCHANGED <<switched, bound, done, scans, waived, relabelled>>
    <3>1. /\ made' \in 0..MaxProduct
          /\ 1..made \subseteq 1..made'
          /\ current' \in [Product -> Barcode \cup {None}]
          /\ alias' \in [Barcode -> [owner: 0..made', current: BOOLEAN, disabled: BOOLEAN]]
      <4> HIDE DEF TablesOK
      <4> QED BY <1>1, <2>2, NewProductTables
    <3>2. 0..made \subseteq 0..made'
      BY <1>1, <2>2
    <3> QED BY <1>1, <2>2, <3>1, <3>2
  <2> QED BY <1>2, <2>1, <2>2 DEF Resolve
<1>3. CASE ValidateUse(c)
  <2> DEFINE p == desk[c].scan.product
             posted == [station |-> At[c], barcode |-> desk[c].scan.barcode, product |-> p]
  <2>1. /\ desk[c].pc = "entered"
        /\ scans' = scans \/ scans' = scans \cup {posted}
        /\ UNCHANGED <<made, current, alias, switched, bound, done, waived, relabelled>>
    BY <1>3 DEF ValidateUse
  <2>2. desk[c].scan \in Scan /\ p <= made
    BY <1>1, <2>1 DEF DeskOk, Fine, Desk, Exist
  <2>3. p \in 0..made /\ desk[c].scan.barcode \in Barcode
    BY <1>1, <2>2 DEF Scan
  <2>4. posted \in [station: Station, barcode: Barcode, product: 0..made]
    BY <1>1, <2>3
  <2> HIDE DEF posted
  <2> QED BY <1>1, <2>1, <2>4
<1>4. ASSUME NEW b \in Barcode, Cancel(c, b)
      PROVE  TablesOK'
  <2> DEFINE excused(gone) == {<<At[c], r.product>> : r \in gone}
  <2>1. PICK gone \in SUBSET done :
            /\ done' = done \ gone
            /\ waived' = waived \cup excused(gone)
            /\ scans' \subseteq scans
            /\ UNCHANGED <<made, current, alias, switched, bound, relabelled>>
    BY <1>4, CancelSets
  <2>2. excused(gone) \subseteq Station \X (1..made)
    BY <1>1, <2>1
  <2> HIDE DEF excused
  <2> QED BY <1>1, <2>1, <2>2
<1>5. ASSUME NEW b \in Barcode, CallSwitch(c, b) \/ CallBind(c, b)
      PROVE  TablesOK'
  <2>1. UNCHANGED tables
    BY <1>5 DEF CallSwitch, CallBind, Call
  <2> QED BY <1>1, <2>1 DEF tables
<1>8. ASSUME NEW b \in Barcode, DegradedScan(c, b)
      PROVE  TablesOK'
  <2> DEFINE scanned == [station |-> At[c], barcode |-> b, product |-> desk[c].product]
  <2>1. /\ scans' = scans \/ scans' = scans \cup {scanned}
        /\ \/ relabelled' = relabelled
           \/ desk[c].product # NoProduct /\ relabelled' = relabelled \cup {scanned}
        /\ UNCHANGED <<made, current, alias, switched, bound, done, waived>>
    BY <1>8 DEF DegradedScan
  <2>2. desk[c].product \in 0..made
    BY <1>1 DEF Desk, Exist
  <2>3. /\ scanned \in [station: Station, barcode: Barcode, product: 0..made]
        /\ desk[c].product # NoProduct =>
               scanned \in [station: Station, barcode: Barcode, product: 1..made]
    BY <1>1, <2>2
  <2> HIDE DEF scanned
  <2> QED BY <1>1, <2>1, <2>3
<1>6. CASE VerifyEntry(c) \/ CallComplete(c) \/ GiveUp(c) \/ Reset(c)
  <2>1. UNCHANGED tables
    BY <1>6 DEF VerifyEntry, CallComplete, Call, GiveUp, Reset
  <2> QED BY <1>1, <2>1 DEF tables
<1>7. ASSUME NEW b \in Barcode,
             \/ Resolve(c, b) \/ DegradedScan(c, b) \/ CallSwitch(c, b)
             \/ CallBind(c, b) \/ Cancel(c, b)
      PROVE  TablesOK'
  <2> HIDE DEF TablesOK
  <2> QED BY <1>2, <1>4, <1>5, <1>7, <1>8
<1> QED BY <1>3, <1>6, <1>7 DEF Desktop

-----------------------------------------------------------------------------
(* What clients and requests rely on stays true.                           *)

LEMMA NamesKept ==
    ASSUME TypeOK, Grows, NEW s, NEW b \in Barcode, NEW p,
           Names(s, b, p, alias, relabelled)
    PROVE  Names(s, b, p, alias', relabelled')
BY DEF Names, Grows, Known, Owner

LEMMA FineKept ==
    ASSUME TypeOK, Grows, NEW c \in Client, NEW d \in Desk, Fine(c, d, alias, relabelled, Past)
    PROVE  Fine(c, d, alias', relabelled', Past')
<1>1. Names(At[c], d.barcode, d.product, alias', relabelled')
  BY NamesKept DEF Fine, Names
<1>2. ASSUME d.pc \in {"resolved", "entered"}
      PROVE  /\ d.scan # None
             /\ alias'[d.scan.barcode].owner = d.scan.product
             /\ alias'[d.scan.code].owner = d.scan.product
  <2>1. d.scan \in Scan
    BY <1>2 DEF Fine, Desk
  <2>2. /\ d.scan.barcode \in Barcode /\ d.scan.code \in Barcode
        /\ d.scan.product # NoProduct
    BY <2>1 DEF Scan
  <2> QED BY <1>2, <2>1, <2>2 DEF Fine, Grows, Known, Owner
<1>3. Past \subseteq Past'
  BY DEF Grows
<1> QED BY <1>1, <1>2, <1>3 DEF Fine

LEMMA DeskKept ==
    ASSUME TypeOK, Grows, NEW c \in Client, DeskOk(c), desk'[c] = desk[c]
    PROVE  DeskOk(c)'
<1>1. PICK d : d = desk[c]
  OBVIOUS
<1>2. d \in Desk /\ Fine(c, d, alias, relabelled, Past)
  BY <1>1 DEF TypeOK, DeskOk
<1> QED BY <1>1, <1>2, FineKept DEF DeskOk

\* Only "phase" and "live" of a request change while it lasts.
SameCall(t) ==
    /\ req'[t].op = req[t].op /\ req'[t].client = req[t].client
    /\ req'[t].product = req[t].product /\ req'[t].barcode = req[t].barcode
    /\ req'[t].other = req[t].other /\ req'[t].mode = req[t].mode

LEMMA RequestKept ==
    ASSUME TypeOK, Grows, NEW t \in Thread, req[t] # None, RequestOk(req[t]),
           SameCall(t), req'[t].phase = req[t].phase
    PROVE  RequestOk(req[t])'
<1> USE DEF SameCall, Grows, Known, Owner
<1>1. req'[t].barcode \in Barcode
      /\ Names(At[req'[t].client], req'[t].barcode, req'[t].product, alias', relabelled')
  BY NamesKept DEF RequestOk
<1>2. req'[t].product # NoProduct => Entered(req[t].product, At[req[t].client])'
  BY DEF RequestOk, Entered
<1>3. req'[t].op = "switch" => SwitchOk(req[t])'
  BY DEF RequestOk, SwitchOk, Entered
<1>4. req'[t].op = "bind" => BindOk(req[t])'
  BY DEF RequestOk, BindOk
<1>5. req'[t].op = "complete" => CompleteOk(req[t])'
  BY DEF RequestOk, CompleteOk, Reported
<1> QED BY <1>1, <1>2, <1>3, <1>4, <1>5 DEF RequestOk

\* What a client goes on with after an answer.
LEMMA AnswerDesk ==
    ASSUME IInv, Grows, NEW t \in Thread, req[t] # None, NEW d \in Desk, Answer(t, d),
           req[t].live => Fine(req[t].client, d, alias', relabelled', Past')
    PROVE  DeskInv'
<1> SUFFICES ASSUME NEW c \in Client
             PROVE  DeskOk(c)'
  BY DEF DeskInv
<1>1. TypeOK /\ DeskOk(c)
  BY DEF IInv, DeskInv
<1>2. CASE desk'[c] = desk[c]
  BY <1>1, <1>2, DeskKept
<1>3. CASE desk'[c] # desk[c]
  <2>1. req[t].live /\ c = req[t].client /\ desk'[c] = d
    BY <1>1, <1>3 DEF Answer, TypeOK
  <2> QED BY <2>1 DEF DeskOk
<1> QED BY <1>2, <1>3

\* The other requests go on.
LEMMA AnswerRequest ==
    ASSUME IInv, Grows, NEW t \in Thread, NEW d, Answer(t, d)
    PROVE  RequestInv'
<1> SUFFICES ASSUME NEW u \in Thread, req'[u] # None
             PROVE  RequestOk(req[u])'
  BY DEF RequestInv
<1>1. TypeOK /\ u # t /\ req'[u] = req[u] /\ RequestOk(req[u])
  BY DEF IInv, TypeOK, RequestInv, Answer
<1> QED BY <1>1, RequestKept DEF SameCall

LEMMA AnswerLive ==
    ASSUME IInv, NEW t \in Thread, req[t] # None, NEW d, Answer(t, d)
    PROVE  LiveInv'
<1> SUFFICES ASSUME NEW u \in Thread, req'[u] # None, req'[u].live
             PROVE  /\ desk'[req'[u].client].pc = "calling"
                    /\ \A v \in Thread : /\ req'[v] # None /\ req'[v].live
                                         /\ req'[v].client = req'[u].client
                                         => v = u
  BY DEF LiveInv
<1>1. TypeOK /\ LiveInv
  BY DEF IInv
<1>2. \A v \in Thread : req'[v] # None => v # t /\ req'[v] = req[v]
  BY <1>1 DEF Answer, TypeOK
<1>3. u # t /\ req'[u] = req[u] /\ req[u].client \in Client
  BY <1>1, <1>2 DEF TypeOK, Request
<1>4. desk[req[u].client].pc = "calling"
  BY <1>1, <1>3 DEF LiveInv
<1>5. desk'[req[u].client] = desk[req[u].client]
  <2>1. CASE req[t].live
    <3>1. req[t].client # req[u].client
      BY <1>1, <1>3, <2>1 DEF LiveInv
    <3> QED BY <1>1, <1>3, <3>1 DEF Answer, TypeOK
  <2>2. CASE ~req[t].live
    BY <2>2 DEF Answer
  <2> QED BY <2>1, <2>2
<1>6. ASSUME NEW v \in Thread, req'[v] # None, req'[v].live, req'[v].client = req'[u].client
      PROVE  v = u
  BY <1>1, <1>2, <1>3, <1>6 DEF LiveInv
<1> QED BY <1>3, <1>4, <1>5, <1>6

\* All that an answer preserves.
LEMMA AnswerStep ==
    ASSUME IInv, Grows, made' \in Nat, NEW t \in Thread, req[t] # None,
           NEW d \in Desk, Exist(d, made'), Answer(t, d),
           req[t].live => Fine(req[t].client, d, alias', relabelled', Past')
    PROVE  CallersOK' /\ DeskInv' /\ RequestInv' /\ LiveInv'
<1>1. TypeOK /\ made <= made'
  BY DEF IInv, Grows
<1>2. CallersOK'
  BY <1>1, AnswerType DEF CallersOK
<1>3. DeskInv'
  BY AnswerDesk
<1>4. RequestInv' /\ LiveInv'
  BY AnswerRequest, AnswerLive
<1> QED BY <1>2, <1>3, <1>4

\* A request that ends without an effect on its client's product.
LEMMA FailedStep ==
    ASSUME IInv, Grows, made' = made, NEW t \in Thread, req[t] # None, Answer(t, Failed(t))
    PROVE  CallersOK' /\ DeskInv' /\ RequestInv' /\ LiveInv'
<1>1. PICK c : c = req[t].client
  OBVIOUS
<1>2. PICK d : d = Failed(t)
  OBVIOUS
<1>3. TypeOK /\ c \in Client /\ DeskOk(c) /\ made \in Nat /\ desk[c] \in Desk
  BY <1>1 DEF IInv, TypeOK, Request, DeskInv
<1>4. d = [desk[c] EXCEPT !.pc = "working"]
  BY <1>1, <1>2 DEF Failed
<1>5. /\ d \in Desk /\ d.pc = "working" /\ d.scan = desk[c].scan
      /\ d.product = desk[c].product /\ d.barcode = desk[c].barcode
  BY <1>3, <1>4 DEF Desk
<1>6. Exist(d, made')
  BY <1>3, <1>5 DEF TypeOK, Exist
<1>7. ASSUME req[t].live
      PROVE  Fine(c, d, alias', relabelled', Past')
  <2>1. desk[c].pc = "calling"
    BY <1>1, <1>7 DEF IInv, LiveInv
  <2>2. Fine(c, d, alias, relabelled, Past)
    BY <1>3, <1>5, <2>1 DEF DeskOk, Fine
  <2> QED BY <1>3, <1>5, <2>2, FineKept
<1> QED BY <1>1, <1>2, <1>3, <1>5, <1>6, <1>7, AnswerStep

\* A request that has passed its checks.
LEMMA CheckedStep ==
    ASSUME IInv, Grows, NEW t \in Thread, req[t] # None, Checked(t),
           req'[t] # None => RequestOk(req[t])'
    PROVE  CallersOK' /\ DeskInv' /\ RequestInv' /\ LiveInv'
<1>1. /\ TypeOK /\ UNCHANGED <<desk, made>>
      /\ req' = [req EXCEPT ![t].phase = "write"]
  BY DEF IInv, Checked, tables
<1>2. \A u \in Thread : req'[u] = IF u = t THEN [req[t] EXCEPT !.phase = "write"] ELSE req[u]
  BY <1>1 DEF TypeOK
<1>3. req[t] \in Request /\ req'[t] \in Request
  <2>1. req[t] \in Request
    BY DEF IInv, TypeOK
  <2> QED BY <1>2, <2>1 DEF Request
<1>4. CallersOK'
  BY <1>1, <1>2, <1>3 DEF CallersOK, TypeOK, Exist
<1>5. DeskInv'
  <2> SUFFICES ASSUME NEW c \in Client PROVE DeskOk(c)'
    BY DEF DeskInv
  <2> QED BY <1>1, DeskKept DEF IInv, DeskInv
<1>6. RequestInv'
  <2> SUFFICES ASSUME NEW u \in Thread, req'[u] # None
               PROVE  RequestOk(req[u])'
    BY DEF RequestInv
  <2>1. CASE u = t
    BY <2>1
  <2>2. CASE u # t
    <3>1. req'[u] = req[u] /\ RequestOk(req[u])
      BY <1>2, <2>2 DEF IInv, RequestInv
    <3> QED BY <1>1, <3>1, RequestKept DEF SameCall
  <2> QED BY <2>1, <2>2
<1>7. LiveInv'
  <2>1. \A u \in Thread : req'[u] # None => /\ req[u] # None
                                            /\ req'[u].live = req[u].live
                                            /\ req'[u].client = req[u].client
    BY <1>2, <1>3 DEF Request
  <2> QED BY <1>1, <2>1 DEF IInv, LiveInv
<1> QED BY <1>4, <1>5, <1>6, <1>7

LEMMA CompletedPast ==
    ASSUME NEW p, NEW n, Completed(p, n)
    PROVE  <<n, p>> \in Past
BY DEF Completed, Past

LEMMA HandlerCallers ==
    ASSUME IInv, Grows, TablesOK', NEW t \in Thread, Handler(t)
    PROVE  CallersOK' /\ DeskInv' /\ RequestInv' /\ LiveInv'
<1>1. req[t] # None
  BY DEF Handler, SwitchCheck, SwitchWrite, BindCheck, BindWrite, CompleteCheck, CompleteWrite,
         CompleteUnknown, HandlerFails, Doing
<1>2. TypeOK /\ req[t] \in Request /\ RequestOk(req[t]) /\ made' \in Nat
  BY <1>1 DEF IInv, TypeOK, RequestInv, TablesOK
<1> DEFINE s == At[req[t].client]
           b == req[t].barcode
<1>3. b \in Barcode /\ req[t].client \in Client
  BY <1>2 DEF RequestOk, Request
<1>4. CASE HandlerFails(t)
  BY <1>1, <1>4, FailedStep DEF HandlerFails, tables
<1>5. CASE BindWrite(t)
  BY <1>1, <1>5, FailedStep DEF BindWrite
<1>6. CASE BindCheck(t)
  <2>1. CASE Answer(t, Failed(t)) /\ UNCHANGED tables
    BY <1>1, <2>1, FailedStep DEF tables
  <2>2. CASE Checked(t)
    <3>1. /\ Known(b) /\ Known(req[t].other) /\ req[t].op = "bind"
          /\ \A n \in Config[s].bindNeeds : Completed(Owner(req[t].other), n)
      BY <1>6 DEF BindCheck, Doing, Allowed
    <3>2. /\ UNCHANGED <<alias, done, waived, relabelled, desk, made>>
          /\ req'[t] = [req[t] EXCEPT !.phase = "write"]
      BY <1>2, <2>2 DEF Checked, tables, TypeOK
    <3>3. SameCall(t) /\ req'[t].phase = "write"
      BY <1>2, <3>2 DEF SameCall, Request
    <3>4. \A n \in Config[s].bindNeeds : <<n, Owner(req[t].other)>> \in Past
      BY <3>1, CompletedPast
    <3>5. BindOk(req[t])'
      BY <1>2, <3>1, <3>2, <3>3, <3>4 DEF BindOk, RequestOk, Known, Owner, SameCall, Past
    <3>6. RequestOk(req[t])'
      BY <1>2, <3>1, <3>2, <3>3, <3>5 DEF RequestOk, SameCall, Names, Entered, Past
    <3> QED BY <1>1, <2>2, <3>6, CheckedStep
  <2> QED BY <1>6, <2>1, <2>2 DEF BindCheck
<1>7. CASE SwitchCheck(t)
  <2>1. /\ Owner(b) # NoProduct /\ req[t].op = "switch" /\ Checked(t)
        /\ \A n \in Config[s].needs : Completed(Owner(b), n)
    BY <1>7 DEF SwitchCheck, Doing, EntryAllowed
  <2>2. /\ UNCHANGED <<alias, done, waived, relabelled, desk, made>>
        /\ req'[t] = [req[t] EXCEPT !.phase = "write"]
    BY <1>2, <2>1 DEF Checked, tables, TypeOK
  <2>3. SameCall(t) /\ req'[t].phase = "write"
    BY <1>2, <2>2 DEF SameCall, Request
  <2>4. \A n \in Config[s].needs : <<n, Owner(b)>> \in Past
    BY <2>1, CompletedPast
  <2>5. SwitchOk(req[t])'
    BY <1>2, <2>1, <2>2, <2>3, <2>4 DEF SwitchOk, RequestOk, Known, Owner, SameCall, Entered, Past
  <2>6. RequestOk(req[t])'
    BY <1>2, <2>1, <2>2, <2>3, <2>5 DEF RequestOk, SameCall, Names, Entered, Past
  <2> QED BY <1>1, <2>1, <2>6, CheckedStep
<1>8. CASE CompleteCheck(t)
  <2>1. Reported(req[t]) # NoProduct /\ req[t].op = "complete" /\ Checked(t)
    BY <1>8 DEF CompleteCheck, Doing
  <2>2. /\ UNCHANGED <<alias, done, waived, relabelled, desk, made>>
        /\ req'[t] = [req[t] EXCEPT !.phase = "write"]
    BY <1>2, <2>1 DEF Checked, tables, TypeOK
  <2>3. SameCall(t) /\ req'[t].phase = "write"
    BY <1>2, <2>2 DEF SameCall, Request
  <2>4. CompleteOk(req[t])'
    BY <2>1, <2>2, <2>3 DEF CompleteOk, Reported, Owner, SameCall
  <2>5. RequestOk(req[t])'
    BY <1>2, <2>1, <2>2, <2>3, <2>4 DEF RequestOk, SameCall, Names, Entered, Past
  <2> QED BY <1>1, <2>1, <2>5, CheckedStep
<1>9. CASE CompleteWrite(t) \/ CompleteUnknown(t)
  <2>1. Answer(t, Free)
    BY <1>9 DEF CompleteWrite, CompleteUnknown, Record
  <2>2. Exist(Free, made')
    BY <1>2, FreeType
  <2> QED BY <1>1, <1>2, <2>1, <2>2, FreeType, AnswerStep
<1>10. CASE SwitchWrite(t)
  <2> DEFINE p == Owner(b)
             e == [pc |-> "working", product |-> p, scan |-> None,
                   barcode |-> IF req[t].mode.set THEN req[t].other ELSE b]
  <2>1. /\ req[t].op = "switch" /\ req[t].phase = "write" /\ Answer(t, e)
        /\ ~Known(req[t].other)
        /\ alias' = [alias EXCEPT ![b] = OldAlias(p, req[t].mode),
                                  ![req[t].other] = NewAlias(p, req[t].mode)]
        /\ UNCHANGED <<made, done, waived>>
    BY <1>10 DEF SwitchWrite, Doing, FreeCode
  <2>2. req[t].other \in Barcode /\ Known(b) /\ Entered(p, s)
    BY <1>2, <2>1 DEF RequestOk, SwitchOk
  <2>3. alias \in [Barcode -> [owner: 0..made, current: BOOLEAN, disabled: BOOLEAN]]
        /\ made \in 0..MaxProduct
    BY <1>2 DEF TypeOK
  <2>4. p \in 0..made
    BY <1>3, <2>3 DEF Owner
  <2>5. e \in Desk /\ Exist(e, made') /\ e.barcode \in Barcode
    BY <1>3, <2>1, <2>2, <2>3, <2>4 DEF Desk, Exist
  <2>6. alias'[e.barcode].owner = p
    BY <1>3, <2>1, <2>2, <2>3 DEF OldAlias, NewAlias
  <2>7. \A n \in Config[s].needs : <<n, p>> \in Past'
    BY <2>1, <2>2 DEF Entered, Past
  <2>8. e.pc = "working" /\ e.product = p
    OBVIOUS
  <2> HIDE DEF e, p
  <2>9. PICK d : d = e
    OBVIOUS
  <2>10. Fine(req[t].client, d, alias', relabelled', Past')
    BY <2>5, <2>6, <2>7, <2>8, <2>9 DEF Fine, Names
  <2> QED BY <1>1, <1>2, <2>1, <2>5, <2>9, <2>10, AnswerStep
<1> QED BY <1>4, <1>5, <1>6, <1>7, <1>8, <1>9, <1>10 DEF Handler

\* A client that awaits no answer goes on as d.
LEMMA PutStep ==
    ASSUME IInv, Grows, made' \in Nat, NEW c \in Client, desk[c].pc # "calling", NEW d \in Desk,
           Put(c, d), UNCHANGED req, Exist(d, made'),
           Fine(c, d, alias', relabelled', Past')
    PROVE  CallersOK' /\ DeskInv' /\ RequestInv' /\ LiveInv'
<1>1. TypeOK /\ made \in Nat
  BY DEF IInv, TypeOK
<1>2. \A e \in Client : desk'[e] = IF e = c THEN d ELSE desk[e]
  BY <1>1 DEF Put, TypeOK
<1>3. CallersOK'
  <2>1. ASSUME NEW e \in Client
        PROVE  Exist(desk'[e], made')
    <3>1. desk[e] \in Desk /\ Exist(desk[e], made)
      BY <1>1 DEF TypeOK, Exist
    <3>2. Exist(desk[e], made')
      BY <1>1, <3>1, ExistGrows DEF Grows
    <3> QED BY <1>2, <3>2
  <2> QED BY <1>1, <2>1 DEF Put, CallersOK, TypeOK
<1>4. DeskInv'
  <2> SUFFICES ASSUME NEW e \in Client PROVE DeskOk(e)'
    BY DEF DeskInv
  <2>1. CASE e = c
    BY <1>2, <2>1 DEF DeskOk
  <2>2. CASE e # c
    BY <1>1, <1>2, <2>2, DeskKept DEF IInv, DeskInv
  <2> QED BY <2>1, <2>2
<1>5. RequestInv'
  <2> SUFFICES ASSUME NEW u \in Thread, req'[u] # None
               PROVE  RequestOk(req[u])'
    BY DEF RequestInv
  <2> QED BY <1>1, RequestKept DEF IInv, RequestInv, SameCall
<1>6. LiveInv'
  <2>1. \A u \in Thread : req[u] # None /\ req[u].live =>
            req[u].client # c /\ req[u].client \in Client
    BY <1>1 DEF IInv, LiveInv, TypeOK, Request
  <2> QED BY <1>2, <2>1 DEF IInv, LiveInv
<1> QED BY <1>3, <1>4, <1>5, <1>6

\* A client that calls the server.
LEMMA CallStep ==
    ASSUME IInv, Grows, NEW c \in Client, NEW op \in {"switch", "bind", "complete"},
           NEW other \in Barcode \cup {None}, NEW mode \in Mode \cup {None}, Call(c, op, other, mode),
           op = "switch" => other \in Barcode /\ mode \in Mode /\ mode \in Config[At[c]].modes,
           op = "bind" => other \in Barcode
    PROVE  CallersOK' /\ DeskInv' /\ RequestInv' /\ LiveInv'
<1> DEFINE q == [op |-> op, phase |-> "check", client |-> c, product |-> desk[c].product,
                 barcode |-> desk[c].barcode, other |-> other, mode |-> mode, live |-> TRUE]
<1>1. TypeOK /\ DeskOk(c) /\ desk[c] \in Desk
  BY DEF IInv, TypeOK, DeskInv
<1>2. /\ desk[c].pc = "working"
      /\ desk' = [desk EXCEPT ![c].pc = "calling"]
      /\ UNCHANGED <<made, alias, done, waived, relabelled>>
  BY DEF Call, tables
<1>3. PICK t \in Thread : req[t] = None /\ req' = [req EXCEPT ![t] = q]
  BY DEF Call
<1>4. \A u \in Thread : req'[u] = IF u = t THEN q ELSE req[u]
  BY <1>1, <1>3 DEF TypeOK
<1>5. desk[c].barcode \in Barcode /\ q \in Request
  BY <1>1, <1>2 DEF DeskOk, Fine, Desk, Request
<1>6. \A e \in Client : desk'[e] = IF e = c THEN [desk[c] EXCEPT !.pc = "calling"] ELSE desk[e]
  BY <1>1, <1>2 DEF TypeOK
<1>7. /\ desk'[c] \in Desk
      /\ desk'[c].pc = "calling" /\ desk'[c].product = desk[c].product
      /\ desk'[c].barcode = desk[c].barcode /\ desk'[c].scan = desk[c].scan
  BY <1>1, <1>6 DEF Desk
<1> HIDE DEF q
<1>8. CallersOK'
  <2>1. \A e \in Client : Exist(desk'[e], made')
    BY <1>1, <1>2, <1>6, <1>7 DEF TypeOK, Exist
  <2> QED BY <1>1, <1>2, <1>3, <1>5, <1>7, <2>1 DEF CallersOK, TypeOK
<1>9. DeskInv'
  <2> SUFFICES ASSUME NEW e \in Client PROVE DeskOk(e)'
    BY DEF DeskInv
  <2>1. CASE e = c
    BY <1>1, <1>2, <1>7, <2>1 DEF DeskOk, Fine, Past
  <2>2. CASE e # c
    BY <1>1, <1>6, <2>2, DeskKept DEF IInv, DeskInv
  <2> QED BY <2>1, <2>2
<1>10. RequestInv'
  <2> SUFFICES ASSUME NEW u \in Thread, req'[u] # None
               PROVE  RequestOk(req[u])'
    BY DEF RequestInv
  <2>1. CASE u = t
    BY <1>1, <1>2, <1>4, <2>1
       DEF q, RequestOk, SwitchOk, BindOk, CompleteOk, DeskOk, Fine, Names, Entered, Past
  <2>2. CASE u # t
    BY <1>1, <1>4, <2>2, RequestKept DEF IInv, RequestInv, SameCall
  <2> QED BY <2>1, <2>2
<1>11. LiveInv'
  <2>1. \A u \in Thread : req[u] # None /\ req[u].live =>
            req[u].client # c /\ req[u].client \in Client
    BY <1>1, <1>2 DEF IInv, LiveInv, TypeOK, Request
  <2>2. q.client = c
    BY DEF q
  <2> QED BY <1>4, <1>6, <1>7, <2>1, <2>2 DEF IInv, LiveInv
<1> QED BY <1>8, <1>9, <1>10, <1>11

\* A client that no longer waits for its requests.
LEMMA DropStep ==
    ASSUME IInv, Grows, NEW c \in Client, UNCHANGED tables,
           \/ desk' = [desk EXCEPT ![c].pc = "working"] /\ desk[c].pc = "calling"
           \/ desk' = [desk EXCEPT ![c] = Free],
           req' = [t \in Thread |-> IF req[t] # None /\ req[t].client = c
                                    THEN [req[t] EXCEPT !.live = FALSE] ELSE req[t]]
    PROVE  CallersOK' /\ DeskInv' /\ RequestInv' /\ LiveInv'
<1>1. /\ TypeOK /\ UNCHANGED <<made, alias, done, waived, relabelled>> /\ made \in Nat
      /\ desk[c] \in Desk /\ DeskOk(c)
  BY DEF IInv, TypeOK, DeskInv, tables
<1>2. \A e \in Client \ {c} : desk'[e] = desk[e]
  BY <1>1 DEF TypeOK
<1>3. /\ desk'[c] \in Desk /\ Exist(desk'[c], made) /\ DeskOk(c)'
      /\ desk' \in [Client -> Desk]
  <2>1. CASE desk' = [desk EXCEPT ![c].pc = "working"] /\ desk[c].pc = "calling"
    <3>1. desk'[c] = [desk[c] EXCEPT !.pc = "working"]
      BY <1>1, <2>1 DEF TypeOK
    <3>2. /\ desk'[c] \in Desk /\ desk'[c].pc = "working"
          /\ desk'[c].product = desk[c].product /\ desk'[c].barcode = desk[c].barcode
          /\ desk'[c].scan = desk[c].scan
      BY <1>1, <3>1 DEF Desk
    <3>3. DeskOk(c)'
      BY <1>1, <2>1, <3>2 DEF DeskOk, Fine, Past
    <3> QED BY <1>1, <2>1, <3>2, <3>3 DEF TypeOK, Exist
  <2>2. CASE desk' = [desk EXCEPT ![c] = Free]
    <3>1. desk'[c] = Free
      BY <1>1, <2>2 DEF TypeOK
    <3>2. DeskOk(c)' /\ Exist(Free, made)
      BY <1>1, <3>1, FreeType DEF DeskOk
    <3> QED BY <1>1, <2>2, <3>1, <3>2, FreeType DEF TypeOK
  <2> QED BY <2>1, <2>2
<1>5. ASSUME NEW u \in Thread, req'[u] # None
      PROVE  /\ req[u] # None /\ req[u] \in Request /\ req'[u] \in Request
             /\ SameCall(u) /\ req'[u].phase = req[u].phase
             /\ req'[u].live => req[u].live /\ req[u].client # c
  <2>1. req[u] # None /\ req[u] \in Request
    BY <1>1, <1>5 DEF TypeOK
  <2>2. req'[u] = IF req[u].client = c THEN [req[u] EXCEPT !.live = FALSE] ELSE req[u]
    BY <2>1
  <2> QED BY <2>1, <2>2 DEF Request, SameCall
<1>6. CallersOK'
  <2>1. \A e \in Client : Exist(desk'[e], made')
    BY <1>1, <1>2, <1>3 DEF TypeOK, Exist
  <2>2. req' \in [Thread -> Request \cup {None}]
    BY <1>5
  <2> QED BY <1>3, <2>1, <2>2 DEF CallersOK
<1>7. DeskInv'
  <2> SUFFICES ASSUME NEW e \in Client PROVE DeskOk(e)'
    BY DEF DeskInv
  <2> QED BY <1>1, <1>2, <1>3, DeskKept DEF IInv, DeskInv
<1>8. RequestInv'
  <2> SUFFICES ASSUME NEW u \in Thread, req'[u] # None
               PROVE  RequestOk(req[u])'
    BY DEF RequestInv
  <2> QED BY <1>1, <1>5, RequestKept DEF IInv, RequestInv
<1>9. LiveInv'
  <2>1. \A u \in Thread : req[u] # None => req[u].client \in Client
    BY <1>1 DEF TypeOK, Request
  <2> QED BY <1>2, <1>5, <2>1 DEF IInv, LiveInv, SameCall
<1> QED BY <1>6, <1>7, <1>8, <1>9

\* A scan that is refused leaves the client with what it had.
LEMMA RefusedFine ==
    ASSUME TypeOK, NEW c \in Client, DeskOk(c)
    PROVE  /\ Refused(c) \in Desk /\ Exist(Refused(c), made)
           /\ Fine(c, Refused(c), alias, relabelled, Past)
<1>1. desk[c] \in Desk /\ Exist(desk[c], made)
  BY DEF TypeOK, Exist
<1>2. /\ Refused(c) \in Desk
      /\ Refused(c).pc = IF desk[c].barcode = None THEN "idle" ELSE "working"
      /\ Refused(c).scan = None /\ Refused(c).barcode = desk[c].barcode
      /\ Refused(c).product = desk[c].product
  BY <1>1 DEF Refused, Desk
<1>3. Exist(Refused(c), made)
  BY <1>1, <1>2 DEF Exist
<1>4. desk[c].barcode \in Barcode \cup {None}
  BY <1>1 DEF Desk
<1>5. Fine(c, Refused(c), alias, relabelled, Past)
  BY <1>2, <1>4 DEF DeskOk, Fine
<1> QED BY <1>2, <1>3, <1>5

LEMMA RefusedStep ==
    ASSUME IInv, Grows, made' = made, NEW c \in Client, desk[c].pc # "calling",
           Put(c, Refused(c)), UNCHANGED req
    PROVE  CallersOK' /\ DeskInv' /\ RequestInv' /\ LiveInv'
<1>1. PICK d : d = Refused(c)
  OBVIOUS
<1>2. TypeOK /\ DeskOk(c) /\ made' \in Nat
  BY DEF IInv, DeskInv, TypeOK
<1>3. d \in Desk /\ Exist(d, made') /\ Fine(c, d, alias, relabelled, Past)
  BY <1>1, <1>2, RefusedFine
<1>4. Fine(c, d, alias', relabelled', Past')
  BY <1>2, <1>3, FineKept
<1> QED BY <1>1, <1>2, <1>3, <1>4, PutStep

\* A scan that the server has resolved.
LEMMA VerifyingStep ==
    ASSUME IInv, Grows, made' \in Nat, NEW c \in Client, desk[c].pc \in {"idle", "working"},
           NEW scan \in Scan, Verifying(c, scan), UNCHANGED req, scan.product <= made',
           alias'[scan.barcode].owner = scan.product, alias'[scan.code].owner = scan.product
    PROVE  CallersOK' /\ DeskInv' /\ RequestInv' /\ LiveInv'
<1>1. PICK d : d = [desk[c] EXCEPT !.pc = "resolved", !.scan = scan]
  OBVIOUS
<1>2. /\ TypeOK /\ DeskOk(c) /\ desk[c] \in Desk /\ Exist(desk[c], made) /\ made \in Nat
      /\ made <= made'
  BY DEF IInv, DeskInv, TypeOK, Exist, Grows
<1>3. /\ d \in Desk /\ d.pc = "resolved" /\ d.scan = scan
      /\ d.product = desk[c].product /\ d.barcode = desk[c].barcode
  BY <1>1, <1>2 DEF Desk
<1>4. Exist(desk[c], made')
  BY <1>2, ExistGrows
<1>5. Exist(d, made')
  BY <1>3, <1>4 DEF Exist
<1>6. PICK e : e = desk[c]
  OBVIOUS
<1>7. Fine(c, e, alias', relabelled', Past')
  BY <1>2, <1>6, FineKept DEF DeskOk
<1>8. scan # None
  OBVIOUS
<1>9. Fine(c, d, alias', relabelled', Past')
  BY <1>3, <1>6, <1>7, <1>8 DEF Fine
<1> QED BY <1>1, <1>3, <1>5, <1>9, PutStep DEF Verifying

LEMMA DesktopCallers ==
    ASSUME IInv, Grows, TablesOK', NEW c \in Client, Desktop(c)
    PROVE  CallersOK' /\ DeskInv' /\ RequestInv' /\ LiveInv'
<1>1. /\ TypeOK /\ DeskOk(c) /\ desk[c] \in Desk /\ made' \in Nat /\ made \in Nat
      /\ Exist(desk[c], made) /\ CurrentBarcodeResolves
  BY DEF IInv, TypeOK, DeskInv, TablesOK, Exist
<1>2. Exist(Free, made')
  BY <1>1, FreeType
<1>3. ASSUME NEW b \in Barcode, Resolve(c, b)
      PROVE  CallersOK' /\ DeskInv' /\ RequestInv' /\ LiveInv'
  <2>1. desk[c].pc \in {"idle", "working"} /\ UNCHANGED req
    BY <1>3 DEF Resolve
  <2>2. CASE /\ Allowed(b)
             /\ Verifying(c, [barcode |-> b, code |-> current[Owner(b)], product |-> Owner(b)])
             /\ UNCHANGED tables
    <3>1. PICK p : p = Owner(b)
      OBVIOUS
    <3>2. PICK code : code = current[p]
      OBVIOUS
    <3>3. p \in 1..made /\ p \in Product
      BY <1>1, <2>2, <3>1 DEF Allowed, Known, Owner, TypeOK
    <3>4. code \in Barcode \cup {None}
      BY <1>1, <3>2, <3>3 DEF TypeOK
    <3>5. code # None /\ alias[code] = [owner |-> p, current |-> TRUE, disabled |-> FALSE]
      BY <1>1, <3>2, <3>3 DEF CurrentBarcodeResolves
    <3>6. PICK scan : scan = [barcode |-> b, code |-> code, product |-> p]
      OBVIOUS
    <3>7. scan \in Scan /\ scan.product <= made'
      BY <1>1, <2>2, <3>3, <3>4, <3>5, <3>6 DEF Scan, tables
    <3>8. alias'[scan.barcode].owner = scan.product /\ alias'[scan.code].owner = scan.product
      BY <2>2, <3>1, <3>5, <3>6 DEF Owner, tables
    <3> QED BY <1>1, <2>1, <2>2, <3>1, <3>2, <3>6, <3>7, <3>8, VerifyingStep
  <2>3. CASE /\ made < MaxProduct /\ made' = made + 1
             /\ alias' = [alias EXCEPT ![b] =
                            [owner |-> made + 1, current |-> TRUE, disabled |-> FALSE]]
             /\ Verifying(c, [barcode |-> b, code |-> b, product |-> made + 1])
    <3>1. PICK scan : scan = [barcode |-> b, code |-> b, product |-> made + 1]
      OBVIOUS
    <3>2. scan \in Scan /\ scan.product <= made'
      BY <1>1, <2>3, <3>1 DEF Scan
    <3>3. alias'[scan.barcode].owner = scan.product /\ alias'[scan.code].owner = scan.product
      BY <1>1, <2>3, <3>1 DEF TypeOK
    <3> QED BY <1>1, <2>1, <2>3, <3>1, <3>2, <3>3, VerifyingStep
  <2> QED BY <1>3, <2>2, <2>3 DEF Resolve
<1>4. CASE VerifyEntry(c)
  <2> DEFINE p == desk[c].scan.product
  <2>1. /\ desk[c].pc = "resolved" /\ UNCHANGED req
        /\ UNCHANGED <<made, alias, done, waived, relabelled>>
    BY <1>4 DEF VerifyEntry, tables
  <2>2. CASE /\ EntryAllowed(p, current[p], At[c])
             /\ desk' = [desk EXCEPT ![c] = [@ EXCEPT !.pc = "entered"]]
    <3>1. PICK d : d = [desk[c] EXCEPT !.pc = "entered"]
      OBVIOUS
    <3>2. Put(c, d)
      BY <1>1, <2>2, <3>1 DEF Put, TypeOK
    <3>3. /\ d \in Desk /\ d.pc = "entered" /\ d.scan = desk[c].scan
          /\ d.product = desk[c].product /\ d.barcode = desk[c].barcode
      BY <1>1, <3>1 DEF Desk
    <3>4. Exist(d, made')
      BY <1>1, <2>1, <3>3 DEF Exist
    <3>5. \A n \in Config[At[c]].needs : <<n, p>> \in Past
      BY <2>2, CompletedPast DEF EntryAllowed
    <3>6. Fine(c, d, alias, relabelled, Past)
      BY <1>1, <2>1, <3>3, <3>5 DEF DeskOk, Fine
    <3>7. Fine(c, d, alias', relabelled', Past')
      BY <1>1, <3>3, <3>6, FineKept
    <3> QED BY <1>1, <2>1, <3>2, <3>3, <3>4, <3>7, PutStep
  <2>3. CASE desk' = [desk EXCEPT ![c] = Refused(c)]
    BY <2>1, <2>3, RefusedStep DEF Put
  <2> QED BY <1>4, <2>2, <2>3 DEF VerifyEntry
<1>5. CASE ValidateUse(c)
  <2> DEFINE scan == desk[c].scan
  <2>1. /\ desk[c].pc = "entered"
        /\ UNCHANGED <<made, alias, done, waived, relabelled, req>>
    BY <1>5 DEF ValidateUse
  <2>2. CASE Put(c, Refused(c))
    BY <2>1, <2>2, RefusedStep
  <2>3. ASSUME NEW b \in {scan.code, scan.barcode},
               Put(c, [pc |-> "working", barcode |-> b, product |-> scan.product, scan |-> None])
        PROVE  CallersOK' /\ DeskInv' /\ RequestInv' /\ LiveInv'
    <3>1. PICK d : d = [pc |-> "working", barcode |-> b, product |-> scan.product, scan |-> None]
      OBVIOUS
    <3>2. desk[c].scan \in Scan
      BY <1>1, <2>1 DEF DeskOk, Fine, Desk
    <3>3. scan.product \in Product /\ b \in Barcode /\ scan.product <= made
      BY <1>1, <3>2 DEF Scan, Exist, Desk
    <3>4. alias[b].owner = scan.product
      BY <1>1, <2>1 DEF DeskOk, Fine
    <3>5. \A n \in Config[At[c]].needs : <<n, scan.product>> \in Past
      BY <1>1, <2>1 DEF DeskOk, Fine
    <3>6. /\ d \in Desk /\ d.pc = "working" /\ d.barcode = b
          /\ d.product = scan.product /\ d.scan = None
      BY <3>1, <3>3 DEF Desk
    <3>7. Exist(d, made')
      BY <2>1, <3>3, <3>6 DEF Exist
    <3>8. Fine(c, d, alias, relabelled, Past)
      BY <3>3, <3>4, <3>5, <3>6 DEF Fine, Names
    <3>9. Fine(c, d, alias', relabelled', Past')
      BY <1>1, <3>6, <3>8, FineKept
    <3> QED BY <1>1, <2>1, <2>3, <3>1, <3>6, <3>7, <3>9, PutStep
  <2> QED BY <1>5, <2>2, <2>3 DEF ValidateUse
<1>6. ASSUME NEW b \in Barcode, DegradedScan(c, b)
      PROVE  CallersOK' /\ DeskInv' /\ RequestInv' /\ LiveInv'
  <2>1. /\ desk[c].pc \in {"idle", "working"} /\ UNCHANGED <<made, alias, done, waived, req>>
        /\ desk' = [desk EXCEPT ![c].pc = "working", ![c].barcode = b]
    BY <1>6 DEF DegradedScan
  <2>2. PICK d : d = [desk[c] EXCEPT !.pc = "working", !.barcode = b]
    OBVIOUS
  <2>3. Put(c, d)
    BY <1>1, <2>1, <2>2 DEF Put, TypeOK
  <2>4. /\ d \in Desk /\ d.pc = "working" /\ d.barcode = b
        /\ d.product = desk[c].product /\ d.scan = desk[c].scan
    BY <1>1, <2>2 DEF Desk
  <2>5. Exist(d, made')
    BY <1>1, <2>1, <2>4 DEF Exist
  <2>6. Names(At[c], b, d.product, alias', relabelled')
    BY <1>6, <2>1, <2>4 DEF DegradedScan, Names, Owner
  <2>7. Past' = Past
    BY <2>1 DEF Past
  <2>8. d.product # NoProduct => \A n \in Config[At[c]].needs : <<n, d.product>> \in Past'
    BY <1>1, <2>4, <2>7 DEF DeskOk, Fine
  <2>9. Fine(c, d, alias', relabelled', Past')
    BY <2>4, <2>6, <2>8 DEF Fine
  <2> QED BY <1>1, <2>1, <2>3, <2>4, <2>5, <2>9, PutStep
<1>7. ASSUME NEW b \in Barcode, Cancel(c, b)
      PROVE  CallersOK' /\ DeskInv' /\ RequestInv' /\ LiveInv'
  <2>1. desk[c].pc # "calling" /\ Put(c, Free) /\ UNCHANGED req
    BY <1>7 DEF Cancel
  <2> QED BY <1>1, <1>2, <2>1, FreeType, PutStep
<1>8. ASSUME NEW b \in Barcode, CallSwitch(c, b)
      PROVE  CallersOK' /\ DeskInv' /\ RequestInv' /\ LiveInv'
  <2>1. PICK mode \in Config[At[c]].modes : Call(c, "switch", b, mode)
    BY <1>8 DEF CallSwitch
  <2>2. mode \in Mode
    BY DEF StationConfig
  <2> QED BY <2>1, <2>2, CallStep
<1>9. ASSUME NEW b \in Barcode, CallBind(c, b)
      PROVE  CallersOK' /\ DeskInv' /\ RequestInv' /\ LiveInv'
  BY <1>9, CallStep DEF CallBind
<1>10. CASE CallComplete(c)
  BY <1>10, CallStep DEF CallComplete
<1>11. CASE GiveUp(c)
  BY <1>11, DropStep DEF GiveUp
<1>12. CASE Reset(c)
  BY <1>12, DropStep DEF Reset, Put
<1>13. ASSUME NEW b \in Barcode,
              \/ Resolve(c, b) \/ DegradedScan(c, b) \/ CallSwitch(c, b)
              \/ CallBind(c, b) \/ Cancel(c, b)
       PROVE  CallersOK' /\ DeskInv' /\ RequestInv' /\ LiveInv'
  BY <1>3, <1>6, <1>7, <1>8, <1>9, <1>13
<1> QED BY <1>4, <1>5, <1>10, <1>11, <1>12, <1>13 DEF Desktop

-----------------------------------------------------------------------------
(* Safety.                                                                 *)

LEMMA PastMeaning ==
    /\ NoSkippedStation <=> \A r \in done : \A n \in Config[r.station].needs : <<n, r.product>> \in Past
    /\ BuiltFromFinished <=>
           \A k \in bound : \A n \in Config[k.station].bindNeeds : <<n, k.child>> \in Past
<1>1. ASSUME NEW p, NEW n
      PROVE  <<n, p>> \in Past <=> Completed(p, n) \/ <<n, p>> \in waived
  BY DEF Past, Completed
<1> QED BY <1>1 DEF NoSkippedStation, BuiltFromFinished

LEMMA PastMeaningNext ==
    /\ NoSkippedStation' <=>
           \A r \in done' : \A n \in Config[r.station].needs : <<n, r.product>> \in Past'
    /\ BuiltFromFinished' <=>
           \A k \in bound' : \A n \in Config[k.station].bindNeeds : <<n, k.child>> \in Past'
<1>1. ASSUME NEW p, NEW n
      PROVE  <<n, p>> \in Past' <=> (\E r \in done' : r.station = n /\ r.product = p)
                                     \/ <<n, p>> \in waived'
  BY DEF Past
<1> QED BY <1>1 DEF NoSkippedStation, BuiltFromFinished, Completed

\* A new product has its code, and the others keep theirs.
LEMMA NewProductResolves ==
    ASSUME TypeOK, CurrentBarcodeResolves, NEW b \in Barcode, ~Known(b),
           made < MaxProduct, made' = made + 1,
           current' = [current EXCEPT ![made + 1] = b],
           alias' = [alias EXCEPT ![b] = [owner |-> made + 1, current |-> TRUE, disabled |-> FALSE]]
    PROVE  CurrentBarcodeResolves'
<1> SUFFICES ASSUME NEW p \in 1..made'
             PROVE  /\ current'[p] # None
                    /\ alias'[current'[p]] = [owner |-> p, current |-> TRUE, disabled |-> FALSE]
  BY DEF CurrentBarcodeResolves
<1>1. made \in Nat /\ made + 1 \in Product /\ b # None
  BY DEF TypeOK
<1>2. CASE p = made + 1
  BY <1>1, <1>2 DEF TypeOK
<1>3. CASE p # made + 1
  <2>1. p \in 1..made /\ p \in Product
    BY <1>1, <1>3
  <2>2. /\ current[p] # None
        /\ alias[current[p]] = [owner |-> p, current |-> TRUE, disabled |-> FALSE]
    BY <2>1 DEF CurrentBarcodeResolves
  <2>3. current[p] # b
    BY <2>1, <2>2 DEF Known, Owner
  <2>4. current'[p] = current[p] /\ current[p] \in Barcode
    BY <1>3, <2>1, <2>2 DEF TypeOK
  <2> QED BY <2>2, <2>3, <2>4 DEF TypeOK
<1> QED BY <1>2, <1>3

LEMMA SwitchResolves ==
    ASSUME IInv, NEW t \in Thread, SwitchWrite(t)
    PROVE  CurrentBarcodeResolves'
<1> DEFINE old == req[t].barcode
           new == req[t].other
           mode == req[t].mode
           p == Owner(old)
<1>1. /\ req[t] # None /\ req[t].op = "switch" /\ req[t].phase = "write"
      /\ ~Known(new)
      /\ alias' = [alias EXCEPT ![old] = OldAlias(p, mode), ![new] = NewAlias(p, mode)]
      /\ current' = IF mode.set THEN [current EXCEPT ![p] = new] ELSE current
      /\ UNCHANGED made
  BY DEF SwitchWrite, Doing, FreeCode
<1>2. TypeOK /\ RequestOk(req[t]) /\ CurrentBarcodeResolves
  BY <1>1 DEF IInv, RequestInv
<1>3. old \in Barcode /\ new \in Barcode /\ mode \in Mode /\ Known(old)
  BY <1>1, <1>2 DEF RequestOk, SwitchOk, Names
<1>4. alias[old].owner = p
  BY DEF Owner
<1>5. new # old /\ alias[new].owner = NoProduct
  BY <1>1, <1>3 DEF Known, Owner
<1> HIDE DEF old, new, mode, p
<1> SUFFICES ASSUME NEW q \in 1..made
             PROVE  /\ current'[q] # None
                    /\ alias'[current'[q]] = [owner |-> q, current |-> TRUE, disabled |-> FALSE]
  BY <1>1 DEF CurrentBarcodeResolves
<1>6. q \in Product /\ q # NoProduct
  BY <1>2 DEF TypeOK
<1>7. /\ current[q] \in Barcode
      /\ alias[current[q]] = [owner |-> q, current |-> TRUE, disabled |-> FALSE]
  <2>1. current[q] \in Barcode \cup {None}
    BY <1>2, <1>6 DEF TypeOK
  <2> QED BY <1>2, <2>1 DEF CurrentBarcodeResolves
<1>8. current[q] # new
  BY <1>5, <1>6, <1>7
<1>9. new # None /\ current[q] # None
  BY <1>3, <1>7
<1>10. CASE mode.set /\ q = p
  <2>1. current'[q] = new
    BY <1>1, <1>2, <1>6, <1>10 DEF TypeOK
  <2>2. alias'[new] = NewAlias(p, mode)
    BY <1>1, <1>2, <1>3, <1>5 DEF TypeOK
  <2> QED BY <1>9, <1>10, <2>1, <2>2 DEF NewAlias
<1>11. CASE mode.set /\ q # p
  <2>1. current'[q] = current[q]
    BY <1>1, <1>2, <1>6, <1>11 DEF TypeOK
  <2>2. current[q] # old
    BY <1>4, <1>7, <1>11
  <2>3. alias'[current[q]] = alias[current[q]]
    BY <1>1, <1>2, <1>7, <1>8, <2>2 DEF TypeOK
  <2> QED BY <1>7, <1>9, <2>1, <2>3
<1>12. CASE ~mode.set
  <2>1. current'[q] = current[q] /\ mode.set = FALSE
    BY <1>1, <1>3, <1>12 DEF Mode
  <2>2. CASE current[q] = old
    <3>1. q = p
      BY <1>4, <1>7, <2>2
    <3>2. alias'[old] = OldAlias(p, mode)
      BY <1>1, <1>2, <1>3, <1>5 DEF TypeOK
    <3>3. OldAlias(p, mode) = [owner |-> p, current |-> TRUE, disabled |-> FALSE]
      BY <2>1 DEF OldAlias
    <3> QED BY <1>9, <2>1, <2>2, <3>1, <3>2, <3>3
  <2>3. CASE current[q] # old
    <3>1. alias'[current[q]] = alias[current[q]]
      BY <1>1, <1>2, <1>7, <1>8, <2>3 DEF TypeOK
    <3> QED BY <1>7, <1>9, <2>1, <3>1
  <2> QED BY <2>2, <2>3
<1> QED BY <1>10, <1>11, <1>12

\* A code nobody knew names a new product.
NewProduct(b) ==
    /\ ~Known(b)
    /\ made < MaxProduct
    /\ made' = made + 1
    /\ current' = [current EXCEPT ![made + 1] = b]
    /\ alias' = [alias EXCEPT ![b] = [owner |-> made + 1, current |-> TRUE, disabled |-> FALSE]]

\* What a step may do to the identities, and to the other tables.
LEMMA IdentitySteps ==
    ASSUME IInv, [Next]_vars
    PROVE  \/ UNCHANGED <<made, current, alias>>
           \/ \E b \in Barcode : NewProduct(b)
           \/ \E t \in Thread : SwitchWrite(t)
<1>1. CASE UNCHANGED vars
  BY <1>1 DEF vars
<1>2. ASSUME NEW c \in Client, Desktop(c)
      PROVE  \/ UNCHANGED <<made, current, alias>>
             \/ \E b \in Barcode : NewProduct(b)
  <2>1. ASSUME NEW b \in Barcode, Resolve(c, b)
        PROVE  UNCHANGED <<made, current, alias>> \/ NewProduct(b)
    BY <2>1 DEF Resolve, NewProduct, tables
  <2>2. ASSUME NEW b \in Barcode,
               DegradedScan(c, b) \/ CallSwitch(c, b) \/ CallBind(c, b) \/ Cancel(c, b)
        PROVE  UNCHANGED <<made, current, alias>>
    BY <2>2 DEF DegradedScan, CallSwitch, CallBind, Call, Cancel, tables
  <2>3. CASE \/ VerifyEntry(c) \/ ValidateUse(c) \/ CallComplete(c)
             \/ GiveUp(c) \/ Reset(c)
    BY <2>3 DEF VerifyEntry, ValidateUse, CallComplete, Call, GiveUp, Reset, tables
  <2> QED BY <1>2, <2>1, <2>2, <2>3 DEF Desktop
<1>3. ASSUME NEW t \in Thread, Handler(t)
      PROVE  \/ UNCHANGED <<made, current, alias>>
             \/ \E b \in Barcode : NewProduct(b)
             \/ SwitchWrite(t)
  <2>1. CASE CompleteUnknown(t)
    <3>1. req[t] # None /\ RequestOk(req[t])
      BY <2>1 DEF CompleteUnknown, Doing, IInv, RequestInv
    <3>2. req[t].barcode \in Barcode /\ ~Known(req[t].barcode)
      BY <2>1, <3>1 DEF CompleteUnknown, Reported, Known, RequestOk, Names
    <3> QED BY <2>1, <3>2 DEF CompleteUnknown, NewProduct
  <2>2. CASE SwitchCheck(t) \/ BindCheck(t) \/ CompleteCheck(t) \/ HandlerFails(t)
    BY <2>2 DEF SwitchCheck, BindCheck, CompleteCheck, HandlerFails, Checked, tables
  <2>3. CASE BindWrite(t) \/ CompleteWrite(t)
    BY <2>3 DEF BindWrite, CompleteWrite
  <2> QED BY <1>3, <2>1, <2>2, <2>3 DEF Handler
<1>4. ASSUME NEW k \in bound, Unbind(k)
      PROVE  UNCHANGED <<made, current, alias>>
  BY <1>4 DEF Unbind
<1> QED BY <1>1, <1>2, <1>3, <1>4 DEF Next

LEMMA ResolvesStep ==
    ASSUME IInv, [Next]_vars
    PROVE  CurrentBarcodeResolves'
<1>1. TypeOK /\ CurrentBarcodeResolves
  BY DEF IInv
<1>2. CASE UNCHANGED <<made, current, alias>>
  BY <1>1, <1>2 DEF CurrentBarcodeResolves
<1>3. ASSUME NEW b \in Barcode, NewProduct(b)
      PROVE  CurrentBarcodeResolves'
  BY <1>1, <1>3, NewProductResolves DEF NewProduct
<1>4. ASSUME NEW t \in Thread, SwitchWrite(t)
      PROVE  CurrentBarcodeResolves'
  BY <1>4, SwitchResolves
<1> QED BY <1>2, <1>3, <1>4, IdentitySteps

\* A completion that a step records belongs to the product of its code, which may
\* work at its station.
LEMMA DoneSteps ==
    ASSUME IInv, Grows, [Next]_vars
    PROVE  \A r \in done' : \/ r \in done
                            \/ /\ alias'[r.barcode].owner = r.product \/ r \in relabelled'
                               /\ \A n \in Config[r.station].needs : <<n, r.product>> \in Past'
<1>1. CASE done' \subseteq done
  BY <1>1
<1>2. ASSUME NEW t \in Thread, NEW p, Record(t, p), req[t] # None,
             \/ alias'[req[t].barcode].owner = p
             \/ [station |-> At[req[t].client], barcode |-> req[t].barcode, product |-> p]
                    \in relabelled',
             req[t].product # NoProduct => p = req[t].product
      PROVE  \A r \in done' : \/ r \in done
                              \/ /\ alias'[r.barcode].owner = r.product \/ r \in relabelled'
                                 /\ \A n \in Config[r.station].needs : <<n, r.product>> \in Past'
  <2> DEFINE s == At[req[t].client]
             record == [station |-> s, barcode |-> req[t].barcode, product |-> p]
  <2>1. RequestOk(req[t]) /\ req[t].barcode \in Barcode
    BY <1>2 DEF IInv, RequestInv, RequestOk
  <2>2. done' = done \cup {record}
    BY <1>2 DEF Record
  <2>3. ASSUME NEW n \in Config[s].needs
        PROVE  <<n, p>> \in Past'
    <3>1. CASE req[t].product = NoProduct
      BY <1>2, <3>1 DEF Record, Past
    <3>2. CASE req[t].product # NoProduct
      BY <1>2, <2>1, <3>2 DEF RequestOk, Entered, Grows
    <3> QED BY <3>1, <3>2
  <2>4. /\ record.station = s /\ record.barcode = req[t].barcode /\ record.product = p
        /\ alias'[req[t].barcode].owner = p \/ record \in relabelled'
    BY <1>2
  <2> HIDE DEF record, s
  <2> QED BY <1>2, <2>1, <2>2, <2>3, <2>4
<1>3. ASSUME NEW t \in Thread, CompleteWrite(t)
      PROVE  \A r \in done' : \/ r \in done
                              \/ /\ alias'[r.barcode].owner = r.product \/ r \in relabelled'
                                 /\ \A n \in Config[r.station].needs : <<n, r.product>> \in Past'
  <2>1. /\ req[t] # None /\ Record(t, Reported(req[t])) /\ UNCHANGED <<alias, relabelled>>
        /\ RequestOk(req[t])
    BY <1>3 DEF CompleteWrite, Doing, IInv, RequestInv
  <2>2. /\ \/ alias'[req[t].barcode].owner = Reported(req[t])
           \/ [station |-> At[req[t].client], barcode |-> req[t].barcode,
               product |-> Reported(req[t])] \in relabelled'
        /\ req[t].product # NoProduct => Reported(req[t]) = req[t].product
    BY <2>1 DEF RequestOk, Names, Reported, Owner
  <2> QED BY <1>2, <2>1, <2>2
<1>4. ASSUME NEW t \in Thread, CompleteUnknown(t)
      PROVE  \A r \in done' : \/ r \in done
                              \/ /\ alias'[r.barcode].owner = r.product \/ r \in relabelled'
                                 /\ \A n \in Config[r.station].needs : <<n, r.product>> \in Past'
  <2>1. /\ req[t] # None /\ Record(t, made + 1) /\ Reported(req[t]) = NoProduct
        /\ alias' = [alias EXCEPT ![req[t].barcode] =
                        [owner |-> made + 1, current |-> TRUE, disabled |-> FALSE]]
        /\ RequestOk(req[t])
    BY <1>4 DEF CompleteUnknown, Doing, IInv, RequestInv
  <2>2. /\ alias'[req[t].barcode].owner = made + 1
        /\ req[t].product = NoProduct
    BY <2>1 DEF RequestOk, Reported, IInv, TypeOK
  <2> QED BY <1>2, <2>1, <2>2
<1>5. ASSUME NEW c \in Client, Desktop(c)
      PROVE  done' \subseteq done
  <2>1. ASSUME NEW b \in Barcode, Cancel(c, b)
        PROVE  done' \subseteq done
    BY <2>1, CancelSets
  <2>2. ASSUME NEW b \in Barcode,
               Resolve(c, b) \/ DegradedScan(c, b) \/ CallSwitch(c, b) \/ CallBind(c, b)
        PROVE  done' \subseteq done
    BY <2>2 DEF Resolve, DegradedScan, CallSwitch, CallBind, Call, tables
  <2>3. CASE \/ VerifyEntry(c) \/ ValidateUse(c) \/ CallComplete(c)
             \/ GiveUp(c) \/ Reset(c)
    BY <2>3 DEF VerifyEntry, ValidateUse, CallComplete, Call, GiveUp, Reset, tables
  <2> QED BY <1>5, <2>1, <2>2, <2>3 DEF Desktop
<1>6. ASSUME NEW t \in Thread, ~CompleteWrite(t), ~CompleteUnknown(t), Handler(t)
      PROVE  done' \subseteq done
  BY <1>6 DEF Handler, SwitchCheck, SwitchWrite, BindCheck, BindWrite, CompleteCheck,
              HandlerFails, Checked, tables
<1>7. ASSUME NEW k \in bound, Unbind(k)
      PROVE  done' \subseteq done
  BY <1>7 DEF Unbind
<1> QED BY <1>1, <1>3, <1>4, <1>5, <1>6, <1>7 DEF Next, vars

\* A binding that a step makes is of a child that is free and finished.
LEMMA BoundSteps ==
    ASSUME IInv, Grows, [Next]_vars
    PROVE  \/ bound' \subseteq bound
           \/ \E k : /\ bound' = bound \cup {k}
                     /\ \A l \in bound : l.child # k.child
                     /\ \A n \in Config[k.station].bindNeeds : <<n, k.child>> \in Past'
<1>1. ASSUME NEW t \in Thread, BindWrite(t)
      PROVE  \E k : /\ bound' = bound \cup {k}
                    /\ \A l \in bound : l.child # k.child
                    /\ \A n \in Config[k.station].bindNeeds : <<n, k.child>> \in Past'
  <2> DEFINE k == [station |-> At[req[t].client], parent |-> Owner(req[t].barcode),
                   child |-> Owner(req[t].other)]
  <2>1. BindOk(req[t]) /\ req[t].phase = "write"
    BY <1>1 DEF BindWrite, Doing, IInv, RequestInv, RequestOk
  <2>2. /\ bound' = bound \cup {k}
        /\ \A l \in bound : l.child # k.child
    BY <1>1 DEF BindWrite, Bindable
  <2>3. \A n \in Config[k.station].bindNeeds : <<n, k.child>> \in Past'
    BY <2>1 DEF BindOk, Grows
  <2> HIDE DEF k
  <2> QED BY <2>2, <2>3
<1>2. ASSUME NEW c \in Client, Desktop(c)
      PROVE  bound' = bound
  <2>1. ASSUME NEW b \in Barcode,
               \/ Resolve(c, b) \/ DegradedScan(c, b) \/ CallSwitch(c, b)
               \/ CallBind(c, b) \/ Cancel(c, b)
        PROVE  bound' = bound
    BY <2>1 DEF Resolve, DegradedScan, CallSwitch, CallBind, Call, Cancel, tables
  <2>2. CASE \/ VerifyEntry(c) \/ ValidateUse(c) \/ CallComplete(c)
             \/ GiveUp(c) \/ Reset(c)
    BY <2>2 DEF VerifyEntry, ValidateUse, CallComplete, Call, GiveUp, Reset, tables
  <2> QED BY <1>2, <2>1, <2>2 DEF Desktop
<1>3. ASSUME NEW t \in Thread, ~BindWrite(t), Handler(t)
      PROVE  bound' = bound
  BY <1>3 DEF Handler, SwitchCheck, SwitchWrite, BindCheck, CompleteCheck, CompleteWrite,
              CompleteUnknown, HandlerFails, Checked, tables
<1>4. ASSUME NEW k \in bound, Unbind(k)
      PROVE  bound' \subseteq bound
  BY <1>4 DEF Unbind
<1> QED BY <1>1, <1>2, <1>3, <1>4 DEF Next, vars

-----------------------------------------------------------------------------
(* Theorems.                                                               *)

LEMMA InvInit == Init => IInv
<1> SUFFICES ASSUME Init PROVE IInv
  OBVIOUS
<1>1. TypeOK
  BY FreeType DEF Init, TypeOK, Unused
<1>2. CurrentBarcodeResolves /\ RequestInv /\ LiveInv
  BY DEF Init, CurrentBarcodeResolves, RequestInv, LiveInv
<1>3. DeskInv
  BY FreeType DEF Init, DeskInv, DeskOk
<1>4. ChildHasOneParent /\ BuiltFromFinished /\ NoSkippedStation /\ CompletionTraceable
  BY DEF Init, ChildHasOneParent, BuiltFromFinished, NoSkippedStation, CompletionTraceable
<1> QED BY <1>1, <1>2, <1>3, <1>4 DEF IInv

LEMMA TypeStep ==
    ASSUME IInv, [Next]_vars
    PROVE  Grows /\ TypeOK' /\ DeskInv' /\ RequestInv' /\ LiveInv'
<1>1. Grows
  BY StepGrows DEF IInv
<1>2. TablesOK /\ CallersOK
  BY TypeParts DEF IInv
<1> SUFFICES TablesOK' /\ CallersOK' /\ DeskInv' /\ RequestInv' /\ LiveInv'
  BY <1>1 DEF TypeOK, TablesOK, CallersOK, Exist
<1>3. ASSUME UNCHANGED <<desk, req>>, UNCHANGED <<made, current, alias, switched, done, scans, waived, relabelled>>,
             bound' \subseteq bound
      PROVE  TablesOK' /\ CallersOK' /\ DeskInv' /\ RequestInv' /\ LiveInv'
  <2>1. TablesOK' /\ CallersOK'
    BY <1>2, <1>3 DEF TablesOK, CallersOK
  <2>2. DeskInv' /\ RequestInv' /\ LiveInv'
    BY <1>3 DEF IInv, DeskInv, DeskOk, Fine, RequestInv, RequestOk, SwitchOk, BindOk, CompleteOk,
                LiveInv, Names, Entered, Past, Known, Owner, Reported
  <2> QED BY <2>1, <2>2
<1>4. CASE UNCHANGED vars
  BY <1>3, <1>4 DEF vars
<1>5. ASSUME NEW c \in Client, Desktop(c)
      PROVE  TablesOK' /\ CallersOK' /\ DeskInv' /\ RequestInv' /\ LiveInv'
  BY <1>1, <1>5, DesktopTables, DesktopCallers
<1>6. ASSUME NEW t \in Thread, Handler(t)
      PROVE  TablesOK' /\ CallersOK' /\ DeskInv' /\ RequestInv' /\ LiveInv'
  BY <1>1, <1>6, HandlerTables, HandlerCallers
<1>7. ASSUME NEW k \in bound, Unbind(k)
      PROVE  TablesOK' /\ CallersOK' /\ DeskInv' /\ RequestInv' /\ LiveInv'
  BY <1>3, <1>7 DEF Unbind
<1> QED BY <1>4, <1>5, <1>6, <1>7 DEF Next

LEMMA SafetyStep ==
    ASSUME IInv, Grows, [Next]_vars
    PROVE  ChildHasOneParent' /\ BuiltFromFinished' /\ NoSkippedStation' /\ CompletionTraceable'
<1>1. /\ Past \subseteq Past' /\ relabelled \subseteq relabelled'
      /\ \A b \in Barcode : Known(b) => alias'[b].owner = alias[b].owner
  BY DEF Grows
<1>2. NoSkippedStation'
  <2> SUFFICES \A r \in done' : \A n \in Config[r.station].needs : <<n, r.product>> \in Past'
    BY PastMeaningNext
  <2>1. \A r \in done : \A n \in Config[r.station].needs : <<n, r.product>> \in Past'
    BY <1>1, PastMeaning DEF IInv
  <2> QED BY <2>1, DoneSteps
<1>3. CompletionTraceable'
  <2>1. \A r \in done : alias'[r.barcode].owner = r.product \/ r \in relabelled'
    <3>1. \A r \in done : r.barcode \in Barcode /\ r.product # NoProduct
      BY DEF IInv, TypeOK
    <3> QED BY <1>1, <3>1 DEF IInv, CompletionTraceable, Known, Owner
  <2> QED BY <2>1, DoneSteps DEF CompletionTraceable, Owner
<1>4. ChildHasOneParent'
  BY BoundSteps DEF ChildHasOneParent, IInv
<1>5. BuiltFromFinished'
  <2> SUFFICES \A k \in bound' : \A n \in Config[k.station].bindNeeds : <<n, k.child>> \in Past'
    BY PastMeaningNext
  <2>1. \A k \in bound : \A n \in Config[k.station].bindNeeds : <<n, k.child>> \in Past'
    BY <1>1, PastMeaning DEF IInv
  <2> QED BY <2>1, BoundSteps
<1> QED BY <1>2, <1>3, <1>4, <1>5

LEMMA InvStep == IInv /\ [Next]_vars => IInv'
BY TypeStep, ResolvesStep, SafetyStep DEF IInv

LEMMA NeverBackStep ==
    ASSUME IInv, [Next]_vars, NEW b \in Barcode, Known(b)
    PROVE  /\ alias'[b].owner = Owner(b)
           /\ SwitchesDisable /\ ~Allowed(b) => ~Allowed(b)'
<1>1. TypeOK /\ alias'[b].owner = Owner(b)
  BY StepGrows DEF IInv, Grows, Owner
<1>2. SUFFICES ASSUME SwitchesDisable, ~Allowed(b)
               PROVE  ~Allowed(b)'
  BY <1>1
<1>3. Owner(b) \in 1..made /\ alias[b] \in [owner: 0..made, current: BOOLEAN, disabled: BOOLEAN]
  BY <1>1 DEF TypeOK, Known, Owner
<1>4. CASE UNCHANGED <<made, current, alias>>
  BY <1>2, <1>4 DEF Allowed, Known, Owner
<1>5. ASSUME NEW d \in Barcode, NewProduct(d)
      PROVE  ~Allowed(b)'
  <2>1. alias'[b] = alias[b] /\ current'[Owner(b)] = current[Owner(b)]
    BY <1>1, <1>3, <1>5 DEF NewProduct, TypeOK
  <2> QED BY <1>2, <2>1 DEF Allowed, Known, Owner
<1>6. ASSUME NEW t \in Thread, SwitchWrite(t)
      PROVE  ~Allowed(b)'
  <2> DEFINE old == req[t].barcode
             new == req[t].other
             mode == req[t].mode
             p == Owner(old)
  <2>1. /\ req[t] # None /\ req[t].op = "switch" /\ req[t].phase = "write"
        /\ ~Known(new)
        /\ alias' = [alias EXCEPT ![old] = OldAlias(p, mode), ![new] = NewAlias(p, mode)]
        /\ current' = IF mode.set THEN [current EXCEPT ![p] = new] ELSE current
    BY <1>6 DEF SwitchWrite, Doing, FreeCode
  <2>2. RequestOk(req[t]) /\ req[t] \in Request
    BY <1>1, <2>1 DEF IInv, RequestInv, TypeOK
  <2>3. /\ old \in Barcode /\ new \in Barcode /\ mode \in Mode /\ Known(old)
        /\ mode.set => mode.disable
    <3>1. SwitchOk(req[t]) /\ req[t].client \in Client /\ old \in Barcode
      BY <2>1, <2>2 DEF RequestOk, Names, Request
    <3>2. At[req[t].client] \in Station
      BY <3>1
    <3> QED BY <1>2, <2>1, <3>1, <3>2 DEF SwitchOk, SwitchesDisable
  <2>4. b # new
    BY <2>1
  <2> HIDE DEF old, new, mode, p
  <2>5. CASE b # old
    <3>1. alias'[b] = alias[b]
      BY <1>1, <2>1, <2>4, <2>5 DEF TypeOK
    <3>2. current'[Owner(b)] = current[Owner(b)] \/ current'[Owner(b)] = new
      BY <1>1, <1>3, <2>1 DEF TypeOK
    <3> QED BY <1>2, <2>4, <3>1, <3>2 DEF Allowed, Known, Owner
  <2>6. CASE b = old
    <3>1. p = Owner(b) /\ alias'[b] = OldAlias(p, mode)
      BY <1>1, <2>1, <2>3, <2>4, <2>6 DEF TypeOK, p
    <3>2. CASE mode.set
      <4>1. mode.set = TRUE /\ mode.disable = TRUE
        BY <2>3, <3>2 DEF Mode
      <4>2. alias'[b] = [owner |-> p, current |-> FALSE, disabled |-> TRUE]
        BY <3>1, <4>1 DEF OldAlias
      <4> QED BY <4>2 DEF Allowed, Owner
    <3>3. CASE ~mode.set
      <4>1. mode.set = FALSE /\ current' = current
        BY <2>1, <2>3, <3>3 DEF Mode
      <4>2. alias'[b] = [owner |-> p, current |-> TRUE, disabled |-> FALSE]
        BY <3>1, <4>1 DEF OldAlias
      <4>3. current[p] # b
        <5>1. CASE alias[b].current
          BY <1>2, <3>1, <5>1 DEF Allowed, Known, Owner
        <5>2. CASE ~alias[b].current
          <6>1. p \in 1..made
            BY <1>3, <3>1
          <6>2. alias[current[p]] = [owner |-> p, current |-> TRUE, disabled |-> FALSE]
            BY <6>1 DEF IInv, CurrentBarcodeResolves
          <6> QED BY <5>2, <6>2
        <5> QED BY <5>1, <5>2
      <4> QED BY <4>1, <4>2, <4>3 DEF Allowed, Owner
    <3> QED BY <3>2, <3>3
  <2> QED BY <2>5, <2>6
<1> QED BY <1>4, <1>5, <1>6, IdentitySteps

-----------------------------------------------------------------------------
(* The theorems.                                                           *)

\* The product tables, the handlers under way and the clients agree in every
\* reachable state.
THEOREM InvCorrect == Spec => []IInv
<1>1. IInv /\ [Next]_vars => IInv'
  BY InvStep
<1>2. QED
  BY <1>1, InvInit, PTL DEF Spec

\* The tables, the requests and the clients stay well typed, and no row refers to a
\* product before it exists.
THEOREM TypeCorrect == Spec => []TypeOK
<1>1. IInv => TypeOK
  BY DEF IInv
<1>2. QED
  BY <1>1, InvCorrect, PTL

\* Whatever switches of a product overlap, the code its row names is an enabled,
\* current alias of its own.
THEOREM CurrentAlwaysResolves == Spec => []CurrentBarcodeResolves
<1>1. IInv => CurrentBarcodeResolves
  BY DEF IInv
<1>2. QED
  BY <1>1, InvCorrect, PTL

\* Whatever bindings overlap, a part is in one parent at most.
THEOREM OneParentAlways == Spec => []ChildHasOneParent
<1>1. IInv => ChildHasOneParent
  BY DEF IInv
<1>2. QED
  BY <1>1, InvCorrect, PTL

\* No part is built in that has not passed the stations its binding asks for, except
\* by a cancellation.
THEOREM FinishedPartsAlways == Spec => []BuiltFromFinished
<1>1. IInv => BuiltFromFinished
  BY DEF IInv
<1>2. QED
  BY <1>1, InvCorrect, PTL

\* No product passes a station without the stations it needs, except by a
\* cancellation or in degraded mode.
THEOREM NoSkippedStationAlways == Spec => []NoSkippedStation
<1>1. IInv => NoSkippedStation
  BY DEF IInv
<1>2. QED
  BY <1>1, InvCorrect, PTL

\* Every completion is found under the product its barcode belongs to, except where the
\* code was scanned in degraded mode over that product.
THEOREM TraceableAlways == Spec => []CompletionTraceable
<1>1. IInv => CompletionTraceable
  BY DEF IInv
<1>2. QED
  BY <1>1, InvCorrect, PTL

\* No code changes its product; where replaced codes are disabled, none that was
\* refused comes back.
THEOREM NeverBackAlways == Spec => NeverBack
<1> DEFINE Kept ==
      \A b \in Barcode :
          Known(b) => /\ alias'[b].owner = Owner(b)
                      /\ SwitchesDisable /\ ~Allowed(b) => ~Allowed(b)'
<1>1. IInv /\ [Next]_vars => [Kept]_vars
  <2> SUFFICES ASSUME IInv, [Next]_vars PROVE Kept
    OBVIOUS
  <2> QED BY NeverBackStep
<1>2. QED
  BY <1>1, InvCorrect, PTL DEF Spec, NeverBack
=============================================================================
