---------------------------- MODULE StationClient ----------------------------
(***************************************************************************)
(* The window of a station taking a product through its steps              *)
(* (src/desktop_app/window.py), with the two workers that read a PLC: the  *)
(* one that polls a counter and a barcode (plc_worker.py), and the one     *)
(* that goes through the magnet sequence (shared/plc_magnet_flow.py).      *)
(*                                                                         *)
(* The workers run in threads of their own and answer with signals, which  *)
(* are queued; a handler is one step.  Signals carry the generation of     *)
(* their worker and are ignored once it has been stopped: here a stop      *)
(* empties the queue.  A stopped worker writes no more.                    *)
(*                                                                         *)
(* The line, the rig and the operator are modelled from how the code uses  *)
(* them, and so are the answers to a download and to a request for the     *)
(* lease (StationSession has those).  The window stays in online mode.      *)
(* The screw gun, barcode switches and material bindings have modules of   *)
(* their own; waiting times, labels, records and logs are left out.        *)
(***************************************************************************)
EXTENDS Integers, Sequences

CONSTANTS
    Layouts,        \* the stations' steps: "main" and "part" are scanned, "plcmain"
                    \* and "plc" received, "magnet" measured
    Elsewhere,      \* bound: those of the stations a window is switched to
    Code,           \* main barcodes
    None,           \* no barcode, and no counter
    MaxCount,       \* bound: the line's counter, which then starts again
    Disturbances,   \* bound: refusals, cancellations, resets, changes of mode or station
    QueueBound      \* bound: signals waiting when a worker reads on, and advances due

ASSUME StationClientAssumption ==
    /\ Layouts \subseteq Seq({"main", "part", "plcmain", "plc", "magnet"})
    /\ \A l \in Layouts : Len(l) > 0
    /\ Elsewhere \subseteq Layouts
    /\ None \notin Code /\ None \notin Nat
    /\ MaxCount \in Nat \ {0} /\ Disturbances \in Nat /\ QueueBound \in Nat \ {0}

VARIABLES
    station,    \* "held" with its steps and its lease, as production needs; "asked" for
                \* while another device holds it; or "shut"
    app,        \* the window
    plc,        \* the worker that polls counter and barcode, as the window knows it
    snaps,      \* its snapshots not handled yet, in order
    magnet,     \* the worker of the magnet sequence
    events,     \* its results not handled yet, in order
    line,       \* the line: the barcode and the counter of its PLC
    rig,        \* the registers of the magnet rig
    used        \* disturbances so far

vars == <<station, app, plc, snaps, magnet, events, line, rig, used>>

Snap == [count: 0..MaxCount, code: Code \cup {None},
         of: Code \cup {None}]  \* history: the part that raised the counter last

\* History: begun for the product in hand, for an earlier one, or for an earlier one and
\* found by the prompt of a first step, which lets it be.
Whose == {"own", "earlier", "kept"}

Event == [result: {"ok", "ng", "error"}, whose: Whose]

Plc == [pc: {"off", "starting", "idle", "counted", "dead"},
        count: 0..MaxCount, of: Code \cup {None},   \* read, and its part
        ending: BOOLEAN,        \* the thread of an earlier worker has yet to report its end
        stale: BOOLEAN]         \* history: it was left polling when a part was cancelled

Magnet == [pc: {"off", "connect", "ready", "clamp", "screwed", "measure", "read", "finish"},
           whose: Whose]

Line == [code: Code \cup {None}, count: 0..MaxCount,
         finished: BOOLEAN,     \* the part that shows its code is finished
         seen: BOOLEAN,         \* a snapshot was taken since
         of: Code \cup {None}]

Rig == [ready: BOOLEAN, clamped: BOOLEAN, screwed: BOOLEAN, measured: BOOLEAN]

App == [steps: Layouts, index: Nat \ {0}, done: SUBSET Nat,
        code: Code \cup {None},     \* current_barcode
        known: BOOLEAN,             \* current_product_instance_id is set
        degraded: BOOLEAN, cancelling: BOOLEAN,     \* cancel_mode_active
        base: 0..MaxCount \cup {None},      \* plc_last_parts_ok
        last: Code \cup {None},             \* plc_last_main_barcode
        pending: Code \cup {None},          \* plc_pending_main_barcode
        waiting: BOOLEAN,                   \* plc_waiting_parts_ok
        due: 0..QueueBound,         \* calls of advance_step scheduled
        prompt: BOOLEAN,            \* a call of prompt_current_step_start is
        stray: BOOLEAN,     \* history: a scheduled advance came to another step, or a
                            \* cancellation moved the window to a later one
        left: SUBSET Nat,   \* history: steps not done of the last product completed,
        excused: BOOLEAN]   \* and whether it had gone astray

Station == {"held", "asked", "shut"}

enabled == station = "held"     \* production_enabled

-----------------------------------------------------------------------------
(* The window's helpers work on the window, its workers and their signals.  *)

Client == [a |-> app, plc |-> plc, snaps |-> snaps, magnet |-> magnet, events |-> events]
Does(s) == /\ app' = s.a /\ plc' = s.plc /\ snaps' = s.snaps
           /\ magnet' = s.magnet /\ events' = s.events

Type(a) == a.steps[a.index]
Receiving(a) == Type(a) \in {"plc", "plcmain"}

\* The end of a stopped worker's thread is reported later (OldThreadEnds).
StopPlc(s) ==
    [s EXCEPT !.plc = [@ EXCEPT !.pc = "off", !.stale = FALSE,
                                !.ending = s.plc.ending \/ s.plc.pc # "off"],
              !.snaps = <<>>]

\* Mutant: a new worker goes on from the old baseline.
StartPlcOnly(s) == IF s.plc.pc # "off" THEN s
                   ELSE [s EXCEPT !.plc = [@ EXCEPT !.pc = "starting", !.stale = FALSE]]

StartPlc(s) ==
    IF s.plc.pc # "off" THEN s
    ELSE [s EXCEPT !.plc = [@ EXCEPT !.pc = "starting", !.stale = FALSE],
                   !.a = [@ EXCEPT !.base = None, !.last = None,
                                   !.pending = None, !.waiting = FALSE]]

\* Mutant: the generation does not change, and what was sent before still counts.
StopMagnetOnly(s) == [s EXCEPT !.magnet.pc = "off"]

StopMagnet(s) == [s EXCEPT !.magnet.pc = "off", !.events = <<>>]

Kept(r) == IF r.whose = "earlier" THEN [r EXCEPT !.whose = "kept"] ELSE r

\* History: at a first step, what is still under way is an earlier product's.
Found(s) ==
    IF s.a.index > 1 THEN s
    ELSE [s EXCEPT !.magnet = Kept(@), !.events = [i \in DOMAIN @ |-> Kept(@[i])]]

\* A worker that runs is left to itself, and a result of it that waits still counts.
StartMagnet(s) ==
    LET f == Found(s)
    IN  IF s.magnet.pc # "off" THEN f
        ELSE [f EXCEPT !.magnet = [pc |-> "connect", whose |-> "own"]]

\* What prompt_current_step_start starts and stops once production is enabled.
PromptStep(s) ==
    IF s.a.degraded THEN StopMagnet(StopPlc(s))
    ELSE IF Receiving(s.a) THEN StartPlc(StopMagnet(s))
    ELSE IF Type(s.a) = "magnet" THEN StartMagnet(StopPlc(s))
    ELSE StopMagnet(StopPlc(s))

\* Mutant: a step is prompted whether production is enabled or not.
PromptAnyway(s) == PromptStep(s)

\* prompt_current_step_start.
Prompt(s) == IF enabled THEN PromptStep(s) ELSE s

\* A step is done while an advance is due.
Overtaken(a) == [a EXCEPT !.stray = @ \/ a.due > 0]

\* The next product; what is still under way was begun for the last.
Renewed(s) ==
    [s EXCEPT !.a = [@ EXCEPT !.index = 1, !.done = {}, !.code = None, !.known = FALSE,
                              !.stray = s.a.due > 0],
              !.magnet.whose = "earlier",
              !.events = [i \in DOMAIN @ |-> [@[i] EXCEPT !.whose = "earlier"]]]

Completed(s) ==
    [s EXCEPT !.a.left = DOMAIN s.a.steps \ s.a.done, !.a.excused = s.a.stray]

\* Mutant: a refused completion does not go back to the last step.
AdvancePast(s, accepted) ==
    IF ~enabled THEN s
    ELSE IF s.a.index < Len(s.a.steps) THEN Prompt([s EXCEPT !.a.index = @ + 1])
    ELSE IF accepted /\ s.a.code # None THEN Prompt(Renewed(Completed(s)))
    ELSE [s EXCEPT !.a.index = @ + 1]

\* advance_step: accepted is the server's answer to the station's completion.
Advance(s, accepted) ==
    IF ~enabled THEN s
    ELSE IF s.a.index < Len(s.a.steps) THEN Prompt([s EXCEPT !.a.index = @ + 1])
    ELSE IF accepted /\ s.a.code # None THEN Prompt(Renewed(Completed(s)))
    ELSE s

Done(s) == [s EXCEPT !.a = [Overtaken(s.a) EXCEPT !.done = @ \cup {s.a.index}]]

-----------------------------------------------------------------------------
(* What the window makes of a snapshot (on_plc_snapshot).                   *)

\* The window once it has looked at the snapshot's barcode.
Looked(a, p) ==
    IF p.code \in {None, a.last} THEN a
    ELSE [a EXCEPT !.pending = p.code, !.waiting = TRUE, !.last = p.code]

Confirms(a, p) ==
    /\ a.base # None /\ p.count > a.base
    /\ Looked(a, p).waiting /\ Looked(a, p).pending # None

\* The barcode a snapshot confirms, if any.
Confirmed(a, p) == IF Confirms(a, p) THEN Looked(a, p).pending ELSE None

Rebased(a, p) ==
    IF a.base = None THEN [a EXCEPT !.base = p.count, !.last = p.code]
    ELSE IF p.count < a.base
    THEN [Looked(a, p) EXCEPT !.base = p.count, !.pending = None, !.waiting = FALSE]
    ELSE [Looked(a, p) EXCEPT !.base = p.count]

\* complete_plc_step: passes is the server's answer on a main barcode.
Received(s, code, passes, accepted) ==
    LET main == Type(s.a) = "plcmain"
        fits == IF main THEN passes ELSE s.a.code = code
        cleared == [s.a EXCEPT !.pending = None, !.waiting = FALSE]
        taken == IF main THEN [cleared EXCEPT !.code = code, !.known = TRUE] ELSE cleared
    IN  IF fits THEN Advance(StopPlc(Done([s EXCEPT !.a = taken])), accepted)
        ELSE [s EXCEPT !.a = [cleared EXCEPT !.last = None]]

-----------------------------------------------------------------------------
(* Steps of the window.                                                     *)

Disturb(n) == used + n <= Disturbances /\ used' = used + n
Refusal(accepted) == Disturb(IF accepted THEN 0 ELSE 1)

OnSnapshot ==
    /\ snaps # <<>>
    /\ LET p == Head(snaps)
           s == [Client EXCEPT !.snaps = Tail(@)]
           read == [s EXCEPT !.a = Rebased(@, p)]
       IN  IF ~Receiving(app) \/ ~enabled THEN Does(s) /\ UNCHANGED used
           ELSE IF ~Confirms(app, p) THEN Does(read) /\ UNCHANGED used
           ELSE \E passes, accepted \in BOOLEAN :
                   /\ Disturb((IF passes THEN 0 ELSE 1) + (IF accepted THEN 0 ELSE 1))
                   /\ Does(Received(read, Confirmed(app, p), passes, accepted))
    /\ UNCHANGED <<line, rig>>

\* cleanup_plc_worker, for the thread of an earlier worker: it drops the one in hand,
\* whoever that is, and a worker nobody refers to is deleted.
OldThreadEnds ==
    /\ plc.ending
    /\ plc' = [plc EXCEPT !.pc = "off", !.ending = FALSE]
    /\ UNCHANGED <<app, snaps, magnet, events, line, rig, used>>

\* Mutant: a result that is not OK moves on too.
MeasuredAny(s, result) ==
    IF result = "ok" THEN [Done(s) EXCEPT !.a.due = @ + 1]
    ELSE IF result = "ng" THEN [s EXCEPT !.a.due = @ + 1] ELSE s

\* on_plc_magnet_completed and _error: the advance is called 100 ms later.
Measured(s, result) ==
    IF result = "ok" THEN [Done(s) EXCEPT !.a.due = @ + 1] ELSE s

OnMagnet ==
    /\ events # <<>> /\ app.due < QueueBound
    /\ LET s == [Client EXCEPT !.events = Tail(@)]
       IN  Does(IF Type(app) = "magnet" THEN Measured(s, Head(events).result) ELSE s)
    /\ UNCHANGED <<line, rig, used>>

\* The step it comes to is not looked at.
LateAdvance ==
    /\ app.due > 0
    /\ \E accepted \in BOOLEAN :
          /\ Refusal(accepted)
          /\ Does(Advance([Client EXCEPT !.a.due = @ - 1], accepted))
    /\ UNCHANGED <<line, rig>>

\* A scanned code that passes its checks (they belong to ProductFlow).
Scan ==
    /\ enabled /\ ~app.degraded /\ ~app.cancelling /\ Type(app) \in {"main", "part"}
    /\ \E code \in (IF Type(app) = "main" THEN Code ELSE {app.code}), accepted \in BOOLEAN :
          /\ Refusal(accepted)
          /\ Does(Advance(Done([Client EXCEPT !.a.code = code,
                                              !.a.known = @ \/ Type(app) = "main"]), accepted))
    /\ UNCHANGED <<line, rig>>

\* complete_step_in_degraded_mode: any code at any step.
DegradedScan ==
    /\ enabled /\ app.degraded /\ ~app.cancelling
    /\ \E code \in Code, accepted \in BOOLEAN :
          /\ Refusal(accepted)
          /\ LET named == IF Type(app) \in {"main", "plcmain"} \/ app.code = None
                          THEN code ELSE app.code
             IN  Does(Advance(Done([Client EXCEPT !.a.code = named]), accepted))
    /\ UNCHANGED <<line, rig>>

\* The cancel code and the administrator's password: the next code scanned is cancelled.
EnterCancel ==
    /\ ~app.cancelling
    /\ Disturb(1)
    /\ app' = [app EXCEPT !.cancelling = TRUE]
    /\ UNCHANGED <<plc, snaps, magnet, events, line, rig>>

\* The dialog is closed, the time is over, or the server refuses the cancellation.
LeaveCancel ==
    /\ app.cancelling
    /\ app' = [app EXCEPT !.cancelling = FALSE]
    /\ UNCHANGED <<plc, snaps, magnet, events, line, rig, used>>

\* cancel_scanned_barcode, for a part: the window goes back to its step, and its worker
\* stays as it is.  A product the server does not know may match a part of an earlier one.
CancelPart ==
    /\ enabled /\ app.cancelling
    /\ \E i \in DOMAIN app.steps :
          /\ app.steps[i] = "part" /\ (i \in app.done \/ ~app.known)
          /\ app' = [app EXCEPT !.index = i, !.done = @ \ {i}, !.cancelling = FALSE,
                                !.stray = @ \/ app.due > 0 \/ i > app.index]
    /\ plc' = [plc EXCEPT !.stale = @ \/ plc.pc # "off"]
    /\ UNCHANGED <<snaps, magnet, events, line, rig, used>>

\* cancel_scanned_barcode, for a main barcode, of this product or an earlier one.
CancelMain ==
    /\ enabled /\ app.cancelling
    /\ Does(Prompt(Renewed([Client EXCEPT !.a.cancelling = FALSE])))
    /\ UNCHANGED <<line, rig, used>>

\* The button "重新开始当前产品" (reset_current_product).  The dialog of a cancellation is
\* modal: nothing else of the window can be clicked.
Reset ==
    /\ ~app.cancelling
    /\ Disturb(1)
    /\ Does(Prompt(Renewed(Client)))
    /\ UNCHANGED <<line, rig>>

\* change_degraded_mode, to on, and to off with its call of prompt_current_step_start.
DegradedOn ==
    /\ ~app.degraded /\ ~app.cancelling
    /\ Disturb(1)
    /\ Does(StopMagnet(StopPlc([Client EXCEPT !.a.degraded = TRUE])))
    /\ UNCHANGED <<line, rig>>

DegradedOff ==
    /\ app.degraded /\ ~app.cancelling
    /\ app' = [app EXCEPT !.degraded = FALSE, !.prompt = TRUE]
    /\ UNCHANGED <<plc, snaps, magnet, events, line, rig, used>>

PromptDue ==
    /\ app.prompt
    /\ Does(Prompt([Client EXCEPT !.a.prompt = FALSE]))
    /\ UNCHANGED <<line, rig, used>>

\* The window at another station, or its own with new steps: the workers are stopped,
\* and nothing of the product stays.
Switched(steps) == [Renewed(StopMagnet(StopPlc(Client))) EXCEPT !.a.steps = steps]

\* switch_station: the download may fail, and another device may hold the station.
\* It counts as two disturbances.
SwitchStation ==
    /\ ~app.cancelling
    /\ Disturb(2)
    /\ \E steps \in Elsewhere, ends \in Station :
          /\ station' = ends
          /\ Does(IF ends = "held" THEN PromptStep(Switched(steps)) ELSE Switched(steps))
    /\ UNCHANGED <<line, rig>>

\* force_acquire_station_session, from the dialog of a station another device holds.
TakeStation ==
    /\ station = "asked" /\ ~app.cancelling
    /\ station' = "held"
    /\ Does(PromptStep(Client))
    /\ UNCHANGED <<line, rig, used>>

-----------------------------------------------------------------------------
(* The worker that polls (PlcPollWorker, S7PlcClient.read_snapshot).        *)

\* A connection that fails is not tried again, and the worker counts as started.
PlcStart ==
    /\ plc.pc = "starting"
    /\ plc' \in {[plc EXCEPT !.pc = "idle"], [plc EXCEPT !.pc = "dead"]}
    /\ UNCHANGED <<app, snaps, magnet, events, line, rig, used>>

ReadCount ==
    /\ plc.pc = "idle" /\ Len(snaps) < QueueBound
    /\ plc' = [plc EXCEPT !.pc = "counted", !.count = line.count, !.of = line.of]
    /\ UNCHANGED <<app, snaps, magnet, events, line, rig, used>>

\* The barcode is read after the counter.
ReadCode ==
    /\ plc.pc = "counted"
    /\ snaps' = Append(snaps, [count |-> plc.count, code |-> line.code, of |-> plc.of])
    /\ plc' = [plc EXCEPT !.pc = "idle"]
    /\ line' = [line EXCEPT !.seen = @ \/ plc.count = line.count]
    /\ UNCHANGED <<app, magnet, events, rig, used>>

\* A read fails, once or, as nothing connects again, for good.
ReadFails ==
    /\ plc.pc \in {"idle", "counted"}
    /\ plc' \in {[plc EXCEPT !.pc = "idle"], [plc EXCEPT !.pc = "dead"]}
    /\ UNCHANGED <<app, snaps, magnet, events, line, rig, used>>

-----------------------------------------------------------------------------
(* The magnet sequence (PlcMagnetFlowController.run).  A register that reads *)
(* 1 ends a wait, whoever it was set for.                                    *)

Goes(from, to, there, then) ==
    /\ magnet.pc = from /\ there
    /\ magnet' = [magnet EXCEPT !.pc = to]
    /\ rig' = then
    /\ UNCHANGED <<app, plc, snaps, events, line, used>>

MagnetConnect == Goes("connect", "ready", TRUE, rig)
WriteReady == Goes("ready", "clamp", TRUE, [rig EXCEPT !.ready = TRUE])
SeesClamped == Goes("clamp", "screwed", rig.clamped, rig)
WriteScrewed == Goes("screwed", "measure", TRUE, [rig EXCEPT !.screwed = TRUE])
SeesMeasured == Goes("measure", "read", rig.measured, rig)
ReadBlock == Goes("read", "finish", TRUE, rig)

Ends(result) ==
    /\ magnet' = [magnet EXCEPT !.pc = "off"]
    /\ events' = Append(events, [result |-> result, whose |-> magnet.whose])
    /\ UNCHANGED <<app, plc, snaps, line, used>>

\* A block in which a side is not OK: the end of the measurement is not written.
MagnetNg == magnet.pc = "read" /\ Ends("ng") /\ UNCHANGED rig

Cleared == [ready |-> FALSE, clamped |-> FALSE, screwed |-> FALSE, measured |-> FALSE]

\* The end is written, and the rig resets its registers.
WriteDone == magnet.pc = "finish" /\ Ends("ok") /\ rig' = Cleared

\* A wait runs out, or a read, a write or its verification fails.
MagnetFails == magnet.pc # "off" /\ Ends("error") /\ UNCHANGED rig

-----------------------------------------------------------------------------
(* The line and the rig.                                                    *)

\* The code of the next part is shown.  The line is slower than the polls: it waits for
\* the last count to be read, unless nobody reads.
Load ==
    /\ line.finished
    /\ line.seen \/ (plc.pc \in {"off", "dead"} /\ snaps = <<>>)
    /\ \E code \in Code \cup {None} :
          /\ code # line.code
          /\ line' = [line EXCEPT !.code = code, !.finished = code = None]
    /\ UNCHANGED <<app, plc, snaps, magnet, events, rig, used>>

Finish ==
    /\ ~line.finished /\ line.count < MaxCount
    /\ line' = [line EXCEPT !.count = @ + 1, !.finished = TRUE, !.seen = FALSE, !.of = line.code]
    /\ UNCHANGED <<app, plc, snaps, magnet, events, rig, used>>

\* The PLC is restarted, or its counter cleared for the shift or at its end.
Restart ==
    /\ line.count > 0
    /\ line' = [line EXCEPT !.count = 0, !.seen = FALSE]
    /\ UNCHANGED <<app, plc, snaps, magnet, events, rig, used>>

RigStep ==
    /\ \/ rig.ready /\ ~rig.clamped /\ rig' = [rig EXCEPT !.clamped = TRUE]
       \/ rig.screwed /\ rig.clamped /\ ~rig.measured /\ rig' = [rig EXCEPT !.measured = TRUE]
       \/ rig.ready /\ rig' = Cleared
    /\ UNCHANGED <<app, plc, snaps, magnet, events, line, used>>

-----------------------------------------------------------------------------

\* The first step is about to be prompted.
Init ==
    /\ \E steps \in Layouts :
          app = [steps |-> steps, index |-> 1, done |-> {}, code |-> None, known |-> FALSE,
                 degraded |-> FALSE, cancelling |-> FALSE,
                 base |-> None, last |-> None, pending |-> None, waiting |-> FALSE,
                 due |-> 0, prompt |-> TRUE, stray |-> FALSE,
                 left |-> {}, excused |-> FALSE]
    /\ plc = [pc |-> "off", count |-> 0, of |-> None, ending |-> FALSE, stale |-> FALSE]
    /\ magnet = [pc |-> "off", whose |-> "earlier"]
    /\ snaps = <<>> /\ events = <<>>
    /\ line = [code |-> None, count |-> 0, finished |-> TRUE, seen |-> FALSE, of |-> None]
    /\ rig = Cleared
    /\ used = 0
    /\ station = "held"

WindowStep ==
    \/ OnSnapshot \/ OldThreadEnds \/ OnMagnet \/ LateAdvance \/ Scan \/ DegradedScan
    \/ EnterCancel \/ LeaveCancel \/ CancelPart \/ CancelMain \/ Reset
    \/ DegradedOn \/ DegradedOff \/ PromptDue

PlcStep == PlcStart \/ ReadCount \/ ReadCode \/ ReadFails

MagnetStep ==
    \/ MagnetConnect \/ WriteReady \/ SeesClamped \/ WriteScrewed \/ SeesMeasured
    \/ ReadBlock \/ MagnetNg \/ WriteDone \/ MagnetFails

ShopStep == Load \/ Finish \/ Restart \/ RigStep

Next ==
    \/ (WindowStep \/ PlcStep \/ MagnetStep \/ ShopStep) /\ UNCHANGED station
    \/ SwitchStation \/ TakeStation

Spec == Init /\ [][Next]_vars

-----------------------------------------------------------------------------
(* Properties.                                                              *)

TypeOK ==
    /\ station \in Station
    /\ app \in App /\ app.index \in DOMAIN app.steps /\ app.done \subseteq DOMAIN app.steps
    /\ plc \in Plc /\ magnet \in Magnet /\ line \in Line /\ rig \in Rig
    /\ snaps \in Seq(Snap) /\ events \in Seq(Event) /\ used \in 0..Disturbances

\* README, PLC rules 1 to 5: the barcode a snapshot confirms is that of the part whose
\* end raised the counter, across restarts of the counter, of the worker and of the
\* step, where the next code is not shown before the last count was read; except by a
\* worker that was left polling when a part was cancelled, whose baseline grew old.
ConfirmsFinishedPart ==
    snaps # <<>> /\ Receiving(app) /\ ~plc.stale =>
        Confirmed(app, Head(snaps)) \in {None, Head(snaps).of}

\* A station completes a product with no step undone, however results, cancellations,
\* changes of mode and refused completions meet, except where a scheduled advance came
\* to a step it was not scheduled for, or a cancellation moved the window ahead.
NoStepSkipped == app.left # {} => app.excused

\* README, "工位完成仍由 MES 当前工位所有工序完成后统一上报": a station's completion is
\* reported when every step is done.
EveryStepDone == app.left = {}

\* Whose a worker or a result may be, at these steps.
Fits(a, whose) == whose = "own" \/ (whose = "kept" /\ a.steps[1] = "magnet")

\* A result the window takes at a magnet step was begun for the product in hand, however
\* resets, cancellations and completions come in between; except at a station that
\* begins with a measurement, where the prompt of the next product finds the sequence of
\* the last one and lets it run (start_plc_magnet_worker).
OwnMagnet == events # <<>> /\ Type(app) = "magnet" => Fits(app, Head(events).whose)

\* A window whose station was switched without the new steps or the lease drives nothing,
\* whatever callbacks, resets and changes of mode come before it has them: switch_station's
\* "当前禁止生产".
DisabledStandsStill ==
    ~enabled => plc.pc = "off" /\ magnet.pc = "off" /\ snaps = <<>> /\ events = <<>>
==============================================================================
