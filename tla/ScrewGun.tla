------------------------------ MODULE ScrewGun ------------------------------
(***************************************************************************)
(* The screw gun of a station (src/desktop_app): the controller of the gun *)
(* (trigger 53, direction 54, status 100 and lock 4, over Modbus), the     *)
(* worker thread that polls and writes it (tool_worker.py), and the window *)
(* that counts the tightenings, locks the gun and moves through the steps  *)
(* (window.py).                                                            *)
(*                                                                         *)
(* The worker has two kinds of work, calls posted by the window and its    *)
(* poll timer, and answers with two streams of signals: reports (results   *)
(* of polls, writes and the bypass) and the state of the connection.  The  *)
(* reports are connected to lambdas and the state to a method of the       *)
(* window, so that they may run in different threads: each stream is in    *)
(* order, neither waits for the other, and a handler is one step.          *)
(*                                                                         *)
(* The controller is modelled from how the window reads it: the trigger is *)
(* raised once per cycle, with its start or with its result.  Production   *)
(* stays enabled; passwords are right or wrong; poll intervals, labels and *)
(* speech are left out.                                                    *)
(***************************************************************************)
EXTENDS Integers, Sequences

CONSTANTS
    Steps,          \* the types of the station's steps, in order
    Required,       \* tightenings a screw step asks for
    StableReads,    \* tool_direction_stable_reads
    Raises,         \* when the gun raises its trigger: at the start of a cycle, or not
    Shows,          \* the directions a cycle may show
    Uncounted,      \* bound: OK cycles the window has not counted when one begins
    Disturbances,   \* bound: faults of the link, turns of the lever, changes of
                    \* mode, resets and refused completions
    CallBound,      \* bound: calls waiting when a poll starts
    ReportBound     \* bound: reports waiting when the worker takes up a poll or a call

ASSUME ScrewGunAssumption ==
    /\ Steps \in Seq({"screw", "scan"}) /\ Len(Steps) > 0
    /\ Raises \subseteq BOOLEAN /\ Shows \subseteq {"forward", "running"}
    /\ Required \in Nat \ {0} /\ StableReads \in Nat \ {0}
    /\ Uncounted \in Nat /\ Disturbances \in Nat
    /\ CallBound \in Nat \ {0} /\ ReportBound \in Nat \ {0}

VARIABLES
    gun,        \* the registers of the controller, and the cycle it is in
    worker,     \* the worker: its connection and the poll it is in
    calls,      \* calls posted to the worker, in order
    reports,    \* reports the window has not handled yet, in order
    states,     \* connection states the window has not handled yet, in order
    app,        \* the window
    uncounted,      \* OK results a worker may still find, at most: cycles ended with
                    \* OK, less those counted
    used            \* disturbances so far

vars == <<gun, worker, calls, reports, states, app, uncounted, used>>

Direction == {"forward", "reverse", "running"}
\* Status 1 and 4, and any other that is no result, are one to the window.
Final == {"ok", "ng"}
Status == Final \cup {"open"}
Call == {"clear", "lock", "unlock", "bypass_on", "bypass_off", "stop"}

\* cycle: whether the gun runs, and then whether its trigger is still to be raised.
Gun == [trigger: BOOLEAN, direction: Direction, status: Status,
        locked: BOOLEAN, cycle: {"none", "raised", "unraised"}]

Worker == [pc: {"idle", "trigger", "direction"}, trigger: BOOLEAN,
           direction: Direction, linked: BOOLEAN, bypass: BOOLEAN,
           failed: BOOLEAN]     \* next_reconnect_at is set

Report == [kind: {"poll"}, trigger: BOOLEAN, direction: Direction, status: Status]
          \cup [kind: {"cleared", "bypass_on", "bypass_off"}]

App == [running: BOOLEAN, stopping: BOOLEAN, degraded: BOOLEAN,
        waiting: BOOLEAN,       \* waiting_tool_trigger_reset
        pending: BOOLEAN,       \* tool_pending_result_active
        rearming: BOOLEAN,      \* tool_connection_rearming
        ng: BOOLEAN,            \* tool_ng_locked
        reverseLock: BOOLEAN,   \* reverse_lock_active
        lockState: {"none", "locked", "unlocked"},
        direction: Direction \cup {"none"}, candidate: Direction \cup {"none"},
        reads: 0..StableReads,
        step: DOMAIN Steps, count: [DOMAIN Steps -> 0..Required],
        due: SUBSET {"prompt", "finish"}]   \* callbacks scheduled

-----------------------------------------------------------------------------
(* The window's helpers.  Each works on a pair: the window and what it has  *)
(* posted to the worker.                                                    *)

Post(s, call) == IF s.a.running THEN [s EXCEPT !.out = Append(@, call)] ELSE s

LockTool(s) ==
    IF s.a.lockState = "locked" \/ ~s.a.running THEN s
    ELSE Post([s EXCEPT !.a.lockState = "locked"], "lock")

Reversed(a) == a.reverseLock \/ a.direction = "reverse"

\* unlock_tool: what forbids it locks instead.
UnlockTool(s) ==
    IF s.a.degraded THEN s
    ELSE IF Reversed(s.a) \/ s.a.ng THEN LockTool(s)
    ELSE IF s.a.lockState = "unlocked" \/ ~s.a.running THEN s
    ELSE Post([s EXCEPT !.a.lockState = "unlocked"], "unlock")

Full(a) == a.count[a.step] >= Required
Screwing(a) == Steps[a.step] = "screw"

\* tool_unlock_permission.
Permitted(a) ==
    /\ ~a.degraded /\ ~a.reverseLock /\ ~a.ng /\ ~a.rearming
    /\ Screwing(a) /\ ~Full(a)

UnlockOrLock(s) == IF Permitted(s.a) THEN UnlockTool(s) ELSE LockTool(s)

ResetTrigger(s) == Post(s, "clear")
ClearActive(s) == ResetTrigger([s EXCEPT !.a.waiting = TRUE])

\* 53 has been read back as 0.
ReadBack(s) == [s EXCEPT !.a.waiting = FALSE, !.a.pending = FALSE]

-----------------------------------------------------------------------------
(* What the window makes of a poll (process_tool_poll_result).              *)

Candidate(s, d) ==
    [s EXCEPT !.a.candidate = d,
              !.a.reads = IF d # s.a.candidate THEN 1
                          ELSE IF @ < StableReads THEN @ + 1 ELSE @]

\* update_tool_direction_state once the direction is stable and new.
Turned(s, d) ==
    LET recovered == Reversed(s.a)
        turned == [s EXCEPT !.a.direction = d, !.a.reverseLock = d = "reverse"]
    IN  IF d = "reverse" THEN LockTool(turned)
        ELSE IF ~recovered THEN turned
        ELSE IF d = "forward" THEN UnlockOrLock(turned)
        ELSE IF Permitted(turned.a) THEN UnlockTool(turned) ELSE turned

\* wait_for_tool_final_result: late is whether the wait has run out.
Wait(s, late) ==
    IF ~s.a.pending THEN [s EXCEPT !.a.pending = TRUE]
    ELSE IF late THEN ClearActive([s EXCEPT !.a.pending = FALSE])
    ELSE s

\* Mutant: the gun is left as it is after a reconnection.
RearmedOnly(s) == [s EXCEPT !.a.rearming = FALSE, !.a.waiting = FALSE]

Rearmed(s) == UnlockOrLock([s EXCEPT !.a.rearming = FALSE, !.a.waiting = FALSE])

\* Mutant: the count is not capped.
CountedOver(s) ==
    LET a == [s.a EXCEPT !.count[s.a.step] = @ + 1]
    IN  [s EXCEPT !.a = IF Full(a) THEN [a EXCEPT !.due = @ \cup {"finish"}] ELSE a]

\* handle_screw_ok, its lock left to the caller.
Counted(s) ==
    LET a == [s.a EXCEPT !.count[s.a.step] = IF @ < Required THEN @ + 1 ELSE @]
    IN  [s EXCEPT !.a = IF Full(a) THEN [a EXCEPT !.due = @ \cup {"finish"}] ELSE a]

OkResult(s) ==
    LET counted == ClearActive(Counted(s))
    IN  IF Full(counted.a) THEN LockTool(counted) ELSE counted

\* Mutant: an NG does not lock the gun.
NgResultUnlocked(s) == ClearActive([s EXCEPT !.a.ng = TRUE])

NgResult(s) == ClearActive(LockTool([s EXCEPT !.a.ng = TRUE]))

\* A trigger read at a screw step, forward: only here does the gun count.
Result(s, status, late) ==
    LET settled == [s EXCEPT !.a.pending = FALSE]
    IN  IF s.a.waiting THEN ResetTrigger(s)
        ELSE IF Full(s.a) THEN LockTool(ClearActive(s))
        ELSE IF status \notin Final THEN Wait(s, late)
        ELSE IF status = "ok" THEN OkResult(settled) ELSE NgResult(settled)

Refused(s, trigger) == LockTool(IF trigger THEN ClearActive(s) ELSE s)

Forward(s, r, late) ==
    IF ~Screwing(s.a) \/ s.a.ng THEN Refused(s, r.trigger)
    ELSE IF s.a.rearming THEN IF r.trigger THEN ResetTrigger(s) ELSE Rearmed(s)
    ELSE IF r.trigger THEN Result(s, r.status, late)
    ELSE IF s.a.waiting /\ Permitted(s.a) THEN UnlockTool(ReadBack(s))
    ELSE ReadBack(s)

Running(s, r, late) ==
    IF r.trigger THEN Wait(s, late)
    ELSE IF s.a.rearming THEN UnlockOrLock([ReadBack(s) EXCEPT !.a.rearming = FALSE])
    ELSE ReadBack(s)

Reverse(s, r) ==
    [(IF r.trigger THEN ClearActive(s) ELSE s)
        EXCEPT !.a.pending = s.a.pending /\ ~r.trigger]

Polled(s, r, late) ==
    LET read == Candidate(s, r.direction)
        changed == s.a.direction # r.direction
        turned == IF changed THEN Turned(read, r.direction) ELSE read
        back == IF changed /\ ~r.trigger THEN ReadBack(turned) ELSE turned
    IN  IF s.a.degraded THEN s
        ELSE IF read.a.reads < StableReads THEN read
        ELSE IF r.direction = "reverse" THEN Reverse(turned, r)
        ELSE IF r.direction = "running" THEN Running(turned, r, late)
        ELSE IF changed /\ ~r.trigger /\ ~s.a.rearming THEN back
        ELSE Forward(back, r, late)

\* Mutant: a clear is taken as done when its write is.
WriteAnsweredDone(s) == [s EXCEPT !.a.waiting = FALSE]

\* The answers of the worker to writes (on_tool_write_succeeded and _error) and to
\* set_bypass (on_tool_bypass_changed, sync_tool_lock_for_current_step).
WriteAnswered(s) == [s EXCEPT !.a.waiting = TRUE]

Answered(s, kind) ==
    IF kind = "cleared" THEN WriteAnswered(s)
    ELSE IF kind = "bypass_on" THEN [s EXCEPT !.a.lockState = "unlocked"]
    ELSE LET free == [s EXCEPT !.a.lockState = "none"]
         IN  IF s.a.degraded THEN free ELSE UnlockOrLock(ResetTrigger(free))

\* on_tool_connection_state.
Reconnecting(s) == [s EXCEPT !.a.lockState = "none"]

Connected(s) ==
    LockTool(ResetTrigger(
        [s EXCEPT !.a.lockState = "none", !.a.rearming = TRUE, !.a.waiting = TRUE,
                  !.a.direction = "none", !.a.candidate = "none", !.a.reads = 0,
                  !.a.reverseLock = FALSE]))

\* cleanup_tool_worker, once the worker's thread has ended.
CleanedUp(a) ==
    [a EXCEPT !.running = FALSE, !.stopping = FALSE, !.waiting = FALSE,
              !.rearming = FALSE, !.lockState = "none", !.reverseLock = FALSE,
              !.direction = "none", !.candidate = "none", !.reads = 0,
              !.pending = FALSE]

-----------------------------------------------------------------------------
(* The steps of the product.                                                *)

\* A new worker connects with its first poll.
Started(s) == [s EXCEPT !.a.running = TRUE]

\* prompt_current_step_start; in degraded mode it stops the worker and waits for it.
Prompt(s) ==
    LET on == Started(s)
    IN  IF s.a.degraded
        THEN IF s.a.running THEN [Post(s, "stop") EXCEPT !.a.stopping = TRUE] ELSE s
        ELSE IF ~Screwing(s.a) THEN LockTool(on)
        ELSE UnlockTool(ResetTrigger(on))

\* What a new product starts from, in advance_step.
Renewed(a) ==
    [a EXCEPT !.step = 1, !.count = [i \in DOMAIN Steps |-> 0], !.waiting = FALSE,
              !.ng = FALSE, !.reverseLock = FALSE, !.pending = FALSE]

\* advance_step: accepted is the server's answer to the station's completion.
Advance(s, accepted) ==
    IF s.a.step < Len(Steps) THEN Prompt([s EXCEPT !.a.step = @ + 1])
    ELSE IF accepted THEN Prompt([s EXCEPT !.a = Renewed(@)])
    ELSE s

-----------------------------------------------------------------------------
(* Steps of the window.                                                     *)

Window == [a |-> app, out |-> calls]
Does(s) == app' = s.a /\ calls' = s.out

Disturb(n) == used + n <= Disturbances /\ used' = used + n

\* late: whether a wait for a final result has run out (tool_final_status_wait_ms).
OnReport(late) ==
    /\ reports # <<>> /\ ~app.stopping
    /\ reports' = Tail(reports)
    /\ LET r == Head(reports)
       IN  Does(IF r.kind = "poll" THEN Polled(Window, r, late) ELSE Answered(Window, r.kind))
    /\ uncounted' = uncounted - (app'.count[app.step] - app.count[app.step])
    /\ UNCHANGED <<gun, worker, states, used>>

OnState ==
    /\ states # <<>> /\ ~app.stopping
    /\ states' = Tail(states)
    /\ Does(IF Head(states) = "connected" THEN Connected(Window) ELSE Reconnecting(Window))
    /\ UNCHANGED <<gun, worker, reports, uncounted, used>>

\* A scanned code that passes its checks (they belong to ProductFlow).
Scan ==
    /\ ~app.stopping /\ ~Screwing(app)
    /\ \E accepted \in BOOLEAN :
          /\ Disturb(IF accepted THEN 0 ELSE 1)
          /\ Does(Advance(Window, accepted))
    /\ UNCHANGED <<gun, worker, reports, states, uncounted>>

\* finish_screw_step_after_trigger_clear: waits for 53 to be read back as 0.
Finish ==
    /\ ~app.stopping /\ "finish" \in app.due
    /\ LET done == [Window EXCEPT !.a.due = @ \ {"finish"}]
       IN  \/ /\ ~(Screwing(app) /\ Full(app)) /\ Does(done)
              /\ UNCHANGED used
           \/ /\ Screwing(app) /\ Full(app) /\ app.waiting
              /\ Does(ResetTrigger(Window)) /\ Len(calls) < CallBound
              /\ UNCHANGED used
           \/ /\ Screwing(app) /\ Full(app) /\ ~app.waiting
              /\ \E accepted \in BOOLEAN :
                    /\ Disturb(IF accepted THEN 0 ELSE 1)
                    /\ Does(Advance(done, accepted))
    /\ UNCHANGED <<gun, worker, reports, states, uncounted>>

\* The button that stands in for an OK of the gun.
ManualOk ==
    /\ ~app.stopping /\ Screwing(app)
    /\ Disturb(1)
    /\ LET counted == Counted(Window)
       IN  Does(IF Full(counted.a) THEN ResetTrigger(LockTool(counted)) ELSE counted)
    /\ UNCHANGED <<gun, worker, reports, states, uncounted>>

\* The administrator's password, right or wrong (unlock_tool_after_ng).
AdminUnlock ==
    /\ ~app.stopping /\ app.ng
    /\ \/ Does(LockTool(Window))
       \/ /\ app.direction # "reverse"
          /\ Does(UnlockOrLock(ResetTrigger(
                      [Window EXCEPT !.a.ng = FALSE, !.a.waiting = FALSE])))
    /\ UNCHANGED <<gun, worker, reports, states, uncounted, used>>

\* change_degraded_mode.
DegradedOn ==
    /\ ~app.stopping /\ ~app.degraded
    /\ Disturb(1)
    /\ Does(Post([Window EXCEPT !.a.degraded = TRUE], "bypass_on"))
    /\ UNCHANGED <<gun, worker, reports, states, uncounted>>

DegradedOff ==
    /\ ~app.stopping /\ app.degraded
    /\ Does(Started(Post([Window EXCEPT !.a.degraded = FALSE, !.a.due = @ \cup {"prompt"}],
                         "bypass_off")))
    /\ UNCHANGED <<gun, worker, reports, states, uncounted, used>>

PromptDue ==
    /\ ~app.stopping /\ "prompt" \in app.due
    /\ Does(Prompt([Window EXCEPT !.a.due = @ \ {"prompt"}]))
    /\ UNCHANGED <<gun, worker, reports, states, uncounted, used>>

\* reset_current_product, when the main code is cancelled.
Reset ==
    /\ ~app.stopping
    /\ Disturb(1)
    /\ Does(Prompt([Window EXCEPT !.a =
                [Renewed(@) EXCEPT !.rearming = app.running, !.direction = "none",
                                   !.candidate = "none", !.reads = 0]]))
    /\ UNCHANGED <<gun, worker, reports, states, uncounted>>

-----------------------------------------------------------------------------
(* Steps of the worker.                                                     *)

\* ensure_connection_for_poll emits these when it connects.
ConnectSignals == IF worker.linked THEN <<>> ELSE <<"reconnecting", "connected">>

\* mark_connection_failed.
Unlinked == [worker EXCEPT !.pc = "idle", !.linked = FALSE, !.failed = TRUE]
Linked == [worker EXCEPT !.linked = TRUE, !.failed = FALSE]

\* poll_once reads the three registers in three requests.  The window looks at the
\* status only with the trigger.
PollTrigger ==
    /\ app.running /\ worker.pc = "idle" /\ ~worker.bypass
    /\ Len(calls) < CallBound /\ Len(reports) < ReportBound
    /\ states' = states \o ConnectSignals
    /\ worker' = [Linked EXCEPT !.pc = "trigger", !.trigger = gun.trigger]
    /\ UNCHANGED <<gun, calls, reports, app, uncounted, used>>

PollDirection ==
    /\ worker.pc = "trigger"
    /\ worker' = [worker EXCEPT !.pc = "direction", !.direction = gun.direction]
    /\ UNCHANGED <<gun, calls, reports, states, app, uncounted, used>>

PollStatus ==
    /\ worker.pc = "direction"
    /\ worker' = [worker EXCEPT !.pc = "idle", !.trigger = FALSE, !.direction = "forward"]
    /\ reports' = Append(reports,
                         [kind |-> "poll", trigger |-> worker.trigger,
                          direction |-> worker.direction,
                          status |-> IF worker.trigger THEN gun.status ELSE "open"])
    /\ UNCHANGED <<gun, calls, states, app, uncounted, used>>

\* A request of a poll, or its connection, fails.
PollFails ==
    /\ app.running /\ ~worker.bypass
    /\ Disturb(1)
    /\ worker' = [Unlinked EXCEPT !.trigger = FALSE, !.direction = "forward"]
    /\ states' = Append(states, "reconnecting")
    /\ UNCHANGED <<gun, calls, reports, app, uncounted>>

Written(call) ==
    CASE call = "clear" -> [gun EXCEPT !.trigger = FALSE]
      [] call = "lock" -> [gun EXCEPT !.locked = TRUE]
      [] call \in {"unlock", "bypass_on"} -> [gun EXCEPT !.locked = FALSE]

\* The worker takes its next call; a poll is not interrupted by it.
Takes(kinds) ==
    /\ app.running /\ worker.pc = "idle"
    /\ Len(reports) < ReportBound \/ app.stopping
    /\ calls # <<>> /\ Head(calls) \in kinds
    /\ calls' = Tail(calls)

\* The window hears of a write of 53 = 0, done or not.
WriteReport == IF Head(calls) = "clear" THEN <<[kind |-> "cleared"]>> ELSE <<>>

\* write_register.
Write ==
    /\ Takes({"clear", "lock", "unlock"})
    /\ gun' = Written(Head(calls))
    /\ worker' = Linked
    /\ states' = states \o ConnectSignals
    /\ reports' = reports \o WriteReport
    /\ UNCHANGED <<app, uncounted, used>>

\* The request or its answer is lost, or the connection cannot be made.
WriteFails ==
    /\ Takes({"clear", "lock", "unlock"})
    /\ Disturb(1)
    /\ gun' \in {gun, Written(Head(calls))}
    /\ worker' = Unlinked
    /\ states' = states \o ConnectSignals \o <<"reconnecting">>
    /\ reports' = reports \o WriteReport
    /\ UNCHANGED <<app, uncounted>>

\* It is too early to connect again.
WriteDropped ==
    /\ Takes({"clear", "lock", "unlock"}) /\ ~worker.linked /\ worker.failed
    /\ reports' = reports \o WriteReport
    /\ UNCHANGED <<gun, worker, states, app, uncounted, used>>

\* set_bypass; entering it, a failed write is not marked as a lost connection.
BypassOn ==
    /\ Takes({"bypass_on"})
    /\ \/ /\ gun' = Written("bypass_on")
          /\ worker' = [Linked EXCEPT !.bypass = TRUE]
          /\ states' = states \o ConnectSignals
          /\ reports' = Append(reports, [kind |-> "bypass_on"])
       \/ /\ gun' \in {gun, Written("bypass_on")}
          /\ worker' = [worker EXCEPT !.bypass = TRUE, !.linked = FALSE, !.failed = FALSE]
          /\ states' = states \o ConnectSignals
          /\ UNCHANGED reports
       \/ /\ ~worker.linked
          /\ worker' = [Unlinked EXCEPT !.bypass = TRUE]
          /\ states' \in {Append(states, "reconnecting")}
                         \cup (IF worker.failed THEN {states} ELSE {})
          /\ UNCHANGED <<gun, reports>>
    /\ UNCHANGED <<app, uncounted, used>>

BypassOff ==
    /\ Takes({"bypass_off"})
    /\ worker' = [worker EXCEPT !.bypass = FALSE]
    /\ reports' = Append(reports, [kind |-> "bypass_off"])
    /\ UNCHANGED <<gun, states, app, uncounted, used>>

Off == [pc |-> "idle", trigger |-> FALSE, direction |-> "forward",
        linked |-> FALSE, bypass |-> FALSE, failed |-> FALSE]

\* stop_without_lock, and the window that waited for it: what the worker reported
\* belongs to an old generation and is dropped.  The next worker does not know of a
\* trigger it finds whether it has been counted.
Stop ==
    /\ Takes({"stop"})
    /\ app' = CleanedUp(app)
    /\ worker' = Off
    /\ reports' = <<>>
    /\ uncounted' = IF gun.trigger /\ uncounted < 1 THEN 1 ELSE uncounted
    /\ UNCHANGED <<gun, states, used>>

-----------------------------------------------------------------------------
(* The gun.                                                                 *)

\* A cycle begins, or one that was paused is begun again.
Begin ==
    /\ ~gun.locked /\ gun.direction # "reverse" /\ uncounted < Uncounted
    /\ \E raised \in Raises, d \in Shows :
          gun' = [gun EXCEPT !.status = "open", !.direction = d, !.trigger = @ \/ raised,
                             !.cycle = IF raised THEN "raised" ELSE "unraised"]
    /\ UNCHANGED <<worker, calls, reports, states, app, uncounted, used>>

End ==
    /\ gun.cycle # "none"
    /\ \E result \in Final :
          /\ gun' = [gun EXCEPT !.status = result, !.direction = "forward", !.cycle = "none",
                                !.trigger = @ \/ gun.cycle = "unraised"]
          /\ uncounted' = uncounted + (IF result = "ok" THEN 1 ELSE 0)
    /\ UNCHANGED <<worker, calls, reports, states, app, used>>

\* The lever is turned.
TurnLever ==
    /\ gun.cycle = "none"
    /\ Disturb(1)
    /\ gun' = [gun EXCEPT !.direction = IF @ = "reverse" THEN "forward" ELSE "reverse"]
    /\ UNCHANGED <<worker, calls, reports, states, app, uncounted>>

\* A screw is loosened.
Loosen ==
    /\ ~gun.locked /\ gun.direction = "reverse"
    /\ gun' = [gun EXCEPT !.trigger = TRUE, !.status = "open"]
    /\ UNCHANGED <<worker, calls, reports, states, app, uncounted, used>>

-----------------------------------------------------------------------------

\* The first step has just been prompted: it is a scan, and the worker is started.
Init ==
    /\ Steps[1] = "scan"
    /\ gun = [trigger |-> FALSE, direction |-> "forward", status |-> "open",
              locked |-> TRUE, cycle |-> "none"]
    /\ worker = Off
    /\ calls = <<"lock">> /\ reports = <<>> /\ states = <<>>
    /\ app = [running |-> TRUE, stopping |-> FALSE, degraded |-> FALSE,
              waiting |-> FALSE, pending |-> FALSE, rearming |-> FALSE, ng |-> FALSE,
              reverseLock |-> FALSE, lockState |-> "locked", direction |-> "none",
              candidate |-> "none", reads |-> 0, step |-> 1,
              count |-> [i \in DOMAIN Steps |-> 0], due |-> {}]
    /\ uncounted = 0 /\ used = 0

WindowStep ==
    \/ (\E late \in BOOLEAN : OnReport(late)) \/ OnState \/ Scan \/ Finish \/ ManualOk \/ AdminUnlock
    \/ DegradedOn \/ DegradedOff \/ PromptDue \/ Reset

WorkerStep ==
    \/ PollTrigger \/ PollDirection \/ PollStatus \/ PollFails
    \/ Write \/ WriteFails \/ WriteDropped \/ BypassOn \/ BypassOff \/ Stop

GunStep == Begin \/ End \/ TurnLever \/ Loosen

Next == WindowStep \/ WorkerStep \/ GunStep

Spec == Init /\ [][Next]_vars

\* The worker's thread goes on, and so does each of the window's queues, and a wait runs
\* out; the link, the gun and the operator may do as they like.
WorkerGoesOn ==
    \/ PollTrigger \/ PollDirection \/ PollStatus
    \/ Write \/ WriteDropped \/ BypassOn \/ BypassOff \/ Stop

Fairness ==
    /\ WF_vars(WorkerGoesOn) /\ WF_vars(OnState) /\ WF_vars(PromptDue)
    /\ SF_vars(OnReport(TRUE))

FairSpec == Spec /\ Fairness

-----------------------------------------------------------------------------
(* Properties.                                                              *)

TypeOK ==
    /\ gun \in Gun /\ worker \in Worker /\ app \in App
    /\ calls \in Seq(Call) /\ reports \in Seq(Report)
    /\ states \in Seq({"reconnecting", "connected"})
    /\ uncounted \in Int /\ used \in 0..Disturbances

\* README, "防止地址100保持 OK 时重复计数": the gun never credits the product with more
\* screws than were tightened, however polls, clears and losses of the link fall.
NoPhantomCount == uncounted >= 0

\* Nothing is under way between the window and the gun.
Settled ==
    /\ app.running /\ worker.linked /\ ~app.degraded /\ ~app.stopping
    /\ calls = <<>> /\ states = <<>>
    /\ \A i \in 1..Len(reports) : reports[i].kind # "bypass_off"

\* The lock the window remembers is the lock of the gun, through lost writes and
\* degraded work; in particular an NG keeps the gun locked until it is dealt with.
LockIsKnown ==
    Settled => /\ app.lockState # "none" => (app.lockState = "locked" <=> gun.locked)
               /\ app.ng => gun.locked

\* In degraded mode the window says the gun is released once the worker has
\* unlocked it ("降级模式已开启，螺钉枪控制已放开"): it is, and stays so.
DegradedReleasesGun ==
    app.running /\ app.degraded /\ app.lockState = "unlocked" /\ calls = <<>> /\ states = <<>>
    => ~gun.locked

\* Where work is allowed the gun is unlocked in the end, whatever has been lost.
WorkAllowed ==
    /\ app.running /\ ~app.degraded /\ ~app.ng /\ Screwing(app) /\ ~Full(app)
    /\ gun.direction # "reverse"

GunComesBack == WorkAllowed ~> ~gun.locked \/ ~WorkAllowed
=============================================================================
