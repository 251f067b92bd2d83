# Formal model of the key-station traceability system

TLA+ modules, TLC configurations and TLAPS proofs for the production core of
this repository: a web server with a database (`src/web_admin_app`) and the
desktop clients of a production line (`src/desktop_app`), which scan main codes,
drive screw guns and PLCs, and record what each product has passed.

    tlc -workers 2 -config StationSessionOverlap.cfg MCStationSession
    tlapm StationSessionProofs.tla

`PROJECT.json` lists components, runs, mutants, hazards and theorems, and maps
every definition to the lines it models.

## 1. The system

| component | state | operations | depends on |
|---|---|---|---|
| Station lease, server (`services.py` 197-385, `server.py` 532-642) | `station_sessions`: status, client, station, last heartbeat; partial unique index on online rows | acquire, force, heartbeat, release, administrator's release, sweep of stale rows, gate of production calls | database transactions (READ COMMITTED in production), one server thread per request |
| Station lease, client (`window.py`) | mode, downloaded config, session id, shown station | switch station, conflict dialog, heartbeat timer, reports, change mode, sync, close, crash | HTTP calls of the GUI thread, given up after 3 s |
| Product identity (`product_flow.py` 42-545) | `product_instances`, `barcode_aliases`, `barcode_switch_records` | resolve (create if missing), verify entry, switch of the main code | completions |
| Material binding (`product_flow.py` 548-814) | `material_bindings`, unique active child | bind, unbind | identity, completions |
| Completions and cancellation (`services.py` 1563-2046) | `station_completions`, `scan_records` | use check, completion, cancellation | identity |
| Step pipeline (`window.py` 2654-3435, 4881-5180) | current step, main code, products' steps, callbacks scheduled | scan, cancel mode, advance, reset, degraded mode | all of the above, gun and PLC workers |
| Screw gun (`tool_client.py`, `tool_worker.py`, `window.py` 3435-3677, 4107-4867) | registers 53, 54, 100 and 4 of the controller; worker's connection; window's pending, waiting, rearming, NG, lock and direction state | poll, write, reconnect, count, NG lock, reverse lock, bypass | worker thread, two streams of signals |
| PLC reception (`plc_worker.py`, `s7_plc_client.py`, `window.py` 3679-4105) | last counter, last code, last change | poll, credit an increment to a code | worker thread |
| PLC magnet (`plc_magnet_flow.py`, `plc_magnet_worker.py`, `window.py` 3738-3954) | position in the write/echo sequence | run, stop, report | worker thread |
| Client releases (`services.py` 2577-3460, `server.py`, `window.py` 1387-1620) | `client_update_files`, `client_releases`, executables on the server's disk; a device's pending offer, its transfer and its install button | upload, packages of the older interface, deletion, offer of a channel, check, download, install | transactions and files that are not in them |
| Configuration (`services.py` 520-1500, `window.py` 2833-2852) | `stations`, `steps` with their main marks | add, update and delete a step, rename and delete stations, route template, restart; what a device downloads | transactions without a lock on the station |
| Accounts, records, pages | tables of their own | single-request edits, queries | - |

How the parts interact: a client blocks its GUI thread in a call, at most 3 s; a
call that was given up goes on in the server. Handlers of different clients
interleave between database statements. The worker threads of a client talk to
its window through queued calls and signals only. Delayed callbacks
(`schedule_callback`) run later in the window, when the step may have moved on.

What is hard: requests that check and then write while others commit in between;
answers that come after the client has moved on, or never; devices that die
holding a lease; a client that trusts what it read minutes ago; polls, writes and
losses of the link that cross between the gun, its worker and the window; degraded
mode, which skips checks on purpose. `PROJECT.json` "hazards" lists each with its
line and with the properties that watch it.

What makes each part correct:

- lease: one holder per station, taken over only by force; a closed session stays
  closed; a client reports only under a session of the station it shows; a dead
  device's lease is given up; a device without a lease stops.
- identity: the code a product's row names can be scanned; no code changes its
  product; a replaced code does not come back.
- binding: one parent per part, and only finished parts are built in.
- completions: no station is skipped, and each record is found under its code, as far as
  codes are checked (not in degraded mode).
- gun: an OK is counted once; the window knows the lock; an NG keeps the gun
  locked; a lost write or link does not stop the station for good.
- pipeline: no step is skipped, whatever is cancelled, reset or refused meanwhile.
- PLC reception: an increment confirms the code of the part that was finished.
- PLC magnet: a result the window takes was begun for the product in hand, unless the station
  begins with the measurement.
- releases: a row tells the digest of its file; a channel keeps an offer of its own;
  the install button belongs to what was offered.
- configuration: a station has one main step, or one that brings the product, as far
  as edits can see each other; a device always works from such a list.

## 2. Modules

| module | what it is |
|---|---|
| `StationLease` | abstract: who holds each station, and what each request has been cleared to take |
| `StationSession` | the session table, its handlers and the desktop clients; implements `StationLease` |
| `StationSessionProofs`, `StationLeaseProofs` | its theorems, and the refinement |
| `ProductFlow`, `ProductFlowProofs` | products, codes, bindings, completions, cancellations and the clients that drive them, and its theorems |
| `ScrewGun`, `ScrewGunProofs` | controller, worker thread and window of one screw-gun station, and its theorems |
| `StationClient`, `StationClientProofs` | the window taking a product through scanned, received and measured steps, the two PLC workers, the line and the magnet rig, and its theorems |
| `StationClientPlcProofs` | the theorem about PLC reception, on top of those |
| `ClientRelease`, `ClientReleaseProofs` | uploads, the offer of a channel and the devices that update, and its theorems |
| `StationConfig`, `StationConfigProofs` | edits of the steps of stations, statement by statement, what a device makes of them, and its theorems |
| `MC...` | instances for TLC: configurations of stations, symmetry, bounds |

**StationSession.** `rows` is `station_sessions` by id; `req[t]` is the handler on
server thread t, with what it has read; `cl[c]` is a desktop client and where its
GUI thread stands. Acquire is three steps (`AcquireRead`, `AcquireInsert`,
`AcquireOverwrite`), as in the code: read the online rows and refuse, insert, and
overwrite the row that was there if the insert conflicted. Heartbeat and reports
validate in one transaction and write in the next. `HandlerFails` is an error at
any point, which rolls back what the transaction has done. `GiveUp` is the client's 3 s timeout: the
handler goes on, its answer is dropped. `Tick` ages every online row.

**ProductFlow.** One set or function per table. Handlers that check and then write
are two steps; those that only read are one. `desk[c]` is what a client remembers
between calls: the product and code it works under, and a scan whose product was resolved and
whose entry and use are still to be checked (`Scan`; a refused scan leaves the product in hand).
`waived` is a history variable: the completions that were cancelled and the
requirements skipped in degraded mode, which the properties make allowance for. `relabelled` is
another: the codes scanned in degraded mode over a product they do not belong to. Such a
scan replaces the code in hand and keeps the product's id (`window.py:3187`), and the server takes
the completion that follows.

**ScrewGun.** `gun` is the controller, as the window reads it; `worker` is
`ToolPollWorker`, which reads trigger, direction and status in three requests
(three steps), so that a cycle may begin or end between two of them; `calls` is its
queue of work and `reports`, `states` the two streams it answers in. Reports are
connected to lambdas and the connection state to a method of the window, so the
toolkit may run their slots in different threads: each stream is in order, and
neither waits for the other. The window's handler is one step, from
`process_tool_poll_result` down to the last register write it queues; its helpers
(`LockTool`, `UnlockTool`, `Turned`, `Wait`, `Counted`, ...) are functions from a window
and its queue to the next, in the order in which the code calls them.

**StationClient.** `station` says whether the window has its station's steps and lease; `app` is the window; `plc` the polling worker, which reads the
counter and then the barcode (two steps); `magnet` the position of
`PlcMagnetFlowController.run`; `snaps` and `events` their signals. Each handler is one
step, with everything it calls: `complete_plc_step` (`Received`) stops the worker, advances,
reports the station's completion and prompts the next step (`Prompt`), which starts
or stops workers. `OldThreadEnds` is the late report of a stopped worker's thread, which
drops the worker in hand; `LateAdvance` the `advance_step` scheduled 100 ms after a magnet
result. `stray` is a history variable: such an advance came to, or may come to, another
step than its own, or a cancellation moved the window ahead. `stale` is another: a cancelled part
took the window back to its scan while the polling worker went on. Its snapshots are
ignored there and, as it still runs, `start_plc_worker` does not reset the baseline when the step
comes again (`window.py:3092`): the increment of the part before can then confirm the code
shown since. `ConfirmsFinishedPart` excepts that case, which needs a first station that
scans before it receives. `whose` is the third: whose product a magnet sequence, or its
result, was begun for. `start_plc_magnet_worker` leaves a worker that runs to itself
(`window.py:3747`); at a station that begins with a measurement it thereby lets the sequence of
the last product go on for the next (`"kept"`), which `OwnMagnet` excepts. At any other station
the first step's prompt stops it.

**ClientRelease.** `files` and `releases` are the committed tables, `disk` the directories
of the server, `req[t]` a request with what its transaction has written or read. An
upload is five steps: the file is moved to its name (`StoreUpload`), the row is inserted
and gets its time (`InsertRow`), the rows its UPDATE sees are deactivated (`HideOthers`),
the release record of the version is read (`ReadRelease`), and all of it is committed.
`ReadRelease` waits for another upload that has deactivated a row in common and not
committed; two first records of one version conflict, and the later request fails. `FailUpload`
removes the stored file, as the `finally` clause does; a server that stops does not.
`dev[d]` is a device: what it runs, the offer it shows, the transfer under way, and
whether the install button is enabled; `local[d]` its directory of downloads.
`spoilt` is a history variable: the file was cut, or overwritten while it was read.

**StationConfig.** `edit[t].own` is what the transaction of thread t has written; `View` is
what its next statement sees at READ COMMITTED. A statement takes the rows it finds when it
begins, waits for those another transaction has written (`WaitForRow`), and looks at them
again when it goes on. `CheckSteps` is `validate_station_main_barcode`: its UPDATE, which
takes no mark from anything, locks the steps that scan nothing, and only this makes a second
edit of the station wait. Where it meets no row, or misses a row committed while it waited for
another (`Bare`), the edits do not see each other; `loose` is the
history of the stations this may have left without their rule. It also holds stations that were
renamed since (a name's number decides where the main step may be, and `update_station`
validates nothing) and stations a step was moved from behind the back of its edit
(`update_step` reads the step's station before it writes). `RestartServer` is
`ensure_default_main_barcodes`. `Loaded` is what `ensure_main_barcode` makes of a station's
steps on the device that enters it.

### Abstractions

- Lease: the sweep of stale rows is one step; closing a row also resets its age,
  which is read only of online rows; a sweep made by an acquire that later fails
  is visible from its first step.
- ProductFlow: the checks of project, route and material type only refuse and are
  part of `HandlerFails`; a cancellation is one step, since the row it deletes is
  the one it read and its other writes depend on no read; ordinary part codes are left out.
- ScrewGun: production stays enabled (losing the lease mid-step is left out);
  directions are forward, reverse and running; status 1, 4 and the rest are one
  (`"open"`), as the window treats them; poll intervals, labels and speech are left
  out; several finishes scheduled for one step are one. A stopped worker's window
  waits for it (the 1.5 s limit of that wait is left out).
- StationClient: the window stays in online mode; a download, a conflict over the lease and its
  takeover are answers the window gets; a signal of an old generation is not kept; a scanned code that fails its checks changes nothing. The line loads the next part
  only when a worker that polls has read the last count, as long as one is at work: its cycle is longer
  than the poll. Without that a snapshot in which code and counter both changed credits the
  wrong code (listed as a hazard). The rig may reset its registers at any time.
- ClientRelease: a digest is its content, so that two contents never share a file name;
  versions have one number and a candidate number; update logs, sizes and `force_update` change
  nothing else. Two uploads of one name that overlap move one after the other. A package cut in the
  middle of its extraction is left out; a call whose second package is refused is one of the
  first alone that fails (`FailPackages`).
- StationConfig: rows wait and are seen as PostgreSQL does it; the UPDATE and the count
  of the validation are one step; a payload's other refusals, a lost connection and the
  end the database puts to edits that wait for one another are `FailEdit`; deleting a station or
  project is one step, which waits for open edits of its steps; identifiers are not given again. Of
  a step it keeps the station, the order, the main mark and whether it scans, works or brings a product.
- Times are order only, except the age of a lease, counted in ticks.

## 3. What TLC checks

| run | asks |
|---|---|
| `lease_overlap` | two devices, two overlapping requests, one station: types, `OneHolder`, `ClosedIsFinal`, and that the table implements `StationLease` |
| `lease_life` | two devices, two stations, time: `SessionOfMyStation`, and that a dead device's lease lapses (`DeadDeviceIsReleased`) |
| `product_workshop` | one station that starts, switches and builds, a request overlapping its retry: `CurrentBarcodeResolves`, `NeverBack`, `ChildHasOneParent`, `BuiltFromFinished` |
| `product_route` | two products through two stations, the second may be degraded, with a product in hand or without: types, `NoSkippedStation`, `CompletionTraceable` |
| `gun_station` | a station that scans and tightens, with one disturbance at any moment: types, `NoPhantomCount`, `LockIsKnown`, `GunComesBack` |
| `client_steps` | five stations (`main, part, magnet`; `plcmain, plc`; `main, plc`; and first ones with `part, plcmain` and with `magnet, main`), any two disturbances, or a switch of station: types, `ConfirmsFinishedPart`, `NoStepSkipped`, `OwnMagnet`, `DisabledStandsStill` |
| `release_channels` | two overlapping uploads (the same version twice, the other channel, an inactive one), two calls of the older interface, deletions, and a device: types, `StoredMatchesRecord`, `ReadyMatchesDigest`, `ChannelIndependence`, `OfferSurvives` |
| `config_edits` | two overlapping edits of the steps of two stations, renames, deletions, a template, restarts: types, `MainRule`, `DeviceHasOneMain` |

Every property of these runs is also violated by a mutant of the model (a dropped
guard, a missing reset; "Mutant:" in the modules), under the same configuration.

Four runs show where the code does not do what its documents or messages say:

| run | what TLC finds |
|---|---|
| `lease_lost` | a device that lost its lease goes on: the refused heartbeat raises, and the branch that stops production is not reached (`window.py:1914`) |
| `product_two_current` | two overlapping switches leave a product with two current aliases (`product_flow.py:477`) |
| `gun_degraded` | a connection handled after degraded mode was entered locks the gun that the window says is released (`window.py:3605`) |
| `client_late_advance` | the advance scheduled after a magnet result is not cancelled by a reset or a cancelled part, and passes a step that was not done (`window.py:3936`) |

Things the models contain, that no document contradicts and that a reader may want to know:

- two plain acquires that both read the station as free both succeed: the insert of the later
  conflicts and it overwrites the row of the earlier, without force (`services.py:303`);
- the entry check compares the current code with itself, as the client sends no code
  (`window.py:3281`), so an old code that `disable_old = false` left enabled may enter;
- a code scanned in degraded mode over a product in hand, for instance after a refused
  completion, replaces the code and keeps the product's id (`window.py:3187`): the completion is
  recorded under that product with another product's code (`services.py:1990`);
- at a station that begins with a measurement, which number 1 or a station without scans may
  (`services.py:1454`), a reset, a cancellation or an accepted completion lets the sequence at work
  run on (`window.py:3747`), and its result is taken for the next product;
- an upload that repeats an earlier one and fails removes the file of the row that was
  committed before (`services.py:3006`): the channel still offers it, and the download is refused;
- deleting a release leaves its file rows offered (`services.py:3302`);
- a candidate is never offered to a final version of the same number, nor the other way:
  the comparison raises (`services.py:2619`); `rc10` is older than `rc9`;
- a connection that is closed early counts as the end of the file, and the device compares
  no digest (`window.py:1461`);
- a change from offline to online mode disables production and leaves the workers of the step in
  hand at work (`change_mode`, `window.py:896`); a switch of station stops them first;
- after a station is deleted, `required_station_ids` may name it, and no product can then pass
  (`product_flow.py:274`); a failed `pg_dump` is logged as a backup before records are deleted
  (`services.py:2529`); part codes are unique by a check, not by an index (`services.py:2049`);
- `ensure_station_has_main_barcode` (`services.py:1458-1499`) is called nowhere;
- a station whose steps are not all scans is safe from overlapping edits only while a
  step that scans nothing stays in its place: when two validations (`services.py:1411`) each wait for
  a step that another edit has in hand, neither looks again for the steps committed meanwhile,
  so that they need not meet at a common row, and both may commit a main step. It takes three
  threads at least; the proof of `MainRule` found it, not a run.

### Bounds, and why they are enough

- `MaxSession` 2: a takeover and an overwrite need one row or two. `Timeout` 1 tick:
  a row is fresh, old, or stale. Two threads: an overlap of a check and a write.
- `MaxProduct` 3 with three codes lets a part be bound, unbound and bound elsewhere; the
  constraint `FewRecords` (at most one scan record or waived completion at once) bounds
  `product_workshop` only, whose properties use completions as a guard. The constraint
  `OneRelabelled` (one relabelled code, one waived completion, two scan records) bounds
  `product_route`: two scan records are one of each product or each station, one
  waived completion is what one skipped requirement takes, and one relabelled code shows
  that a completion may rest on it. Without the exception for it `CompletionTraceable` fails
  within the bound, at the fourteenth step.
- Gun: `Required` 2 screws, so that a repeated trigger can be counted within a
  step; `Uncounted` 1: one finished OK not yet counted when the next cycle begins;
  `CallBound` and `ReportBound` 1: how many queued calls and reports a poll or a new
  call may find (a handler's own calls come on top); `Disturbances` 1: one
  fault of the link, turn of the lever, manual OK, reset, refused completion or
  change into degraded mode, at any moment. `StableReads` 1 is a legal setting of
  `tool_direction_stable_reads`, with which every poll acts; `gun_degraded` uses the default 2.
- With two disturbances, degraded mode after a lost 53=0, a worker stopped with
  the trigger still raised leaves it to the next worker, and whether that result is
  counted a second time depends on the order in which the toolkit runs the first
  poll and the connection signal. `Stop` therefore allows one result for a
  trigger it leaves behind; it is listed as a hazard, not as a finding.

- Client: two interchangeable codes, a counter up to 2 that starts again, one signal waiting when
  a worker reads on, and two disturbances (refusals, cancel mode, resets, degraded mode), so that any
  two of them meet within a product; a switch of station counts as two and leads to the
  station that receives at its first step (`Elsewhere`), where a prompt from before would start a worker.
  Without a switch, with room
  for two signals and two advances the first three stations also pass, in three minutes.

- Releases: `MaxStamp` 3 rows: one that is there and two uploads that overlap over it. The
  constraint `Focus` lets two requests overlap while no device takes part, and a device take
  part while there are two rows and one request at most: a request writes none of a device's
  state, and a device reads only committed rows and files. Versions are two candidates of
  one number, one on every device.
- Configuration: two stations, two edits at a time and three in all, three steps. A
  station that ends with two main steps takes two edits that each set one; a step
  that is moved twice takes two stations. What takes a third thread no run reaches: the
  proof of `MainRule`, for any number of threads, does.

`CHECK_DEADLOCK FALSE` is set only where the model runs out of a bounded number: in the lease runs
when `MaxSession` ids are used, every device is down and no time is left to pass, in
`release_channels` and `config_edits` when no row and no edit is left; the other runs check deadlock.

### Fairness

- `lease_life`: weak fairness of `Tick` alone. That another device keeps a fresh
  lease is a premise of `DeadDeviceIsReleased`, because only an accepted request sweeps.
- `lease_lost`: handlers answer (weak) and the heartbeat timer of a running client
  fires (strong, as a thread may be busy again and again in a model with so few); its
  premise is that calls are not given up for ever.
- `gun_station`: the worker's thread goes on, the connection signals and the
  prompt timer are served (weak), and a wait for a result runs out in the
  end (strong fairness of `OnReport(TRUE)`: a report handled with the wait over).
  Nothing is assumed of the gun, the link or the operator: disturbances are
  finitely many by the bound, not by fairness.

## 4. What is proved

For any sets of devices, stations, threads and codes, any table sizes and
any configuration of the stations, from the assumptions named in the modules
(`BoundAssumption`, `NoneAssumption`, `ConfigAssumption`, `StationClientAssumption`,
`ScrewGunAssumption` and those of
`ClientRelease` and `StationConfig`: types of the constants, that a station has a step, that a
payload marks only a step that
scans and a route template keeps the rule of its stations (as `normalize_main_barcode` and
`route_template_specs` do), that threads are finitely many, and that `None` is none of the values
it stands beside.)

- `StationSessionProofs`: `TypeCorrect`, `OneHolderAlways`,
  `SessionOfMyStationAlways`, `ClosedStaysClosed`. The inductive invariant `IInv` adds to them that ids are
  handed out in order (`TableInv`), that what a request remembers exists in the
  table (`RequestInv`: an overwrite or a heartbeat writes a row that is there), and that a
  client waits for one request at most, made for the station it shows (`LiveInv`,
  without which a late answer could give it a session of another station).
- `StationLeaseProofs`: `LeaseContractHolds`, every step of the table is a step of the abstract lease
  or a stutter. It rests on `OneHolder`: a station with at most one online row can
  only keep its holder or lose it when rows are closed.
- `ProductFlowProofs`: the properties of both product runs. What a client or a
  request relies on was read earlier; the proof shows that none of it is ever taken back
  (`Grows`): a known code keeps its product, and a completion that is cancelled is
  waived, so `Past` (completions and waivers) only grows. The code a client works under is that of
  its product, or the pair is `relabelled` and stays so; a completion writes what its request
  was given. `IInv` says of each client and
  request what it knows (`DeskInv`, `RequestInv`), and the properties follow when it writes.
  `NeverBackAlways` is conditional where the code is: with `disable_old = false` an
  overlapping switch writes a refused code's alias again.

- `StationClientProofs`: `TypeCorrect`, `StepsDone`, `MagnetsOwn`, `NothingDriven`, for every layout of steps and
  any number of signals waiting. The window's helpers are functions on the window and its
  workers, and a lemma each says that they keep such a client `Good`. `Straight` is the
  strengthening `NoStepSkipped` needs: unless an advance has gone astray, every step before
  the current one is done, and an advance that is due is the only one and of a step that
  is done. `Own` is that of `OwnMagnet`: what the magnet worker does and has answered is for
  the product in hand, or kept where the station begins with a measurement; it fails
  between `Renewed`, after which what is under way is an earlier product's, and the
  prompt of the first step, which stops the worker and its results, or, where that step measures,
  finds them and marks them kept. `Still` is inductive beside them: of
  the steps a window without its station can take, none starts a worker, since every prompt asks
  for the station first, and a reset there finds no worker and no result that could be another
  product's.

- `ClientReleaseProofs`: all five properties of `release_channels`, for any number of requests,
  devices, versions and builds. `RowsGood` says where the file of a row came from: an upload's is
  named by its channel, version and build, and `DiskGood` says that such a file, whoever
  stored it, holds what its name says; a package's name is that of its row, and nobody else writes
  it. For this `RequestsGood` keeps the rows of the requests under way apart and still to come.
  `DevicesGood` is that of `ReadyMatchesDigest`: what a device was offered a row still says, and
  what it is sent is what that row's file held when the transfer began. `ChannelIndependence` and
  `OfferSurvives` follow from the two steps that write rows: an upload deactivates rows of its
  own channel only, and none if it is not active itself.

- `StationClientPlcProofs`: `ConfirmsRightPart`, for any number of parts, codes and snapshots. The
  counter passes through the read under way (`plc`), the snapshots that wait and the window's
  baseline, and each may be several parts behind the line. `Chain` says of every two neighbours on
  that way that where the count rises the code read with it belongs to the part that raised it
  (`Follows` between snapshots, `Onward` from the last to the line, `FromBase` from the baseline to
  the first). It rests on the line waiting for a read of its last count, and it is why the baseline
  must be taken anew when a worker starts: a worker that was not reset is `stale`, and nothing is
  claimed of it.

- `ScrewGunProofs`: `TypeCorrect`, `WindowKnowsLock`, `CountsOnlyTightened`, for every layout of
  steps, any number of calls and reports waiting, and any number of disturbances. The window's
  helpers are functions on the window and its queue of calls; a lemma each says what they may post
  and what they leave alone.
  For the lock, `WillBe` reads from the queue what will be written last; `Known` says this is what
  the window remembers whenever there is a link, no connection signal waits and no bypass has still
  to end. It needs that a window without a worker keeps nothing (`Idle`), that nothing follows a stop
  (`Stops`), that a bypass is followed by its end out of degraded mode (`BypassesEnd`) and that the
  last state reported of a live link is `connected` (`LastState`).
  For the count, take the reports that wait and the poll under way as one sequence of looks at
  the trigger. Between two looks that saw it low one OK is counted at most, since the window
  waits for a low one before it counts again; before the first of them none is while it already waits
  (`Blocked`). `Owed` is the number of such stretches that show an OK, or in which the gun
  still shows one, and `Covered` says that they are no more than the cycles ended with OK and not
  counted. A cycle adds one at most, a count takes one away, and clearing the trigger ends a
  stretch and adds none. A poll that has read the trigger raised reads the status of the same
  stretch (`PollHigh`), as the worker does not write in the middle of a poll. An answer to a write
  taken for the trigger read low would break this: that is the mutant of `NoPhantomCount`. What the
  theorem says is relative to `Stop`, which allows one result for a trigger left to the next worker.

- `StationConfigProofs`: `TypeCorrect`, `StationKeepsMainRule`, `DeviceWorksFromOneMain`, for any
  number of threads, stations and edits. `IInv` says of each open edit what it is at its stage
  (`Shape`), that what it wrote is at stations it validates (`OwnPlaced`), that a station it has
  validated keeps the rule as the edit sees it (`CheckHolds`), and that the validation holds the lock
  of a row that every other validation of that station needs (`LockHeld`); of two edits, that they have
  written no row both and have not both validated one station under lock (`Apart`). A commit then
  changes no station another edit has validated, except those it puts into `loose`.

Only model-checked: the liveness properties `DeadDeviceIsReleased` and `GunComesBack` (TLAPS
1.4.5 has no ENABLED), and the runs that end in a violation. Every other property of a passing
run is proved.

## 5. What is not modelled, and why

- Web pages, layouts, settings files, sound, paging, formatting of records: reads and writes
  without a rule between them.
- Scanner key timing: the models begin at a complete code.
- Accounts and login: password hashing, cookies and edits of single rows.
- Backup and archive: sequential; what can go wrong is named above.
- Configuration beyond the main step: names, sizes, the settings of PLC, switch and binding
  steps, and requirements between stations, which the code does not relate.
- Test tools, deployment and migration scripts are not part of production.

## 6. Plan

In the order of their weight, what the modules above leave:

1. `StationClient`: the change of mode with a step in hand, and the
   resumption of listening (a liveness property that `cleanup_plc_worker` is expected to break).
2. The lease lost in the middle of a step and the switch of station with its locking stop, in
   `ScrewGun`.
3. Proofs: the contract of the step pipeline and of the releases as abstract specifications that
   `StationClient` and `ClientRelease` implement, as `StationLease` is for the session table.
4. Records of single steps and part codes, with their check without an index; the lock of
   repeated logins.
