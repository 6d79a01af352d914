# Verification of webtop

webtop is a macOS system monitor: a Rust daemon that collects metrics, stores
them in SQLite, measures folders and supervises services, and a React dashboard
that shows them. These TLA+ modules model the parts of it in which several
actors share state over time. TLC checks them on small instances
and TLAPS proves what is most important of them for all instances. All source
paths below are relative to the repository (`src/...` is the Rust crate,
`frontend/src/...` the dashboard).

    tlc -workers 2 -config FolderScan.cfg MCFolderScan # check a run
    tlapm FolderWalk_proofs.tla                        # check its proofs

## 1. Inventory

| component | source | state | operations | what makes it correct |
|---|---|---|---|---|
| folder scan coordinator | `src/server/folder_scan.rs` 37-167 | `holder`, `claimed_at_ms` (atomics), `quarantined` | `try_claim`, `heartbeat`, guard `Drop`, `is_running` | two scans do not overlap; a claim can always be released; a wedged one does not stay |
| folder scan service | `folder_scan.rs` 169-354, `folder_api.rs`, `storage/folders.rs` | tables `folder_sizes`, `meta` | `spawn_periodic`, `run_full_scan`, `run_verify`, `replace_folder_tree`, `update_folder_rows` | rows are never replaced by older looks; a due tree is scanned |
| folder walk | `src/collector/folder_sizes.rs` | subtotals, closed directories, hard links, helper threads | `visit`, `read_dir_timeout`, `record_blocked` | numbers are complete or say they are not; closed directories are paid for once |
| metrics rollup | `src/storage/rollup.rs` | `metrics_4min`, `metrics_rollup_through_ms` | `roll_up`, `query_bucketed_rolled`, prune | same answers as from the raw rows |
| metrics database | `src/storage/db.rs` | `metrics_raw`, `energy_daily`, `network_daily`, `meta` | `insert_raw`, `prune_raw`, the heals, `query_bucketed`, `net_totals`, the histories by hour, day, week and month | each joule and byte is booked once, and the charts agree on them |
| collector task | `src/main.rs` 130-224 | channel, ring buffer, broadcast | store, fold every sixtieth snapshot, prune, broadcast, pace | order of the statements; nobody waits longer than the page's patience |
| metrics collector | `src/collector/metrics.rs` | session and month counters, the totals of the tick before | `collect`, month rollover | counters survive restarts and month ends; rates are of what moved |
| samplers | `disk_io.rs`, `net_interfaces.rs`, `processes.rs`, `gpu_procs.rs` in `src/collector/` | the counters of the sample before, a Wi-Fi cache, a window of samples | `sample`, `list_interfaces` | a difference is of one thing, over the time since the sample before |
| live socket | `src/server/ws.rs`, `frontend/src/hooks/use-websocket.ts`, `frontend/src/store/` | broadcast position, `wsRef`, timers, client store | send, lag, reconnect, watchdog, hide and show | the feed has no gaps or duplicates, and a dead one is replaced |
| history loading | `frontend/src/hooks/use-history.ts` | loads in flight | `loadHistory`, `fetchHistory` | the chart is of the selected timescale |
| service probe and restart | `src/services/probe.rs`, `server/services_api.rs`, `server/control_api.rs` | launchd's, ps' and the ports' | `probe_all`, `restart`, `escalate_if_stuck`, the control helper | a status is one that the service had; only the stuck process is killed |
| service manifest | `src/services/mod.rs`, `manifest.rs` | cache by modification time | `load` | an edit is seen |
| services view | `frontend/src/hooks/use-services.ts`, `components/services/` | last snapshot, restarts under way | poll, restart, track | what is shown settles on what runs |
| folder drawer, chart data, log rotation, machine readings, installation, plumbing, layout | the rest | see section 6 | | |

Interactions. The collector thread sends snapshots through a channel to the
collector task, which stores them, broadcasts them to the sockets, and every
sixtieth time folds and prunes; how long it then sleeps depends on whether any
socket is open. A page loads history over HTTP whenever it connects or turns to
another timescale, beside the frames of its socket. A poll of the services reads the
manifest, launchd, ps and the ports one after the other; a restart sends
SIGTERM and leaves a task behind that may send SIGKILL half a minute later; the control
helper starts and stops the same services. The folder timer thread and the HTTP handlers
(each spawning a thread) compete for the coordinator's claim; the winner walks
the disk with helper threads and writes the folder tables. All users of the
database share one connection behind a mutex, which is taken per statement
or transaction: what spans two of them interleaves.

What is hard: scans that hang in the kernel, are replaced, and come back; two
atomics that are written one after the other; results stored after the right to
store them has passed; directories that do not answer; statements that commit
on their own while the process may die or a statement may fail between them;
queries that read a boundary before they use it; and a clock that sleeps or is
set back; answers that are joined out of several readings, or overtake each other;
counters that start again from zero under the same name; and sockets that die without
a sign. `PROJECT.json` lists each such hazard at its line, with the
properties that are about it.

## 2. Modules

| module | models | state ↔ code |
|---|---|---|
| `ScanLock` | abstract: a mutex with an owner | — |
| `ScanClaim` | `try_claim`, `heartbeat`, `Drop`, one atomic access per action | `holder`, `claimedAt` are the atomics; `pc`, `seen`, `now` the locals of `try_claim`; the guard's generation is `seen + 1`; `timerGone` says that a panic has ended the timer's thread |
| `FolderService` | the loop of `spawn_periodic`, the two requests, the store, crashes | `gen`, `job`, `got` are a scan thread's guard, kind and rows; `row`, `lastScan` the tables; `loopEnded` says that a panic has ended the timer's thread |
| `FolderService_proofs` | theorems about `FolderService` | — |
| `FolderWalk` | `visit`, the probes, `record_blocked`, and what `run_full_scan` and `run_verify` do with a walk | `cursor`, `todo`, `total` are the stack of `visit`; `folders`, `blocked`, `refusals`, `hardlinks`, `truncated` the fields of `Walk`; `lost` the helper threads that never answered |
| `FolderWalk_proofs` | theorems about `FolderWalk`, and about `ScanClaim` | — |
| `MCFolderWalk` | a home directory for `FolderWalk` | — |
| `MCFolderScan` | `ScanClaim` and `FolderWalk`, which share no state: either moves while the other has not begun | — |
| `Rollup` | the collector task's statements, `roll_up`, the two queries | `raw`, `rolled`, `through` are the tables and the meta value; `reader` is the local of a running query |
| `Rollup_proofs` | theorems about `Rollup` | — |
| `Ledger` | `with_db`, `collect`, the channel, `insert_raw`, the seeding and the heals of `open` | `month`, `session`, `prevMonth`, `lapse` are the fields of the collector; `queue` the channel; `raw`, `daily`, `meta` the tables; `pc` where the thread is between two statements |
| `Reports` | `energy_history_*`, `network_history_*`, `net_totals`, read from the tables of `Ledger`, which it extends | none of its own: operators on `raw`, `daily` and `clock`, asked in every state |
| `Ledger_proofs` | theorems about `Ledger` and `Reports` | — |
| `ServiceProbe` | `ManifestSource::load`, `probe_all`, `get_services`, `control_service` | `file`, `cache` are the manifest and what is remembered of it; `poll` is one run of `get_services`, with `entry`, `table` and `told` the results of `launchd_states`, `proc_table` and the loop of `probe_all`; `job`, `parent`, `age`, `listening`, `outsiders` are the machine |
| `ServiceProbe_proofs` | theorems about `ServiceProbe` | — |
| `ServiceRestart` | launchd's job, the restart request, the escalators, the panel | `life` are the processes; `restart` is the request in `restart_service`, `escalators` the tasks in `escalate_if_stuck`; `fetch` the polls under way; `shown`, `click`, `pending` the store, the button and `useRestartTracking`; `signalled`, history, is the pid that the server read for the last restart |
| `ServiceRestart_proofs` | theorems about `ServiceRestart` | — |
| `CollectorRates` | the byte rates of `collect`, `DiskIoSampler` | `prevNet`, `prevDisk`, `lastTick` are the fields; `carried`, `transferred` the counters of the kernel |
| `Interfaces` | `list_interfaces`, `NetSampler`, `cached_wifi_info` | `prev`, `wifi` are the two caches; `counter`, `joined` the machine |
| `ProcessSampler` | `ProcessSampler::sample`, `gpu_procs::sample`, `sample_ps` | `prevCpu`, `prevGpu`, `sampled`, `kept` are the fields; `cpuTime`, `gpuTime` the machine |
| `Samplers` | the three samplers of a process, together | `moving` is the one that a behaviour follows |
| `Samplers_proofs` | theorems about `Samplers` and its three parts | — |
| `LiveFeed` | the broadcast and pace of `spawn_collector`, `handle_socket`, `useWebSocket`, `loadHistory`, the metrics store | `countdown`, `elapsed` are the collector's sleep and its collection, `backlog` the channel to the task; `handler`, `unread` the socket loops and their receivers, `bad` the samples that do not serialize; `client`, `alive`, `wire` the connections; `wsRef`, `intentional`, `timer`, `quiet` the refs of the hook; `loads` the requests of `fetchHistory`; `chart` the store |
| `LiveFeed_proofs` | theorems about `LiveFeed` | — |

The folder feature is cut in three. `ScanClaim` has every atomic access but no
work; `FolderService` has the work but takes and releases the claim in one step;
`FolderWalk` has one scan at a time but all that happens within it. The cut
between the first two is argued by `ImplementsLock` (section 5): until a claim
has been handed over, the atomics behave as the lock `FolderService` uses.

Abstractions that matter:

- A folder row in `FolderService` is the moment its folder was looked at
  (`epoch` counts changes of the disk), since its properties are about which look
  is kept. Sizes are in `FolderWalk`, in which the disk stands still but
  `opendir` may answer differently every time.
- In `FolderWalk` each file has size 1. `read_dir_timeout` is one step with
  three outcomes: entries, an error, no answer (and a thread lost); `lost` is
  only ever increased, as `opendir` of a dead mount may never return.
  The exclusion of other file systems and the thread priority are left out.
- In `Rollup` a sample is its timestamp and an aggregate the set of samples it
  was made from, with the count the answer is weighted by. Averages, maxima and
  sums are functions of those.
- In `Ledger`, power and traffic are one unit per tick, so that what a row or a
  day holds is a number of ticks; a day has two and a month two days. Energy
  (`energy_wh`, `energy_daily`) and traffic (the byte deltas, `network_daily`)
  are kept by the same statements and modelled once. Every statement whose
  error the code swallows may fail; a `meta_get` that fails is not modelled
  (it reads as a missing key).
- In `ServiceRestart` a probe is its pid, read in one step with the request that asks
  for it: what the reading can be overtaken by (the exit, the next process, other
  polls) happens between it and its use. A restart request is the only one of its
  page. Pids are not reused; a reuse within the grace of 30 s would make the
  escalator kill a stranger. Only the root of the process tree is signalled, and modelled.
- In `Reports` an hour may be as long as a day and a browser's time zone half a day
  ahead, so that its hours straddle two days of the server. Weeks have two days.
- In `ServiceProbe` a process owns one unit of memory; pids are used once. Something
  launchd knows nothing of may take a port. The request that controls
  a service loads the manifest in one step: what can come between the steps of a load
  comes between those of a poll.
- In `LiveFeed` a sample is its age: the number of samples broadcast since; so the feed has
  no end and the model does. A collection takes from `Sampling` to `Longest` seconds, longer if it
  is late. What the task does before it broadcasts (insert, fold, prune) is the time that a sample
  stays in `backlog`; a statement that fails there has no effect on the broadcast. Any
  sample may be one that does not serialize; whether a `Snapshot` ever fails to is a matter
  of the serializer. The sockets of one page are followed; all others are the
  choice of `others` in `Collect`. A load is asked for, answered (the state of the
  database at a moment), and arrives; several may be under way.
- In the three samplers one direction of traffic stands for both, a rate is the
  amount that it spreads over its time, and the order of a hash map is any order. They share no
  state, so `Samplers` lets a behaviour follow one of them: `moving` is chosen at the
  start, and any behaviour of all three is one of each, seen apart.
- Time is a counter that advances beside all threads, at any pace, except in
  `LiveFeed`, where a second in which a collection, a sample or a frame is late is a fault.

## 3. Runs

| run | question | bounds, and why they suffice | result |
|---|---|---|---|
| `folder_scan` (module `MCFolderScan`) | the claim on its atomics; what is published and remembered | three threads (one loses, one takes over, one meets the leftovers), clock to twice the threshold, so a claim can be taken over and taken over again; seven directories with a cloud area, three siblings (the collapse rule fires at two), a shared hard link, one directory at `MAX_DEPTH`; two scans, one event | holds |
| `folder_service` | what is stored | timer and one request, two folders, one change of the disk, one fault: a walk can see one folder before and another after a change with another scan between | holds |
| `rollup` | folded answers | buckets of two ticks, all widths up to four, a retention that ends inside a bucket, two faults | holds |
| `ledger` (module `Reports`) | what is booked where, and what the charts make of it | two days to a month and a start in the middle of the second, so that a day and a month turn; rows of an older version on the first; a queue of two and two faults: a crash with a snapshot of the old month queued, a failed heal and a failed flag; charts of two bars, in two time zones | holds |
| `service_probe` | what an answer of the services panel says | two services, one with a port, that the manifest may declare alone or together; two processes, so that a pid is followed by another or has a child; one edit, one control, one failure: each between any two readings | holds |
| `service_restart` | who is killed, and what the panel concludes | a process and its successor, two polls that may overtake each other, two clicks (two tasks may wait for one process), one fault: launchctl fails, a poll fails, the page is reloaded or webtop dies | holds |
| `samplers` | what is made of two readings of a counter | two nics under a tunnel and two drives, two interfaces that share the Wi-Fi cache, one pid that is used again; ages up to the window; one reading that fails. More of each would be alike, as samples are kept by name | holds |
| `live_feed` | what a page shows, and when it reconnects | the code's own seconds: paces of 2 and 5, a patience of 6, collections of 1 or 2 seconds; one socket, as a page has one at a time, a channel and a wire of one, two timescales, two loads (they overtake each other); two faults among: a silent death, a refusal, a load that fails, a late second, a sample that does not serialize, a page restored from the cache, and, counted like them, a turn to the other timescale | holds |
| `scan_claim_late_drop` | folder_scan.rs:52-54 | as `folder_scan` | violated |
| `folder_walk_root` | folder_sizes.rs:372, 397 | as `folder_scan` | violated |
| `ledger_month` | metrics.rs:91, 341-342 | as `ledger` | violated |
| `service_probe_rogue` | probe.rs:54-64 | as `service_probe` | violated |

`CHECK_DEADLOCK FALSE` is set where the bounds on the clock, the requests or
the scans let a behaviour come to rest; the program itself never stops.

What the passing runs say:

- `ClaimHasItsGuard`: through all handovers and late drops, a held claim belongs
  to a thread that still has the guard to release it. `ExclusiveUntilReassigned`,
  `IsLockUntilReassigned`: up to the first handover it is a lock.
- `RowsNeverGoBack`, `RowsBelongToTheTree`: up to the first handover, no stored
  row is overwritten by an older look, and no row is older than the
  walk of its tree. `DueTreeIsRefreshed`: unless a walk hangs, or a panic has
  ended the timer's thread, a due tree is scanned, after any requests, failures and crashes.
  `WedgeIsNotForever`: while the tree is due, and the timer's thread is neither stuck nor ended by a panic, a
  claim past the threshold is released, renewed or handed over.
- `RowsAreHonest`: a published size is not too large, and if it is too small its
  `unreadable` says so. `OneThreadPerDirectory`: a directory that never answers costs one
  thread per process. `CollapseBoundsProbes`, `QuarantineIsEarned`:
  the collapse rule limits the refusals of a walk, and never condemns a directory without cause.
- `AnswersAgree`, `FoldedIsFinal`: with failed statements, crashes and queries
  in between, the rollup's answers are those of the raw rows, and a folded
  bucket is not folded into something else.
- `NeverMoreThanElapsed`: all days together hold no more than
  the time there was, over heals that run twice and the reconciliation of an old
  counter. `CounterIsThisMonths`: what is restored or carried on is this month's.
- `ChartsAgree`: at any moment, between any two statements, the hours add up to
  `net_totals` of the same window in any time zone, a day holds at least its
  hours, and weeks and months at least their days. Hours come from the raw rows and
  days from the ledger, so this is what ties one to the other: a row without
  its booking, or a day seeded short, shows here.
- `OnlyTheStuckAreKilled`, `StuckProcessesEnd`: a process is killed if, and only if, it
  was sent SIGTERM and did not end in its grace, with successors and second clicks in between
  and unless the task that waits for it was never spawned or died with webtop.
  `DoneMeansEnded`: when the panel takes a restart for done and shows a pid later than
  the one that was signalled, the signalled process has ended, for late answers, failing
  probes and second clicks too (section 4 says what it makes of other pids); `PanelCatchesUp`: it comes to show the pid of a
  service that settles.
- `LoadsAreCurrent`: a load, cached or not, gives what the manifest held at
  some moment since it began. `SteadyIsTrue`: if a service's process stays through the readings, its
  state is the one that it had when its port was tried; of a service without a job whose port is
  served nothing is said (finding 4). `UnhealthyHadItsGrace`: what is called
  unhealthy was up for the grace period, also when it died, or ps failed, between two readings;
  `CountedOnce`: no process is in the usage of two services.
- `NothingIsMadeUp`, `NothingIsMissed`, `NothingIsStale`: a sampler shows no more than
  what moved since its sample before, under whatever name, all of it if it was there throughout, and
  a cache or a window comes to its end. GPU time and drives are excepted once a
  reading was incomplete (section 4).
- `FeedIsWhole`: a page is given every sample that serializes, in order, once, between two openings of its
  socket, however far it falls behind. `NeverFrozen`: a visible page gets frames again and again, whatever
  became of its sockets. `HealthyIsLeftAlone`: the watchdog reconnects only if something was
  dead, skipped or late, at the idle pace too: a collection longer than `Longest`, a sample not stored and broadcast
  within its second, a frame not delivered within its own. `ChartIsOfTheTimescale`: once the loads have ended, the chart is of the
  timescale that is selected, or shows an error, or its answer was overtaken.

The properties of `Ledger` and `Reports` say when they stop: `strayed` is set when a row is stored
on another day than it was taken on, or a seeding or the flag of a one-time step
fails; `spoiled` when the stored counter and its month may
disagree. Section 4 lists what can happen from there.

Fairness. A thread that can take a step will (the OS schedules it), and the
timer's loop comes back (it sleeps a finite time). Requests, hanging,
waking up, faults, changes of the disk and the clock are not fair. A hang is
therefore allowed to last for ever, and the liveness properties say
what they say of behaviours in which the timer's own thread (`WedgeIsNotForever`)
or any walk (`DueTreeIsRefreshed`) is not hung. A panic in a walk is not fair either, but it ends
the timer's thread if the walk is the timer's. Both properties except that: once the timer's thread hangs in
a walk or is gone, nothing restarts the loop (section 4). In `ServiceRestart` requests are served, the
poll's timer fires and the escalators wake up (they sleep a second at a time);
no process has to end, and launchd does not have to start one. In `LiveFeed` time
passes, collections end and the collector wakes up when its sleep is over (a loop with a timeout in it),
what is in the channel is broadcast, the watchdog and the reconnect timer fire, sockets open, frames are sent and taken in, the close of a socket that has ended arrives, and loads are answered
and arrive. Nobody has to select, hide or show anything, and at most `MaxFaults`
sockets, loads, samples or seconds go wrong: with an unbounded number no page would ever
have to see a frame, and with none the watchdog would have nothing to do.

Every property has a mutant in `PROJECT.json`: a plausible mistake in one mapped
definition that makes TLC find the property violated.

## 4. Findings

Each with a run that shows it.

1. **A late drop can free another scan's claim** (folder_scan.rs:144). Generations
   are "holder + 1" and the holder returns to 0, so numbers repeat:
   scan 1 hangs with number 1, scan 2 takes over with 2 and ends, scan 3 claims with 1; then scan 1
   returns and drops number 1.
2. **The scan root can be written off** (folder_sizes.rs:390) by one
   open that takes longer than `OPEN_TIMEOUT`, until the process restarts.
3. **A month that ends while the process is down is lost** (metrics.rs:109). The next
   start resets the counter without moving its value to the previous month.
4. **`Rogue` is never told** (probe.rs:299). The port is only tried when launchd has given a
   pid, so that a service without a job is told as unregistered although its port is served;
   probe.rs:54 and 64 define the state and call it detected "in its simplest shape". The dashboard, too,
   provides for it (types.ts:83, derive.ts:12).

Smaller disagreements between comments and code, found by reading, for which
there is no run:

- folder_scan.rs:328 promises a pass whenever the stored tree is old, and line 89 provides for a
  panic in a scan. The loop calls `run_full_scan` on its own thread and catches nothing (line 350), so that a panic in the
  timer's walk (a helper thread that cannot be spawned, folder_sizes.rs:127) releases the guard and ends the periodic scans:
  only requests scan from then on. Without its last disjunct `DueTreeIsRefreshed` is violated by that.
- use-restart-tracking.ts:16-18 calls a changed pid the only unambiguous evidence of a restart.
  The panel remembers the pid that it showed at the click (ServicesView.tsx:74); the server reads the
  pid anew and signals that. If the service had exited since the last poll, the next poll
  shows the signalled pid, which is not the remembered one, and the restart counts as done while that process drains
  (line 54). The answer of an older poll that arrives last has the same effect. Without its exception for the
  pids up to the signalled one `DoneMeansEnded` is violated by that, already with one poll at a time.
- folder_sizes.rs:86-88 speaks of three *consecutive* blocked children;
  the count is of all refusals under a parent (`RecordBlocked`).
- folder_sizes.rs:212 says the closed directories are those that "never answered";
  those that answered with an error are among them (`Refused`).
- A directory beyond `MAX_DEPTH` is left out without being counted unreadable
  (`PassBy`; `RowsAreHonest` makes no promise for it).
- A verify of a directory that is closed stores size 0 with one unreadable,
  over the size it had (`FinishPath`).
- rollup.rs:7 calls the data append-only; after the clock is set back, rows are
  stored below the boundary and never folded (`steppedBack`).
- rollup.rs:285 promises the numbers to the last digit; a window that starts
  in a bucket cut by the last prune gives the whole bucket from the
  rollup and part of it from the raw rows (`AnswersAgree` asks for windows that start later).
- metrics.rs:347-352 writes three values one by one: a crash in between, or a failure,
  leaves last month's total to be restored as this month's. So does a
  snapshot of the old month that is stored after the reset, until the
  next one is (`spoiled`).
- metrics.rs:339 takes any other month for a new one: a clock that is set back over
  the end of a month and forward again loses the previous total.
- db.rs:783 says that the seeding and the live rows "can't race": a row taken
  before midnight and stored after is booked on the new day, and by the seeding of a
  later start on the old one if that has no total yet (`strayed`).
- A reconciliation whose seeding failed books days that the next start seeds again.
- db.rs:408 says that rate times time gives the bytes "exactly"; the time is clamped to
  five seconds and the rate is not.
- services_api.rs:82-84 says that the escalation keeps running when the browser
  disconnects. It does once it is spawned; a client that leaves between SIGTERM and
  that moment makes the server drop the handler, and nothing is left to see the
  restart through (`Escalate`, `abandoned`).
- folder_scan.rs:37 calls `WEDGED_AFTER_MS` the time a scan may hold the claim;
  `claimed_at_ms` is stored after `holder` is swapped (line 150), and a caller in between sees the
  new holder with the old time and takes a fresh claim over (`Swap`, `Stamp`).
- folder_scan.rs:3-5 says that scans must not overlap; one that lost its claim stores
  what it has when it returns, over the newer tree of its successor (`ReplaceTree`, `reassigned`).
- folder_scan.rs:11-13 says that whoever loses the race loses nothing; a full scan also yields to a
  verify of a few rows, which does not produce its tree (`TurnedAway`).
- A process that exits between launchd's list and ps has uptime 0 and is told as "starting", one
  that exits between ps and its port as "unhealthy", for one poll each. A launchctl that
  fails makes every service "unregistered" (`ReadLaunchd`).
- metrics.rs:195 says that the rates of the drives come from per-process deltas; they come
  from the drives' own counters (`DiskIoSampler`).
- use-history.ts:14-15: an answer replaces all points, also frames that were
  pushed after the database was read (`stage` "behind"); the gap closes with the next load. An answer for an earlier
  timescale that arrives last is shown under the current one (`passed`).
- net_interfaces.rs:524 looks for "active" in the status of an interface, which "inactive" contains.
- A Wi-Fi look-up that failed is kept for fifteen seconds like one that succeeded (`CachedWifiInfo`).
- disk_io.rs:35-47: a reading that misses a drive is taken for complete, and the next one counts all that
  the drive ever moved (`missedDrive`). After a reading that failed altogether, the bytes of two ticks
  are divided by the time of one. In the same way a GPU client
  that one reading misses has its whole GPU time counted by the next
  (processes.rs:61-72, `blind`).
- processes.rs:117-137: a pid that is used again within the window averages two processes.
- api.rs:136 calls the totals trapezoid-integrated; `net_totals` is a plain sum of
  the booked bytes.
- Charts by day that are asked for while `with_db` still seeds show days without
  their total (`Starting`), and so do days before the upgrade for good if the clock was set
  back to one of them: a row that is stored there gives it a total, so that it is not seeded
  (`IsCovered`). A row that is ahead of a clock that was set back is in no hour bar.
- folder_api.rs:95-110 reads the children, the total, the time and the claim one after the
  other. A scan that ends between the first and the last is reported as not running beside
  the old tree; the drawer then stops polling (FolderTree.tsx:98) and shows it until it is opened again. Its answer to a poll for one
  folder may also land after the reader has moved to another.
- logging.rs:81-112 reads the tail of the log, truncates it and writes the tail back: what is
  logged in between, or a crash after the truncation, loses lines.
- db.rs:301-324: the heal of the byte rates divides in place and sets its flag in
  another statement; a crash between the two divides twice.

## 5. Proofs

`FolderService_proofs` proves, for any threads, folders, threshold, interval and
bounds allowed by `FolderServiceAssumption`:

- `TypeCorrect`: `Spec => []TypeOK`;
- `RowsBelongTogether`: `Spec => []RowsBelongToTheTree`;
- `LooksAdvance`: `Spec => RowsNeverGoBack`.

None of the three is inductive. That only looks are stored (part of `TypeOK`)
holds because a full walk has left nothing unvisited by the time it stores: `WalkInv`, which
speaks of every thread, also of those that lost their claim. That a look is not
older than what it overwrites needs `GuardInv`, that until a handover at most one thread is
between its claim and its `Drop`, `StoreInv`, that nothing stored is from the
future, and `FreshInv`, that what the holder has found so far is newer than
what is stored: true when it claims (its walk begins after every stored look was
taken) and kept because nobody else stores. The step proofs sort the actions
into those that touch neither tables nor guards (`QuietSteps`) and five others.

`ServiceRestart_proofs` proves, for any number of processes, polls, clicks and
faults and any grace and patience allowed by `ServiceRestartAssumption`:

- `TypeCorrect`: `Spec => []TypeOK`;
- `KillsAreEarned`: `Spec => []OnlyTheStuckAreKilled`;
- `NewPidProvesEnd`: `Spec => []DoneMeansEnded`.

`GraceIsGiven` relates each waiting task to the signal of the process it waits for: at
the deadline of the task the process has had its grace. For `NewPidProvesEnd`,
`OneAtATime` says that launchd runs one process at a time and in order, and `PidsAreBorn`
that every pid that anybody has read or shown was given out: a later pid that is shown
was then started after the end of the one that was signalled, which was read, too (`SignalsHavePids`).

`Rollup_proofs` proves, for any width of a bucket, set of requested widths, retention
and bounds allowed by `RollupAssumption`:

- `TypeCorrect`: `Spec => []TypeOK`;
- `RollupAnswersForRaw`: `Spec => []AnswersAgree`;
- `FoldedStays`: `Spec => FoldedIsFinal`.

`RollupInv` says what the answers rest on: until the clock is set back no row is ahead of
the task, the boundary is not ahead of the clock (nor a reader's of the boundary), every bucket below the boundary that
no prune has cut holds exactly the rows that are in it (`FoldedUpTo`; between the fold and
its mark, up to the bucket that is open), and a bucket holds no row
that is not stored (`FoldedFromRows`). The arithmetic is in four lemmas about `Floor`:
`GridSplits`, that a boundary on the grid has whole buckets on either side, and
`ServedBucketsAreWhole`, that a width the rollup serves is made of whole buckets, are
what make the two halves of an answer disjoint and complete; `PointsAgree` then counts both.

`Ledger_proofs` proves, for any length of hours, days, weeks and months, any time zones, clamp,
retention, rows of an older version and bounds allowed by `LedgerAssumption` and
`ReportsAssumption`:

- `LedgerTypes`: `Spec => []TypeOK`;
- `NothingIsBookedTwice`: `Spec => []NeverMoreThanElapsed`;
- `ChartsAgreeThroughout`: `Spec => []ChartsAgree`;
- `CounterCountsItsMonth`: `Spec => []CounterIsThisMonths`.

The first three speak of sums over tables. A fold cannot be computed by the prover
for any table, but a total can be counted: `Units` gives each key as many pairs as its
value, and the library counts the set (`AllSubsets` does by hand the one induction this takes).
From then on only lemmas about totals are used: of no keys, one more, a part, two pieces.

That all days together hold no more than the time there was cannot be shown of what they
hold: between a row's booking by an older version and the seeding, or the reconciliation,
of its day they hold less than they will. `Owed` is what each day has or will be
seeded with. `Elapsed` bounds that by the time of any sample that may still come
(`Coming`: from the clock, in the collector's hands or in the channel), so it needs that they
come in order and after all rows (`Ordered`); and for the reconciliation, which books the old
month's counter less what the days have, `OldCounter` (the counter is that of the month of the upgrade),
`OwedBefore` (until then nothing is booked that is newer) and `SeedingDone` (every
other day is seeded by then). `Phases` says which of the one-time steps are done where in a start.
`Covers`, that what the rows of a day have is in its ledger, is what ties the charts by the hour to
those by the day. The rest of `ChartsAgree` holds of any tables: the hours partition
their window in any time zone (`AllHoursAddUp`), and each day shown is in a week shown
(`AllDaysFit`).

The counter is bounded by `Room`, the time since its month began and one interval. That
needs the same of everything the counter may come back from: the stored one
(`MetaFits`), the snapshots in the channel (`QueueFits`), and, in the two places where
the month is stored and the counter not yet, only that the month is the right one.
`RoomShrinks` is why a snapshot of a later month may be stored over an earlier one, and the
other way round spoils it; `TickFits` why time makes as much room as it uses.

`FolderWalk_proofs` proves, for any finite tree of directories (`TreeAssumption`: each is
beneath the root), any hard links, any limits and bounds allowed by `FolderWalkAssumption`:

- `TypeCorrect`: `Spec => []TypeOK`;
- `OneThreadForEach`: `Spec => []OneThreadPerDirectory`;
- `WrittenOffIsEarned`: `Spec => []QuarantineIsEarned`;
- `CollapseHolds`: `Spec => []CollapseBoundsProbes`;
- `NumbersAreHonest`: `Spec => []RowsAreHonest`.

The types need `PathInv`: the frames that are open lie on a path (`IsPath`, whose set
of directories is the witness that each step extends) from the root of the walk to the
cursor, so that no return and no refusal looks for the parent of the scan root. `ClosedInv` is the rest: `LostAreRemembered`, that who
costs a thread is in the quarantine, among what the request has learned or what the walk has found,
needs `NothingPending`, that each of the three is handed to the next before it is
forgotten; and `RefusalsAreCounted`, that every counted refusal is of a child that has
failed and is closed, needs both tests of `Closed`: that of the directory, so that no child counts
twice, and that of its parent, so that none counts after the collapse.

`NumbersAreHonest` is about two bounds of a size that are recursive over the tree (`Level`,
how deep a directory is, and `Beneath`, those beneath it), so it begins with the tree:
`TreeInduction`, taken from the assumption, gives that each directory has one chain of parents
(`WaysAreChains`) and that both functions are what their equations define (`LevelIs`, `BeneathIs`, by
counterexamples of least size). `PlaceInv` says where a walk is: the directories that are open are
the chain from its root to the cursor, and no directory is to come from two places
(`OnePlace`). What has been counted is not in the state; it is carried as two sets that exist in
every state, the pairs of a file and the directory where it was counted, and the directories that were
opened (`CountInv`). No file is counted twice and a shared one is remembered (`FilesOnce`), no directory is opened
twice (`DirsOnce`), each subtotal is the number of pairs beneath its frame (`TotalsAreCounts`), which
makes it no more than the tree has; and each file that a frame must count is counted, or is still
to come, or that frame or one that is open beneath it owns up to something unreadable
(`NothingIsLost`), which makes it no less. `HonestInv` carries both from the frames to the rows of a walk, of
a verify and of the table.

The last part of `FolderWalk_proofs` is about the claim under which a walk runs.
`ScanClaim` and `FolderWalk` share no name, so that one module extends both; that is why the
definitions of `ScanClaim` are called `ClaimInit`, `ClaimNext` and so on. For any set of threads,
threshold and clock bound allowed by `ScanClaimAssumption` it proves:

- `ClaimTypes`: `ClaimSpec => []ClaimTypeOK`;
- `ClaimAlwaysHasItsGuard`: `ClaimSpec => []ClaimHasItsGuard`;
- `ExclusiveScans`: `ClaimSpec => []ExclusiveUntilReassigned`;
- `ImplementsLock`: every step up to the first handover is a step
  of `ScanLock` or leaves its state alone.

`ClaimHasItsGuard` is not inductive: to know that a `Drop` of another
thread does not touch the claim's guard, and that a new claim has a number of its
own, one must know how the numbers of all guards relate to the holder. `ClaimInv`
adds that until a reassignment every guard's number is the holder's and that there is
one, and that the owner of a held claim is inside its section with the holder's number.
Each action is a step of the proof, with one substep per conjunct that it can disturb.

`ServiceProbe_proofs` proves, for any services, numbers of processes, edits, requests and
failures and any grace allowed by `ServiceProbeAssumption`:

- `LoadsGiveWhatWasThere`: `Spec => []LoadsAreCurrent`;
- `StayedIsToldTruly`: `Spec => []SteadyIsTrue`;
- `NothingIsJudgedEarly`: `Spec => []UnhealthyHadItsGrace`;
- `NoProcessCountsTwice`: `Spec => []CountedOnce`;
- `ProbeTypes`: `Spec => []TypeOK`.

`LoadInv` says what the cache may be trusted for: what is remembered under the present
modification time of the file is what the file holds, because a load stores under the time that it
took before it read. `MachineInv` relates what was read to what is: whatever ps has
listed is by now at least as old as listed (`SeenWasBorn`), and what stayed is
still as it was read, and as old (`SteadyStays`). All that the machine does beside a poll is
one lemma, `WorldMoves`. That no process is counted twice rests on `Forest`: the process of
a service has no parent among the others, when it was read and in the table of ps too, so that
no tree that begins with one reaches another, although launchd and ps were read at two
moments. `Counts` says that what is told of a service is the tree of the process read for it.

`LiveFeed_proofs` proves, for any sockets, timescales, paces, capacities and bounds
allowed by `LiveFeedAssumption`:

- `FeedTypesHold`: `Spec => []TypeOK`;
- `FeedHasNoGaps`: `Spec => FeedIsWhole`;
- `ChartSettles`: `Spec => []ChartIsOfTheTimescale`;
- `PatienceIsEnough`: `NextCollectorDelay(FALSE, Sampling) + Longest <= Stale =>
  (Spec => HealthyIsLeftAlone)`.

`FeedInv` strings the samples together: from the last frame shown over the frames on the
wire to what the receiver has not taken, each is the successor of the one before, but for samples
that do not serialize (`Chained`), and only one socket is open (`OneSocket`). `LoadsInv` says that a load for the selected timescale is in flight, or
the chart is right already and no answer that is yet to come can change that.
`PaceInv` is about time: while nothing was late, the silence that the page has seen, the
collector's remaining sleep and the rest of the longest collection are together no more than the page's patience, unless a
sample, a frame or a close is on its way (`Punctual`).
The hypothesis of `PatienceIsEnough` is that the longest sleep, which follows the shortest collection, and the longest
collection fit into the patience of the page. With the values of main.rs:155-170 and use-websocket.ts:7-16, five
seconds idle and six of patience, a collection may take at most one second longer than the
shortest, the window of the power sampler (metrics.rs:284). Collections that vary by more, or a database that
holds a sample back for more than its second, make the watchdog replace a socket that carries everything it is given: the
hypothesis is not an assumption of the model, and what exceeds it there counts as late.

`Samplers_proofs` proves, for any finite sets of interfaces and drives, any tunnels, networks and
pids, any window, age of the cache and bounds allowed by `SamplersAssumption`:

- `SamplerTypes`: `Spec => []TypeOK`;
- `TheOldIsForgotten`: `Spec => []NothingIsStale`;
- `WhatIsShownHasMoved`: `Spec => NothingIsMadeUp`;
- `WhatHasMovedIsShown`: `Spec => NothingIsMissed`.

Each sampler has an invariant that relates what it remembers to the counters by what has
moved since: at most that if something may have gone or come (`prevNet`, `prevDisk`, `prev`,
`prevCpu`, `prevGpu`), and exactly that if nothing has. For byte rates (`RatesInv`) these are sums,
and a sum over a set is a fold: how much it changes when a counter does, when an interface comes or
goes, is induction over data, which the prover does not do by itself. The lemmas therefore
count: `Bytes` is the set of the single bytes, its cardinality is the sum (`FoldingCounts`, by taking a least
set for which it were not), and what a step does to a sum follows from
the library's facts about cardinalities. In `NetInv` the loop over the interfaces hands the
cache from one to the next; after any number of turns what it holds of an interface was looked up no
longer ago than it has aged (`Recent`), so that an interface that has kept its network for the
age of the cache is told the right one. In `ProcInv` the samples of a pid get younger from front to
back, which is why popping from the front until one is within the window leaves none that is
too old, and a sample that shows work is at least as old as the pid's idleness (`SamplesAreKept`).

Only model-checked:

- liveness: `WedgeIsNotForever`, `DueTreeIsRefreshed`, `StuckProcessesEnd`, `PanelCatchesUp` and
  `NeverFrozen`. Fairness and ENABLED are outside the prover's reach.

## 6. Not modelled, and the plan

Not modelled, as there is no state over time or only I/O: the readings of macOS
(`battery.rs`, `disks.rs`, `fan.rs`, `footprint.rs`, `mem_breakdown.rs`, `system_info.rs`),
with the refresh of a battery's capacity and of the list of volumes every so many ticks;
installation by `launchctl`; embedded assets; drawing and layout, with `downsample`, a pure function of the points that
it is given; the recovery of a poisoned lock. Of modelled components are left out: names,
memory and the cut to the busiest of the processes; the totals of the GPU; the ring
buffer, of which only the latest GPU usage is read; the checkpoint of SQLite, the heal of
the byte rates and the drop of an old table; the history of service memory; grouping,
scales and buttons of the services view.

Not modelled, though it has behaviour: the folder drawer, which only reads what
`FolderService` writes, and log rotation, whose other writer is outside the program.
Section 4 tells what each can get wrong, as found by reading.

Next: a module for `get_folders` and the drawer's poll on top of `FolderService`.
