# Verification of the job runner, the gateway's calls and the phone's dispatcher of sinnix

sinnix is the configuration of a few hosts with some fifty programs beside it.
This project is about the three in which processes race, crash and recover over
state that others depend on.

- `src/pkgs/agentctl` runs the heavy commands of a workstation: builds, test
  suites, agents.  It keeps no daemon and no database of its own.  A job is an
  entry in the queue of `pueued`; the command of the entry is `agentctl-run`,
  which starts the payload as a transient systemd unit, waits for it and writes
  what became of it.  `agentctl job start|cancel|retry|clean|wait` and the
  minute timer (`agentctl pressure tick`) are short-lived processes that read
  and write the same files and give orders to the same two daemons.  Any of them
  may be killed or lose an answer at any point, and all that they share are
  files, flocks, and daemons whose state moves between a question and the order
  that follows it.
- `src/pkgs/sinnix-agent-gateway` serves agents over MCP.  A mutation carries an
  idempotency key; the gateway claims it in sqlite and in a file lock, has
  agentctl launch the job, and answers a retry from what it has recorded.  It
  also keeps warm sessions to upstream MCP servers, which concurrent calls share.
- `src/pkgs/sinnix-phone-dispatcher` takes over what a phone holds (its intents,
  the logs of its days, its recordings) and hands it messages.  The phone deletes
  what it is told ok of, so a wrong ok loses the only copy.

## 1. Inventory

| Part | State it keeps | Operations | Talks to | Hard behaviour |
| --- | --- | --- | --- | --- |
| Attempt lifecycle (`run.py`, `artifacts.py`) | attempt directories, outcome files, scratch, custody record | begin, prepare, admit, claim, dispatch, await, classify, release, publish | systemd, the cgroup, the cancel marker, the allocation lock | wrapper killed anywhere; lost answers of systemd; all attempts of a job share one unit name |
| Cancellation obstacles (`cgroups.py`) | none; reads the record and the kernel | observe, cancellation_obstacle | systemd, cgroupfs | a unit that is stopped over living processes |
| Job commands (`launch.py`) | launch input, disposition, marker, requests | enqueue, cancel (guarded by an attempt or not), retry, clean | pueue, systemd, both locks | check-then-act on pueue; a caller that dies half way |
| Cross-pool admission (`launch.py`, `pools.py`) | the hold in the launch input | enqueue, retry, release_holds | pueue, admission lock | stash and record are two writes; tasks that wait for each other |
| Pressure pauses (`pressure.py`) | event log, checkpoint | tick | pueue, PSI, the log | who owns a pause after a loss, a crash or an operator |
| Keyed launches (`launch.py` 551-702) | the retained launch input, the lock of the key | enqueue_request, lookup_operation_request | pueue | retry of a launch whose answer was lost; an add that the daemon takes late |
| Result reuse (`launch.py` 109-288) | cached results | successful_cached_attempt | pueue, files | adoption of a job that runs |
| Gateway calls (`audit.py`, `runtime.py`, `execution.py`) | the row of a key in sqlite, the file lock of the key | execute_async, reconciliation, audit.operation | keyed launches | restart between effect and answer; a retry beside the call; a call that is cancelled |
| Upstream sessions (`mcp_broker.py`) | the session of each server, its stream and slots | call, serve, discard | upstream MCP servers | an upstream that fails with calls in the stream; a call that gives up in the queue |
| Phone: intents (`execute.py`, `dispatch.py`, `external.py`) | the ledger of a token, the outbox, the state of the scoring thread | post, sweep, trigger_score | job runner, text store | the same intent live and by the outbox; a kill between effect and record |
| Phone: day logs (`uploads.py` 327-632, `notifications.py`) | one file a day, set-aside copies | events_cursor, append_events, repair_event_day | desktop notifications | short writes, restored copies, power cuts, a repair beside an append |
| Phone: uploads (`uploads.py` 122-320) | a file under each name | store_upload | none | names that are used again; an ok before the bytes are synced |
| Phone: inbox (`inbox.py`) | messages by name, hidden claims | open_inbox, confirm_inbox | whoever publishes | a message replaced between look and delete |
| Event log (`sinnix_lib/ledger.py`, `event_compaction.py`) | append-only JSONL | append, compact | readers with byte cursors | torn tail, replacement under a reader |
| Job reads (`job_queries.py`) | none | view, wait, logs, result | files, pueue | which attempt a read is about; when a job is terminal |
| Adaptive widths (`pressure.py` 262-370) | pool widths in pueued | adaptive_widths | pueue, cgroups | bounds of the width |
| Worktree cleanup (`worktree_cleanup.py`, `native_worktrees.py`) | custody documents, refs | clean | git, worktrunk, processes | a checkout in use when it goes |
| Configuration, environment, git, views | none | parsing, reading | nix, git, gh, bd | none of a model's kind |

What makes each of those that are modelled correct:

- *Attempt lifecycle*: the processes of two attempts never mix; what outlives
  an attempt stays on record until it is gone; an outcome, once published,
  never changes and is about its own attempt; scratch outlives its processes.
- *Job commands*: "stopped" is true and stays true; nothing is cancelled that
  nobody asked to cancel; a guarded command never hits a newer attempt; every
  command returns; a cancelled start ends.
- *Admission*: exclusive work never runs together; what agentctl stashed it
  finds again, and releases in the end; it releases nothing else.
- *Pressure*: a tick never resumes what the operator paused once a tick had seen the
  group run; what it closed reopens.
- *Keyed launches*: one job for a key, for the request that came first, however
  often and by whomever it is used; nobody is told of a job that is not his; and
  every call ends.
- *Gateway calls*: the job owner is called once for a key; what a caller is told
  is true of the queue and is what every other caller is told.
- *Upstream sessions*: a request is carried out once at most and only while
  somebody waits for it; a failure reaches everyone who waits; a dead session is
  not found again.
- *Phone*: nothing is forgotten that was not done, no effect comes twice, an ok
  is of bytes that neither a kill nor a power cut takes, and everything arrives
  in the end.

`PROJECT.json` lists every component with its status, and under `hazards` what
a test would hardly reach, at the line where it bites.

## 2. The modules

| Module | Models | Used by |
| --- | --- | --- |
| `JobLifecycle` | one job: task, wrapper, unit, cgroup, cancel, retry, clean | `MCJobLifecycle`, `JobLifecycle_proofs` |
| `Admission` | many jobs in pools that exclude each other | `MCAdmission`, `Admission_proofs` |
| `Pressure` | one timer's ticks, the groups, the log and its projection | `MCControl`, `MCControl_proofs` |
| `LaunchOnce` | the abstract promise of a key: one job, for the first request | `KeyedLaunch` |
| `KeyedLaunch` | the processes that launch under one key, pueue's client and daemon | `GatewayCalls`, `MCControl`, `KeyedLaunch_proofs` |
| `GatewayCalls` | gateway calls of one key, with `KeyedLaunch` inside | `MCControl`, `GatewayCalls_proofs` |
| `WarmSession` | the session to one upstream server and the calls that share it | `MCControl`, `WarmSession_proofs` |
| `PhoneIntents` | one token: posts, the sweep, execution, scoring | `MCPhone`, `MCPhone_proofs` |
| `PhoneEvents` | the log of one day, its repair and restores | `MCPhone`, `PhoneEvents_proofs` |
| `PhoneUploads` | what the phone has had under one name | `MCPhone`, `MCPhone_proofs` |
| `PhoneInbox` | one name of the inbox, and its confirmations | `MCPhone`, `MCPhone_proofs` |

The first three meet at the queue: in `Admission` a job is an entry that starts
and ends at pueued's will, which is what `JobLifecycle` is about; a paused group
of `Pressure` only delays starts, which both leave to pueued.  `KeyedLaunch` is
what is before the queue: its `WritesInput` and `SendsAdd` are the launch whose
holds and admission lock `Admission` has.

`MCControl` and `MCPhone` hold several modules whose state is disjoint: separate
files, locks, databases and processes, that no step of another module reads or
writes.  Any behaviour of the whole is then an interleaving of behaviours of the
parts, and a property of one part sees only that part's steps.  So a behaviour
there has one `scope` and the other parts rest in an initial state, which checks
each part in full and not their product.

### JobLifecycle

One step is one critical section, one file write or one call to a daemon.

| Variable | In the code |
| --- | --- |
| `task` | the entry in pueue; `run` stands for its start time, which tells starts apart |
| `wrapper` | the local state of `run._run` and its `_Scratch`; `pc` is the place in `_run` |
| `unit`, `members`, `execution` | the transient unit, the attempts with a process in its cgroup, and what really became of each payload (history) |
| `attempts`, `outcome` | `<ref>.attempts/<n>/` and its outcome file |
| `marker`, `requests`, `disposition` | `<ref>.cancel`, `cancel.json` of an attempt, `<input>.disposition` |
| `scratch` | the scratch directory and whose it is |
| `allocation` | the flock on `<ref>.attempts/.allocation.lock` |
| `cancel[c]` | a call of `job cancel`; those in `Guarded` pass `--expected-attempt` |
| `retrying`, `cleaning` | `job retry` and `job clean` |

The wrapper's actions follow `_run` in order: `WrapperBegin` (artifacts.begin
under the lock), `WrapperPrepares`, `WrapperChecks` (the marker), `WrapperAdmits`
(slots and orphans), `WrapperClaims` (the custody record, lock kept),
`WrapperDispatches` / `WrapperRejected` / `WrapperBacksOff` (systemd-run, its
failures and the retries of a refused bus), `WrapperSnapshots`, `WrapperAwaits`,
`WrapperClassifies`, `WrapperReleases`, `WrapperFinishes` (the marker is
consumed), `WrapperCleansUp` and `WrapperPublishes`.  `CancelCall` to
`CancelReports` are `cancel`, `_cancel` and `_cancel_not_started`.  A call breaks
off (`CancelBreaksOff`) where its process dies or where a look at the queue raises
`PueueError` (`CancelUnanswered`), which nothing in the call catches but the guarded
escalation: what it has written stays, among it an intent over the custody record.
A retry or clean that pueue does not answer ends in the same way.  A `\* Slip:`
definition is a plausible mistake in the definition after it; none is part of
the specification.

`Faults` chooses what the environment does: a process survives a stop, the
manager forgets a unit, a query fails or its answer is lost, the wrapper is
killed, a canceller dies, commands overlap.

### Admission

| Variable | In the code |
| --- | --- |
| `status`, `id` | the entries of the jobs in pueue |
| `mover` | who gave pueue the last order for an entry (history) |
| `hold` | the `hold` of each launch input |
| `lock` | the admission lock |
| `launcher[j]` | `enqueue`: `LaunchAdmits` (decide, write the input), `LaunchAdds` (`pueue add`), `LaunchAcks` (write the input again) |
| `retry`, `retries` | `retry`: `RetryAdmits`, `RetryRestarts`, `RetryRecords` |
| `pass` | `release_holds`: `PassBegins` (one look at the queue), `PassLeaves`, `PassReleases`, `PassConsumes`, `PassDone` |

Launches that ask for a stash of their own (`stashed=True`) are left out, and a
`pueue add` is assumed not to take effect after its caller has given it up and
dropped the lock.

### Pressure

| Variable | In the code |
| --- | --- |
| `group` | whether each managed group runs, in pueue |
| `psi` | what `over_threshold` and `_can_reopen` say of the pressure |
| `log`, `file` | the pressure events of the event log and the identity of its file; a position in `log` stands for a byte offset |
| `ckpt` | the checkpoint: pauses that are ours, and the cursor |
| `tick` | the locals of `_tick` |
| `claim` | what the ticks have said and done of each group (history) |

`TickReads` is `event_state`, `TickLooks` the look at the groups,
`TickReleases`/`TickReleased` the ownership that the operator ended,
`TickReopens`/`TickCloses`, `TickRecords` and `TickSaves` the change, its event
and the checkpoint.  `TickEnds` is the deadline or a kill anywhere,
`ReplayEndsEarly` the deadline inside the replay.  Every append and every
checkpoint may be lost (the code goes on), a call may fail after it took
effect, and the log may be compacted, rotated or truncated (`LogReplaced`).

### LaunchOnce, KeyedLaunch and GatewayCalls

| Variable | In the code |
| --- | --- |
| `lock`, `input` | the flock on the file of the key; the retained launch input with the task number that pueue gave |
| `call[c]` | the locals of `enqueue_request` in a process |
| `wire`, `tasks`, `queued` | adds that the daemon has but has not carried out; tasks ever added for the key; those that `pueue status` lists |
| `attempts`, `group` | an attempt directory exists; the pool is a pueue group |
| `row`, `claim` | the row of the key in the gateway's database; the gateway's own lock file of the key |
| `gate[g]`, `reader` | the locals of `Runtime.execute_async`; those of `audit.operation` |

`ReadsInput`, `LooksAtQueue` and `LooksAtEvidence` are
`lookup_operation_request`, `WritesInput` to `Acks` the launch itself.  `AddFails`
is a client that is cut off: the add may still be on the `wire`, and
`DaemonAdds` may take it after the caller has answered, died or come again.
`KeyedLaunch` implements `LaunchOnce` with `launched` as the request of the input
once a task exists, `asked` as the requests of the calls and `told` as their
answers.  In `GatewayCalls`, `Claims` is the transaction of `claim_idempotency`,
`Runs` to `Settles` the call and its settlement, and `RecoverReads` to
`RecoverCompletes` the reconciliation of a claim whose call has ended; `Restarts`
ends the process with everything in it.

### WarmSession

`current` is the entry of the server in the broker's table, `lock` is
`_session_lock`, `stream` and `slots` are the memory stream of a session and its
limiter.  The tasks run on one event loop, so a step is what happens between two
awaits.  `TakesSession`, `Started`, `Sends`, `Hears` and `Discards` are a call;
`Serves`, `Admits`, `Tells` and `SessionEnds` the task of the session; `Runs` and
`Replies` the task of a request; `TimesOut` the time limit of a call, anywhere;
`Breaks` the failure of the upstream.

### The phone

| Module | Variables | In the code |
| --- | --- | --- |
| `PhoneIntents` | `token`, `lock` | the record and the flock of a token |
| | `durable` | what a power cut may leave of the record: what was synced last, and what took its name since without a sync of the directory |
| | `run[r]` | `execute()` in a request thread or in the `dispatch` process |
| | `effect` | what the intent has left behind, with what of it is synced (history) |
| | `held`, `file` | what the phone holds, and the file of the outbox |
| | `score`, `unseen` | `_score_pending`, `_score_running` and the pass; blobs nobody has scanned |
| `PhoneEvents` | `made`, `phone` | the day file on the phone and what the phone knows of prime |
| | `file`, `backup`, `lock` | the day file on prime, the copies set aside, `.write.lock` |
| | `handler[h]`, `repair` | a request thread; the `repair` verb |
| `PhoneUploads` | `disk`, `lock`, `handler[h]` | the files under the names, `_UPLOAD_LOCK`, a request thread |
| `PhoneInbox` | `entry`, `claims`, `left`, `confirmer[c]` | the name, the hidden claims of confirmations under way and ended, a confirmation |

`PhoneIntents` follows `execute`: `Locks`, `Checks` (what is on record decides),
`Begins` (in flight, durably), `Acts`, `Receipts` or `Triggers`, `Records`, and
then `Told` or `SweepEnds`, where the intent is forgotten.  A record is published
by `Publishes`; `PublishFails` raises before the rename, or after it when the
directory cannot be synced, and then the new record is there to be read but may go
with the power.  `PhoneEvents` follows
a range: `LocksForAppend`, `Writes`, `Syncs`, `Mirrors`; a file is a prefix of
the day, so its length stands for its bytes, and `old` is the file that a rename
has replaced but whose directory is not synced.  `PhoneUploads` has `Looks`,
`Publishes`, `Verifies` and `Marks` of `_store_locked`.  `PhoneInbox` has each
call of `confirm_directory_entry` as a step.  `PowerLost` takes what was not
synced, `Killed` takes a process with its locks, and failed calls of the file
system are faults with a bound.

## 3. The runs

Passing runs, with deadlock checked in all of them (`AtRest` lets a job or a
queue rest where it may; `Pressure` never rests):

| Run | Instance | Shows |
| --- | --- | --- |
| `faults` | 3 starts, 1 bus retry, every fault of daemons, wrapper and queries, no cancel | `OneAttemptInCgroup`, `CustodyRetained`, `OutcomeStable` |
| `serial` | 2 starts, 2 unguarded cancels, commands one at a time, survivors, killed wrappers; pueue and systemctl answer | `StoppedMeansStopped`, `ReportedIsDrained`, `CancelledWasRequested`, `NoStartAfterStop` |
| `race` | 2 starts with scratch, a guarded cancel beside retry and clean, which may die or be left without an answer | `ScratchOutlivesMembers`, `GuardedKillSparesNewerAttempts`, no deadlock at the lock |
| `live` | 1 start with scratch, a guarded and an unguarded cancel, fairness | `TypeOK`, `CancelReturns`, `CancelEndsRun` |
| `admission` | 2 agent jobs and a heavy one, a retry, deaths, lost answers, an operator who stashes and enqueues | `TypeOK`, `ExclusiveRunning`, `LaunchStashIsHeld` |
| `release` | 5 jobs, two launched from within a running one, a retry, no faults, fairness | `HoldIsInForce`, `HeldIsReleased` |
| `control`, pressure | 3 groups of which 2 are closed, in another order than they reopen; 3 moves, 1 loss, fairness | `TypeOK`, `OperatorPauseKept`, `ClosedIsReopened` |
| `control`, direct | 2 callers of one key, 2 requests, 3 calls, deaths, late adds, fairness | `KeepsPromise` (the refinement of `LaunchOnce`), `CallReturns` |
| `control`, gateway | 2 callers, 3 requests, a read of the operation, a restart, cancelled calls | `Types`, `ExecutesOnce`, `AnswersAreTrue`, `OneAnswer`, `KeepsPromise` |
| `control`, session | 2 calls, 1 slot, 2 sessions, fairness | `Types`, `RunsWhileWanted`, `DeadSessionIsDropped`, `WaitingEnds` |
| `phone`, intents | 2 threads and the sweep, 2 contents of one token, 2 posts, another trace, a kill or power cut, each kind of intent | `Types`, `ActsOnce`, `ForgottenWasDone`, `TraceIsScanned` |
| `phone`, events | a day of 3 units (a record and a half), 2 threads, a restore, a repair, a fault, fairness | `OkIsDurable`, `DurableStays`, `MirroredOnce`, `DayArrives` |
| `phone`, uploads | 2 contents under one name that may be in use already, 2 threads, 2 faults, fairness | `DeletedIsKept`, `AllHandedOver` |
| `phone`, inbox | 3 messages, 2 confirmations at once, a fault | `OnlyLandedIsDeleted` |

The bounds, and why they are enough to be interesting:

- `MaxRuns` is the number of starts.  Every hazard of attempts is about a start
  and the one after it; `faults` has a third so that a wrong state can survive a
  clean attempt; `race` has the two that a guarded cancel must tell apart, and
  `live` one start and two cancellers: both cancellers and two starts at once are
  beyond minutes, unless the commands come one at a time, as in `serial`, where a
  second call meets what the first has left on record.
- `BusRetries` is 1 where retries matter: a second try is the first that can
  meet a marker or a loaded unit.
- In `Admission`, two jobs of one pool and one of the partner are the smallest
  queue in which a hold names several tasks and several holds wait for each
  other (with `h2` in `release`).  `MaxRetries` is 1; a second retry meets the
  state the first has left.  `a1` and `a2` are symmetric in `admission`, where
  no job has a parent; `release` checks liveness and declares no symmetry.
- `MaxMoves` counts what the operator, pressure and faults do between ticks,
  which bounds the log too: pressure must move for a tick to write.  Three is
  one move to close, one to interfere and one to end a tick.  `MaxLosses` is 1:
  the code promises to live through one loss (`test_pressure.py:729`).  With
  high avg60 and low avg10 every tick would change a group, for ever; `TickReads`
  lets avg60 follow by the next tick, so the log stays finite.

- Under a key, the third call is the first that can meet both an unsettled
  first one and what the second made of it; a second request is what a mismatch
  needs.  The gateway promises to survive any restart, and one is enough to leave
  a claim behind; a second meets a claim that is marked like the first.
- `WarmSession` has one slot, so that the second call is in the stream while the
  first runs, and two sessions, so that a failure of the old one can hit the
  name of the new one.
- In `PhoneIntents` two posts and a sweep are an intent that comes, its retry and
  its copy in the outbox, by three runners.  Each fault there (a kill, a power
  cut) is bounded by one, as in `PhoneEvents` and `PhoneInbox`; the state after a
  second is that of a first one in a state that the model reaches otherwise
  (a record in flight, an unsynced file, a claim that stays).  `PhoneUploads`
  affords two: a failed call that leaves an unsynced file and the power cut that
  takes it.  In `PhoneEvents`, three units are a record, the half of another, and
  the ranges that end in or between them.

### Fairness

- `JobLifecycle`: the wrapper, each canceller and pueued's reaping of an exited
  wrapper go on.  Every call to systemctl or pueue in the code has a timeout
  (`limits.py`, `SYSTEMCTL_TIMEOUT_SECONDS`), so only the allocation lock makes a
  step wait, and flocks end with their process.  Weak fairness is enough: the
  lock, once free, stays free until somebody with a finite number of critical
  sections takes it.  Nothing is assumed of payloads, operators or survivors.
- `Admission`: launches, retries and passes go on, the timer fires
  (`agentctl-pressure.timer`, every minute), pueued starts what is queued, and a
  command ends, since every operation has a timeout (`limits.py`), unless it
  waits for a job it launched.
- `Pressure`: the timer fires and a tick goes on or is ended by its deadline.
- `KeyedLaunch`: a caller that can go on does.  Its calls of pueue have time
  limits, so only the lock of the key makes it wait, which ends with its process.
  Nothing is assumed of the daemon: an add may stay on the wire for ever.
- `WarmSession`: the event loop runs the tasks of calls and sessions.  The
  upstream is fair only in that it answers or fails; `TimesOut` is never forced.
- The phone: it retries for as long as it holds something (`server.py` and
  `uploads.py` say so of the app), request threads run, a repair goes on, and the
  scoring loop turns, each pass having a time limit.  Nothing is assumed of the
  operator or of faults, which are finite by their bounds.

### What disagrees with the documentation

Four runs show a behaviour of the code that a document or comment rules out;
each finding in `PROJECT.json` quotes it.

- `stale_custody`: a cancel that saw the task queued writes its intent over the
  custody record of the attempt that was dispatched meanwhile
  (`launch.py:1052`).  If it dies then, or its next look at the queue raises
  (`launch.py:1087`, `1129`), a populated cgroup no longer blocks retry, clean or a
  terminal read.
- `orphan_marker`: a cancel that sees the task running after its wrapper has
  published marks the attempt after it (`launch.py:1254`); nobody consumes the
  marker, and the retry finds itself cancelled.
- `borrowed_outcome`: after a killed wrapper the failed unit stays loaded; the
  retry cannot start its own unit and publishes the old result as its outcome
  (`run.py:1129`).
- `stranded`: a held retry restarts the task stashed and records the hold
  afterwards (`launch.py:1508`); a lost answer in between leaves a stash that no
  pass releases.

Observations met on the way, not runs of their own:

- A shared text whose append stops halfway is recorded as `failed`
  (`execute.py:246`), the outcome that stands for an effect that "definitively did
  not happen" (`execute.py:32`); the retry appends the whole line behind the half
  one.  `PhoneIntents` counts whole lines.
- A record in flight, found under the lock, is said to be of a process that died
  (`execute.py:33`).  A publication that fails in the sync of the directory leaves
  it too, with its writer alive and nothing done (`execute.py:141`,
  `atomic.py:157`); the intent is then refused as indeterminate for ever.
- A guarded escalation looks at the task and kills it in two calls
  (`launch.py:1327`): a restart in between has its wrapper killed, though not an
  attempt (that is `GuardedKillSparesNewerAttempts`).
- A guarded cancel names what is allocated, not what has started: after a retry
  has started and before its wrapper allocates, it is accepted for the finished
  attempt.
- A cancel of a queued retry ends unresolved for ever once a wrapper has died
  without an outcome (`launch.py:1090`).
- `clean` looks at the task and removes it by number; a retry in between loses
  its queued start.
- A refused launch looks at its direct launcher's pool only: a chain agent,
  normal, pytest-heavy of commands that wait stands still.
- A held task that was enqueued by hand and stashed by hand again keeps its hold
  and is released.
- One `pueue enqueue` that fails every time ends every pass before the later
  tasks.
- A tick that releases a group and closes it again, and loses the `closed`
  event, saves a checkpoint whose cursor is before the `released`
  (`pressure.py:487`): the next replay gives the group up, and it stays paused.
  `Doubted` excepts exactly this from `ClosedIsReopened`.
- A pause that took effect but was not recorded (a kill, a lost answer) has no
  owner and stays.
- `audit.operation` may say `indeterminate` of a claim that is being settled, and
  while its probe has the lock (`audit.py:298`) a retry is told `pending`.
- A repeat is answered `duplicate` from a completed record whether or not its name
  is synced (`execute.py:137`).  The phone then forgets the intent, and a power cut
  may put the record back in flight: nothing is done twice, but were the intent to
  come again it would be called indeterminate.  `ForgottenWasDone` allows this, and
  only after a loss.
- A shared text is appended and never synced, so a power cut takes a text that was
  answered ok.  This is why `ForgottenWasDone` speaks of effects that were lost.
- A job answer is published in `$XDG_RUNTIME_DIR`, a tmpfs, which a power cut takes
  with what is in it.  Were `SINNIX_AGENT_ANSWER_DIR` on a disk, a name that could
  not be synced would be answered `failed` although it is there.
- The scoring thread is a daemon thread: one that `dispatch` has started ends
  with that process, whatever is pending.  `TraceIsScanned` is of the server's.
- A confirmation that is killed between rename and link leaves the publication in
  its hidden claim (`inbox.py:343`), where it is recoverable by hand and no longer
  offered.

## 4. What is proved

`tlapm` checks each of these for every value of the constants.  Every invariant
and every action property of a passing run is in the table, as is the
refinement; the run shows on a small instance what the theorem says of all.

| Theorem | Statement | Assumes |
| --- | --- | --- |
| `JobLifecycle_proofs!TypeCorrect` | `Spec => []TypeOK` | |
| `JobLifecycle_proofs!OutcomesStable` | `Spec => OutcomeStable` | |
| `JobLifecycle_proofs!GuardedKillsOwnAttempt` | `Spec => GuardedKillSparesNewerAttempts` | |
| `JobLifecycle_proofs!CancelledOnRequest` | `Spec => []CancelledWasRequested` | |
| `JobLifecycle_proofs!ScratchOutlives` | `Spec => []ScratchOutlivesMembers` | no `forget` |
| `JobLifecycle_proofs!OneAttempt` | `Spec => []OneAttemptInCgroup` | no cancellers |
| `JobLifecycle_proofs!OneAttemptAtATime` | the same | no `forget` |
| `JobLifecycle_proofs!CustodyKept` | `Spec => []CustodyRetained` | no cancellers |
| `JobLifecycle_proofs!CustodyKeptBesideCancels` | the same | no `query`, `overlap`, `die`, `forget` |
| `JobLifecycle_proofs!ReportedDrained` | `Spec => []ReportedIsDrained` | no cancellers |
| `JobLifecycle_proofs!ReportedDrainedBesideCancels` | the same | no guarded call; no `query`, `forget`, `overlap`, `die` |
| `JobLifecycle_proofs!StoppedStays` | `Spec => []StoppedMeansStopped` | no guarded call; no `query`, `forget` |
| `JobLifecycle_proofs!NoneStartsAfterStop` | `Spec => NoStartAfterStop` | no guarded call |
| `Admission_proofs!TypeCorrect` | `Spec => []TypeOK` | |
| `Admission_proofs!LaunchesHeld` | `Spec => []LaunchStashIsHeld` | |
| `Admission_proofs!PartnersExclude` | `Spec => []ExclusiveRunning` | |
| `Admission_proofs!HoldsInForce` | `Spec => []HoldIsInForce` | no `die`, `query`, `enqueue` |
| `MCControl_proofs!TypeCorrect` | `Spec => []TypeOK` | |
| `MCControl_proofs!PausesKept` | `Spec => OperatorPauseKept` | `MaxLosses <= 1` |
| `KeyedLaunch_proofs!TypesOfTheLaunch` | `Spec => []TypeOK` | `Distinct`, `MaxCalls \in Nat` |
| `KeyedLaunch_proofs!OneJobForAKey` | `Spec => KeepsPromise` | `Distinct` |
| `MCControl_proofs!TypesOfTheParts` | `ControlSpec => []Types` | `Apart` |
| `MCControl_proofs!OneJobWhoeverCalls` | `ControlSpec => KeepsPromise` | `Apart` |
| `MCControl_proofs!GatewayExecutesOnce` | `ControlSpec => []ExecutesOnce` | `Apart` |
| `MCControl_proofs!GatewayAnswersAreTrue` | `ControlSpec => []AnswersAreTrue` | `Apart` |
| `MCControl_proofs!GatewayAnswersAgree` | `ControlSpec => OneAnswer` | `Apart` |
| `MCControl_proofs!SessionsAreDropped` | `ControlSpec => []DeadSessionIsDropped` | `Apart` |
| `MCControl_proofs!RequestsRunWhileWanted` | `ControlSpec => RunsWhileWanted` | `Apart` |
| `MCPhone_proofs!EffectOnce` | `Spec => []ActsOnce` | |
| `MCPhone_proofs!NothingForgotten` | `Spec => []ForgottenWasDone` | |
| `MCPhone_proofs!TypesOfTheDispatcher` | `PhoneSpec => []Types` | `Apart` |
| `MCPhone_proofs!DayShownOnce` | `PhoneSpec => []MirroredOnce` | `Apart` |
| `MCPhone_proofs!DayOkIsDurable` | `PhoneSpec => OkIsDurable` | `Apart` |
| `MCPhone_proofs!DayStays` | `PhoneSpec => DurableStays` | `Apart` |
| `MCPhone_proofs!HandedOverIsKept` | `PhoneSpec => []DeletedIsKept` | `Apart` |
| `MCPhone_proofs!OnlyLandedIsGone` | `PhoneSpec => OnlyLandedIsDeleted` | `Apart` |

Beside what is named, all assume the assumptions of their module on its
constants.  `Distinct` says that the values that stand for nothing or nobody are
none of the others, and that bounds are numbers; `Apart` says so of each part.

### Which hypotheses are needed

A hypothesis on the faults, the guarded calls or the bounds is there because the
property is false without it, in a behaviour that TLC finds on an instance like
those of the runs, with two starts and one or two cancellers of a job:

| Property | is broken by |
| --- | --- |
| `ScratchOutlivesMembers` | `forget`: the manager drops a unit with a survivor in it, the wrapper finds no unit and removes the scratch (with a lost answer and a kill) |
| `OneAttemptInCgroup` beside cancels | `forget`: a retry finds no unit of the name and dispatches beside the survivor (with a lost answer) |
| `CustodyRetained` beside cancels | `overlap` or `die`: a retry or the end of the caller between the record and the observation (`stale_custody`); `query`, a look that fails after the intent was written over the record (`launch.py:1087`, `1129`); `forget`, when a second cancel asks about a unit that is no longer known |
| `ReportedIsDrained` beside cancels | the same four for the same reasons; `query` also when a lost answer makes a cancel settle the start after the one it saw; a guarded call, which may be about a finished attempt |
| `StoppedMeansStopped` | a guarded call, which is accepted for the finished attempt before the wrapper has begun the next; `query`, as above, with a killed wrapper or a second cancel; `forget`, with a second cancel |
| `NoStartAfterStop` | a guarded call for the attempt before, which writes its marker over the one that another cancel left for the attempt to come (`launch.py:1254`) |
| `HoldIsInForce` | each of a launch that dies or loses its answer after it wrote a hold, and a held task that is enqueued by hand |
| `OperatorPauseKept` | two losses, of an event and of the checkpoint of the same tick; the code promises to live through one (`test_pressure.py:729`) |

Without cancellers, `OneAttempt`, `CustodyKept` and `ReportedDrained` hold under
every fault, `forget` included; the second theorem of each pair says what is left
of it beside them.  So the faults of `serial` are those under which its four
properties hold.  With `query` among them TLC finds `ReportedIsDrained`
violated even with one cancel: it sees the task queued, the task starts and
dispatches, the intent replaces the claim, and the look at `launch.py:1087` fails;
a start that then times out over survivors reads as terminal.

### The arguments

- *Types of JobLifecycle.*  `TypeOK` is not inductive: an attempt number stays
  in range because each start allocates at most one attempt.  `Inv` adds `Queue`
  (a wrapper lives exactly while the task runs, a queued task has a start left)
  and `Numbers` (attempts do not outnumber starts; a wrapper works for the
  newest attempt).  `Onward` sums up what all of the wrapper's steps but the first
  do to it, so that what depends on this alone is proved once.
- *Outcomes.*  `Unpublished`: an attempt that is not allocated has no outcome,
  and the wrapper's own has none until it publishes.  Hence nothing is written
  twice.
- *Guarded kills.*  `Exclusion`, the lock is exclusive: whoever is inside a
  critical section holds it.  A guarded call compares under the lock and kills
  under it, and only the holder allocates.
- *One attempt, custody, without cancels.*  `Custody` relates the record to the
  cgroup at every place of the wrapper: from the claim on, the record names the
  cgroup or says that it is not known, so a populated cgroup blocks.
- *Cancelled on request.*  `Backed`: whoever may be the reason for a cancelled
  outcome (the marker, a wrapper that has seen it, a call that is about to write
  it) has a request on record, for the attempt or for the launch before it ran,
  and no step drops a request under them.
- *Scratch, one attempt beside cancels.*  `Loaded`: while the manager forgets
  nothing, a unit that is absent or has exited has no process.  `Given` adds that
  scratch belongs to one attempt from before its unit can be dispatched, and that
  a wrapper that has it answers for the processes, or there are none.
- *Stopped stays.*  `Ended`: a call that has waited for the start it found has
  left no wrapper that could dispatch, and one that has found the cgroup empty
  has left no process, until the task is started again.
- *Custody and terminal reads beside cancels.*  `OnRecord`: live processes are on
  record, or a cancel under way is about to put them there, and there are none
  from the moment a retry or clean is admitted until a unit starts.  `Settled`:
  a call deals with the last start of the task until it returns, and what it
  records of a job stays true until a retry clears it.
- *No start after a stop.*  `Marked`: the attempt that a call has named is
  `Condemned`.  It is past, or its wrapper is past the dispatch, or the marker is
  of it and the wrapper has still to look, or the task is gone.  No step pardons it.
- *Admission.*  `Locked`: whoever is under way holds the lock.  `Recorded`: the
  hold of a launch is on disk before its task exists, and a pass consumes only
  the hold of a task it has released.  For exclusion the queue is the state that
  matters, not what runs: call a task `Going` when it is queued or running and
  was not enqueued by hand.  `Exclusion` says that no two partners are going,
  that a launch or retry that decided not to hold is still alone, and
  (`PassSees`) that whatever is unfinished while a pass runs was in the one look
  it took.  A pass releases in the order of the ids, so of two held partners the
  later one still counts the earlier.  `InForce` says of each place of a launch, a
  retry and a pass what the hold on disk is worth there, for `HoldsInForce`.
- *Pressure.*  `TypeOK` says that only a group that may be closed is ever owned,
  which is not inductive: ownership is replayed from the log.  `ClosedEvents`
  says that only pauses of such groups are recorded, `Saying` that a tick has
  nothing else to record, and `Files` bounds the identity of the log's file.
  Compaction and truncation keep all three, so a replay from any offset does.
- *Pauses of the operator.*  `Ours` relates the history `claim` to what a replay
  would yield.  `Agreed`: until something is lost, the checkpoint, the tick and the
  log say the same, and a group whose pause is over is in no part of the log that
  is still to be read.  `Disowned`: no replay from the checkpoint takes such a
  group for ours, even when a log that was truncated grows past the cursor.
  `Knows`: a tick may save what it knows at any time, and that names no such group.
  Only `Disowned` and `Knows` survive a loss, and no second may come.
- *One job for a key.*  This is the refinement of `LaunchOnce`: initial states
  map to an initial state and each step to `Ask`, `Launch`, `Tell`, `Forget` or a
  stutter.  The invariant behind it: `OneHolder`, who is past the lock has it;
  `OneSent`, an add is sent only while there is no input, and the input that
  goes before it is only taken back where the daemon lacks the group, so never
  more than one add can become a task; `Evidence`, an acknowledged input or an
  attempt means that a task was added; `Knows`, a call that looks at the queue has
  read its own request in the input.  A late add is thus of the input's request.
  `KeepsPromise` says beside it that all tasks of a key are one.  `Counted`, adds
  and the calls that are still ahead of theirs never exceed the calls made, bounds
  the numbers of tasks.
- *Gateway calls.*  The invariant has that of the launch in it, since a gateway
  call makes a launch.  `Claimed`: the call that has inserted the row has the
  file lock until it settles, and nobody recovers meanwhile.  `Owned` and `Once`:
  only that call is in the launch, which is called once at most, and not at all
  where a refusal is, or is about to be, settled.  `Sent`: before the launch
  nothing is on the wire or in the queue, and what is then is of the row's request.
  `Seen`: an ok, of the launch or of a recovery, is said where a task exists.
  `Given`: a confirmed row keeps its answer, and who was told has that one.
- *Warm sessions.*  `StartsLocked`: a call that starts a session has the lock, and
  the session cannot have ended by then.  `RequestShape` and `StreamShape`: a
  stream has the queued requests of its session, each once, and a request has
  not been carried out before it is admitted.  `SlotsCounted`: the free slots and
  the admitted requests are no more than the slots there are, whichever way a
  call ends.  `DeadSessionIsDropped` is part of the invariant: who discards or ends
  a session takes the name away only from it.
- *Intents.*  `OneRunner`: who is past the lock of the token has it.
  `Executing`: from the moment an effect may come until its outcome is recorded,
  the only record that a power cut can leave says in flight, under the content that
  is executed.  `Record`: whatever record is there or may be left by the power is
  true: where it lets an execution begin, nothing was done, and where it says
  completed, all was.  `Settled`: behind a completed record there is at most the
  one in flight of the same content.  `OkRecorded`: an ok is of what is on record at
  that moment and stays so until the answer has come; hence `Remembered`: of what
  was forgotten no record can be left that lets it begin again.  A kill leaves in
  flight behind, and so may a power cut; no execution begins from it: this is what
  makes the invariant hold over crashes, and what a retry pays for with
  `indeterminate`.
- *Day logs.*  A handler keeps a file open whose name a restore or a repair may
  give to another.  `Opened` says what a handler knows of the file that has the
  name, if it is still the one it opened: how long it is and what of it is synced.
  `SetAside`: before the repair replaces the file, the copy has all of it.
  `Unanswered`: no answer is given before the end of a request.  `Shown` is a
  potential: what was shown of a record, and what is about to be, is at most once
  and once more for each time that the file was taken back (`TakenBack`), where a
  repair counts when it has replaced the file.  TLC has checked this invariant on the instance of `phone` first.
- *Uploads.*  `OneWriter`: who is past the lock of the names has it.  `OwnName`: a
  thread works under the name it was given or that of the digest of what it has.
  `Knows`: a thread publishes only under a name that is free, and says ok only
  after the content is there and synced.  No step takes a synced content from its
  name, so what an ok was said of stays (`Safe`), whoever comes later under the
  same name.  A kill keeps the names as they are, and a power cut takes only what
  was not synced.
- *Inbox.*  `Claims` says what a hidden claim holds at each place of a confirmation:
  nothing, the empty file that reserves it, or a message, and the landed digest
  when it is unlinked.  What the rename took by surprise is either linked back or
  left where it is; hence each step but the publisher's own keeps what is there,
  in the name, in a claim or in what a confirmation left behind.
- *The compositions.*  The parts of `MCControl` and of `MCPhone` are instances, so
  what is proved of a part is cited through an instance of its proof module
  (`Proved`, `Served`, `Logged`); the `Same` lemmas say that a step of the part as
  the composition has it is one of the module that the theorem is about.  The
  invariant of the whole (`ControlInv`, `PhoneInv`) is that of each part, where
  `Resting` says that a part out of scope is in an initial state.

### What stays with TLC

- Liveness under fairness is out of the prover's reach: `CancelReturns`,
  `CancelEndsRun`, `HeldIsReleased`, `ClosedIsReopened`, `CallReturns`,
  `WaitingEnds`, `TraceIsScanned`, `DayArrives`, `AllHandedOver`.
- What recursive data computes for every input would need induction with a
  predicate as parameter.  No theorem needs it: the replay of the log is reasoned
  about one event at a time.
- That there is no deadlock.

## 5. Plan

In order of importance; the first four are this state of the project.

1. `JobLifecycle`, `Admission`: done, with their proofs.
2. `Pressure`: done, with the proofs of its types and of `OperatorPauseKept`.
3. `KeyedLaunch`, `GatewayCalls`, `WarmSession`: done, with the refinement of
   `LaunchOnce` and the proofs of what they promise.
4. The phone: done, with the proofs of all four parts.
5. `EventLog` (`ledger.py`, `event_compaction.py`): appends under a lock, torn
   tails after a crash, compaction that replaces the file, a reader with a byte
   cursor.  Abstract specification: a sequence that only grows.
6. `Lifecycle`, the abstract specification of a job (queued, running, terminal,
   gone; an outcome once), with `JobLifecycle` shown to implement it under the
   mapping from task and outcomes, by TLC and then by TLAPS step by step.
7. `AdaptiveWidth` (`pressure.py` 262-370) and the bounds of a width.
8. `JobReads`: `wait` across a retry, a cancel and a clean.

## 6. Not modelled, and why

- File writes of agentctl that fail (a full disk): the commands and the wrapper
  raise and end there.  The phone's, whose publications the app relies on, are
  modelled.
- Jobs of a pool without a unit (`_run_bare`), the properties of units, receipts
  and logs: sequential, or data no property speaks of.
- `pools apply` and pool widths: no admission decision reads a width.
- The result cache (`launch.py` 109-288): a launch that adopts a job that runs or
  ran is a launch by content, not by key; next on the list after the event log.
- Reconciliation of orders to machines and processes (`runtime.py` 1404-1462) and
  the actions of the gateway whose effect is not a launch: each is its own
  question to another program, and the gateway keeps nothing of it but the row.
- Bytes of a day log that differ from the phone's: `PhoneEvents` knows a file by
  its length, so the refusal of a conflicting range is left out.
- The append-only ledgers, locks and secrets of `sinnix_lib`: used here as a
  durable record, a lock and a publication; their own crash points are for
  `EventLog`.
- Worktree cleanup: mostly queries of git.
- Configuration, environment, views, git and GitHub: parsing and reading.
- The rest of the repository is the larger part of its lines: telemetry
  collectors, inventories of file systems, backups, capture services, media and
  desktop tools, the hub, and the hosts in nix.  They are sequential programs of
  one process, or declarations; a state machine of one of them would restate its
  code, and no property of several steps or actors is there to be had.  What they
  declare for the modelled programs (the timer, the pools) is in the fairness and
  the instances.
