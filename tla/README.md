# Verification of the QC-Gateway

The QC-Gateway stands between the users of a quantum computer and the machine: it
authenticates them, decides whether a submission may go through, forwards it, and
keeps an account of what runs. A second process, the job-reporter, follows the jobs
to their end. This directory holds TLA+ models of these parts, the TLC runs that check
them and the proofs that go beyond the runs.

## The system

| Component | Code | State it keeps | Operations | Talks to |
|---|---|---|---|---|
| submission pipeline | `main.py` | handlers suspended at their awaits | proxy a request; capture a submission | all below |
| submission policies | `policy/` | none (a reservation travels in the decision) | `check_submission`, `rollback` | limiter |
| concurrency limiter | `concurrency.py` | `shots:active:{user}`, `jobs:active:{user}` in Redis | `try_reserve`, `rollback` | Redis |
| job counters | `job_counters.py` | the same keys | `decrement_user_counters`, metrics | Redis |
| job reporter | `job_reporter.py` | `jobs:terminal:processed` in Redis; the cycle | `process_once`, `main` | machine, Redis, MinIO, portal, database |
| jobs table | `db.py` | one row per tracked job | `log_job`; SELECT, UPDATE, DELETE by the reporter | PostgreSQL |
| object store | `minio.py`, `artifacts.py`, `job_capture.py` | objects under `{user}/{jobid}/` | uploads, index page | MinIO |
| portal reporting | `sites/spark/reporting.py` | the portal's view of a job | first report, later reports | portal |
| vendor plugin | `vendors/iqm/` | none | request and response parsing, job status, artifacts | machine |
| calibration poller | `calibration_poller.py`, `vendors/iqm/calibration.py` | `calibration_runs_processed`, reports, index | one poll | machine, MinIO, database |
| authentication chain | `authentication.py`, `auth/` | role and key caches | `authenticate` | Keycloak, Redis, portal |
| role authorization | `authorization.py` | route tables | `check` | - |
| sweep parser | `vendors/iqm/sweep_parser.py` | none between calls | `parse_artifact`, for one artifact | - |

How they meet: the handler of a submission reserves in Redis, forwards the request,
and either rolls back or writes a row and sends a first report. From the row alone
the reporter knows of the job; it gives the reservation back when the machine calls
the job ended, stores its artifacts, reports it and deletes the row. Nothing else
links the two processes: the correctness of the whole is that these steps, each a
call to another service that can fail, add up.

What is hard here:

- *Concurrency.* Handlers share one event loop and interleave only where they await;
  Redis calls are synchronous, so `try_reserve` and `rollback` exclude each other in
  one gateway process. The reporter is another process and runs between any two
  Redis commands of the gateway. Nothing is a Redis transaction.
- *Failure.* Every call can fail, before or after it took effect. The code fails
  open on Redis, swallows most storage errors, and retries only by leaving the row.
- *Restarts.* Both processes may die between any two calls.
- *Ordering.* Row before first report; SADD before the release; report before delete.

What makes each component correct:

- limiter and counters: what a user runs stays within the limits; every charge is
  given back once, by whichever of rollback and release owns it;
- reporter: a row is deleted only after everything is done for the job, each release
  happens once, and every finished job is done in the end;
- pipeline: an answer to the client that matches what the machine does, a row for
  every running job;
- calibration poller: the index lists what the store holds;
- sweep parser: what is drawn shows what was sent, reduced but not distorted, and a part that
  cannot be read costs no more than itself;
- authentication: a claimed prefix is never answered by another plugin.

The hazards, each at its line, with the properties that cover it, are in
`PROJECT.json`; it also says, component by component, what is not modelled.

## The modules

| Module | What it is |
|---|---|
| `Accounting` | what a submission carries; `Charge` (try_reserve), `Discharge` (decrement_user_counters), the license `Budget` |
| `ConcurrencyLimiter` | the two counters, the gateway's handlers and the reporter's release, one Redis command per step |
| `AdmissionLedger` | the abstract promise of the limiter: one indivisible decision per submission, one return per claim |
| `JobReporter` | the reporter's cycle over the jobs table, one call to another service per step |
| `JobLifecycle` | the abstract promise of the reporter: the order in which an accepted job is ended, released, told and dropped |
| `CalibrationPoller` | the poller's copy of the machine's calibration reports, its table and its two indexes |
| `AuthChain` | `authenticate`, the two plugins, the cache of roles, with a clock |
| `SubmissionPipeline` | `proxy_and_capture`, one call to another service per step; extends `AuthChain` |
| `Decimation` | how a list of samples is reduced: by stride, in buckets to their extremes or peaks |
| `SweepResults`, `RunDefinition` | `parse_sweep_results` and `parse_run_definition`, a label, a waveform or a reference per step |
| `SweepParser` | `parse_artifact`: the two behind one dispatch; extends both |
| `ConcurrencyLimiterProofs`, `CounterProofs` | charges, their sums, the license budget and the limits; the values of the counters and the refinement of the ledger |
| `JobReporterProofs`, `CalibrationPollerProofs`, `SweepParserProofs` | the theorems of these components |
| `SubmissionPipelineProofs` | how long a role is honoured; what a request leaves behind |
| `DataInduction`, `DecimationProofs` | induction over naturals and sequences; what the reductions of samples keep |
| `MCConcurrencyLimiter`, `MCJobReporter`, `MCCalibrationPoller`, `MCSubmissionPipeline`, `MCSweepParser` | instances for TLC |

The three models of a submission's life look at it from different distances.
`SubmissionPipeline` has every step of the handler; what is one step there, a
reservation, is a dozen Redis commands in `ConcurrencyLimiter`, and the reporter's
turn, one step there (`Close`), is `JobReporter`.

Operators whose names end in `_Something` and whose comments carry the word "slip" are wrong versions of the
action whose name they begin with. Substituted for it, each makes TLC find the
property it is listed with violated (`mutants` in `PROJECT.json`): the properties
are not true by construction.

### ConcurrencyLimiter

State: `shots` and `jobs` are the Redis keys (an absent key counts as 0); `pc`, `resv` and `call` are a
handler's position, its `pre_increment_id` and the local variables of the running
`try_reserve` or `rollback`; `machine` is the fate of the submission on the quantum
computer; `release` is the reporter's position in `decrement_user_counters` for a job,
"no" until the job is in `jobs:terminal:processed`. `failed` is history: what failed so far, and for whose
request, or, for a key that expired, whose. It is what lets the properties say which gap a failure explains.

| Actions | Code |
|---|---|
| `NoLicense`, `ShotLimits` | `shot_budget.check_submission`, `passthrough.check_submission` |
| `ReserveShots`, `CountJob`, `UndoShots`, `UndoJob`, `ReserveSweep`, `ReserveError` | `ConcurrencyLimiter.try_reserve` |
| `Accepted`, `Refused`, `ConnectFails`, `LostReply` | `proxy_and_capture`: the upstream call and what follows it |
| `RollbackShots`, `RollbackJob`, `RollbackClamp`, `RollbackError` | `ConcurrencyLimiter.rollback` |
| `LogJob`, `LogJobFails` | the upload and the INSERT before which the job is untracked |
| `ReporterMarks`, `ReporterDecrJobs`, `ReporterClampJobs`, `ReporterDecrShots`, `ReporterClampShots`, `ReporterError` | the SADD of `process_once`; `decrement_user_counters` |
| `GatewayCrash`, `ReporterCrash`, `Expire` | faults |
| `MachineDecides`, `MachineFinishes` | the machine (external) |

`LoopFree` is the event loop: while one handler is between two synchronous Redis calls no
other handler moves. INCR and the EXPIRE that follows it are one step; the failure of
the EXPIRE is the branch of `ReserveError` in which the INCR was applied. `Faults` names the
kinds of failure of a run, `MaxFailures` bounds how many there are.

Choices a reader should know: `MAX_CONCURRENT_SWEEPS` is configured (unset disables
the sweep limit in the code); the sweep limit is compared with `jobs:active`, which
counts the user's circuit jobs as well, as in the code; the shot limit of a
submission is chosen among all that either policy can pass, since the licenses named
in a token change from one token to the next.

### AdmissionLedger

Each circuit submission holds, is refused or has returned a claim of shots, and each
submission a place. A claim is granted only if the claims held and its own are within
one of the limits and refused only if they exceed one. `ConcurrencyLimiter` implements it under the mapping `ClaimOf`, `PlaceOf`,
which takes the decision at the INCR: what the code does after a comparison that
failed (take the INCR off again) is the ledger's stuttering. A principal without licenses, whom the policy
refuses before it asks Redis, has a limit of -1 there (`LedgerLimits`).

### JobReporter

State: `row` is the status column, `processed` the Redis set, `released` counts the calls of
`decrement_user_counters` and `lapses` how often the set expired, `store` and `index` are the objects in MinIO and the links of the page,
`portal` the last status the portal took, `took` the jobs whose end it was told. `at`, `todo`, `cur`, `left`, `links`, `redis`, `conn` and `errors` are the
reporter's own: the next step, the rows still to do, the job in hand with the
status fetched for it, `artifact_types`, `artifact_locations`, the client, the connection and
`consecutive_errors`.

| Actions | Code |
|---|---|
| `StartCycle`, `CycleFails`, `EndCycle`, `Crash`, `Restart` | `main`, the head and the end of `process_once` |
| `Pick` | the next row; `fetch_job_status`; terminal, changed or unchanged |
| `Mark`, `Give` | SADD, and `decrement_user_counters` when it added the job |
| `Timeline`, `Artifact`, `Index` | uploads; the `continue` of jobs without timestamps |
| `Report`, `Delete`; `TellInterim`, `Update` | report and DELETE; report and UPDATE |
| `Put`, `Post` | the site plugin's report: a PUT, and a POST where the portal does not know the job |
| `Lapse` | `jobs:terminal:processed` reaches its three days without a terminal job (external) |
| `LogJob`, `InitialReport` | the gateway: `log_job`, then `send_initial_report` |
| `MachineRuns`, `MachineEnds`, `MachineStamps`, `MachineForgets` | the machine (external) |

Every call works or fails; a failure of a call that changes something may come before
or after the change. `Fails` counts failures up to `MaxGlitches`. A failed statement
leaves the transaction aborted, as the per-job `except` does not roll back: the next job's
statement fails too, unless a commit without a statement comes first. The counters
themselves are `ConcurrencyLimiter`'s; here a release is one step.

A report is a PUT, which the portal takes when it knows the job, and a POST when the PUT was answered with anything
but 200. Each of the two may be taken, refused, or taken with its reply lost; a failure of the PUT either leads to the POST or
ends the report, and a portal that has come to know the job may refuse the POST.
What may come with an artifact, its parsed view and the calibration metrics, are `Extras`: stored and linked
together, or left out where their own `except` swallows the failure. The link to the calibration report, made without a look at the store and not
under the job's prefix, is left out, as are interim statuses other than
the two named ones (`waiting`, `running`), which stand for any the machine may have. A
status "ready" would drop out of the SELECT; whether the machine ever says so is not in the source.

### JobLifecycle

Six facts about each job (`logged`, `ended`, `freed`, `forgotten`, `told`, `dropped`) and the order they may come
in. `JobReporter`, with the gateway's row and the machine beside it, implements it (`LivesAsPromised`): a
reservation is given back, and the portal told, only between the job's end and the end of its row; the row goes
only after the portal was told; a second release needs that the releases were forgotten in between.

### CalibrationPoller

State: `machine` is what the calibration endpoints say of each run; `table` its row in
`calibration_runs_processed`, with or without a `run_timestamp`; `store` the reports in MinIO, one per
calibration set; `json` and `page` the two published indexes. `at`, `processed`, `undated` and `new`
(`plan_runs`' `to_backfill` and `to_fetch`), `hand` and `manifest` are the locals of a poll; `retry` and
`wait` those of `main`. `timed` remembers which runs the listing had a time for. `last`, `failures` and `lost`
are history the properties speak of.

| Actions | Code |
|---|---|
| `Wake`, `Rest`, `Crash`, `Restart` | `main`: the loop, the pace after success, failure and refusal |
| `Bucket`, `Select`, `List` | `ensure_bucket`; the rows; the listing and `plan_runs` |
| `Backfill`, `Backfilled` | `_backfill` |
| `Fetch`, `Store`, `Insert`, `Fetched` | `_fetch_report`: download, upload, INSERT ... ON CONFLICT DO NOTHING |
| `Index`, `Json`, `Page` | `publish_index` |
| `RunChanges`, `DropRow`, `DropReport` | the machine, an operator (external) |

What the machine says of a run (`Says`) is nothing, that it is "listed" in some state, or that it is "ready": listed with
success and a calibration set, which is what `plan_runs` asks before it fetches. A run with an undated
row is dated whatever the state it is listed in. An entry of an index carries the run and whether its date
is approximate (`run_timestamp` is null). A listing call can be refused (401, 403: `_refused`) or fail; what
`refused_with` and `unreachable` decide is the wording of log lines, and they are left out, as are the idling
of a poller whose interval is not positive and the layout of the page.

### AuthChain

State: `token` is a request's bearer token and `auth` how far `authenticate` is with it: `due`, the two
sides of the await in `_lookup_roles` (`asking`, `answered`), `in`, or the status raised.
`principal` is the Principal made so far, `lookup` the locals of `_lookup_roles` (`now`, the answer), `cache` the
plugin's `_roles_cache`, shared by all handlers. `fields` stands for the Redis hash of an
owner's token, `granted` for the portal's roles; `lastHeld` and `hurt` are history.

| Actions | Code |
|---|---|
| `Authenticate` | `authenticate`: no token, the plugin whose prefix the token has, strict mode, the prefix-less plugins |
| `KeycloakValidate` | `KeycloakAuthPlugin.validate`, which does not await |
| `SqedValidate` | `SqedAuthPlugin.validate` up to the await, with the cache lookup |
| `RolesArrive` | the end of `_lookup_roles`: the answer, or none, is cached and used |
| `PortalAnswers`, `Tick`, `Prolog`, `Epilog`, `Grant`, `Withdraw` | the portal, time, the scheduler, an administrator (external) |

Choices: a JWT's verdict is nondeterministic, and every set of roles may be
in it. The licenses of a token are only told apart from none (`Unlicensed` jobs have 0). `granted` leaves the
default roles out, as every scheduler's token has them. Only the sqed plugin
claims a prefix, so there is one plugin to ask in either case and the order of
`AUTH_PLUGINS` does not show. The clock starts at TTL + 1, so that a cache entry until 0, which
stands for none, has expired and a role last held at 0 was never held.

### SubmissionPipeline

State: `mode` is `MIDDLEWARE_MODE`; `route`, `at` and `reply` belong to a handler; `machine`, `row`, `store`
and `portal` are what the world knows of the submission, `named` whether the machine's answer held a job id. `charge`
stands for the counters: `held` (in the handler's decision), `stray` (counted by a
call that then failed, so that no decision carries it), `returned`, `overdrawn` (given back and never made).

| Actions | Code |
|---|---|
| `Arrive` | public and deprecated routes, maintenance, the whitelist |
| `Authenticating`, `Authenticated` | `authenticate`, the role check, what comes first in the mode |
| `AuthorizeJob`, `CheckSubmission` | the site plugin's verdict; the policy's decision |
| `Forward`, `Rollback` | the upstream call; the refused and the failed branch |
| `InitialArtifacts`, `UploadPayload`, `LogJob`, `InitialReport` | the capture of an accepted submission |
| `MachineEnds`, `Close` | the machine (external); a turn of the reporter, row to end |
| `Crash` | the gateway dies with its handlers and its cache (external) |

Every call may fail, and `hurt` counts for each request what failed for it: the
properties say what an outcome must have cost, which is how a fail-open gateway can be judged at all.
`Tries` says how often `job_capture.py` tries an upload: a body that parses as JSON is tried a second time as it came, a sweep,
which is a blob of bytes, has the one attempt. Choices: the routes an entry of the
role table matches are a set; a job without an id has no row of its own (its id is empty,
and the reporter has nothing to ask the machine for); `Elsewhere` lets the clock, the scheduler and the administrator
move only while some request is still to be authenticated, since nothing else reads what they change. The
reporter closes only jobs that ended and does not fail here. The policy's failures are those of Redis.

### SweepParser

State: `atype` is the type of the artifact. For a sweep result, `key` and `spots` are the label in hand and its
arrays, `entry` what was made of it, `results` the labels done, `view` what became of the whole. For a payload, `run` is
what was sent, `step` the part being read, `shown` the view so far; `wave` a waveform with its envelope, and
`table`, `trigger`, `probe` a readout trigger on its way through the instruction table.

| Actions | Code |
|---|---|
| `Init`, `ParseResults`, `ParseRun` | `parse_artifact` |
| `Undecodable`, `NextKey`, `NoSpots`, `Store`, `Show`, `Raise` | `parse_sweep_results`: the loop over the labels, and its exception |
| `DrawField`, `DrawTrace`, `KeepComplex`, `Truncate` | the four reductions of a label |
| `Decode`, `NoRunDefinition`, `Choose` | `parse_run_definition`; the two places of a sweep definition |
| `ReadAxes`, `ReadMetadata`, `NoPlaylist`, `OpenPlaylist`, `KeepSchedules` | its parts, each with a failure of its own |
| `Envelope` | `_envelope` of one waveform |
| `MeetTrigger`, `LeaveTable`, `EndNowhere`, `NameWaveform`, `Follow`, `NextInTable` | `_probe_waveform` |

Samples are integers: the code compares them and takes their size. The edge of a bucket is computed exactly where
the code uses floating point; both agree for the numbers of buckets that are powers of two, and for the 24 buckets of an envelope an
inner edge may come out one sample lower, for both of the buckets it separates. The arms set in the
arrays of one label are assumed to agree (`ReadoutsSent`). `ReadAxes` takes the rows of each definition and leaves out
`axes_by_key`, the same by label, and the cut of the values shown to `4 * MAX_ROWS`, which no property is about.
Names, units, phases, and the marks of binary fields are left out.

## The runs

| Run | Expect | Question | Bounds |
|---|---|---|---|
| `limiter_faults` | pass | under all faults: do the limits hold where no failure hid a job from the counters, and is every count too high the trace of a failure? | one user, 3 requests over 2 kinds of submission, 2 failures of 7 kinds, cap 3, 1 sweep |
| `limiter_exact` | pass | without faults: exact counters, the ledger implemented, everything given back? | two users, 3 requests, licenses from 0 to 2 |
| `limiter_sweep_release` | violation | do sweeps leave the shot budget alone? | no fault |
| `limiter_lost_undo` | violation | is a refused job never left charged? | Redis failing under the gateway |
| `reporter_faults` | pass | is a job closed only when done, released once, reported in the end; is the promised life implemented? | 1 job, 3 failures, reports in two calls |
| `reporter_progress` | pass | does one job's trouble keep another from being reported? | 2 jobs, 1 failure |
| `reporter_result_lost` | violation | do storage errors cost no data? | 1 job, 1 failure |
| `reporter_never_timed` | violation | is every terminal job reported? | 1 job, no failure |
| `gateway_faults` | pass | does the answer agree with what was done, in every mode; are roles honoured no longer than they are cached? | 2 requests, 2 failures, TTL 1, one tick |
| `poller_faults` | pass | is every recorded and listed report stored, none fetched twice, no date lost, every run published in the end? | 2 runs, 2 failures |
| `poller_hand_deleted` | violation | is a report deleted by hand stored again, or listed no more? | 2 runs, the deletion the only failure |
| `sweep_views` | pass | does what is drawn keep extremes, rows, schedule and readout pulse, within the limits? | 2 labels, 7 samples, 4 spots, tables of 3 |

Why the bounds are enough to see the interesting cases: a race over a counter needs
two holders and a third that comes while one of them is released, hence three
requests; a cap of 3 with jobs of 1 and 2 shots is reached exactly and exceeded by
one. In `limiter_faults` every circuit job fills a license, and two failures let one request leave something behind in
each process. A submission whose circuits the parser does not recognise (0 circuits: charged as one circuit, released as
one shot) is among those of the two violations only; `NothingElseLeaks` speaks of it, as of every submission. Three
failures for one job let a crash fall between SADD and release, a report be lost and a statement fail in one life of the job. An aborted
transaction and a stuck neighbour need two jobs. The poller has one run recorded before
dates were kept and one new; an interval of 5 with a first wait of 3 makes the second
failure meet the cap; deletions by hand count as failures. Shots, licenses and users beyond
that are covered by the theorems, for the limits.

In `gateway_faults` one request is any of ten kinds (submissions of circuits and
sweeps with either sort of token, a user without a name, public, deprecated and unknown
routes, no token, a token nobody knows) in any of the four modes; the other is by
the same owner on an admin route, so that two lookups of roles overlap and one is
answered from what the other cached. An answer is cached for one unit of time, and
time moves by one: an answer asked for before the tick and arriving after it no longer
holds, and a role may be withdrawn on either side. Two failures reach the upload of a circuit that
fails twice, that of a sweep that fails once beside another failure, and the reservation that is lost and not
rolled back. `STRICT_PREFIX_MODE` is off in this run: with it on, fewer
requests get past `authenticate` and nothing else changes.

`sweep_views` takes every artifact within its bounds: the limits of the code (2048 points, 128 rows, 256 columns, 64
schedules, 48 points of an envelope, depth 4) become 4, 2, 2, 3, 4 and 1, and the traces, fields, waveforms, schedules and
tables go beyond each of them, so that each reduction takes place with and without a remainder. A table of three
instructions has references forwards, backwards, to itself and out of the table, so that the probe meets circles and
is stopped by its depth.

Deadlock is checked in every run but `gateway_faults` and `sweep_views`, where the system stops:
every request is answered and every job with a row closed; the artifact is parsed. In the others
there is always a next step: where the requests are all done the reporter still
meets the rows of finished jobs.

### Fairness

Clients owe nothing: no fairness is assumed of the first step of a submission, and
none of failures. `ConcurrencyLimiter` assumes weak fairness, per request, of the steps a handler takes
once it has begun (the event loop runs every ready coroutine), of the machine's
decision and its finishing, and of the reporter's release, which runs again every
cycle; `AllGivenBack` needs all of it. `JobReporter` assumes weak fairness of the reporter's loop as a whole, restart
included (the container's restart policy). The machine, the gateway and the failures
have none; that failures end is the bound `MaxGlitches`. `CalibrationPoller` assumes weak fairness of its
loop in the same way; the machine and the operator have none, and its liveness property only speaks of runs that stay
served and dated. `poller_hand_deleted` states the same fairness, so that its counterexample is a poller that goes on
polling. `AuthChain` and `SubmissionPipeline` are checked for safety only and assume no fairness.

### Findings

- `limiter_sweep_release`: the end of a sweep takes shots off `shots:active` although a sweep is charged
  none (`job_counters.py:63`), so the budget of the user's circuit jobs is exceeded.
- `limiter_lost_undo`: a Redis error after the first INCR of `try_reserve` lets the submission
  through with nothing to roll back (`concurrency.py:205`).
- `reporter_result_lost`: an artifact that failed once is never fetched again, since the row is deleted
  all the same (`job_reporter.py:290`).
- `reporter_never_timed`: a job aborted before it ran lacks timestamps and is skipped in every cycle for
  ever (`job_reporter.py:207`).
- `poller_hand_deleted`: the index lists the rows of the table and a run with a row is never fetched again, so a report
  deleted by hand stays away and stays listed (`calibration.py:489`), although `publish_index` says that the index
  "can never drift from what is actually stored" and such a report "comes back correct on the next poll".

`PortalForward` and `ReportedBeforeDeleted` make an exception for the gateway's first report: the row
is committed before that report is sent, so a fast job may be reported as completed first, and the
portal then shows "submitted".

## The proofs

For every set of users, requests and submissions, every limit and license count:

- `TypeCorrect`: `Spec => []TypeOK`, under any faults.
- `SweepLimitHolds` and `ShotLimitHolds`: `OnlyLeaks => (Spec => []SweepLimit)` and the same of
  `ShotLimit`. `OnlyLeaks` says that `Faults` has none of `gateway_redis`, `lost_reply` and `ttl`, the
  three that take the counters below what is held: crashes of either process, untracked jobs and
  Redis errors in the reporter may all happen, any number of times. They leak charges, and a leak only makes
  the limiter stricter. The properties themselves except a user whom one of the three has met (`Undercounted`); in
  `limiter_faults`, which has all seven kinds, they speak of the states in which none of the three has struck yet.

`ShotLimit` is not inductive: it says nothing of the counters. The invariant behind it is
`TypeOK /\ Shape /\ ShotsCovered /\ ShotLimit`. `Shape` ties the positions together (a handler that holds no
reservation has no active job; only tracked, finished jobs are being released; a handler in `countJob` is the
only one between two commands). `ShotsCovered` says that for a user
without sweeps `shots` is at least the sum of the charges of the requests that still hold
theirs, and that the count a handler remembers in `call` covered the holders of that moment. The step that
matters is `CountJob`: the comparison uses the value its INCRBY returned, and
whatever the reporter did since only removed holders. The clamps never fire on a
covered counter, which is a lemma (`NoShotClampStep`). `SweepLimit` goes the same way with
`JobsCovered` and cardinalities. Sums over the requests of a user are cardinalities of a set of
tokens (`Weight`), so that the library's facts on finite sets carry the arithmetic;
`ConcurrencyLimiterProofs` begins with `WeightAdd`, `WeightRemove`, `WeightMonotone` and what is known of the amounts
(`ChargeFacts`): a charge and a release are at least one, and a release takes no more than the charge unless
the submission is a sweep, when it always takes more.

For every set of jobs, artifacts and number of failures, without further assumptions on the faults,
`JobReporterProofs` has all the safety properties of the reporter: `TypeCorrect`, `ReservationReleasedOnce`,
`LinksAlwaysResolve`, `ReportedFirst`, `OmissionsArePaid` and the action property `PortalNeverBack`. None of the
properties is inductive; `Kept` is, with one part for each of them:

- `InHand`: what the reporter's position says of the job it holds: its row is there, it is not
  among the rows still to do, and a terminal status that was fetched is still the machine's
  (`TerminalStays`: terminal statuses are final);
- `ReleaseInv`: a job is released only once it is in `processed`, and a job between
  the SADD and the release is in it and not released yet;
- `LinkInv`: the links collected so far in a turn are stored;
- `ReportInv`: a job about to be deleted is at the portal with the status fetched for it, or with the
  late "submitted";
- `AheadInv`: the portal is never past the status the reporter holds, nor that past the machine's;
- `OmissionInv`: what the job in hand lacks, artifacts given up and a release that failed, is
  within `glitches` at each step of its turn, as for the jobs already closed; a job
  that was marked and not released had its failure.

For any requests, users, roles, route table and number of failures, `SubmissionPipelineProofs` has
`RolesHonouredRecently`: `Spec => RolesRecent`. The invariant is `RolesKept`: `AskingInv` (a handler that asks has
the default roles only, and asked in the past), `AnswerInv` (each role in an answer was held at some time since
it was asked for) and `CacheInv` (each cached role was held less than TTL before the entry
ends, and the entry ends within TTL from now). The step that matters is `RolesArrive`: it may
overwrite a newer entry by an older answer, and the entry then ends TTL after the
question, which is why it is the time before the await that counts. `HeldKept`
carries a role that was held since a past time over a step, a withdrawal included.

`SubmissionPipelineProofs` then has the other properties of the pipeline: `TypeCorrect`, `NothingLeftByRefused`, `SuccessTracked`,
`ErrorsEarned`, `RowsBacked`, `ReservationsFollow` and `OutagesAreNotRefusals`. They follow from one
invariant, `RequestsKept`, which says for each position of a handler what machine, row, store, portal and charge
are for its request: before it reaches the machine there is nothing (`Waiting`), then there is a reservation and perhaps
a job (`Sending`), then what of the capture has been done (`Recording`); `Finished` says what an answer means, and `Tracked` what a
row stands for after the handler is gone. What went wrong is counted where it went wrong (`hurt[r]`), so each part can say
how many failures a gap must have cost. `Counted` (no request was hurt more often than there were failures) is
there because the types bound the counters.

`CounterProofs` is about the counters themselves:

- `NothingElseLeaks`, under every combination of faults: no counter is above what its user's requests hold and what
  requests that met a failure left behind, or, for the shots, gave back in part (`OnlyFailuresLeak`). It
  takes in every leak at once, so that one more way to lose a charge without a failure would break it. With
  `Handled`, which says where the handler and the release of a request that met no failure may be, it is inductive: a step
  takes a request out of those that count (`CountsShots`, `CountsJob`) only as it gives back what was charged for it.
- `CountersAreExact`, for `Faults = {}`: `NotExceeded` (the counters are at most what is held) meets
  `JobsCovered` and `ShotsCovered` (they are at least that). It speaks of the shots of users whose jobs all give back
  what they were charged (`Balanced`); for the others a release takes too much, which is the finding of
  `limiter_sweep_release`.
- `LimiterImplementsLedger`, for `Faults = {}` and users who, if they send circuit jobs at all, send only
  jobs that give back what they were charged: every step of the limiter is a step of `AdmissionLedger` or a
  stutter. `OwnMove` says what each action does to the claim and the place of its own request,
  `OthersClaimsStay` that it leaves the others'; `CountsAgree` is the heart: when the event loop is free the counters are what the
  ledger counts, so that the comparison after the INCR decides as the ledger would.

`ConcurrencyLimiterProofs` also has `FlatBudgetInLicenses`: the budget of a principal that does not come from the cluster is
`MAX_CONCURRENT_SHOTS` rounded down to whole licenses, less than one license short of it.

`ReporterKeepsThePromise` (`Spec => LivesAsPromised`, in `JobReporterProofs`): each step of `JobReporter` is a step of
`JobLifecycle` or a stutter. `ReleaseInv` and `ReportInv` give the guards of the release and of the drop;
`LifeMachine` treats the machine, which moves beside the reporter.

`CalibrationPollerProofs` has all the poller's safety: `TypeCorrect`, `RecordedOnlyWhenStored`, `FetchedOnlyWhenNew`,
`DatesNeverLost` and `WaitsDouble`, for any runs, sets, waits and number of failures. `PlanInv` says that what the plan
has still to fetch or to date was so in the table when it was read, and is so still (only the poller
writes rows; an operator only deletes them); `StoredInv` that the rows, the plan's steps after the upload and both
indexes speak only of runs whose report is stored, those deleted by hand apart. `Backoff` speaks of the wait of a moment
ago and the code keeps the next one, capped at each doubling; `PaceInv` ties them: held to the
interval, `retry` is the wait the failures so far lead to. That a wait may be capped before it is doubled
is `CapDoubles`. The first wait may lie above the interval, and then is capped only where it is used, which is why the invariant
speaks of both sides held to the interval.

`DecimationProofs` and `SweepParserProofs` have every property of the sweep parser, for any artifact and any limits.

- *Reductions.* `BucketsCover` and `BucketsWide` (the buckets partition the trace: no sample is dropped before the
  extremes are taken, and two are left in each) and `KeptSpreads` (what a stride leaves of n indices) are arithmetic. On them
  rest `BucketExtremes` (the extremes of a bucket are two places of it that bound it), `MinMaxPlaced` (the
  places of all the buckets, one after the other, are in order and bound every sample) and `AbsMaxKeeps`.
- *The steps.* `EnvelopeIsKept`, `RowsAreTheSpots`, `OnlyUnevenIsLost` and `ViewIsBounded` follow from `ParserInv`: an entry
  is what the reductions make of the arrays in hand (`EntryInv`), and the arrays left when the view was lost are those the
  parser raised on (`ReadingInv`). `RowIsSpot` is the heart of the second: samples of all spots are joined into one
  sequence, and row r of it is cut out again where spot r was put. A shape's product is a fold, solved
  for one and two dimensions (`CellsOfRow`, `CellsOfField`), which is all a field has.
- *The definition.* `SchedulesAreSpread`, `ScheduleIsShown` (`DefinitionInv`: which definition the view comes from at each step),
  `EnvelopesAreScaled` (the peak survives the reduction, `PeakKept`), and `ProbesAreFaithful`: for any instruction
  table, circular ones included, the waveform found is the one at the end of the trigger's references. Its invariant,
  `ProbeInv`, keeps a path from the trigger to where the probe is; a probe that gives up has none left (`NoPathLeft`).

*Induction.* `FlattenSeq` and the folds are recursive functions over the data. The library's induction theorems, which take
a predicate, cannot be instantiated by the provers; `DataInduction` states the same of sets: `LeastNatural`, from the
well-foundedness of the naturals, gives `Induction` for the elements of a set, and that `RecursionExists`: a function with given
first value and given steps exists. A recursive definition is a `CHOOSE` of such a function, so existence gives its equations
(`FlattenSteps`, `DoubledIs`, `CellsFolded`).

Assumptions: those named in the modules, and the hypotheses the theorems state. The requests, jobs, artifacts and runs are
finitely many, the limits naturals, `SHOTS_PER_LICENSE` and the poller's two waits positive; each submission, readout and table is
of its type. Two are about the sweep parser: `LimitsPositive`, that a trace may keep two points or more (the code's limit is 2048; a limit of
1 would still keep a pair), and `NoKeyIsNone`, that the value which stands for "no label in hand" is not a label.

Only model-checked is liveness: `AllGivenBack`, `ReportedInTheEnd`, `PublishedInTheEnd`. It needs
fairness, that is `ENABLED`, which the prover does not support. Every other property of the passing runs is a theorem, under the
hypotheses on faults and submissions given above.

## Not modelled

Every component that keeps state of its own is modelled; `PROJECT.json` says of each one that is only `partly` so what is
left out. What remains, and why:

- The request and response parsers are pure functions of JSON text. The models take every result they can have (no id, a sweep,
  circuits that are not recognised) and are no further interested in how it was found. Route patterns are
  regular expressions; an entry of the role table matches a set of routes.
- `reporting.py` is a generic report queue that no module of the gateway imports. The site plugin's own report is the
  one that runs, and is modelled.
- `SubmissionPipeline` and `JobReporter` are not composed: each has the other's part in one or two actions (`Close`, `LogJob`,
  `InitialReport`). Both at once on one row would add the reporter's releases for jobs that were accepted in another mode.
- The link to a job's calibration report is made without a look at the store; what may be missing there is the poller's
  (`poller_hand_deleted`).
- Two outcomes that contradict a document are in the model and have no run of their own. A client is answered 500
  though its job runs when the upload of its payload failed, once for a sweep and twice for a circuit, and an error when a first report was
  refused, while `main.py:22` says that failures of MinIO and the portal do not block: `ErrorsAreEarned` counts
  what each costs. And a 401 is answered where the signing keys could not be fetched, while `authentication.py:46` promises a
  503: `OutageIsNot401` speaks of the scheduler's tokens only.
- The metrics worker only reads. Header handling, protobuf decoding, HTML, signatures and keys, schema
  migrations and deployment files are data conversion or I/O without a state of their own.
