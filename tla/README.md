# A verification project for Opsonara

Opsonara is a firewall between AI support agents and a shop. An agent proposes
an action (a refund, a discount, a price override); the firewall answers ALLOW,
REVIEW or BLOCK, chains an audit record of the answer, queues a review for a
human when it has held the action, and learns from the verdicts of humans. It is
a FastAPI application (`src/backend/opsonara`), a Python SDK
(`src/backend/opsonara_sdk`), and one of three stores: memory, SQLite, Postgres.

This directory holds TLA+ modules of its components, configurations that
model-check them with TLC, and theorems about them that TLAPS proves.
`PROJECT.json` maps every definition to the lines it models.

## The system

| Component | State | Operations | What is hard |
|---|---|---|---|
| Decision pipeline (`firewall.py`, `engines/`, `core/injection.py`, `agent_authz.py`, `blast.py`) | none | `evaluate` | six engines with their own thresholds and overrides, combined in order; quantized arithmetic |
| Human review queue (`stores/review_store.py`, `sqlite_store.py`, `pg_store.py`) | reviews table, origin records' pointer | create, decide | several workers, statements in transactions of their own, crashes between them |
| Audit chain (`stores/*`) | audit_records table; per store object a verified prefix and counters | append, set_human_decision, counts, verify_chain | appends of two instances, caches of what was verified, power loss, edited rows |
| Idempotency (`idempotency.py`, the two POST handlers, the SDK's retries) | entries by key, bounded, with a TTL | get, claim, complete, release | late, lost and repeated requests, failing handlers, eviction, restart |
| Credentials and lifecycle (`identity.py`, `firewall.py`) | known agents, revocations, states, saved set of the kill switch | issue, verify, revoke, pause, resume, quarantine, kill_switch, resume_all | long sequences of operator calls around a kill switch |
| Learning loop (`learning.py`), weekly job (`recalibrate_job.py`) | outcomes, weights, shadow weights, cursor, in a file both read once and write whole | record, recalibrate, start_shadow, save | two processes on one file and one temporary file, two saves per recalibration, clamping and rounding, dry run |
| Policy packs (`policy_store.py`) | packs, the active one per brand | create, activate, archive, resolve | any order of them, while calls are judged |
| Tenants and rate limits (`multitenant.py`) | tenants, hits per key | register, authenticate, allow, prune | trimmed and pruned buckets must forget nothing that counts |
| Usage (`commercial.py`) | counters per period and brand, the last events | record, usage | calls that fail half way, dropped events |
| Simulator (`simulator.py`) | none; appends to the audit trail | simulate_pack | evaluates for real into the chain it reads |
| Connectors, verification (`connectors.py`, `verification.py`) | connectors | process, verify, register | a remote effect before the record of it; timeouts and retries |

How they interact: `POST /v1/evaluate` passes the idempotency gate, asks the
authority about the credential, resolves the policy pack, runs the pipeline,
appends the record, creates the review, meters the call and completes the key.
`POST /v1/reviews/{id}/decision` updates the review, fills in the pointer of the
origin record, appends a receipt or a verdict record and hands the verdict to the
learning loop. `POST /v1/connectors/{id}/process` evaluates, executes on the
platform and appends a verification record. The recalibration job is a second
process on the same audit store and the outcome file. Handlers are `async def`
without an `await` on these paths, so one process serves one request at a time;
concurrency comes from several processes on one durable store, from clients that
do not wait, and, for the thread-safe stores, from callers in threads.

What makes each correct: the pipeline, that danger never relaxes a decision and
the record explains it; the queue, that a verdict is final, is given by enough
distinct humans and is recorded; the chain, that it is one chain and that
verification says neither too little nor too much; idempotency, that a retry
never executes twice and gets its own answer; the lifecycle, that whoever was
stopped stays stopped; the learning loop, that weights stay a mean and evidence is
neither lost nor counted twice; the gateway, that a tenant gets its budget, its own
policy and its own bill; the connectors, that nothing executes that was not allowed
and that what was executed is on record.

## Modules

| Module | Models | Extends or instantiates |
|---|---|---|
| `ReviewContract` | what the queue promises: ballots, needed approvals, verdicts | |
| `ReviewQueue` | the queue over a durable store, one SQL statement per action | `ReviewContract`, by a refinement mapping |
| `ReviewQueueProofs` | its theorems | `ReviewQueue` |
| `AuditChain` | the audit table shared by instances that append and verify | |
| `AuditChainProofs` | its theorems | `AuditChain` |
| `Idempotency` | SDK calls, the gate of the handlers, the store | |
| `IdempotencyProofs` | its theorems | `Idempotency` |
| `AgentLifecycle` | the credential authority and what `evaluate` makes of it | |
| `AgentLifecycleProofs` | its theorems | `AgentLifecycle` |
| `Decision` | the pure pipeline, and requests that get worse step by step | |
| `DecisionProofs` | its theorems | `Decision` |
| `Weights` | `clamp_weights`, in units of 0.0001 | |
| `Learning` | outcomes, weights and cursor in one file, the API and the weekly job | `Weights` |
| `LearningProofs` | theorems about both | `Learning` |
| `Tenants`, `RateLimiter`, `PolicyPacks` | registry and authentication, the limiter, the pack store | `Tenants` |
| `SlidingWindow` | what the limiter promises: a window that remembers everything | |
| `Gateway` | the composition: calls, connectors and simulations on one audit trail, queue and meter | `RateLimiter`, `PolicyPacks`; `SlidingWindow`, by a refinement mapping |
| `GatewayProofs` | its theorems | `Gateway` |
| `Connectors` | process, verify, the idempotency entries, the platform | |
| `ConnectorsProofs` | its theorems | `Connectors` |
| `MC...` | values and symmetry for TLC | the module of the same name |

**ReviewQueue.** `table` is the reviews table with the status column and the
approvals of the payload, `audit` the audit table in the order of seq, `pointer`
the `human_decision` of a review's origin record, `outcomes` what the learning
loop was handed, `req[w]` the request worker `w` serves, with its next statement,
its copy of the row and the last seq it has read; `ballots` is a history
variable. `evaluate` is `Evaluate`, `InsertOrigin`, `CreateReview`; `decide` is
`ReadAndApply`, `UpdatePartial` or `UpdateResolved`, `SetPointer`, `ReadChain`,
`InsertReceipt` or `InsertHuman`, and the endpoint adds `RecordOutcome`. An INSERT
with a taken seq raises and ends the request, as a crash does. `Crash` also stands
for an exception of the driver between two statements, such as a locked database.
With one worker and no crash it is the in-memory store. That `append` reads the
tail in a statement of its own is what makes the race for seq possible; that the
UPDATE tests the status when it runs is what makes the verdict final.

**AuditChain.** A row has what its fingerprint covers (`content`), the field that
is filled in later (`human`), and its two hashes. SHA-256 is a function without
collisions: the hash of a row is the sequence of all fingerprints up to it.
`cache[p]` is the prefix instance `p` has verified, `total[p]` its counter, which a
start seeds from the table and `p`'s own inserts advance, `proc[p]` the operation it
performs under its own lock. An INSERT can be refused (`InsertFails`), and on Postgres it
can be committed and not heard of (the last choice of `InsertRow`), which leaves the
row and not the count. `verify_chain` is
`VerifyBegin`, `Walk` and, for SQLite, `Reread`: the statements in which it reads
the end of the chain, the rows, and the end again. `Edit` is a change made
outside the store API, which verification exists to find.

**Idempotency.** `entries` is the dictionary; `clock` counts its claims and gives an
entry its `created_at`, and what remains of the TTL is whether it has expired. `attempt[<<c, n>>]` is the n-th HTTP
request of an SDK call, served through `Get`, `Claim`, one of `Succeed`, `Refuse`
and `Raise`, and `Complete` or `Release`. A client may give up on an attempt at
any time; the attempt goes on. The methods of the store are atomic, the handler
between them is not: the store promises thread safety, and a handler in a thread
pool or a store behind several workers interleaves so. A single uvicorn process
has fewer behaviours, and the counterexamples below need no interleaving inside
a handler.

**AgentLifecycle.** One action per operator call, `Evaluate` for an agent's
request with the credential of any holder or none, with or without a mandate.
`state`, `known`, `revoked` and `preKill` are the authority's fields. What operators
have asked for is kept beside them in histories that no code path reads: `stopped`
(paused by an operator or by the switch, and not let go since), `contained`, `dead`
(revoked, for good), `switched` (those the last press was to pause) and `held` (those
already held then). The properties compare the two. The authority never compares the
holder of the credential with the agent that the action names, and the model does not
either: a stop is stated of the holder, a quarantine of the agent named. That a
quarantined holder may name another agent is a finding.

**Decision.** The engines as operators over a request: `CriticalFailures`,
`Warnings`, `RiskScore`, `InjectionScore`, `BlastBand`, `AgentDenied`, `Decide`,
`Contain`. Decimal arithmetic is integer arithmetic in the unit the engines
quantize to, rounded half to even. The conversation is the set of patterns it
matches; how a text is normalized and matched is left out. The state machine
evaluates a request and then again with one of its facts worse.

**Learning.** `file` is the JSON file, `tmp` what is at `path + ".tmp"`, `mem[p]` the copy
of process `p`: outcomes in their order, and per brand the promoted weights with their
version, the shadow weights and the cursor. A change of the copy (`Changes`) is followed
by a save in three steps, as `_save` does it: `Open` creates or empties the temporary
file, `Write` closes it over the document, `Replaces` renames whatever has the temporary
name by then. Both processes use that name, so `save[p]` says where the file is that `p`
has opened: still `tmp`, renamed by the other process to the file itself (`"file"`, and the
bytes go in place), or already without a name (`"gone"`). A rename that finds nothing
raises. A document is `Blank` when it has been opened and not written, `Torn` when it is no
JSON; a process that reads either ends there. `Interrupted` is a save that raises or whose
process dies, with some of its bytes written or none. A recalibration is
`ApiRecalibrate` or `JobRecalibrate`, its first save, `Mark`, its second save, and
`JobReport` chains the change before the next brand. API handlers do not await, so in
between come only the other process and a crash. An outcome is who approved it and which
signals were high; the shares 0.7 and 0.3 of approvals are compared in integers.
Histories: `used` counts how often an outcome has moved a weight set, `exposed` are the
outcomes recorded while a run of the job was going on, `overlapped` says that two saves
were once under way together, `cuts` counts recalibrations cut between their saves, by a
failure or by a process that read the file just there.

**Gateway.** One handler is one step: the handlers await the body of their request
and nothing else. `Unauthenticated`, `OverLimit`, `NoVerdict`, `Evaluate` and
`EvaluateFails` are the ends a tenant's call can have, in the order of
`require_brand` and `evaluate`; a policy is what the pipeline decides under it, which
`Decision` derives. A bucket is a set of hits rather than a list, told apart by
serial numbers; the clock is `time.monotonic` and also the calendar of the billing
periods. `Simulate` appends one shadow record per record in scope.

**Connectors.** `work` is the call `process` is at work on; each of its steps is an
action (`Evaluate` chains the decision, `CreateReview` then queues a hold), and any of
them can be the last: `Raises`, `ExecuteFails` and `HoldFails` are
exceptions the endpoint does not catch, which keep the key, `Invalid` and `NoOrder`
those that give it back. `platform` is what the platform has really done: a call that
failed may have been executed. `cut` (history) are the decisions whose processing
ended early. A delivery over a webhook has no key.

## Runs

| Run | Shows | Distinct states |
|---|---|---|
| `ReviewQueue` | two workers, two reviews, two humans, crashes anywhere: the five invariants, `VerdictIsFinal`, and that it implements `ReviewContract` | 1,289,405 |
| `ReviewQueue_VerdictIsChained` | counterexample: a resolved review without a verdict in the chain | |
| `AuditChain` | SQLite, two processes, three rows, one edit: one chain, no false alarm, exact walks, counters that never exceed the table, an alarm that stands | 1,491,560 |
| `AuditChain_NoFalseAlarm` | counterexample: Postgres, two instances, nobody edits, verification reports tampering | |
| `Idempotency` | two calls, two keys, two bodies, one retry each, restart and expiry: at most one execution per window, everybody's own verdict, claims held | 1,168,402 |
| `Idempotency_EveryRequestEnds` | liveness: a request the server has taken ends | 5,554 |
| `AgentLifecycle` | strict mode, three agents: stops and quarantines hold, undoing the kill switch spares the held | 387,065 |
| `Decision` | 28,800 well-bound requests and every way to worsen one: bounded autonomy, nothing forbidden is queued, the record explains itself, monotonicity | 172,800 |
| `Learning` | two brands, the API and the job on one file and one temporary file, two inputs or one and a crash or failed save anywhere: cursor, evidence, what can be lost, torn or left out of the trail, and weights | 642,626 |
| `Learning_OutcomesSurvive` | counterexample: the job's save erases an outcome the API has recorded | |
| `Gateway` | two tenants, two packs, connectors and simulations: the limiter implements `SlidingWindow`, budgets kept, packs in force, exact bills, a real queue | 338,336 |
| `Connectors` | two calls, three deliveries, one crash: executed was allowed, one execution per key, effects on record | 1,637,596 |

Bounds, and why they are enough. Races over a review or a seq are between two
workers: a third one finds the row resolved or the seq taken, as the second does.
Two humans are what the two-person rule needs; a second review shows that one
never disturbs the other and that their records interleave in one chain. Three rows
let one row be verified, one appended during a verification and one after it;
one edit is enough for any property about the first bad row. For idempotency a
third attempt repeats the second (a retry sees what it would have seen), so one
retry by two clients gives four attempts on a key; the liveness run has two
retries of one. `MaxEntries` equal to the number of keys is the store that never
fills. Three agents are one the switch
pauses, one held before it and one nobody has registered. The requests of
`Decision` lie on both sides of every limit of two brands and every threshold of the
engines. In the learning loop two brands show what the cursor per brand is for and that
a run of the job chains one brand before the next; one fault can cut either
recalibration at any step of either save; two inputs let one outcome be recorded before and
one during a run of the job; a proposal drifts as far as a weight can. `MaxWork` lets
there be two inputs or one input and a fault. Two writers are all there are. The gateway has a table for one bucket, so that
the second tenant's call prunes it, a window of two ticks within three, a meter that
remembers one event, and periods of two ticks; `MaxWork` bounds ticks, calls, packs
and records together. Three deliveries let a key be retried and a webhook come in
between; the two calls are one that names an order and is compared, and one that
does neither.

Deadlock is checked where a component can always do something. It is off for the
queue (every review can be resolved), idempotency (every call can end), the
decision chain (no fact can get worse forever) and the learning loop (its inputs
are bounded).

Fairness. `FairSpec` assumes that a handler whose request has begun takes its
next step (it has no `await` and takes no lock across steps, so its process either
runs it or dies, which is `Restart`), and that a client waits no longer than its
timeout (`urlopen(..., timeout)`). No fairness is assumed of anybody else. It is
the only run that needs any.

## Findings

`PROJECT.json` quotes the claims. With a run:

- a verdict that is not chained after a lost race or a crash;
- a false tamper alarm of `verify_chain` with two Postgres instances;
- an outcome that the other process's save erases.

Read while modelling, without a run of their own:

- idempotency: a full store executes a retry again; a failed handler keeps its key;
  a review hold that fails gives it back after its effects;
- lifecycle: a kill switch pressed twice restores too little; a quarantined agent that
  is allowed what it asks for in another's name; in the default mode, paused agents that
  are evaluated;
- reviews and pipeline: two first approvals and two receipts of one review; on
  SQLite, a worker that loses a review and keeps its write transaction open; a merely
  suspicious conversation treated as confirmed manipulation; a refund without an
  order;
- audit: counters that miss what another instance has appended; fields the fingerprint does not cover; a lost tail the chain does not
  detect; the page order of the in-memory list;
- learning: renormalized weights outside the clamp; evidence applied twice after a
  cut; a file that cannot be read, because two saves share a temporary name; a dry run
  that promotes; a change over the API that is not chained; a shadow
  gate nothing scores or asks, and weights no engine reads;
- gateway: connectors without pack and budget; shadow records taken for
  transactions; simulations in strict mode; a bill whose split and total disagree;
- connectors: an HTTP error that counts as executed; store credit that is not
  compared.

## Proofs

`ReviewQueueProofs` proves, for every set of workers, reviews and humans and with
or without crashes,

- `TypeCorrect`: `Spec => []TypeOK`;
- `TwoPersonRuleHolds`: `Spec => []TwoPersonRule`;
- `VerdictIsFinalHolds`: `Spec => VerdictIsFinal`;
- `QueueIsAuditedHolds`: `Spec => []QueueIsAudited`;
- `OneVerdictRecordHolds` and `OutcomesAreAuditedHolds`;
- `QueueImplementsContract`: `Spec => ImplementsContract`;
- `VerdictIsChainedAlone`: `Spec => [](Alone => VerdictIsChained)`, where `Alone` is one
  process that does not die half way.

The assumptions are `CrashesIsBoolean` and `NoneIsNothing`. `TypeOK` is not
inductive: a worker that is not idle must serve a real review, and one that
decides a real human, or its next statement would write a row for nobody. `Serves`
says so, and `WellTyped` is the two together. The two-person rule
needs more than the table: a worker carries a copy of the row, applied and not yet
written, and writing it must not break the rule. `BallotsCount` says of every row
and every copy that its approvals are of distinct humans, each of whom has voted or
is the one whose ballot this very UPDATE will acknowledge, and that an approved one
has enough of them. The proof has one step per action; only `ReadAndApply`,
`UpdatePartial` and `UpdateResolved` touch approvals, and they rest on lemmas about
`Applied`. `VerdictIsFinal` needs `OriginFirst`: a review that is about to be
created has no row yet, so that `CreateReview` never resets one; the two UPDATEs
keep a resolved row by their own test. The chained records need the order of the
statements: `CopyIsOfRow` says that the copy a worker decides on has the status of its
decision and the required count of its row, and `VerdictsKnown` that a resolved review
has one winner, the worker whose UPDATE counted, and that its pointer, its record and
its outcome appear in that order and tell the row's verdict. The refinement puts these
together: an acknowledged UPDATE is a `Cast` of the contract, and `PanelVoted` finds
the panel of an approval among the humans who voted for it. `VerdictIsChained` is the
claim a run refutes; the theorem says where it holds. Alone, nobody moves the tail of the
chain between its reading and the INSERT (`TailIsRead`), so no INSERT is lost, and the
worker that has resolved a review goes on to its verdict record (`ChainsItsVerdict`).

`AuditChainProofs` proves, for every set of instances and contents and whatever the
bounds, on both backends `TypeCorrect`, `OneChainHolds` and `CountsNeverExceedHolds`, and,
where verification is `Reliable`, `NoFalseAlarmHolds`, `WalkIsExactHolds` and
`AlarmStandsHolds`. Reliable is SQLite, or a single instance on either backend. The
assumptions are `BackendIsOne` and `BoundsAreNat`. The invariant comes in three layers.
`Linked`: edited rows are in the table, the rows are one chain, and an instance about
to INSERT holds a position that is still on it, because no step but a power failure
takes a row or a hash away, and that one ends every process. A free seq then means
that the hash it has read is the last one. `Trusted`: every position an
instance remembers, in its cache or as the start of a walk, is on the chain, a
walk that went badly has met an edited row, and a Postgres instance that is about to
walk still knows the end of the chain. With `WalkFindsEdits`, from a position on
the chain a walk finds exactly the edits behind it, this gives the first two
properties. For two Postgres instances `Trusted` is false, since the cache pairs a COUNT with
the hash of a later SELECT, between which the other one appends, and `AuditChain_NoFalseAlarm` is what comes of it. `Alarmed`:
an instance whose last answer was tampered trusts no prefix and its next walk starts
from genesis, over the edited row. The counters
need none of this: `CountsFlow` says what a step does to a counter and to the table, and from
it also follows `CountsAreExactAlone`, where the claim that appends keep
the counters exact is true: one process on a SQLite file.

`AgentLifecycleProofs` proves `TypeCorrect`, `StoppedIsRefusedHolds`,
`QuarantineHoldsThroughout` and `RestoreSparesTheHeldHolds` for every set of agents, from
`ModeIsOne` and `NoneIsNobody`. The invariant `Histories` ties what operators asked for to
the authority's fields, over every sequence of their calls: `StoppedArePaused`,
`ContainedAreQuarantined` and `DeadAreRevoked` are what `verify` and the lookup of the
state see; `SavedWereSwitched`, the saved set has nobody the last press was not to
pause, and `HeldAreSpared`, nor anybody held then, are what `resume_all` restores. A
re-issue or an undo that forgot a stop, a quarantine or a revocation breaks one of them
long before an evaluation shows it.

`LearningProofs` proves every safety property of the learning loop. `ClampSumsToOne`
and `ClampKeepsFloors` hold for every weight vector, with no bound on its entries: the
total is positive because every clamped weight is at least its default less the drift;
the residual then makes the sum exact whichever weight is the largest, and since
rounding adds at most 2 in all (`RoundNear`, `ScaledBounds`), the largest can spare what
the residual takes. This gives `WeightsAlwaysSumToOne` and `NoSignalIsSilencedHolds`,
besides `LearningTypeCorrect`: every vector in any copy, the temporary file's included,
comes from `clamp_weights`, and saving, renaming, opening and crashing only copy them
(`CopiesStep`). The rest is about two processes that write one file through one temporary
file. `FlowStep` says once and for all steps where each document comes from: the file is
what it was, what the temporary file was, what the writer of an opened file has in
memory, or unreadable. `NothingIsSkippedHolds` rests on `Truthful`, that each copy by
itself is `Honest`: its outcomes have numbers of their own and what its cursor counts was
used. `EvidenceCountsOnceHolds` adds `Evidence`, which says of memory, temporary file and
file apart how often an outcome can have been used that their cursor does not count: once
for each cut so far, and once more while a recalibration is between its saves.
`OnlyExposedAreLostHolds` rests on `Kept`, that what was acknowledged and not exposed to a
run of the job is in every copy and every readable document, and on `Alone`, that a save
of such an outcome meets no other. `OutcomesSurviveUnattended`,
`Spec /\ []Unattended => []OutcomesSurvive`, is the positive side of the claim a run
refutes. `TornByOverlapOnlyHolds` rests on `Clean`: while saves have not overlapped, the
temporary file holds what its one writer has put there. `OneUnauditedPerFaultHolds` rests
on `Accounted`: over all copies together, the changes of real runs that are not chained,
but for the one in progress, are no more than the faults.

`GatewayProofs` proves `GatewayTypeCorrect`, `PackInForceHolds`, `QueueIsRealHolds`,
`BillsAreExactHolds`, `BudgetIsKeptHolds` and the refinement `LimiterImplementsWindow`, for
every set of tenants and policies and all bounds. The refinement needs `Windowed`: the hits of a
bucket that are still in the window are, one for one, the admissions of its tenant in
the window. Trimming drops only older hits and pruning only buckets whose every hit is
older than the window, so neither disturbs it, and the counts the limiter compares are
those of `SlidingWindow`. A tenant's budget is set before its first call, which is why
`Register` maps to `GiveBudget`. What the window is for follows from the same invariant:
`BudgetIsKept`, that no window of the past or present holds more admissions than the
budget, is kept by an admission because the bucket has just counted the window that ends
now, and by the clock because the next window holds no more than this one. `PackInForce` is inductive with the order of the packs
(`PacksInOrder`). The bill is two invariants: `Totals`, counters against answered
records, and `Details`, which says that as long as no more calls were answered than the
meter retains, its events are exactly theirs.

`IdempotencyProofs` proves `IdempotencyTypeCorrect`, `AtMostOnceHolds`,
`ClaimIsHeldHolds` and `OwnVerdictHolds` for any number of clients, keys, bodies and
retries, from `BoundsAreNat`. `AtMostOnceHolds` and `ClaimIsHeldHolds` assume `Roomy`,
that the store has room for every key, because a full store drives out entries still in
their window (see the findings); `OwnVerdictHolds` does not, so that a full store may
execute a request again but never answers it with the verdict of another. The invariant has three parts. `Alone`: whoever works on a key holds its
entry, not done and not expired, and nobody else works on it. `Kept`: a run in the
window of a key keeps the entry in the store, and nobody with that key is
about to run or to release, so the key has no second run; a handler
that raises keeps its entry, and this is where that matters. `Truthful`: what a
finished entry, a handler about to complete and an answer report is a run of their key
and body, and it needs neither of the other two: a claim adds an entry that is not done
(`ClaimAddsItsOwn`), and `complete` writes only to an entry of its own key and body
(`CompleteSettlesItsOwn`), whoever made that entry. A client's step changes no attempt at work (`ClientKeepsWork`).

`ConnectorsProofs` proves `ConnectorsTypeCorrect`, `OneExecutionPerKeyHolds`,
`ExecutedWasAllowedHolds` and `EffectsAreOnRecordHolds`, for any calls, deliveries and
crashes. `KeyHeld` says that a call executed with its key in this life of the process
still has the key, claimed or done, so that no second delivery gets past the gate;
the two releases of the handler come before anything was executed. `OnRecord` ties the
step of `work` to the records already chained for its decision.

`DecisionProofs` proves `DecisionTypeCorrect`, `NothingForbiddenIsQueuedHolds`,
`AutonomyIsBoundedHolds`, `RecordExplainsItselfHolds` and `NeverRelaxedHolds`, for any set
of amounts, customers, orders, agents, policies and conversations, from
`DecisionAssumption`, which only says of each what it is a set of. The invariant is
`Faithful`: the request is one of `Requests`, and its record is none or the one the
pipeline makes of it. The rest is about operators: `RanksAreBands` and `RiskBandIs` give
the band of a request and its floor under manipulation, `NotBlockedIs` says that a request
that is not blocked breaks no rule, exceeds no limit and is not critical, and `DecideIs`
which status and band give which decision.

`NeverRelaxed` compares two runs of the pipeline, so an invariant of one says nothing of
it. `Worse(r, t)` is one preorder that contains every way the machine has to worsen a
request, and `WorseIsNeverMilder` says of any two requests it orders, not only of those
one step apart, that the decision, the band and the blast band of the worse are no
milder. The proof is one monotonicity lemma per operator, from the factors of the score
up. Two things make it more than a chain of inequalities: the factors are quantized, so
rounding half to even has to be monotone (`FractionIsNearest`, `FractionGrows`), and the
scores are sums over finite sets of names, which are written out term by term
(`SumIsTotal`, `InjectionScoreGrows`, `HourlyGrows`), since induction over sets is out of
the prover's reach. The bands of `Decision` are stated as inequalities for the same
reason: the prover enumerates an interval of numerals.

Only model-checked: what must eventually happen, `EveryRequestEnds`. Out of reach of the
prover: liveness under fairness and ENABLED, what a recursive definition computes for
every input, and modules with RECURSIVE operators. No module here has one. The three
claims that runs refute are proved under the conditions named above, and so is the claim
of exact counters.

## What is left

1. Runs for the findings that have none yet.
2. The report of a simulation against what it has read, and the decision counters of
   the stores.

## Not modelled

`score_shadow` and the shadow gate, since nothing but tests calls them; the report to
Stripe, which keeps no state here; the explainer and analytics of any kind that only
reads; hashing of keys, HMAC signatures and the formats of tokens; the limiter's clock
read before its lock, which matters only to callers in threads, and the API has none;
power failures under the learning file, which `_save` does not flush before it renames it,
and documents that go out in several writes; parsing and validation of money, ids
and requests; HTTP routing, configuration and start-up; demo data; the browser console; benchmarks and deployment. They keep no state
the properties are about, or are input and output. The remote platforms behind the
connectors are external: they may do what they are asked or not, and say so or not.
