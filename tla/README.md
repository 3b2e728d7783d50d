# A verification of the intraday notification system

This directory models the notification system under `src/app` in TLA+, checks
the models with TLC on small instances, and proves theorems about them, for
every value of their constants, with TLAPS. Paths below are relative to
`src/app` unless they begin with `src/`.

## 1. The system

Contact-centre events (queue snapshots, agent state changes, adherence checks)
are replayed from a file. Each updates the state row of its subject. Rules
written by team leads are evaluated against subjects, on events and on clock
ticks; a state machine per (rule, subject) pair turns evaluations into
*episodes* and notifications. A web API manages rules and shows notifications.

| component | code | state it keeps | operations |
|---|---|---|---|
| Replay | `cli/replay.py`, `clock.py` | a `ManualClock`; the saved `replay_watermark` | walk ticks up to the next line, set the clock, ingest the line; save progress at the end of the file |
| Ingest pipeline | `ingest/` | `events` table, ingest counters | a line is invalid, a duplicate, late, or accepted; each outcome is one transaction |
| Projection | `projection/`, `domain/subjects.py` | `queue_state`, `agent_state` with the per-subject watermark `last_event_ts` | three pure `apply_*` functions |
| Scheduler | `scheduling/scan.py`, `selectors.py` | none | `due()`: pairs with an active episode, and pairs selected by an enabled time-sensitive rule |
| Due times | `scheduling/due_time.py` | none | `next_due_at` (called only by its tests), `TIME_DERIVED_FACTS` |
| Engine | `engine/engine.py` | locals of `evaluate_rule`, `pending_sends` among them | `on_event`, `on_tick`, `evaluate_rule` |
| Evaluation | `evaluation/`, `domain/facts.py` | none | facts of a subject at a time, operators, conjunction, missing facts |
| Episode machine | `episodes/machine.py`, `domain/episodes.py` | none | `advance()`: clear, pending, open, frozen |
| Storage | `storage/` | the SQLite tables with `ux_episode_open` and `ux_notif_idem` | `transaction()`, repositories |
| Dispatch | `routing/` | none | persist if absent, then send to the channels |
| Rules API | `api/routes_rules.py` | `rules` table | create; disable with a silent close of the rule's active episodes |
| Pages | `api/routes_notifications.py`, `api/routes_stats.py`, `routing/renderer.py` | none | read-only views |
| Rule validation | `domain/rules.py` | none | one check of a posted or seeded rule against the fact registry |
| Seeding, settings | `cli/seed.py`, `config.py` | none | initial rules; paths and intervals |

**How they interact.** The replay process calls ingestion; an accepted event
commits its projection and then calls `on_event` through a callback. Between
events the replay calls `on_tick` once per interval. Both end in
`evaluate_rule`, which counts itself in a transaction of its own, reloads the
rule, the subject and the active episode, advances the episode, commits row and
notification in one transaction, and only then sends. The API is another
process on the same database file. It has one connection, and serves requests
in a pool of threads that all use it.

**What is hard.** `evaluate_rule` reads outside the transaction it writes in, so
an API call or a second evaluator may come in between. The process may die
between any two commits, and between a commit and the send that follows it. A
file may repeat, alter, reorder or delay lines, and may be replayed again, in
part or in full. Ticks are only walked when there is room between two events.
Three clocks are in play: event time, the engine clock, and the API's wall clock.

**What makes each part correct.**
- *Episode machine and engine*: one alert at a time per pair, raised no earlier
  than `for_duration_sec`, repeated no faster than `cooldown_sec`, resolved
  once, withdrawn in silence with its rule (`AlertContract`).
- *Storage and dispatch*: rows and notifications tell one story; a notification
  is sent at most once, and never before it is recorded.
- *Rules API*: a disabled rule has no active episode and notifies nobody; what a
  client was told is on disk; a transaction is one unit of work, and ends.
- *Rule validation*: a rule that is accepted can raise, when it runs, over nothing but
  what the validator does not look at (format specs).
- *Pages*: live state is shown beside the notification it belongs to, or had come to
  belong to when it was read.
- *Due times*: nothing changes by the passing of time before the due time.
- *Ingest and projection*: the state row of a subject is what its accepted
  events add up to; every line is counted once.
- *Replay and scheduler*: a second replay changes nothing; what a notification
  says was so at the time it names; no crossing of a threshold is skipped.

## 2. The modules

| module | models |
|---|---|
| `Episodes` | episode rows and `advance()`, as pure operators |
| `Engine` | `evaluate_rule` in its reads and transactions, triggers, the API, crashes; extends `Episodes` |
| `EngineProperties` | the formulas checked and proved of `Engine`; the refinement mapping to `AlertContract` |
| `AlertContract` | the abstract promise to the author of a rule |
| `Facts` | facts, operators, conditions, findings |
| `Subjects` | the projection of events to state rows |
| `DueTime` | `next_due_at`, on top of `Facts` |
| `Replay` | ingestion and the replay loop, composed with `Engine`, `DueTime` (and so `Facts`) and `Subjects` |
| `NotificationView` | the reads of the notifications page, beside the running engine; extends `EngineProperties` |
| `RuleValidation` | the validator of a rule, and what a rule meets when it runs, as pure operators over types |
| `RulesApi` | the writing requests of the API, statement by statement, over one shared connection; extends `RuleValidation` |
| `MCEngine`, `MCPage`, `MCReplay`, `MCRulesApi` | constants, files, rules and bodies for TLC |
| `EngineProofs`, `LedgerProofs`, `SerialProofs`, `ContractProofs`, `OrderProofs` | theorems about `Episodes`, `Engine` and `NotificationView`, each module resting on the one before |
| `RulesProofs` | theorems about `RuleValidation`, and about `RulesApi` and its transactions |
| `ReplayInputs` | which files, rules and passes the theorems about `Replay` are for |
| `ReplayProofs` | theorems about `Replay` that rest on those about `Engine`; its counters, its projection, its reruns |
| `TruthProofs` | theorems about `Replay` that relate episodes and notifications to the conditions |

### Engine

Each *worker* is one replaying process. `clock`, `now`, `todo`, `pc`, `job` and
`outbox` are its clock, the time and the remaining pairs of the trigger it is
serving, and the locals of `evaluate_rule`; `rules`, `watermark`, `queues` (the
memberships of an agent, with its watermark a column of its row), `episodes`,
`notifications`, `evaluations` and `ticked` are the database; `sent` is what the
channels were given.

| action | code |
|---|---|
| `OnEvent` | commit of an accepted event's projection, and the list of pairs `on_event` evaluates |
| `OnSkip` | a line the engine is not told of, which still moves the clock |
| `OnTick` | one step of `step_to` and the pairs `due()` returns |
| `EndRun` | the end of the file: the watermark is saved, a later run starts |
| `Begin` | the counting transaction and the reload of rule and state, with both early returns |
| `Decide` | `get_active`, the evaluation and `advance()` |
| `Discard`, `Commit`, `CommitFails` | the writing transaction: nothing to store; stored; refused by the index and rolled back |
| `Send` | `dispatch_send` |
| `Crash` | the process is killed; another starts at its file's first timestamp or at the saved watermark |
| `CreateRule`, `DisableRule` | the API's two writing calls |

In `Engine` an evaluation may have *any* finding: matched, refuted, or unknown
because a fact is missing. What holds there holds whatever the conditions are.
`Replay` replaces the free choice by what the conditions find in the projected
state. The ids of episodes are fresh (a uuid) at creation.

Three constants select an environment. `Serial`: the API is served between
evaluations and not inside one; this is the repository's R12 ("single-threaded,
non-concurrent DB access", `storage/db.py:14-17`). `InOrder`: the file is sorted
by timestamp across subjects; per subject, the pipeline itself enforces the
order. `MayCrash`: the process may be killed.

### Replay

`Replay` takes `Engine`'s actions as they are and adds what ingestion does
beside each: `Walk` (a tick, or with `no_eval` only the clock), `Invalid`,
`Duplicate`, `Late`, `Accept` (the five outcomes of a line, a duplicate with an
altered payload among them), `Finished`, `Abort` and `Killed` (the ends of a
run). A line ends the run at once when it has no usable `ts`, and after the ticks
before it when its offset is not UTC's, which `clock.set()` refuses (`Near`,
`Settable`, `Abort`); behind the clock, where nothing is set, such a line only fails
to parse. A `no_eval` pass (`evaluating` FALSE) has no `on_change`: its `Accept` is
`Project`, and it saves no progress. `Disabling` is the API beside it: rules in
`Unwanted` may be disabled between any two evaluations, ticks or runs. (A rule that
is *created* beside a replay is in `Engine`; it is first evaluated by the next
trigger, so that until then it is rightly out of step.)

### RulesApi

`disk` is what is committed, `view` what the one connection sees, `begun` whether
it has a transaction open; `request` holds the locals of each handler. A handler
is a step per statement: `ReceiveCreate`, `Insert`; `ReceiveDisable` (the record
is read before the transaction), `Update`, `ListActive`, `CloseOne` for each
episode, `CloseNoMore`; `CommitWrites`. A commit takes along, and a rollback
undoes, what other handlers have executed since the last one: that is what
sharing a connection means. `Fail` is a statement or a commit that raises,
`Crash` the death of the server. `create_rule` is a coroutine that awaits nothing
after it has the body, so there is one at a time; `disable_rule` runs in the
thread pool.

The replay process is three steps of the same tables: `ReadRule` reads an enabled
rule and the episode there may be, `WriteRow` writes the episode later, whatever
became of the rule since, and `WriteNothing` is an evaluation with nothing to store,
or one that fails. It cannot write while a transaction is open. R12 keeps the
statements of the API out of an evaluation (`MayWrite`); with `"inside"` in `mode`
they come there as well. `mode` also says whether requests overlap and whether
statements fail.

A body is its types: `RuleValidation` says which are `Valid`. A placeholder of a
template has a name and the types all of whose values its conversion and format spec
accept; the names inside format specs are the template's `nested`. `NeverRaises` and
`RaisesInSpecsOnly` are what a rule does in evaluation, rendering and routing for
every set of facts that happens to be known.

### NotificationView

`Engine` beside one request of the page: `List` is the query of the notifications
(`listed`), `LookUp` the SELECT of one episode and what the page puts beside its
latest notification (`shown`). Each is a read of its own, so the engine may commit
and the API may close episodes between any two of them.

### Abstractions

- A timestamp is a number of seconds; `stale` and `stale_since`, always written
  together, are one field.
- A finding replaces a condition's values in `Engine`. In `Facts` a ratio is in
  whole percent, as fine as the seeded thresholds.
- The order in which a trigger's pairs are evaluated is free: the code's order
  is that of a Python set, or of a SELECT without ORDER BY.
- Notifications leave out recipient, body and snapshot.
- Rules in `Engine` have a state, a duration, a cooldown and a selector (all, ids
  or `queue_membership`); their conditions are in `Replay`, the validity of
  their bodies in `RuleValidation`.
- In `RuleValidation` a value is its type; `shape` stands for the field types and
  bounds pydantic checks first.
- In `RulesApi` an episode is a pair that is active or not.
- Two connections that write at once are serialised; a lock that is not obtained
  in time is one of the ways a statement of the API fails (`Fail`).

## 3. What is checked

Every run finishes within a few minutes. Deadlock is not checked: a replay ends,
and the bounds on time, evaluations and runs stop the models.

### Runs that pass

**race** (`Spec` with fairness; 2 workers, 1 pair, times 0..2, 3 evaluations, no
hold, cooldown 1; 607 thousand states). API calls and evaluations interleave
freely. `TypeOK`; `UniqueActive` (the index is what keeps two creators apart:
`CommitFails` happens); `RowsLoad` (stale overwrites leave loadable rows);
`SendOnce`; `NothingOwed`. Three evaluations are enough for two concurrent
creations and a further evaluation of the survivor, or for an opening and two
concurrent reminders or resolutions of it.

**crash** (1 worker, hold 1, cooldown 1, times 0..4, 5 evaluations, crashes, API
inside evaluations, a rule with listed subject ids; 429 thousand states).
`NoticeLedger`, `ReminderSpacing`, `NeverEarly`. Five evaluations cover
pending, open, two reminders and a resolution, with a restart anywhere that goes
back to the start of the clock.

**contract** (`PSpec`: the engine and one request of the notifications page; 1 rule
for the members of a queue, 2 agents that may join and leave it, hold 1, cooldown 1, a
tick of 2, times 0..2, 4 evaluations, files that start at 0 or 2; 129 thousand
states). `KeepsContract` (refinement of `AlertContract`), `DisabledIsQuiet`,
`NoNoticeWhenDisabled`, `ClosedIsFinal`, `TimesOrdered`, `NeverBackward`,
`BeginsSelected`, `LiveStateFits`. Four evaluations are a pending row, its opening, a
reminder and a resolution, the list of the page read before any of them and an episode
looked up after any later one. Two subjects give a trigger
with a second pair to evaluate after the API was served, and one that leaves the
queue while its pair is still to be evaluated. A tick longer than one second
leaves room for several events between ticks. `TimesOrdered` and `NeverBackward`
need sorted files and no crash: in a file that is not sorted across subjects an
event behind the engine clock, but not late for its own subject, is evaluated at
its own time (`ingest/pipeline.py:161`), and notifications do go back. So does the
order of the page's list after a crash, which starts the clock anew: `LiveStateFits`
needs these hypotheses too. `TimesOrdered` is about the times the engine stamps, and the
close of a resolution; a silent close stamps wall time (below).

**replay** (1 agent, 1 queue, 4 rules as seeded with small thresholds, the one
about calls for the members of one queue; each file replayed twice; one of the
agent's rules and one of the queue's may be disabled at any point; 678 thousand
states). Files have three events, of the agent, of the queue or of both in turn,
all combinations of the event kinds that matter and of three spacings; those of
one subject have a fourth line: the first again, the first with an altered
payload, the first under a new id (late), or an invalid one. `StateIsLog`,
`LinesAccounted`, `RerunIsQuiet`, `Honest`, `InStep`, `NothingBeforeDue`,
`LastCheckDecides` (what the latest accepted check says of a violation is all that is
known of it, read off the table and not from the projection). `InStep`
is stated for a tick of one second, where no crossing lies between two ticks.
`RerunIsQuiet` lets a disable close the episodes of its own rule, and no other.
`NothingBeforeDue` compares `next_due_at` with what an evaluation at each later
second would do. The hypotheses of the theorems about replays are evaluated for these
files and rules (`InputsFit`).

**replay_crash** (one rule, the agent files and files with an unusable timestamp or
one that is not in UTC, passes that evaluate and passes that do not, kills anywhere;
715 thousand states). `StateIsLog`: a line lost or applied twice across restarts would show as
a state row that is not the sum of the table. `CaughtUp`: at the end of an
evaluating pass the rules the scan looks after are in step, whatever passes came
before it. Ingestion's transaction is one step in all of these: that SQLite commits it whole,
or not at all, is assumed.

**rules_api** (`AFairSpec`; 3 requests, 2 rule ids, 2 subjects, every kind of
right and wrong body, a seeded rule or none; requests overlap, or statements fail
and the server dies, or requests come inside an evaluation; 832 thousand states). `ApiTypeOK`, `AnsweredIsDurable`,
`QuietAtRest`, `StoredRulesRun`, `LockReleased`, `AtomicAlone`. Three requests are
a create beside two disables of the same rule. Where requests come inside an
evaluation, `AnsweredIsDurable` and `QuietAtRest` say nothing of episodes: the
evaluation may write the row it has in hand after the disable (*zombie*). With overlap *and* failures
`AnsweredIsDurable` does not hold: the rollback of one request discards the insert
of another, which goes on to commit nothing and answer 201.

### Runs that show where code and documentation part

| run | property | what happens |
|---|---|---|
| recovery | `RecoveryResolves` | When an adherence violation ends, its start is erased, so the duration fact is missing and the open episode is frozen, not resolved. Agent `a_19` of the sample data is such a case. |
| starved | `NoThresholdSkipped` | Events closer together than the tick interval leave no room for a tick; a silent subject's threshold is passed without an alert. |
| zombie | `NoReopening` | With the API inside an evaluation that has read an open episode, a disable closes the episode and the evaluation writes it back: the rule is disabled and its episode open again. |
| rewound | `Honest` | A crash loses the clock; ticks are walked again over newer state, and a notification names a time at which its condition did not hold. |
| exactly_once | `ExactlyOnce` | A crash after the commit leaves a recorded notification unsent for good. |
| torn | `DisabledIsClosed` | A request that commits takes along half of another's disable: on disk the rule is disabled and its episodes active, until the other goes on, or for good if the server dies. |

Seen while modelling and not run separately:

- Disabling a rule stamps the API's wall clock into the `closed_at` of its episodes
  (`api/routes_rules.py:42`), where `storage/schema.sql:2` says "event time, never wall
  time". The page's summary of such an episode spans from event time to wall time. The
  close also keeps `stale` on a clear row, which the page goes on to show. The `Episode`
  model rejects such a row; only active rows are loaded, which is what `RowsLoad` is about.
- A reminder committed after the page has listed the notifications and before it reads
  the episode (`api/routes_notifications.py:78` and `:65`) is shown beside the
  notification that was the latest when the list was read: an opening with a later
  reminder's time, which the docstring at lines 37-46 means to rule out. That it is a
  recorded reminder, and that nothing else can come in between, is `LiveStateFits`.
- The validator drops the format specs and conversions of a template
  (`domain/rules.py:262`), with the names nested in specs. `{subject_id:d}` and
  `{subject_id:{unit}}` are accepted, stored, and raise at `routing/renderer.py:17` when
  the rule first notifies, on this and on every later run, although `rules.py:253-256`
  says the check "stops a rule that would KeyError at delivery time" and
  `renderer.py:9-12` that "this never KeyErrors in practice". That a stored rule raises
  over nothing *else* is `StoredRulesRun`; one of the bodies of *rules_api* is such a rule.
- A rule whose only time-derived fact is on the right-hand side of a condition, say
  `sla_target_sec lt {fact_ref: snapshot_age_sec}`, is never scanned
  (`scheduling/scan.py:28`): it comes true between two events and no tick evaluates it.
- A line with a malformed `ts` ends the replay (`cli/replay.py:137`), action `Abort`.
- A fact that is missing is never rendered: only a finding without missing facts
  can notify. The `"unknown"` of `routing/renderer.py:16` is not reached.
- `evaluations_suppressed` also counts the evaluations of a pending episode and is
  not reset by a reminder (`episodes/machine.py:117-122`), so the summary's "held
  true across n further evaluations" since the last notification can be untrue.
- `next_due_at` says that without a cooldown nothing more can happen to an open
  episode; a less-than condition on a duration can end it. For a strict
  comparison it is one instant early. Both are outside of `NothingBeforeDue`.
- A rule whose outcome does not change with time is evaluated on events only; for
  events first ingested with `no_eval` it never is (`cli/replay.py:155`).
- A `queue_membership` selector is accepted for a queue rule and then selects
  every queue.
- An agent that leaves the queues of a rule keeps its active episode going
  (`scheduling/scan.py:52`); `BeginsSelected` is about new ones.
- Of two overlapping disables both store the same `version`; nothing reads it.

### Fairness

`FairSpec` is weakly fair in `Evaluate(w)`, the steps of `evaluate_rule`, of
each worker: straight-line code on one thread that waits for nobody. Nothing is
assumed of events, ticks, files or the API. `NothingOwed` needs a worker that is
not killed (*exactly_once* shows why), so *race* has no crashes.

`AFairSpec` is weakly fair in `Handle(r)`, the steps of a handler that has
received its request: straight-line code on a thread of its own, on a connection
whose statements return or raise. Nothing is assumed of clients, failures or the
replay process.

### Mutants

Each property has a mutant: a definition named in `PROJECT.json` and placed just
before the one it changes the way a plausible bug would (a dropped index, a
missing reset, a rule that is not reloaded, ...). Under it the property fails in
its run.

## 4. What is proved

For any finite or infinite sets of rules, subjects, ids and workers, and for any
bounds. `OneWorker` says there is at most one evaluator; `Serial` that API calls
are served between evaluations; `Uninterrupted` that files are sorted and the
process is not killed. Where none is named, evaluators, API calls and crashes
interleave freely over files in any order.

| theorem | statement |
|---|---|
| `TypeCorrect` | `Spec => []TypeOK` |
| `OneActiveEpisode` | `Spec => []UniqueActive` |
| `ActiveRowsLoad` | `Spec => []RowsLoad` |
| `SentOnce` | `Spec => []SendOnce` |
| `LedgerKept` | `OneWorker => (Spec => []NoticeLedger)` |
| `RemindersSpaced` | `OneWorker => (Spec => []ReminderSpacing)` |
| `AlertsNotEarly` | `OneWorker => (Spec => []NeverEarly)` |
| `DisabledStaysQuiet` | `Serial => (Spec => []DisabledIsQuiet)` |
| `DisabledNotifiesNobody` | `Serial => (Spec => NoNoticeWhenDisabled)` |
| `ClosedStaysClosed` | `Serial /\ OneWorker => (Spec => ClosedIsFinal)` |
| `BegunWhenSelected` | `Serial /\ OneWorker => (Spec => BeginsSelected)` |
| `EngineKeepsContract` | `Serial /\ OneWorker => (Spec => KeepsContract)` |
| `NoticesInOrder` | `Uninterrupted /\ OneWorker => (Spec => NeverBackward)` |
| `LifeInOrder` | `Uninterrupted /\ OneWorker => (Spec => []TimesOrdered)` |
| `PageFits` | `Uninterrupted /\ OneWorker => (PSpec => []LiveStateFits)` |
| `ReplayIsEngine` | `Evaluated /\ (MayCrash \/ Stamped) => (RSpec => Spec)` |
| `ReplayKeepsLedger`, `ReplaySpacesReminders`, `ReplayNeverEarly` | under the same condition, `RSpec => []NoticeLedger`, `[]ReminderSpacing`, `[]NeverEarly` |
| `ReplayKeepsContract` | `Serial /\ Evaluated /\ (MayCrash \/ Stamped) => (RSpec => KeepsContract)` |
| `ReplayLeavesDisabled` | under the condition of `ReplayKeepsContract`, `RSpec => []DisabledIsQuiet` |
| `EveryLineAccounted` | `~MayCrash /\ Stamped => (RSpec => []LinesAccounted)` |
| `ProjectionIsLog` | `RSpec => []StateIsLog` |
| `RerunsAreQuiet` | `Stamped /\ (~MayCrash \/ AfterOrigin) => (RSpec => RerunIsQuiet)` |
| `NoticesAreTrue` | `Evaluated /\ Stamped /\ ~MayCrash /\ InTime => (RSpec => []Honest)` |
| `EpisodesInStep` | under the condition of `NoticesAreTrue`, with `Registered /\ TimedOnTheLeft /\ TickInterval = 1`, `RSpec => []InStep` |
| `LaterPassesCatchUp` | `Stamped /\ InTime /\ TickInterval = 1 /\ FileStarts = {0} /\ (~MayCrash \/ AfterOrigin) => (RSpec => []CaughtUp)` |
| `DueTimesAreRight` | under the condition of `NoticesAreTrue`, with `Parsed /\ Registered /\ Thresholds /\ TickInterval = 1`, `RSpec => []NothingBeforeDue` |
| `ValidRaisesInSpecsOnly` | a body that is `Valid` `RaisesInSpecsOnly`, and `NeverRaises` if its specs fit whenever it may notify |
| `ApiTypeCorrect` | `ASpec => []ApiTypeOK` |
| `StoredRaiseInSpecsOnly` | `ASpec => []StoredRulesRun` |
| `TransactionsAreUnits` | `ASpec => AtomicAlone` |
| `DisabledAreClosed` | `ASpec => []("overlap" \notin mode /\ "inside" \notin mode => DisabledIsClosed)` |
| `AnswersLast` | `ASpec => [](Apart => AnsweredIsDurable)` |
| `AtRestQuiet` | `ASpec => [](Apart => QuietAtRest)` |

`OneWorker` and `Serial` are what the repository sets out to be ("Single-threaded v1"
in its README, R12 in `storage/db.py`), without anything that enforces them. Both
are needed: two evaluators can both read a row before either writes it, and a rule
disabled inside an evaluation comes back to life (*zombie*).

Assumed of the constants: `RulesAssumption` and `BoundsAssumption` (their types;
durations are naturals, as the schema's CHECKs have them), `NoneAssumption` and
`NoneIsNoData` (None is not a time, a transition, an id or a row),
`MissingAssumption` (the MISSING sentinel is not a number), and for the contract
`NoneIsNoAlert`. Of those of
`Replay`: `ReplayAssumption` (one worker; time-sensitive rules are those whose
conditions say so) and `FilesAssumption` (a file has a line, its first line has a
time, a queue's events are snapshots). Of those of `RulesApi`: `ModesAssumption`,
`NoneIsNoRecord` and `BodiesAssumption` (a flag is a flag; the seeded rules are
valid). `OffsetsAssumption` of `Replay`: an event that parses is in UTC, and so is the
first line, from which the clock starts.

`Stamped` says that every line has a timestamp, in UTC: one without ends the run, as
a crash does, so either is enough for `ReplayIsEngine`; the count of lines is about
runs that were not cut short. `Evaluated` leaves out `no_eval` passes, which write
states without a trigger and so take steps `Engine` does not have, and `InOrder`,
which is a restriction on `Engine`'s choice of files where `Replay` is given its
files.

The hypotheses of `ReplayInputs` are about constants, and *replay* evaluates all of
them for its files and rules (`InputsFit` of `MCReplay`), so that they are met
together. `InTime`: a line behind an earlier one repeats an event or is behind its own
subject, so that the pipeline refuses it; every file that is sorted across its
subjects, with its repetitions and late lines, is one. It is needed: in another file
an event is evaluated at its own time while ticks have gone past it
(`ingest/pipeline.py:161`). `~MayCrash`: *rewound* shows `Honest` fail without it.
`TickInterval = 1`: *starved* shows what a longer tick lets pass. `Registered` is
what the validator enforces (`RuleValidation`, `ConditionFits`). `TimedOnTheLeft` is
not enforced by anything: `scheduling/scan.py:28` looks at the left-hand facts, so a
rule with a duration on the right-hand side only is never scanned. Nor is
`Thresholds`: `next_due_at` takes the threshold of any comparison, and says nothing
useful of a duration that must stay *below* a number. `AfterOrigin` is about an
artefact of counting time from 0: a saved progress of 0 stands for none.
`FileStarts = {0}` has every pass begin at the origin or at the saved progress, as
passes over one file do. `Parsed` says what the event models of pydantic do of types
and of the two fields of an adherence check that are used in arithmetic.

`Apart` says that requests do not overlap, or else that no statement fails: each alone
does no harm, and together they do (the remark on *rules_api* above). It also says, with
`ServesR12`, that they are kept out of evaluations, without which *zombie* is what
happens; `DisabledAreClosed` asks for the same.

The arguments. `TypeOK` is inductive; it contains what each program counter
implies about `job`. `UniqueActive` is inductive over `TypeOK`: only `Commit`
makes a row active, under `IndexAllows`, and `CloseSilently` only makes rows
inactive. `RowsLoad` is not inductive: a row is written from `job`, computed
some steps earlier. `LoadInv` adds that the row in a `job` about to commit is
consistent; the pure lemma `AdvanceConsistent` gives that from the
consistency of the row that was read. `SendOnce` is inductive over `TypeOK`: the
keys of what `Commit` puts in an outbox are new to the table, and everything
sent or waiting is in the table.

`NoticeLedger` says what is in the tables, and the next commit comes from locals
read some steps ago. `LedgerInv` adds that the row in flight *continues* the row it
was read from (`Continues`: it opens, reminds or resolves in order, at the times the
rule allows) and that this row has no resolution yet. The pure lemma
`AdvanceContinues` gives it from `advance()`; a silent close of the row in between
(`CloseStory`) changes none of the fields it speaks of. `CommitStory` then says what
a commit adds to the tables, and the other two theorems read their bound off it.
The serial theorems rest on `Serving` (while a rule is evaluated it is enabled) and
`PriorActive` (the row to be replaced is still active). TLC found `LedgerInv` to
hold in the instance of *crash* before it was proved.

`BegunWhenSelected` follows a pair from its trigger to its commit: `SelectedInv` says
of each pair still to be evaluated that its rule is disabled, or it has an active
episode, or its rule selects it now, which is what a serial API, a rule that is
reloaded and a state that does not change within a trigger leave of the list the
trigger started with. The ledger supplies that committing one pair touches no
episode of another.

`EngineKeepsContract` is the refinement of `AlertContract`. It needs three things.
`AdvanceAllowed`, a pure lemma: from one row to the next, `advance()` does what one
action of the contract allows, or nothing the contract sees (`Allowed`).
`ContractInv`: at the time of the commit the row in hand is still `Allowed` from the
row that is *there*, and no other row of the pair is active (`InHand`), so that the
choice of a row in the mapping is no choice (`Current`, `CurrentSeen`). And for the
counts, that the table of notifications is finite and a commit adds one at most
(`IssuedOne`). `DisableKeeps` shows that closing the episodes of a rule, whose number
has no bound, is one withdrawal. Sorted files are not needed, nor the absence of
crashes: a crash takes a worker's locals and leaves what the contract speaks of.

The theorems of `OrderProofs` are about time. `ForwardInv`: a worker that is at
work is at the time its clock shows, no notification is ahead of the clock, and, with
one evaluator, the unique index has nothing to refuse, so that nobody dies and loses
the clock. `NoticesInOrder` reads off it that what is recorded now is not older than
anything recorded before. `LifeInOrder` adds `RowTimes`, the order of the times within
a row, as an invariant of the rows and of the row in hand; a silent close touches none
of the times it speaks of, and a resolved row closes when it is resolved. `PageFits` is
about `PSpec`, whose steps are those of `Engine` and the reads of the page. It rests on
`PageInv`: no two notifications have the same key, of two of an episode the one recorded
later is not the older, and the row of an episode that is resolved, or is about to be,
has lost its mark of staleness. `StoryEnds` reads off the ledger what is then the last
notification of an episode. `ViewInv` says of what the request
has listed that it is recorded, that each episode in it has a last notification, which
is the resolution if that is listed, and of what has been shown that it `Fits`.
`WholeStory` gives the first when the list is read. `LookUpFits` compares the row that
is read later with the list: the notification the row was last written with is either
listed, and is then the last one, or a reminder recorded since.

`ReplayIsEngine` is a refinement with the identity as its mapping: each action of
`Replay` is one of `Engine`'s with the findings fixed by the conditions, or leaves
`Engine`'s variables alone. The invariant it needs, `Reading`, keeps the place
within the file, so that what `Accept` hands to `OnEvent` is an event of the file
and so has the type `Engine` asks for. `EveryLineAccounted` adds to it the types of
the counters and of the log (`Counting`): each outcome of a line adds one to exactly
one of four buckets, and a line to the log for exactly two of them.

`ApiTypeOK` is inductive; it says that the tables hold valid records and that
without an open transaction `view` is `disk`. `ValidRaisesInSpecsOnly` splits a condition
by its operator: `FitsCompares` takes the comparison, for known and missing facts,
`NotifiesKnown` rendering and recipient. `TransactionsAreUnits` needs to know what is
on the connection when a commit comes: `AloneInv` says, for the one request being
served, how far `view` is from `disk` by what the request has yet to do
(`InProgress`: before its first statement they are equal; half-way through a
disable, `view` is `disk` with the rule disabled and the rows not yet listed or
closed still active). `Undisturbed` is what R12 gives: while an evaluation is between its
read and its write no transaction is open and its rule is still enabled, so that the row
it writes is no row of a disabled rule.

Both `AnswersLast` and `AtRestQuiet` rest on `SharedInv`, which holds as long as
`Apart` does. It relates the two copies and the handlers: the connection `Follows` the
disk (no rule is taken away, a disabled rule stays disabled and gets no new episode),
what a handler has executed is on the connection (`Executed`), what a client was told
is on disk (`Told`), and every active episode of a disabled rule on the connection is
`Attended`, that is, some handler is about to list or close it. A handler that rolls
back undoes what others have executed only if there are others.

`ProjectionIsLog` speaks of `StateAfter`, a function defined by recursion over the
log, of which nothing can be proved by induction over data here. The invariant
`Projected` carries along what the induction would have given: that there is exactly
one way to add up the log as it is (`OneSum`), and that the row is its last value.
`SumGrows` takes both from one log to the next by restricting and extending that
one function. A late event is behind an entry of its subject, so that it is not
among the accepted ones and adds nothing.

`RerunsAreQuiet` needs to know that a progress once saved stands for a file that was
read: `Remembered` says that every valid line read in this pass, or any line once
progress was saved, has its id in the table, and that after a complete pass nobody is
in the middle of an evaluation. `NothingTriggers` concludes that no tick is left to
walk and no line is news. `LastTs` is a CHOOSE of a maximum; `LatestOf` shows by
`WFMin` that there is one.

The theorems of `TruthProofs` begin with the clock. `Passing`: the clock is at the
origin or not beyond a line already reached, every line read is behind it, and what is
in the table is the first line of its id. With `InTime`, an event that is accepted is
then not behind the clock (`AcceptedAhead`): whatever in the file is ahead of it was
refused or belongs to a rerun.

`NoticesAreTrue`: `Timely` says that no watermark is ahead of the trigger that is
being served, and that what is about to be notified was found in the state as it is.
At the commit the witness of `SaidThen` is the log as it stands (`SaidNow`); later
entries of the subject are not older than the notification (`SaidStays`), so that
the witness goes on to be one.

`EpisodesInStep`: each selected pair is still to be evaluated, or being evaluated, or
agrees with its conditions at the time of the clock (`Served`). A pending episode
agrees with conditions that hold, an open one with any that are not refuted, none with
conditions that do not hold. `RowAgrees` says the same of the row that is about to be
committed, and that it takes the place of the only active row of its pair. An
evaluation serves its pair (`StepServed`, by `AdvanceAgrees` of `advance()`);
a trigger asks for an evaluation of every pair it may have put out of step
(`TriggerServes`): a tick for the pairs with an episode and for the time-sensitive
ones, and no other finding changes with the clock (`Timeless`); an event, which does
not move the clock when the ticks are a second apart, for the pairs of its subject.
`LaterPassesCatchUp` has `Served` for time-sensitive rules only, and only from the
first tick of an evaluating pass on (`OnTime`): that tick serves them whatever went
before. A pass that was killed starts again from the origin, or, when one before it
was complete, from where nothing happens any more.

`DueTimesAreRight` adds what time can do. `FindingGrows`: for rules that compare
durations with numbers they grow past, conditions that hold go on to hold, and
what is unknown stays unknown or comes true, so that a pending or open episode that
agrees now does so until an event, and only its hold or its cooldown can end
(`RowsLoad`, from `Engine`, says that their start is there to count from).
`NotBeforeCrossing`: without an episode the first literal threshold on a duration
that has a start is not reached before the due time, and with no such threshold the
conditions never come true. `RowsTyped` gives the types of the fields that durations
are counted from.

TLC found `Served` and `RowAgrees` to hold in the instance of *replay*, and what
`OnTime` says of evaluating passes in that of *replay_crash* with its well-stamped
files, before they were proved.

Only model-checked: liveness (`NothingOwed`, `LockReleased`), which this prover does
not reach; of `CaughtUp`, files with a line that has no timestamp, or none in UTC
(*replay_crash*), where each pass ends at that line; `LastCheckDecides`; and, as runs that must fail, the claims of the
table above.

## 5. Plan

In order of what matters to the system; all of it is done.

1. `Episodes`, `Engine`, `EngineProperties`, with *race* and *crash*.
2. `AlertContract` and *contract*.
3. `Facts`, `Subjects`, `Replay`, with *replay*, *replay_crash* and the
   divergences.
4. Proofs of type correctness, uniqueness, loadability, sending, the ledger,
   spacing, hold, and of what disabling a rule guarantees.
5. `queue_membership` selectors and agents that change queues; passes with
   `no_eval`, followed by evaluating ones.
6. `DueTime`: nothing a tick would find changes before the due time (what a heap
   scheduler would rely on).
7. `RulesApi`: requests in a thread pool over one shared connection.
8. `NotificationView`: which notification of an episode the page shows the live
   episode with, read by read beside the running engine.
9. `RuleValidation`: what a rule that validates can still raise over.
10. Theorems: the API's transactions; `LinesAccounted`; `NeverBackward` and
    `TimesOrdered` for a sorted file; the refinement of `AlertContract`;
    `BeginsSelected`.
11. A disable between the ticks and evaluations of a replay with real conditions
    (`Disabling`).
12. Theorems about replays: `StateIsLog`, `RerunIsQuiet`, `Honest`, `InStep`,
    `CaughtUp`, `NothingBeforeDue`; about the page, `LiveStateFits`; about overlapping
    requests, `AnsweredIsDurable` and `QuietAtRest`.

## 6. Not modelled

Grouping, filters and HTML of the pages, the stats route and the two GET routes of
the rules API (they only read; within an open transaction of another request they,
and the notifications page, show uncommitted rows); configuration; console formatting; the additive migration
of old databases; which fields make an event invalid (a line is valid or not); the
sleep between steps. These keep no state, or state no property here depends on. The
`HeapScheduler` that settings and comments name is not in the code. Components and
the reason for each are in `PROJECT.json`, with the hazards and what covers them.
