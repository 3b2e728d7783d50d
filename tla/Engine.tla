------------------------------- MODULE Engine -------------------------------
(***************************************************************************)
(* The notification engine (app/engine/engine.py) over its database: the   *)
(* rules, episodes and notifications tables with their unique indexes.     *)
(*                                                                         *)
(* A worker is one process running the replay loop.  It owns a clock, a    *)
(* list of (rule, subject) pairs still to evaluate for the trigger it is   *)
(* serving, and the local variables of evaluate_rule.  The rules API       *)
(* (app/api/routes_rules.py) is another process on the same database.      *)
(* Each read and each transaction is one action, so the API, a second      *)
(* worker or a crash may come between any two of them.                     *)
(*                                                                         *)
(* What a condition reads is left to the evaluation modules: here an       *)
(* evaluation may have any finding.                                        *)
(***************************************************************************)
EXTENDS Episodes, FiniteSets

CONSTANTS
  Rules, Subjects, EpisodeIds, Workers,
  SubjectType,      \* of each rule and each subject: a queue or an agent
  ForDuration,      \* [Rules -> Nat]  for_duration_sec
  Cooldown,         \* [Rules -> Nat]  cooldown_sec
  TimeSensitive,    \* the rules with a condition on a time-derived fact
  Selector,         \* which subjects each rule is for
  QueueIds,         \* the queues an agent can be a member of
  TickInterval,     \* tick_interval_sec
  Wall,             \* what the API's SystemClock reads
  FileStarts,       \* the first timestamps of the files there are to replay
  InOrder,          \* is the event file sorted by ts across its subjects?
  Serial,           \* does the API stay out of a running evaluation (R12)?
  MayCrash,
  MaxTime, MaxEvaluations    \* bounds of the model

Pairs == Rules \X Subjects

Notice == [episode : EpisodeIds, pair : Pairs, transition : Transitions,
           seq : Nat, at : Time]

(* A rule is for all subjects of its type, for those it lists, or for the  *)
(* agents that are members of some queues.                                 *)
Selectors == [kind : {"all"}] \cup [kind : {"ids"}, ids : SUBSET Subjects]
             \cup [kind : {"queue_membership"}, queue_ids : SUBSET QueueIds]

ASSUME RulesAssumption ==
  /\ ForDuration \in [Rules -> Nat]
  /\ Cooldown \in [Rules -> Nat]
  /\ TimeSensitive \subseteq Rules
  /\ SubjectType \in [Rules \cup Subjects -> {"queue", "agent"}]
  /\ Selector \in [Rules -> Selectors]

ASSUME BoundsAssumption ==
  /\ TickInterval \in Nat \ {0}
  /\ Wall \in Nat
  /\ FileStarts \subseteq Nat
  /\ MaxTime \in Nat
  /\ MaxEvaluations \in Nat
  /\ {InOrder, Serial, MayCrash} \subseteq BOOLEAN

ASSUME NoneIsNoData ==
  /\ None \notin EpisodeIds
  /\ None \notin Episode(Pairs)

VARIABLES
  rules,            \* [Rules -> {"absent", "enabled", "disabled"}]
  watermark,        \* last_event_ts of each subject's state row, or no row
  queues,           \* queue_ids of an agent's state row; none for a queue
  episodes,         \* the episodes table: id -> row, or None
  notifications,    \* the notifications table
  evaluations,      \* counters evaluations_event + evaluations_due
  sent,             \* what the channels have been given
  ticked,           \* the replay_watermark row; 0, the origin, without one
  clock,            \* each worker's ManualClock
  now, todo,        \* the trigger being served: its time, pairs left
  pc, job,          \* evaluate_rule: where it is, and its locals
  outbox            \* its pending_sends

db == <<rules, watermark, queues, episodes, notifications, evaluations, ticked>>
vars == <<rules, watermark, queues, episodes, notifications, evaluations, ticked, sent,
          clock, now, todo, pc, job, outbox>>

RuleStates == {"absent", "enabled", "disabled"}

Job == [pair : Opt(Pairs), prior : Opt(EpisodeIds),
        row : Opt(Episode(Pairs)), emit : Opt(Transitions)]

NoJob == [pair |-> None, prior |-> None, row |-> None, emit |-> None]

\* Some rules may have been seeded (app/cli/seed.py); nothing else is there.
Init ==
  /\ rules \in [Rules -> RuleStates]
  /\ watermark = [s \in Subjects |-> None]
  /\ queues = [s \in Subjects |-> {}]
  /\ episodes = [i \in EpisodeIds |-> None]
  /\ notifications = {}
  /\ evaluations = 0
  /\ ticked = 0
  /\ sent = {}
  /\ clock = [w \in Workers |-> 0]
  /\ now = [w \in Workers |-> 0]
  /\ todo = [w \in Workers |-> {}]
  /\ pc = [w \in Workers |-> "ready"]
  /\ job = [w \in Workers |-> NoJob]
  /\ outbox = [w \in Workers |-> {}]

-----------------------------------------------------------------------------
(* Queries.                                                                *)

RuleOf(p) == [for_duration |-> ForDuration[p[1]], cooldown |-> Cooldown[p[1]]]

IsActive(row) == row # None /\ row.state \in ActiveStates
ActiveOf(p) == {i \in EpisodeIds : IsActive(episodes[i]) /\ episodes[i].pair = p}

(* get_active(): some pending or open row of the pair, if there is one.    *)
GetActive(p) == IF ActiveOf(p) = {} THEN {None} ELSE ActiveOf(p)

Enabled(r) == rules[r] = "enabled"
SameType(r, s) == SubjectType[r] = SubjectType[s]
Known(r) == {s \in Subjects : SameType(r, s) /\ watermark[s] # None}

(* resolve_selector_subject_ids(): an id list is taken as it stands, and   *)
(* anything but an id list is every queue to a rule about queues.          *)
Admits(r, memberships) ==
  \/ SubjectType[r] = "queue"
  \/ Selector[r].kind = "all"
  \/ Selector[r].queue_ids \cap memberships # {}

Resolve(r) ==
  IF Selector[r].kind = "ids" THEN Selector[r].ids
  ELSE {s \in Known(r) : Admits(r, queues[s])}

(* on_event(): the enabled rules of the subject's type whose selector      *)
(* includes it; its state row, with the memberships just reported, is      *)
(* there by then.                                                          *)
Matched(s, memberships) ==
  {p \in Pairs :
     /\ p[2] = s
     /\ Enabled(p[1])
     /\ SameType(p[1], s)
     /\ IF Selector[p[1]].kind = "ids" THEN s \in Selector[p[1]].ids
                                      ELSE Admits(p[1], memberships)}

\* Mutants of Due: the scan looks at active episodes only; it does not ask
\* the selector.
DueActive == {p \in Pairs : ActiveOf(p) # {}}

DueUnselected == {p \in Pairs : \/ ActiveOf(p) # {}
                                \/ /\ p[1] \in TimeSensitive
                                   /\ Enabled(p[1])
                                   /\ p[2] \in Known(p[1])}

(* ScanScheduler.due(): every pair with an active episode, and every pair  *)
(* an enabled time-sensitive rule selects.                                 *)
Due == {p \in Pairs : \/ ActiveOf(p) # {}
                      \/ /\ p[1] \in TimeSensitive
                         /\ Enabled(p[1])
                         /\ p[2] \in Resolve(p[1])}

-----------------------------------------------------------------------------
(* Triggers: the replay loop, when no evaluation is left from the last.    *)

Idle(w) == pc[w] = "ready" /\ todo[w] = {}
HasBudget == evaluations < MaxEvaluations

Trigger(w, t, pairs) ==
  /\ Idle(w) /\ HasBudget
  /\ now' = [now EXCEPT ![w] = t]
  /\ todo' = [todo EXCEPT ![w] = pairs]

\* Mutant of Later: a run starts at its file's first timestamp.
LaterOrNot(t, w) == t

Later(t, w) == IF t >= clock[w] THEN t ELSE clock[w]

(* An accepted event: its projection commits, then on_event() runs with    *)
(* now = the event's ts.  Ticks have been walked up to less than one       *)
(* interval before it; an event behind the clock leaves the clock alone.   *)
(* Losing the process between the commit and on_event() is the same as     *)
(* losing it just after: either way the list of pairs is gone.             *)
OnEvent(w, s, ts, memberships) ==
  /\ watermark[s] # None => ts >= watermark[s]
  /\ InOrder => ts >= clock[w]
  /\ ts < clock[w] + TickInterval
  /\ SubjectType[s] = "queue" => memberships = {}
  /\ Trigger(w, ts, Matched(s, memberships))
  /\ watermark' = [watermark EXCEPT ![s] = ts]
  /\ queues' = [queues EXCEPT ![s] = memberships]
  /\ clock' = [clock EXCEPT ![w] = Later(ts, w)]
  /\ UNCHANGED <<rules, episodes, notifications, evaluations, ticked, sent, pc, job, outbox>>

(* A line the engine never hears of (a duplicate, a late or an invalid     *)
(* event) still moves the clock when its ts is ahead of it.                *)
OnSkip(w, ts) ==
  /\ Idle(w)
  /\ ts < clock[w] + TickInterval
  /\ clock' = [clock EXCEPT ![w] = Later(ts, w)]
  /\ UNCHANGED <<db, sent, now, todo, pc, job, outbox>>

(* One step of step_to(): the clock advances, then on_tick().              *)
OnTick(w) ==
  /\ clock[w] + TickInterval <= MaxTime
  /\ clock' = [clock EXCEPT ![w] = @ + TickInterval]
  /\ Trigger(w, clock[w] + TickInterval, Due)
  /\ UNCHANGED <<db, sent, pc, job, outbox>>

(* The file is done: its progress is saved, and the next run starts from   *)
(* there or from the first timestamp of a later file, without ticks for    *)
(* what lies between.                                                      *)
EndRun(w, first) ==
  /\ Idle(w)
  /\ ticked' = clock[w]
  /\ clock' = [clock EXCEPT ![w] = Later(first, w)]
  /\ UNCHANGED <<rules, watermark, queues, episodes, notifications, evaluations, sent,
                 now, todo, pc, job, outbox>>

-----------------------------------------------------------------------------
(* evaluate_rule().                                                        *)

Goto(w, step) == pc' = [pc EXCEPT ![w] = step]
Finish(w) == job' = [job EXCEPT ![w] = NoJob]

\* Mutant of Runs: the rule is not reloaded.
RunsAnyway(p) == p[2] \in Known(p[1])

(* Count the evaluation, then reload the rule and the subject: a rule that *)
(* is gone or disabled, or a subject without state of the rule's type,     *)
(* ends it here.                                                           *)
Runs(p) == Enabled(p[1]) /\ p[2] \in Known(p[1])

Begin(w, p) ==
  /\ pc[w] = "ready"
  /\ p \in todo[w]
  /\ todo' = [todo EXCEPT ![w] = @ \ {p}]
  /\ evaluations' = evaluations + 1
  /\ IF Runs(p) THEN /\ Goto(w, "decide")
                     /\ job' = [job EXCEPT ![w].pair = p]
                ELSE UNCHANGED <<pc, job>>
  /\ UNCHANGED <<rules, watermark, queues, episodes, notifications, ticked, sent, clock, now, outbox>>

(* Read the active episode and advance it by whatever the conditions say.  *)
Row(i) == IF i = None THEN None ELSE episodes[i]

Decide(w, finding) ==
  /\ pc[w] = "decide"
  /\ \E prior \in GetActive(job[w].pair) :
       LET p == job[w].pair
           next == Advance(Row(prior), p, finding, now[w], RuleOf(p))
       IN  job' = [job EXCEPT ![w] = [pair |-> p, prior |-> prior,
                                      row |-> next.row, emit |-> next.emit]]
  /\ Goto(w, "commit")
  /\ UNCHANGED <<db, sent, clock, now, todo, outbox>>

(* A clear placeholder that replaces nothing is not stored.                *)
Discard(w) ==
  /\ pc[w] = "commit"
  /\ job[w].prior = None /\ job[w].row.state = "clear"
  /\ Goto(w, "ready") /\ Finish(w)
  /\ UNCHANGED <<db, sent, clock, now, todo, outbox>>

(* Where the row goes: over the one that was read, or under a new uuid.    *)
Target(w) ==
  IF job[w].prior # None THEN {job[w].prior}
  ELSE {i \in EpisodeIds : job[w].row.state # "clear" /\ episodes[i] = None}

\* Mutant of IndexAllows: the index is gone.
IndexAllowsAny(i, row) == TRUE

(* ux_episode_open: one pending or open row per (rule, subject).           *)
IndexAllows(i, row) == IsActive(row) => ActiveOf(row.pair) \subseteq {i}

\* Mutant of Notify: notify_seq is left at its default.
NotifyUnnumbered(w, i) ==
  IF job[w].emit = None THEN {}
  ELSE {[episode |-> i, pair |-> job[w].pair, transition |-> job[w].emit,
         seq |-> 0, at |-> now[w]]}

Notify(w, i) ==
  IF job[w].emit = None THEN {}
  ELSE {[episode |-> i, pair |-> job[w].pair, transition |-> job[w].emit,
         seq |-> IF job[w].emit = "reminder" THEN job[w].row.notify_seq ELSE 0,
         at |-> now[w]]}

(* ux_notif_idem, and insert_if_absent() under it.                         *)
Key(n) == <<n.episode, n.transition, n.seq>>
\* Mutant of Inserted: whatever was to be inserted counts as inserted.
InsertedOrNot(ns) == ns

Inserted(ns) == {n \in ns : \A m \in notifications : Key(m) # Key(n)}

(* The transaction: episode row and notification together; what insert     *)
(* really added is sent after it.                                          *)
Commit(w) ==
  /\ pc[w] = "commit"
  /\ \E i \in Target(w) :
       /\ IndexAllows(i, job[w].row)
       /\ episodes' = [episodes EXCEPT ![i] = job[w].row]
       /\ notifications' = notifications \cup Inserted(Notify(w, i))
       /\ outbox' = [outbox EXCEPT ![w] = Inserted(Notify(w, i))]
  /\ Goto(w, IF outbox'[w] = {} THEN "ready" ELSE "send")
  /\ Finish(w)
  /\ UNCHANGED <<rules, watermark, queues, evaluations, ticked, sent, clock, now, todo>>

\* Mutant of Send: a channel loses what it is given.
SendAndLose(w) ==
  /\ pc[w] = "send"
  /\ outbox' = [outbox EXCEPT ![w] = {}]
  /\ Goto(w, "ready")
  /\ UNCHANGED <<db, sent, clock, now, todo, job>>

Send(w) ==
  /\ pc[w] = "send"
  /\ sent' = sent \cup outbox[w]
  /\ outbox' = [outbox EXCEPT ![w] = {}]
  /\ Goto(w, "ready")
  /\ UNCHANGED <<db, clock, now, todo, job>>

(* The process is gone with all its locals; a new one starts at its file's *)
(* first timestamp or where the last finished replay stopped, which may be *)
(* long before the clock of the one that died.                             *)
Die(w) ==
  /\ \E first \in FileStarts :
       clock' = [clock EXCEPT ![w] = IF first >= ticked THEN first ELSE ticked]
  /\ now' = [now EXCEPT ![w] = 0]
  /\ todo' = [todo EXCEPT ![w] = {}]
  /\ outbox' = [outbox EXCEPT ![w] = {}]
  /\ Goto(w, "ready") /\ Finish(w)
  /\ UNCHANGED <<db, sent>>

(* The index refuses the row: rollback, and the IntegrityError ends main().*)
CommitFails(w) ==
  /\ pc[w] = "commit"
  /\ \E i \in Target(w) : ~IndexAllows(i, job[w].row)
  /\ Die(w)

Crash(w) == MayCrash /\ Die(w)

-----------------------------------------------------------------------------
(* The rules API.                                                          *)

(* R12 keeps an evaluation whole: the API is served between two of them.   *)
ApiMayRun == Serial => \A w \in Workers : pc[w] = "ready"

CreateRule(r) ==
  /\ ApiMayRun
  /\ rules[r] = "absent"
  /\ \E status \in {"enabled", "disabled"} : rules' = [rules EXCEPT ![r] = status]
  /\ UNCHANGED <<watermark, queues, episodes, notifications, evaluations, ticked, sent,
                 clock, now, todo, pc, job, outbox>>

\* Mutants of CloseSilently: only the rule's own row is updated; every
\* episode of the rule is closed, history included.
CloseNothing(row, r) == row

CloseAll(row, r) ==
  IF row # None /\ row.pair[1] = r
  THEN [row EXCEPT !.state = "clear", !.closed_at = Wall]
  ELSE row

(* _close_active_episodes_silently(): no notification, every other field   *)
(* of the row as it was.                                                   *)
CloseSilently(row, r) ==
  IF IsActive(row) /\ row.pair[1] = r
  THEN [row EXCEPT !.state = "clear", !.closed_at = Wall]
  ELSE row

DisableRule(r) ==
  /\ ApiMayRun
  /\ rules[r] # "absent"
  /\ rules' = [rules EXCEPT ![r] = "disabled"]
  /\ episodes' = [i \in EpisodeIds |-> CloseSilently(episodes[i], r)]
  /\ UNCHANGED <<watermark, queues, notifications, evaluations, ticked, sent,
                 clock, now, todo, pc, job, outbox>>

-----------------------------------------------------------------------------
Evaluate(w) ==
  \/ \E p \in Pairs : Begin(w, p)
  \/ \E finding \in Findings : Decide(w, finding)
  \/ Discard(w)
  \/ Commit(w)
  \/ CommitFails(w)
  \/ Send(w)

Loop(w) ==
  \/ \E s \in Subjects, ts \in 0..MaxTime, memberships \in SUBSET QueueIds :
       OnEvent(w, s, ts, memberships)
  \/ \E ts \in 0..MaxTime : OnSkip(w, ts)
  \/ OnTick(w)
  \/ \E first \in FileStarts : EndRun(w, first)

Api == \E r \in Rules : CreateRule(r) \/ DisableRule(r)

Next == Api \/ \E w \in Workers : Evaluate(w) \/ Loop(w) \/ Crash(w)

Spec == Init /\ [][Next]_vars

(* evaluate_rule is straight-line code on one thread: once begun it ends.  *)
FairSpec == Spec /\ \A w \in Workers : WF_vars(Evaluate(w))

=============================================================================
