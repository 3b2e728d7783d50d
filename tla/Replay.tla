------------------------------- MODULE Replay -------------------------------
(***************************************************************************)
(* The replay of an event file (app/cli/replay.py) through the ingest      *)
(* gauntlet (app/ingest/pipeline.py) into the engine, with the projection  *)
(* and the conditions of the rules as they are.  It composes Engine, whose *)
(* evaluations now find what the facts say, with Subjects and Facts: each  *)
(* step is a step of Engine and what ingestion does beside it.             *)
(***************************************************************************)
EXTENDS Engine, DueTime, Subjects, Sequences

CONSTANTS
  Proc,             \* the one process: Workers = {Proc}
  Files,            \* the event files, each a sequence of events
  Conditions,       \* [Rules -> sets of conditions]
  Passes,           \* may a pass evaluate, may it be one with no_eval?
  Unwanted,         \* the rules that may be disabled while replays run
  MaxRuns           \* bound: how often the file is replayed

ASSUME ReplayAssumption ==
  /\ Workers = {Proc}
  /\ TimeSensitive = {r \in Rules : IsTimeSensitive(Conditions[r])}
  /\ Passes \in (SUBSET BOOLEAN) \ {{}}
  /\ Unwanted \subseteq Rules
  /\ MaxRuns \in Nat

\* Files are not empty; agents' events report memberships, queues' are snapshots.
ASSUME FilesAssumption ==
  \A f \in Files :
    /\ f \in Seq({f[i] : i \in DOMAIN f}) /\ f # <<>>
    /\ f[1].ts \in FileStarts
    /\ \A i \in DOMAIN f :
         /\ f[i].ts \in Opt(0..MaxTime)
         /\ f[i].subject \in Subjects
         /\ SubjectType[f[i].subject] = "queue" <=> f[i].type = "queue_snapshot"
         /\ Memberships(f[i]) \subseteq QueueIds

\* No clock starts at a time that is not UTC, and no such event parses.
ASSUME OffsetsAssumption ==
  \A f \in Files :
    /\ f[1].utc
    /\ \A i \in DOMAIN f : f[i].utc \in BOOLEAN /\ (f[i].valid => f[i].utc)

VARIABLES
  lines,            \* the file
  evaluating,       \* does this run evaluate rules (FALSE with no_eval)?
  pos,              \* how many of its lines this run has read
  log,              \* the events table, in the order of insertion
  counters,         \* the ingest counters
  states,           \* queue_state and agent_state, by subject
  runs              \* runs ended, normally or not

ingest == <<lines, evaluating, pos, log, counters, states, runs>>
allvars == <<vars, ingest>>

CounterNames == {"events_accepted", "duplicates", "duplicate_payload_mismatch",
                 "late_drops", "validation_failures", "state_disagreement"}

RInit ==
  /\ Init
  /\ rules = [r \in Rules |-> "enabled"]
  /\ lines \in Files
  /\ evaluating \in Passes
  /\ pos = 0
  /\ log = <<>>
  /\ counters = [c \in CounterNames |-> 0]
  /\ states = [s \in Subjects |-> None]
  /\ runs = 0

-----------------------------------------------------------------------------
(* Reading a line.  ts is parsed before anything else, then step_to()      *)
(* walks the ticks up to it, and clock.set() takes it over unless it is     *)
(* behind the clock.  A ts with an offset other than UTC's cannot be set.   *)

event == lines[pos + 1]
HasLine == Idle(Proc) /\ runs < MaxRuns /\ pos < Len(lines)
HasTs == HasLine /\ event.ts # None
Near == HasTs /\ event.ts < clock[Proc] + TickInterval
Settable == event.utc \/ event.ts < clock[Proc]
Reached == Near /\ Settable

Stored(id) == {m \in 1..Len(log) : log[m].id = id}
Parses == event.valid
\* Mutant of IsDuplicate: no dedup.
IsDuplicateNever == FALSE
IsDuplicate == Stored(event.id) # {}
Mismatch == \E m \in Stored(event.id) : log[m] # event
IsLate == watermark[event.subject] # None /\ event.ts < watermark[event.subject]

Count(names) ==
  counters' = [c \in CounterNames |-> counters[c] + IF c \in names THEN 1 ELSE 0]

(* put(): the row of a subject is inserted or replaced as a whole.          *)
Put(s, row) == states' = [states EXCEPT ![s] = row]

ReadOn == pos' = pos + 1 /\ UNCHANGED <<lines, evaluating, runs>>

(* With no_eval the clock walks as ever, but on_tick() is not called.      *)
SkipTick ==
  /\ clock[Proc] + TickInterval <= MaxTime
  /\ clock' = [clock EXCEPT ![Proc] = @ + TickInterval]
  /\ UNCHANGED <<db, sent, now, todo, pc, job, outbox>>

Walk ==
  /\ HasTs /\ ~Near
  /\ IF evaluating THEN OnTick(Proc) ELSE SkipTick
  /\ UNCHANGED ingest

Invalid ==
  /\ Reached /\ ~Parses
  /\ OnSkip(Proc, event.ts)
  /\ Count({"validation_failures"})
  /\ ReadOn /\ UNCHANGED <<log, states>>

\* Dedup comes before the watermark (R3).
Duplicate ==
  /\ Reached /\ Parses /\ IsDuplicate
  /\ OnSkip(Proc, event.ts)
  /\ Count({"duplicates"} \cup IF Mismatch THEN {"duplicate_payload_mismatch"} ELSE {})
  /\ ReadOn /\ UNCHANGED <<log, states>>

\* Mutants of Late: projected although late; dropped without a row.
LateProjected ==
  /\ Reached /\ Parses /\ ~IsDuplicate /\ IsLate
  /\ OnSkip(Proc, event.ts)
  /\ Count({"late_drops"})
  /\ log' = Append(log, event)
  /\ Put(event.subject, Apply(states[event.subject], event))
  /\ ReadOn

LateUnlogged ==
  /\ Reached /\ Parses /\ ~IsDuplicate /\ IsLate
  /\ OnSkip(Proc, event.ts)
  /\ Count({"late_drops"})
  /\ ReadOn /\ UNCHANGED <<log, states>>

\* Logged (R5), not projected.
Late ==
  /\ Reached /\ Parses /\ ~IsDuplicate /\ IsLate
  /\ OnSkip(Proc, event.ts)
  /\ Count({"late_drops"})
  /\ log' = Append(log, event)
  /\ ReadOn /\ UNCHANGED states

(* With no_eval there is no on_change to call: the projection commits, and *)
(* no evaluation of this event will ever be asked for again.               *)
Project ==
  /\ watermark' = [watermark EXCEPT ![event.subject] = event.ts]
  /\ queues' = [queues EXCEPT ![event.subject] = Memberships(event)]
  /\ clock' = [clock EXCEPT ![Proc] = Later(event.ts, Proc)]
  /\ UNCHANGED <<rules, episodes, notifications, evaluations, ticked, sent,
                 now, todo, pc, job, outbox>>

Accept ==
  /\ Reached /\ Parses /\ ~IsDuplicate /\ ~IsLate
  /\ IF evaluating THEN OnEvent(Proc, event.subject, event.ts, Memberships(event))
                   ELSE Project
  /\ Count({"events_accepted"} \cup IF StateDisagreement(states[event.subject], event)
                                    THEN {"state_disagreement"} ELSE {})
  /\ log' = Append(log, event)
  /\ Put(event.subject, Apply(states[event.subject], event))
  /\ ReadOn

-----------------------------------------------------------------------------
FactsAt(s, t) ==
  IF SubjectType[s] = "agent" THEN AgentFacts(states[s], t)
  ELSE QueueFacts(states[s], watermark[s], t)

\* Mutant of FindingAt: a missing fact refutes its condition.
FindingAtClosed(p, t) ==
  IF Finding(Conditions[p[1]], FactsAt(p[2], t)) = "true" THEN "true" ELSE "false"

FindingAt(p, t) == Finding(Conditions[p[1]], FactsAt(p[2], t))

EvaluateRule ==
  /\ \/ \E p \in Pairs : Begin(Proc, p)
     \/ pc[Proc] = "decide" /\ Decide(Proc, FindingAt(job[Proc].pair, now[Proc]))
     \/ Discard(Proc)
     \/ Commit(Proc)
     \/ Send(Proc)
  /\ UNCHANGED ingest

\* The same file again, from its first line.
Restart ==
  /\ pos' = 0 /\ runs' = runs + 1
  /\ evaluating' \in Passes
  /\ UNCHANGED <<lines, log, counters, states>>

\* Mutant of Save: a pass with no_eval saves its progress as well.
SaveAlways == EndRun(Proc, lines[1].ts)

(* Only an evaluating pass saves how far it came; after another one the    *)
(* next starts where it would have started anyway.                         *)
Save == IF evaluating THEN EndRun(Proc, lines[1].ts) ELSE Die(Proc)

Finished == runs < MaxRuns /\ pos = Len(lines) /\ Idle(Proc) /\ Save /\ Restart

\* A line whose ts is not there or not a timestamp raises out of the loop at
\* once, one whose offset is not UTC's after the ticks before it.
Abort ==
  /\ HasLine
  /\ event.ts = None \/ (Near /\ ~Settable)
  /\ Die(Proc) /\ Restart

Killed == runs < MaxRuns /\ Crash(Proc) /\ Restart

(* The API, at work beside the replay, between any two of its evaluations. *)
Disabling == \E r \in Unwanted : DisableRule(r) /\ UNCHANGED ingest

RNext ==
  \/ Walk \/ Invalid \/ Duplicate \/ Late \/ Accept
  \/ EvaluateRule
  \/ Finished \/ Abort \/ Killed
  \/ Disabling

RSpec == RInit /\ [][RNext]_allvars

-----------------------------------------------------------------------------
(* What the state of a subject was, read off the events table.             *)

\* The accepted entries of s: late ones lie behind an earlier entry.
AcceptedAt(s) ==
  {i \in 1..Len(log) :
     /\ log[i].subject = s
     /\ \A j \in 1..(i - 1) : log[j].subject = s => log[j].ts <= log[i].ts}

StateAfter(s) ==
  LET f[i \in 0..Len(log)] ==
        IF i = 0 THEN None
        ELSE IF i \in AcceptedAt(s) THEN Apply(f[i - 1], log[i]) ELSE f[i - 1]
  IN  f

\* Each subject's state row and watermark are what its accepted events in
\* the table add up to, so that the projection loses no event and repeats
\* none (R4), whatever was re-read, refused or interrupted.
StateIsLog ==
  \A s \in Subjects :
    /\ states[s] = StateAfter(s)[Len(log)]
    /\ IF AcceptedAt(s) = {} THEN watermark[s] = None /\ queues[s] = {}
       ELSE LET last == CHOOSE i \in AcceptedAt(s) : \A j \in AcceptedAt(s) : j <= i
            IN  watermark[s] = log[last].ts /\ queues[s] = Memberships(log[last])

\* The latest accepted check decides what is known of an agent's violation,
\* whatever came before and after it: a duration runs from the start that this
\* check gave, and without one there is none, never that of an older violation.
LastCheckDecides ==
  \A s \in Subjects :
    LET checks == {i \in AcceptedAt(s) : log[i].type = "adherence_check"}
        facts == AgentFacts(states[s], clock[Proc])
    IN  \A i \in checks : (\A j \in checks : j <= i) =>
          /\ facts.in_adherence_violation = log[i].in_violation
          /\ facts.adherence_violation_duration_sec =
               IF log[i].in_violation THEN Since(log[i].violation_started_at, clock[Proc])
               ELSE Missing

\* Every line read is in exactly one of the four buckets the counter table
\* reports, and the table has a row for each event that was accepted or
\* late, over any number of complete runs.
LinesAccounted ==
  /\ counters["events_accepted"] + counters["late_drops"] = Len(log)
  /\ counters["events_accepted"] + counters["late_drops"] + counters["duplicates"]
       + counters["validation_failures"] = runs * Len(lines) + pos

\* Once a run has gone through the file, replaying it changes no episode and
\* adds no notification: the saved watermark keeps the ticks from being
\* walked again, dedup keeps the events from being evaluated again.  Whoever
\* disables a rule meanwhile closes the episodes of that rule and no more.
LastTs == LET ts == {lines[i].ts : i \in 1..Len(lines)}
          IN  CHOOSE t \in ts : \A u \in ts : u <= t

RerunIsQuiet ==
  [][runs > 0 /\ ticked >= LastTs
       => /\ UNCHANGED <<notifications, states>>
          /\ \A i \in EpisodeIds :
               episodes'[i] # episodes[i] =>
                 episodes[i] # None /\ rules'[episodes[i].pair[1]] = "disabled"]_allvars

\* What a notification says was so when it says: at its event_time, with the
\* subject as its events up to then had left it, the conditions held (opened,
\* reminder), or were refuted with every fact known (resolved).
SaidThen(n) ==
  LET s == n.pair[2]
      then(k) == {i \in AcceptedAt(s) : i <= k}
      last(k) == CHOOSE i \in then(k) : \A j \in then(k) : j <= i
      facts(k) == IF SubjectType[s] = "agent" THEN AgentFacts(StateAfter(s)[k], n.at)
                  ELSE QueueFacts(StateAfter(s)[k], log[last(k)].ts, n.at)
  IN  \E k \in 1..Len(log) :
        /\ then(k) # {}
        /\ \A i \in AcceptedAt(s) : IF i <= k THEN log[i].ts <= n.at
                                              ELSE log[i].ts >= n.at
        /\ Finding(Conditions[n.pair[1]], facts(k)) =
             IF n.transition = "resolved" THEN "false" ELSE "true"

Honest == \A n \in notifications : SaidThen(n)

\* Between two triggers the episodes match the conditions: a rule whose
\* conditions hold now has its episode, one whose conditions are refuted has
\* none.  With a tick for every second no crossing is missed, event or not.
SettledAt(s) == watermark[s] # None /\ clock[Proc] > 0
Selected(p) == p \in Matched(p[2], queues[p[2]])

InStepAt(p) ==
  LET finding == FindingAt(p, clock[Proc])
  IN  /\ finding = "true" => ActiveOf(p) # {}
      /\ finding = "false" => ActiveOf(p) = {}

InStep ==
  Idle(Proc) /\ pos > 0 =>
    \A p \in Pairs : Selected(p) /\ SettledAt(p[2]) => InStepAt(p)

\* A pass with no_eval, or one that was killed, takes nothing away from the
\* passes after it: at the end of one that evaluates, every rule the scan
\* looks after is in step with its conditions.
CaughtUp ==
  Idle(Proc) /\ evaluating /\ pos = Len(lines) =>
    \A p \in Pairs :
      p[1] \in TimeSensitive /\ Selected(p) /\ SettledAt(p[2]) => InStepAt(p)

\* Nothing happens to a pair by the passing of time before next_due_at()
\* says: evaluated at any earlier time, with no event in between, it would
\* neither change the state of its episode nor notify.
DueOf(p, e) ==
  NextDueAt(Conditions[p[1]], RuleOf(p), SubjectType[p[2]], states[p[2]], watermark[p[2]], e)

NothingBeforeDue ==
  Idle(Proc) =>
    \A p \in Pairs : Selected(p) /\ SettledAt(p[2]) =>
      \E i \in GetActive(p) :
        LET e == Row(i) IN
        \A t \in clock[Proc]..(MaxTime + 1) :
          DueOf(p, e) = None \/ t < DueOf(p, e) =>
            LET then == Advance(e, p, FindingAt(p, t), t, RuleOf(p))
            IN  /\ then.emit = None
                /\ then.row.state = IF e = None THEN "clear" ELSE e.state

-----------------------------------------------------------------------------
(* Claims of the repository that the code does not keep.                   *)

\* README: OPEN -> CLEAR "when condition becomes false".  An open episode at
\* rest has no condition that is known to be false.
RecoveryResolves ==
  Idle(Proc) =>
    \A p \in Pairs : \A i \in ActiveOf(p) :
      \A c \in Conditions[p[1]] :
        LET facts == FactsAt(p[2], now[Proc])
        IN  Computable(c, facts) => Holds(c, facts)

\* replay.py: stepping the clock "prevents skipping evaluation thresholds".
\* A condition that came true, with no event of the subject since, at least
\* one tick interval ago, has its episode.
NoThresholdSkipped ==
  Idle(Proc) =>
    \A p \in Pairs :
      LET t == clock[Proc] - TickInterval
      IN  /\ Selected(p) /\ watermark[p[2]] # None
          /\ watermark[p[2]] <= t
          /\ FindingAt(p, t) = "true"
          /\ FindingAt(p, clock[Proc]) = "true"
          => ActiveOf(p) # {}

=============================================================================
