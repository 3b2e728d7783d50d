------------------------------ MODULE MCReplay ------------------------------
(* Files and rules of Replay for TLC: an agent's or a queue's.             *)
EXTENDS ReplayInputs, TLC

CONSTANTS a, q, call, adherence, busy, breach, proc, k, e1, e2, e3, e4

OneProc == {proc}
Agent == {a}
Queue == {q}
Ids == {e1, e2, e3, e4}
AgentRules == {call, adherence}
AllRules == {call, adherence, busy, breach}

MCSubjectType ==
  [x \in Rules \cup Subjects |-> IF x \in {q, busy, breach} THEN "queue" ELSE "agent"]
\* The rule about calls is for the members of one queue.
OneQueue == {k}
MCSelector == [r \in Rules |->
  IF r = call THEN [kind |-> "queue_membership", queue_ids |-> {k}] ELSE [kind |-> "all"]]

EvaluatingOnly == {TRUE}
AnyPass == BOOLEAN

\* The seeded rules with their thresholds in seconds made small.
MCConditions == [r \in Rules |->
  CASE r = call -> {Literal("current_state", "eq", "on_call"),
                    Literal("current_state_duration_sec", "gt", 1)}
    [] r = adherence -> {Literal("in_adherence_violation", "eq", TRUE),
                         Literal("adherence_violation_duration_sec", "gt", 0)}
    [] r = busy -> {Literal("tickets_waiting", "gt", 1)}
    [] r = breach -> {Against("longest_wait_sec", "gt", "sla_target_sec")}]
MCForDuration == [r \in Rules |-> IF r = busy THEN 1 ELSE 0]
MCCooldown == [r \in Rules |-> IF r \in {adherence, breach} THEN 2 ELSE 0]
MCTimeSensitive == {r \in Rules : IsTimeSensitive(MCConditions[r])}

MCVocabulary == {"available", "on_call"}

Change(id, t, raw, in) ==
  [id |-> id, valid |-> TRUE, type |-> "agent_state_change", subject |-> a, ts |-> t, utc |-> TRUE,
   queue_ids |-> in, new_state |-> raw]
Check(id, t, actual, out, start, in) ==
  [id |-> id, valid |-> TRUE, type |-> "adherence_check", subject |-> a, ts |-> t, utc |-> TRUE,
   queue_ids |-> in, actual_state |-> actual, in_violation |-> out,
   violation_started_at |-> start]
Snapshot(id, t, tickets, wait) ==
  [id |-> id, valid |-> TRUE, type |-> "queue_snapshot", subject |-> q, ts |-> t, utc |-> TRUE,
   tickets_waiting |-> tickets, longest_wait_sec |-> wait, sla_target_sec |-> 1,
   agents_available |-> 0]

AgentEvents(id, t) ==
  {Change(id, t, "on_call", {k}), Change(id, t, "in_training", None),
   Check(id, t, "on_call", FALSE, None, {k}), Check(id, t, "on_call", TRUE, t, {k}),
   Check(id, t, "on_call", TRUE, None, None)}
QueueEvents(id, t) == {Snapshot(id, t, n, n) : n \in {0, 2}}

\* Three sorted events, the first at the origin, and a last line that is the
\* first one again, sent again altered, late under a new id, or invalid.
Gaps == {<<1, 2>>, <<2, 2>>, <<2, 3>>}
Bodies(Events(_, _)) ==
  UNION {{<<x, y, z>> : x \in Events(1, 0), y \in Events(2, g[1]), z \in Events(3, g[2])}
         : g \in Gaps}
Tails(first) ==
  {first, [first EXCEPT !.ts = 1], [first EXCEPT !.id = 4],
   [first EXCEPT !.id = 5, !.valid = FALSE, !.ts = 3]}
WithTail(Events(_, _)) == UNION {{Append(f, t) : t \in Tails(f[1])} : f \in Bodies(Events)}

AgentFiles == WithTail(AgentEvents)
QueueFiles == WithTail(QueueEvents)
\* Events of the two, one after the other.
MixedFiles ==
  UNION {{<<x, y, z>> : x \in AgentEvents(1, 0), y \in QueueEvents(2, g[1]),
                        z \in AgentEvents(3, g[2])} : g \in Gaps}
AllFiles == AgentFiles \cup QueueFiles \cup MixedFiles

\* A call that nothing is heard of while the queue reports every second.
BusyFiles ==
  {<<Change(1, 0, "on_call", {k}), Snapshot(2, 1, 0, 0), Snapshot(3, 2, 0, 0),
     Snapshot(4, 3, 0, 0), Snapshot(5, 4, 0, 0)>>}
\* The second line has no usable ts, or one that is not in UTC.
BadTsFiles ==
  {<<x, y, z>> : x \in AgentEvents(1, 0), z \in AgentEvents(3, 3),
     y \in UNION {{[e EXCEPT !.ts = None], [e EXCEPT !.valid = FALSE, !.utc = FALSE]} :
                    e \in AgentEvents(2, 2)}}

CrashFiles == AgentFiles \cup BadTsFiles

Both == {a, q}
CallRule == {call}

FromZero == {0}

IdSymmetry == Permutations(EpisodeIds)

\* The hypotheses of the theorems about replays hold of these files and rules.
ASSUME InputsFit ==
  Files = AllFiles /\ Rules = AllRules =>
    /\ Evaluated /\ SameStart
    /\ Stamped /\ AfterOrigin /\ InTime /\ Parsed
    /\ Registered /\ TimedOnTheLeft /\ Thresholds
=============================================================================
