------------------------------- MODULE DueTime -------------------------------
(***************************************************************************)
(* next_due_at() (app/scheduling/due_time.py): when the passing of time    *)
(* alone can next change something for a rule and a subject.  The scan     *)
(* scheduler does without it; a heap of due times would rely on it.        *)
(***************************************************************************)
EXTENDS Facts

(* _literal_threshold(): of the first condition that compares the fact     *)
(* with a literal number.  Conditions are a set here, in which no two do   *)
(* so for one fact.                                                        *)
Threshold(conditions, fact) ==
  LET literals == {c \in conditions : c.fact = fact /\ c.ref = None /\ c.op # "in_"}
  IN  IF literals = {} THEN None ELSE (CHOOSE c \in literals : TRUE).value

\* Mutant of StartOf: every duration of an agent runs from its state change.
StartOfState(fact, state, last_event_ts) ==
  IF fact = "snapshot_age_sec" THEN last_event_ts ELSE state.state_entered_at

(* The field of the state row a duration runs from.                        *)
StartOf(fact, state, last_event_ts) ==
  CASE fact = "current_state_duration_sec" -> state.state_entered_at
    [] fact = "adherence_violation_duration_sec" -> state.violation_started_at
    [] fact = "snapshot_age_sec" -> last_event_ts

DurationFacts(type) ==
  IF type = "agent" THEN <<"current_state_duration_sec", "adherence_violation_duration_sec">>
                    ELSE <<"snapshot_age_sec">>

(* Without an active episode: the first duration fact with a threshold and *)
(* a start.                                                                *)
CrossingAt(conditions, type, state, last_event_ts) ==
  LET facts == DurationFacts(type)
      start(i) == StartOf(facts[i], state, last_event_ts)
      usable == {i \in DOMAIN facts :
                   Threshold(conditions, facts[i]) # None /\ start(i) # None}
      first == CHOOSE i \in usable : \A j \in usable : i <= j
  IN  IF usable = {} THEN None ELSE start(first) + Threshold(conditions, facts[first])

NextDueAt(conditions, rule, type, state, last_event_ts, e) ==
  IF e # None /\ e.state = "pending" THEN e.first_true_at + rule.for_duration
  ELSE IF e # None /\ e.state = "open"
       THEN IF rule.cooldown > 0 THEN e.last_notified_at + rule.cooldown ELSE None
       ELSE CrossingAt(conditions, type, state, last_event_ts)

=============================================================================
