-------------------------------- MODULE Facts --------------------------------
(***************************************************************************)
(* Facts about a subject and the evaluation of a rule's conditions over    *)
(* them (app/evaluation).  A fact that cannot be computed is Missing.      *)
(*                                                                         *)
(* A state row here leaves out last_event_ts, the subject's watermark,     *)
(* which is passed beside it.                                              *)
(***************************************************************************)
EXTENDS Episodes

CONSTANT Missing                   \* the MISSING sentinel

ASSUME MissingAssumption == Missing \notin Int

OrMissing(v) == IF v = None THEN Missing ELSE v
Since(start, now) == IF start = None THEN Missing ELSE now - start

AgentFacts(state, now) ==
  [current_state |-> OrMissing(state.current_state),
   current_state_duration_sec |-> Since(state.state_entered_at, now),
   in_adherence_violation |-> state.violation_active,
   adherence_violation_duration_sec |->
     IF state.violation_start_source = "unknown" THEN Missing
     ELSE Since(state.violation_started_at, now)]

(* longest_wait_sec / sla_target_sec in whole percent, which is as fine as *)
(* the >= 0.80 and < 1.00 of the seeded rules can tell.                    *)
SlaRisk(state) ==
  IF state.longest_wait_sec = None \/ state.sla_target_sec \in {None, 0} THEN Missing
  ELSE (100 * state.longest_wait_sec) \div state.sla_target_sec

(* agents_on_call, volume_last_15m and volume_forecast_next_15m are read   *)
(* in the same way as the first four.                                      *)
QueueFacts(state, last_event_ts, now) ==
  [tickets_waiting |-> OrMissing(state.tickets_waiting),
   longest_wait_sec |-> OrMissing(state.longest_wait_sec),
   sla_target_sec |-> OrMissing(state.sla_target_sec),
   agents_available |-> OrMissing(state.agents_available),
   snapshot_age_sec |-> now - last_event_ts,
   sla_risk_pct |-> SlaRisk(state)]

TimeDerived == {"current_state_duration_sec", "adherence_violation_duration_sec",
                "snapshot_age_sec"}

-----------------------------------------------------------------------------
(* A condition compares a fact with a literal, or with another fact of the *)
(* same subject (ref).                                                     *)

Literal(fact, op, value) == [fact |-> fact, op |-> op, value |-> value, ref |-> None]
Against(fact, op, ref) == [fact |-> fact, op |-> op, value |-> None, ref |-> ref]

Compare(op, a, b) ==
  CASE op = "gt" -> a > b
    [] op = "gte" -> a >= b
    [] op = "lt" -> a < b
    [] op = "lte" -> a <= b
    [] op = "eq" -> a = b
    [] op = "neq" -> a # b
    [] op = "in_" -> a \in b

Operand(c, facts) == IF c.ref = None THEN c.value ELSE facts[c.ref]
Computable(c, facts) == facts[c.fact] # Missing /\ Operand(c, facts) # Missing

(* apply_operator(): unknown counts as false.                              *)
Holds(c, facts) ==
  Computable(c, facts) /\ Compare(c.op, facts[c.fact], Operand(c, facts))

(* evaluate(), and what advance() makes of its missing_facts: every fact   *)
(* it can report is one that the rule's own conditions read.               *)
Finding(conditions, facts) ==
  IF \A c \in conditions : Holds(c, facts) THEN "true"
  ELSE IF \E c \in conditions : ~Computable(c, facts) THEN "unknown"
       ELSE "false"

\* _is_time_sensitive(): only the left-hand facts are looked at.
IsTimeSensitive(conditions) == \E c \in conditions : c.fact \in TimeDerived

=============================================================================
