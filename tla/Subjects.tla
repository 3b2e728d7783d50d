------------------------------ MODULE Subjects ------------------------------
(***************************************************************************)
(* The projection of events onto subject state (app/projection,            *)
(* app/ingest/normalize.py).  State rows leave out last_event_ts and       *)
(* queue_ids: the engine's watermark and queues are those columns.         *)
(***************************************************************************)
EXTENDS Episodes

CONSTANT Vocabulary                \* AgentStateValue, without "unknown"

AgentStateValue == Vocabulary \cup {"unknown"}

\* A state name outside the vocabulary is stored as "unknown".
Normalize(raw) == IF raw \in Vocabulary THEN raw ELSE "unknown"

NewAgent == [current_state |-> None, state_entered_at |-> None,
             violation_active |-> FALSE, violation_started_at |-> None,
             violation_start_source |-> "unknown"]

Base(prev) == IF prev = None THEN NewAgent ELSE prev

\* What an event says of its agent's queues; queue_ids null reads as none.
Memberships(event) ==
  IF event.type = "queue_snapshot" \/ event.queue_ids = None THEN {} ELSE event.queue_ids

ApplyStateChange(prev, event) ==
  [Base(prev) EXCEPT !.current_state = Normalize(event.new_state),
                     !.state_entered_at = event.ts]

\* Mutant of ApplyAdherence: a check that gives no start keeps the one before.
ApplyAdherenceKept(prev, event) ==
  LET given == IF event.violation_started_at # None THEN event.violation_started_at
               ELSE Base(prev).violation_started_at
      start == IF event.in_violation THEN given ELSE None
  IN  [Base(prev) EXCEPT !.violation_active = event.in_violation,
                         !.violation_started_at = start,
                         !.violation_start_source =
                           IF start = None THEN "unknown" ELSE "event"]

ApplyAdherence(prev, event) ==
  LET start == IF event.in_violation THEN event.violation_started_at ELSE None
  IN  [Base(prev) EXCEPT !.violation_active = event.in_violation,
                         !.violation_started_at = start,
                         !.violation_start_source =
                           IF start = None THEN "unknown" ELSE "event"]

\* A snapshot is the whole state of the queue.
ApplySnapshot(event) ==
  [tickets_waiting |-> event.tickets_waiting,
   longest_wait_sec |-> event.longest_wait_sec,
   sla_target_sec |-> event.sla_target_sec,
   agents_available |-> event.agents_available]

Apply(prev, event) ==
  CASE event.type = "queue_snapshot" -> ApplySnapshot(event)
    [] event.type = "agent_state_change" -> ApplyStateChange(prev, event)
    [] event.type = "adherence_check" -> ApplyAdherence(prev, event)

StateDisagreement(prev, event) ==
  /\ event.type = "adherence_check"
  /\ prev # None /\ prev.current_state # None
  /\ Normalize(event.actual_state) # prev.current_state

=============================================================================
