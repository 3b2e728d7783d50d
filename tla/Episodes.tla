------------------------------ MODULE Episodes ------------------------------
(***************************************************************************)
(* Episode rows and the pure state machine that advances them              *)
(* (app/domain/episodes.py, app/episodes/machine.py).                      *)
(*                                                                         *)
(* An evaluation of a rule against a subject is abstracted to its finding: *)
(* "true" (every condition matched), "unknown" (not matched, and a fact    *)
(* the rule's own conditions read is MISSING) or "false" (not matched, all *)
(* driving facts present).  Event time is a natural number of seconds; the *)
(* two fields stale and stale_since, always written together, are the one  *)
(* field stale_since.                                                      *)
(***************************************************************************)
EXTENDS Integers

CONSTANT None                      \* Python's None

ASSUME NoneAssumption == /\ None \notin Int
                         /\ None \notin {"opened", "reminder", "resolved"}

Opt(S) == S \cup {None}
Time == Nat

States == {"clear", "pending", "open"}
ActiveStates == {"pending", "open"}
Transitions == {"opened", "reminder", "resolved"}
Findings == {"true", "false", "unknown"}

Episode(Pairs) ==
  [pair : Pairs, state : States, first_true_at : Opt(Time),
   opened_at : Opt(Time), closed_at : Opt(Time), last_notified_at : Opt(Time),
   notify_seq : Nat, evaluations_suppressed : Nat, stale_since : Opt(Time)]

(* The defaults of a fresh Episode; also the clear placeholder advance()   *)
(* returns when nothing was active and nothing matched.                    *)
Blank(p) ==
  [pair |-> p, state |-> "clear", first_true_at |-> None, opened_at |-> None,
   closed_at |-> None, last_notified_at |-> None, notify_seq |-> 0,
   evaluations_suppressed |-> 0, stale_since |-> None]

Stale(e) == e.stale_since # None

(* _validate_state_consistency: what Episode's constructor insists on, and *)
(* so what a row must satisfy for the engine to be able to load it.        *)
Consistent(e) ==
  /\ e.state = "pending" => e.first_true_at # None
  /\ e.state = "open" => e.opened_at # None /\ e.last_notified_at # None
  /\ Stale(e) => e.state = "open"

Outcome(row, emit) == [row |-> row, emit |-> emit]

Counted(e) == [e EXCEPT !.evaluations_suppressed = @ + 1]
Suppress(e) == [Counted(e) EXCEPT !.stale_since = None]

\* Mutants of FromClear: nothing at all for a row that stays clear; an
\* opening that does not start the cooldown.
FromClearToNothing(p, finding, now, rule) ==
  IF finding # "true" THEN Outcome(None, None)
  ELSE Outcome([Blank(p) EXCEPT !.state = "open", !.first_true_at = now,
                  !.opened_at = now, !.last_notified_at = now], "opened")

FromClearUnstamped(p, finding, now, rule) ==
  IF finding # "true" THEN Outcome(Blank(p), None)
  ELSE Outcome([Blank(p) EXCEPT !.state = "open", !.first_true_at = now,
                  !.opened_at = now], "opened")

(* Clear, or no active episode at all.                                     *)
FromClear(p, finding, now, rule) ==
  IF finding # "true" THEN Outcome(Blank(p), None)
  ELSE IF rule.for_duration = 0
       THEN Outcome([Blank(p) EXCEPT !.state = "open", !.first_true_at = now,
                       !.opened_at = now, !.last_notified_at = now], "opened")
       ELSE Outcome([Blank(p) EXCEPT !.state = "pending",
                                     !.first_true_at = now], None)

Cleared(e) == [e EXCEPT !.state = "clear", !.first_true_at = None]
\* Mutant of Held: evaluations are counted instead of seconds.
HeldByCount(e, now, rule) == e.evaluations_suppressed + 1 >= rule.for_duration

Held(e, now, rule) == now - e.first_true_at >= rule.for_duration

FromPending(e, finding, now, rule) ==
  IF finding # "true" THEN Outcome(Cleared(e), None)
  ELSE IF ~Held(e, now, rule) THEN Outcome(Counted(e), None)
       ELSE Outcome([e EXCEPT !.state = "open", !.opened_at = now,
                       !.last_notified_at = now, !.notify_seq = 0], "opened")

(* Resolve hardening: an unknown finding freezes an open episode.          *)
Frozen(e, now) == [e EXCEPT !.stale_since = IF Stale(e) THEN @ ELSE now]
Closed(e, now) == [e EXCEPT !.state = "clear", !.closed_at = now,
                            !.stale_since = None]

\* Mutant of ReminderDue: the cooldown runs from the opening.
ReminderDueSinceOpen(e, now, rule) ==
  rule.cooldown > 0 /\ now - e.opened_at >= rule.cooldown

ReminderDue(e, now, rule) ==
  rule.cooldown > 0 /\ now - e.last_notified_at >= rule.cooldown

\* Mutant of FromOpen: a reminder does not restart the cooldown.
FromOpenUnstamped(e, finding, now, rule) ==
  CASE finding = "unknown" -> Outcome(Frozen(e, now), None)
    [] finding = "false" -> Outcome(Closed(e, now), "resolved")
    [] finding = "true" ->
         IF ~ReminderDue(e, now, rule) THEN Outcome(Suppress(e), None)
         ELSE Outcome([Suppress(e) EXCEPT !.notify_seq = @ + 1], "reminder")

FromOpen(e, finding, now, rule) ==
  CASE finding = "unknown" -> Outcome(Frozen(e, now), None)
    [] finding = "false" -> Outcome(Closed(e, now), "resolved")
    [] finding = "true" ->
         IF ~ReminderDue(e, now, rule) THEN Outcome(Suppress(e), None)
         ELSE Outcome([e EXCEPT !.notify_seq = @ + 1, !.last_notified_at = now,
                                !.stale_since = None], "reminder")

(* advance(): e is the active row of pair p, or None.  get_active returns  *)
(* only pending and open rows, so a clear row never reaches it.            *)
Advance(e, p, finding, now, rule) ==
  IF e = None THEN FromClear(p, finding, now, rule)
  ELSE IF e.state = "pending" THEN FromPending(e, finding, now, rule)
       ELSE FromOpen(e, finding, now, rule)

=============================================================================
