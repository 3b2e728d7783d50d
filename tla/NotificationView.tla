-------------------------- MODULE NotificationView --------------------------
(***************************************************************************)
(* The notifications page (app/api/routes_notifications.py, the summary of *)
(* app/routing/renderer.py) beside the running engine: every notification  *)
(* as it was recorded, and the live state of its episode beside the latest *)
(* one of each episode.  The page is a reader in another process: it lists *)
(* the notifications in one query and then reads the episodes one by one,  *)
(* each by a SELECT of its own, so the engine and the rules API may commit *)
(* between any two of these reads.                                         *)
(*                                                                         *)
(* Filters and grouping by recipient, rule or subject keep the             *)
(* notifications of an episode together, so they are left out, and with    *)
(* them the order of the lookups: they come in any order here.  For how    *)
(* long a condition has held is left out of the summary.                   *)
(***************************************************************************)
EXTENDS EngineProperties

VARIABLES
  listed,           \* the notifications list() returned to the request
  shown             \* what the request has put beside the latest ones so far

page == <<listed, shown>>
pvars == <<vars, listed, shown>>

\* The order in which the notifications of an episode were inserted.
RecordedBefore(m, n) ==
  \/ m.transition = "opened" /\ n.transition # "opened"
  \/ m.transition = "reminder" /\ n.transition = "reminder" /\ m.seq < n.seq
  \/ m.transition # "resolved" /\ n.transition = "resolved"

(* list(): ORDER BY created_at, the engine's now.  SQLite's sort leaves    *)
(* equal keys in the order of insertion.                                   *)
ListedBefore(m, n) == m.at < n.at \/ (m.at = n.at /\ RecordedBefore(m, n))

Listed(i) == {n \in listed : n.episode = i}

\* Mutant of IsLatest: the list is newest first.
IsFirst(n) == \A m \in Listed(n.episode) : m # n => ListedBefore(n, m)

(* _latest_notification_ids(): the last of its episode in the list.        *)
IsLatest(n) == \A m \in Listed(n.episode) : m # n => ListedBefore(m, n)

(* render_suppression_summary(), or None for nothing to say.               *)
Summary(e) ==
  IF e.evaluations_suppressed = 0 \/ e.last_notified_at = None THEN None
  ELSE [since |-> e.last_notified_at, further |-> e.evaluations_suppressed]

(* _to_dict_with_suppression() of the latest notification of an episode.   *)
Beside(n) ==
  LET e == episodes[n.episode]
  IN  [notice |-> n, summary |-> Summary(e), stale |-> Stale(e)]

(* A request begins: list() and _latest_notification_ids().                *)
List ==
  /\ listed' = notifications
  /\ shown' = {}
  /\ UNCHANGED vars

(* episodes_repo.get() for one of them.                                    *)
LookUp(n) ==
  /\ IsLatest(n)
  /\ \A x \in shown : x.notice # n
  /\ shown' = shown \cup {Beside(n)}
  /\ UNCHANGED <<vars, listed>>

PInit == Init /\ listed = {} /\ shown = {}

PNext ==
  \/ Next /\ UNCHANGED page
  \/ List
  \/ \E n \in listed : LookUp(n)

PSpec == PInit /\ [][PNext]_pvars

-----------------------------------------------------------------------------
\* The page puts the state of an episode beside the notification it belongs
\* to, or a later one that was recorded since it listed them: one listed
\* notification of each episode is the latest, and it is the resolution if
\* that is listed; a summary starts at that notification or at a reminder
\* committed between the two reads, before a resolution it starts earlier; and
\* "stale - awaiting data", which stands for a resolution that was withheld,
\* is never beside one.
Fits(x) ==
  LET n == x.notice
  IN  IF n.transition = "resolved"
      THEN ~x.stale /\ (x.summary # None => x.summary.since <= n.at)
      ELSE x.summary # None =>
             \/ x.summary.since = n.at
             \/ \E m \in Of(n.episode) \ listed :
                  m.transition = "reminder" /\ m.at = x.summary.since

LiveStateFits ==
  /\ \A n \in listed :
       /\ \E m \in Listed(n.episode) : IsLatest(m)
       /\ n.transition = "resolved" => IsLatest(n)
  /\ \A x \in shown : Fits(x)

=============================================================================
