-------------------------- MODULE EngineProperties --------------------------
(***************************************************************************)
(* What the notification engine promises, as formulas of Engine.           *)
(***************************************************************************)
EXTENDS Engine

\* Every variable keeps its type: the rows of the three tables, and the
\* locals of evaluate_rule that each of its steps relies on.
TypeOK ==
  /\ rules \in [Rules -> RuleStates]
  /\ watermark \in [Subjects -> Opt(Time)]
  /\ queues \in [Subjects -> SUBSET QueueIds]
  /\ episodes \in [EpisodeIds -> Opt(Episode(Pairs))]
  /\ notifications \in SUBSET Notice
  /\ evaluations \in Nat
  /\ ticked \in Time
  /\ sent \in SUBSET Notice
  /\ clock \in [Workers -> Time]
  /\ now \in [Workers -> Time]
  /\ todo \in [Workers -> SUBSET Pairs]
  /\ pc \in [Workers -> {"ready", "decide", "commit", "send"}]
  /\ job \in [Workers -> Job]
  /\ outbox \in [Workers -> SUBSET Notice]
  /\ \A w \in Workers :
       /\ pc[w] \in {"decide", "commit"} => job[w].pair \in Pairs
       /\ pc[w] = "commit" => job[w].row \in Episode(Pairs)

-----------------------------------------------------------------------------
(* Two evaluators, an API call or a crash at any point.                    *)

\* A (rule, subject) pair never has two pending or open episodes, so that
\* get_active()'s fetchone() is never a choice: schema.sql's ux_episode_open
\* is the backstop for evaluators that both read "no active episode".
UniqueActive ==
  \A i, j \in EpisodeIds :
    /\ IsActive(episodes[i]) /\ IsActive(episodes[j])
    /\ episodes[i].pair = episodes[j].pair
    => i = j

\* Every active row passes the Episode model's own validator, so no stored
\* row makes evaluate_rule raise when it loads it - however stale the copy
\* that was written over it, and though the API closes rows field by field.
RowsLoad ==
  \A i \in EpisodeIds : IsActive(episodes[i]) => Consistent(episodes[i])

\* Channels are given a notification only after its row is in the table, and
\* at most once: nothing waiting in a worker's pending_sends was ever sent
\* before, or waits with another worker, under the same idempotency key.
SendOnce ==
  /\ sent \subseteq notifications
  /\ \A w \in Workers : \A n \in outbox[w] :
       /\ n \in notifications
       /\ \A m \in sent : Key(m) # Key(n)
       /\ \A v \in Workers \ {w} : \A m \in outbox[v] : Key(m) # Key(n)

-----------------------------------------------------------------------------
(* One evaluator, with API calls and crashes at any point.                 *)

Of(i) == {n \in notifications : n.episode = i}
Keys(ns) == {<<n.transition, n.seq>> : n \in ns}
Reminders(k) == {<<"reminder", j>> : j \in 1..k}

\* Row e and its notifications ns tell the same story: nothing before it
\* opened; then one opening and reminders 1 .. notify_seq without a gap; a
\* resolution only on a row that closed with it.
SameStory(e, ns) ==
  LET opening == IF e.opened_at = None THEN {} ELSE {<<"opened", 0>>}
  IN  /\ Keys(ns) \ {<<"resolved", 0>>} = opening \cup Reminders(e.notify_seq)
      /\ e.opened_at = None => ns = {}
      /\ \A n \in ns :
           /\ n.pair = e.pair
           /\ n.transition = "resolved" => e.state = "clear" /\ e.closed_at = n.at
           /\ n.transition = "opened" => n.at = e.opened_at
           /\ n.transition = "reminder" /\ n.seq = e.notify_seq =>
                n.at = e.last_notified_at

\* The episodes and the notifications table tell the same story.  Nothing
\* that happens between the writes of one evaluation and the next (a crash, a
\* silent close by the API, a rejected insert) can leave one without the other.
NoticeLedger ==
  /\ \A n \in notifications : episodes[n.episode] # None
  /\ \A i \in EpisodeIds : episodes[i] # None => SameStory(episodes[i], Of(i))

\* The notification a reminder follows.
Before(m, n) ==
  /\ m.episode = n.episode
  /\ m.transition = IF n.seq = 1 THEN "opened" ELSE "reminder"
  /\ m.seq = n.seq - 1

\* A subject is never nagged: a reminder comes at least one cooldown after
\* the notification it follows, and never at all for a rule without one.
\* It holds between what was really recorded, across restarts that walk the
\* same minutes again.
ReminderSpacing ==
  \A n \in notifications : n.transition = "reminder" =>
    /\ Cooldown[n.pair[1]] > 0
    /\ \E m \in notifications :
         Before(m, n) /\ n.at - m.at >= Cooldown[n.pair[1]]

\* An alert is never early: when the opening is recorded, the first matching
\* evaluation of the episode lies at least for_duration_sec back.
NeverEarly ==
  \A n \in notifications : n.transition = "opened" =>
    n.at - episodes[n.episode].first_true_at >= ForDuration[n.pair[1]]

-----------------------------------------------------------------------------
(* API calls served between evaluations, as R12 has it.                    *)

\* Disabling a rule (R13) leaves it no pending or open episode, and none
\* comes back while it stays disabled.
DisabledIsQuiet ==
  \A i \in EpisodeIds : IsActive(episodes[i]) => rules[episodes[i].pair[1]] = "enabled"

\* No notification is recorded for a rule after it was disabled, although
\* the pairs still to evaluate were listed before.
NoNoticeWhenDisabled ==
  [][\A n \in notifications' \ notifications : Enabled(n.pair[1])]_vars

\* A cleared episode is history: its row never changes again.
ClosedIsFinal ==
  [][\A i \in EpisodeIds :
       episodes[i] # None /\ ~IsActive(episodes[i]) => episodes'[i] = episodes[i]]_vars

\* The engine keeps the contract: the watch is a pending row, the alert an
\* open one, and the notifications recorded for a pair are those issued.
RowIn(p, state) ==
  LET rows == {i \in ActiveOf(p) : episodes[i].state = state}
  IN  IF rows = {} THEN None ELSE episodes[CHOOSE i \in rows : TRUE]

Watching == [p \in Pairs |->
  LET e == RowIn(p, "pending") IN IF e = None THEN None ELSE e.first_true_at]

Alerting == [p \in Pairs |->
  LET e == RowIn(p, "open")
  IN  IF e = None THEN None
      ELSE [last |-> e.last_notified_at, count |-> e.notify_seq]]

ASSUME NoneIsNoAlert == None \notin [last : Opt(Time), count : Nat]

Issued == [p \in Pairs |-> [k \in Transitions |->
  Cardinality({n \in notifications : n.pair = p /\ n.transition = k})]]

Contract == INSTANCE AlertContract WITH
  Owner <- [p \in Pairs |-> p[1]],
  Hold <- [p \in Pairs |-> ForDuration[p[1]]],
  Quiet <- [p \in Pairs |-> Cooldown[p[1]]],
  Time <- 0..MaxTime,
  watch <- Watching, alert <- Alerting, issued <- Issued

KeepsContract == Contract!Spec

-----------------------------------------------------------------------------
(* A single replay of a file sorted by event time, without a crash.        *)

Stamps(e) == {e.first_true_at, e.opened_at, e.last_notified_at, e.stale_since} \ {None}

\* An episode's life, as the engine writes it, runs forward in event time and
\* never ahead of the clock: matched, opened, notified, and stale or resolved
\* only after the last notification before.
TimesOrdered ==
  \A i \in EpisodeIds : episodes[i] # None =>
    LET e == episodes[i] IN
    /\ \A t \in Stamps(e), w \in Workers : t <= clock[w]
    /\ e.opened_at # None =>
         /\ e.first_true_at <= e.opened_at
         /\ e.opened_at <= e.last_notified_at
         /\ Stale(e) => e.last_notified_at <= e.stale_since
    /\ \A n \in Of(i) : n.transition = "resolved" =>
         /\ e.last_notified_at <= e.closed_at
         /\ \A w \in Workers : e.closed_at <= clock[w]

\* The times of a pair's notifications never go backward, from one file to
\* the next and whatever ticks, events and API calls come in between
\* (test_cli_replay.py asserts it of one replay).
NeverBackward ==
  [][\A n \in notifications' \ notifications, m \in notifications :
       m.pair = n.pair => m.at <= n.at]_vars

\* An episode begins only for a subject its rule selects at that moment, by
\* the memberships its latest event reported; the scan evaluates pairs with
\* an active episode whether they are still selected or not.
BeginsSelected ==
  [][\A i \in EpisodeIds :
       episodes[i] = None /\ episodes'[i] # None =>
         episodes'[i].pair[2] \in Resolve(episodes'[i].pair[1])]_vars

\* Every recorded notification is sent in the end, however many triggers
\* keep coming.
NothingOwed == []<>(notifications = sent)

-----------------------------------------------------------------------------
(* Claims of the repository that the code does not keep.                   *)

\* engine.py: persist-then-send gives "exact-once semantics".  What waits to
\* be sent waits in memory only.
ExactlyOnce == notifications \subseteq sent \cup UNION {outbox[w] : w \in Workers}

\* test_api_routes_rules.py: "R13: disable closes any open/pending episode."
\* An evaluation that read the episode before puts its own copy back.
NoReopening ==
  [][\A i \in EpisodeIds :
       episodes[i] # None /\ ~IsActive(episodes[i]) => ~IsActive(episodes'[i])]_vars


=============================================================================
