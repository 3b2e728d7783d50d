--------------------------- MODULE ContractProofs ---------------------------
(***************************************************************************)
(* The engine implements AlertContract: with one evaluator and an API that *)
(* is served between evaluations, every step is one that the contract      *)
(* allows, or changes nothing the contract speaks of.  For any rules and   *)
(* files, in any order of their events, and with crashes at any point.     *)
(***************************************************************************)
EXTENDS SerialProofs, FiniteSetTheorems

(* What the contract sees of one row.                                      *)
WatchOf(row) == IF row.state = "pending" THEN row.first_true_at ELSE None
AlertOf(row) == IF row.state = "open"
                THEN [last |-> row.last_notified_at, count |-> row.notify_seq]
                ELSE None

\* The row to be written, and the transition with it, are what the contract
\* allows for pair p at time t, from row e.
Allowed(e, row, emit, t, p) ==
  \/ /\ emit = None
     /\ WatchOf(row) = WatchOf(e) /\ AlertOf(row) = AlertOf(e)
  \/ /\ emit = None
     /\ AlertOf(e) = None /\ WatchOf(e) = None
     /\ AlertOf(row) = None /\ WatchOf(row) = t
  \/ /\ emit = None
     /\ AlertOf(e) = None /\ WatchOf(e) # None
     /\ AlertOf(row) = None /\ WatchOf(row) = None
  \/ /\ emit = "opened"
     /\ AlertOf(e) = None
     /\ IF WatchOf(e) = None THEN ForDuration[p[1]] = 0
                             ELSE t - WatchOf(e) >= ForDuration[p[1]]
     /\ AlertOf(row) = [last |-> t, count |-> 0] /\ WatchOf(row) = None
  \/ /\ emit = "reminder"
     /\ AlertOf(e) # None
     /\ Cooldown[p[1]] > 0 /\ t - AlertOf(e).last >= Cooldown[p[1]]
     /\ AlertOf(row) = [last |-> t, count |-> AlertOf(e).count + 1]
     /\ WatchOf(row) = WatchOf(e)
  \/ /\ emit = "resolved"
     /\ AlertOf(e) # None
     /\ AlertOf(row) = None /\ WatchOf(row) = WatchOf(e)

\* What advance() makes of the active row it is given, or of none, is allowed.
LEMMA AdvanceAllowed ==
  ASSUME NEW p \in Pairs, NEW e \in Opt(Episode(Pairs)),
         e # None => e.state \in ActiveStates /\ e.pair = p /\ Consistent(e),
         NEW finding \in Findings, NEW t \in Time
  PROVE  LET out == Advance(e, p, finding, t, RuleOf(p))
         IN  Allowed(IF e = None THEN Blank(p) ELSE e, out.row, out.emit, t, p)
  <1> DEFINE rule == RuleOf(p)
             out == Advance(e, p, finding, t, rule)
             row == out.row
             emit == out.emit
             base == IF e = None THEN Blank(p) ELSE e
  <1> SUFFICES Allowed(base, row, emit, t, p)
    OBVIOUS
  <1>t. t # None /\ t \in Nat
    BY NoneAssumption DEF Time
  <1>r. rule.for_duration = ForDuration[p[1]] /\ rule.cooldown = Cooldown[p[1]]
    BY DEF RuleOf
  <1> HIDE DEF rule, row, emit
  <1>1. CASE e = None
    <2>1. out = FromClear(p, finding, t, rule)
      BY <1>1 DEF Advance, rule
    <2>2. \/ row = Blank(p) /\ emit = None
          \/ /\ row = [Blank(p) EXCEPT !.state = "open", !.first_true_at = t,
                                       !.opened_at = t, !.last_notified_at = t]
             /\ emit = "opened" /\ ForDuration[p[1]] = 0
          \/ /\ row = [Blank(p) EXCEPT !.state = "pending", !.first_true_at = t]
             /\ emit = None
      BY <2>1, <1>r DEF FromClear, Outcome, row, emit, rule
    <2>3. WatchOf(base) = None /\ AlertOf(base) = None
      BY <1>1 DEF Blank, WatchOf, AlertOf
    <2>4. CASE row = Blank(p) /\ emit = None
      BY <1>1, <2>4 DEF Allowed
    <2>5. CASE /\ row = [Blank(p) EXCEPT !.state = "open", !.first_true_at = t,
                                         !.opened_at = t, !.last_notified_at = t]
               /\ emit = "opened" /\ ForDuration[p[1]] = 0
      <3>1. row.state = "open" /\ row.last_notified_at = t /\ row.notify_seq = 0
        BY <2>5 DEF Blank
      <3>2. AlertOf(row) = [last |-> t, count |-> 0] /\ WatchOf(row) = None
        BY <3>1 DEF AlertOf, WatchOf
      <3> QED BY <2>3, <2>5, <3>2 DEF Allowed
    <2>6. CASE /\ row = [Blank(p) EXCEPT !.state = "pending", !.first_true_at = t]
               /\ emit = None
      <3>1. row.state = "pending" /\ row.first_true_at = t
        BY <2>6 DEF Blank
      <3>2. AlertOf(row) = None /\ WatchOf(row) = t
        BY <3>1 DEF AlertOf, WatchOf
      <3> QED BY <2>3, <2>6, <3>2 DEF Allowed
    <2> QED BY <2>2, <2>4, <2>5, <2>6
  <1>2. CASE e # None /\ e.state = "pending"
    <2>1. /\ e \in Episode(Pairs) /\ base = e
          /\ e.first_true_at \in Nat /\ e.first_true_at # None
      BY <1>2 DEF Opt, Consistent, Episode, Time
    <2>2. WatchOf(base) = e.first_true_at /\ AlertOf(base) = None
      BY <1>2, <2>1 DEF WatchOf, AlertOf
    <2>3. out = FromPending(e, finding, t, rule)
      BY <1>2 DEF Advance, rule
    <2>4. \/ row = Cleared(e) /\ emit = None
          \/ row = Counted(e) /\ emit = None
          \/ row = Promoted(e, t) /\ emit = "opened" /\ Held(e, t, rule)
      BY <2>3 DEF FromPending, Outcome, Promoted, row, emit
    <2>5. CASE row = Cleared(e) /\ emit = None
      <3>1. row.state = "clear"
        BY <2>1, <2>5 DEF Cleared, Episode
      <3>2. WatchOf(row) = None /\ AlertOf(row) = None
        BY <3>1 DEF WatchOf, AlertOf
      <3> QED BY <2>1, <2>2, <2>5, <3>2 DEF Allowed
    <2>6. CASE row = Counted(e) /\ emit = None
      <3>1. row.state = "pending" /\ row.first_true_at = e.first_true_at
        BY <1>2, <2>1, <2>6 DEF Counted, Episode
      <3>2. WatchOf(row) = WatchOf(base) /\ AlertOf(row) = AlertOf(base)
        BY <2>2, <3>1 DEF WatchOf, AlertOf
      <3> QED BY <2>6, <3>2 DEF Allowed
    <2>7. CASE row = Promoted(e, t) /\ emit = "opened" /\ Held(e, t, rule)
      <3>1. row.state = "open" /\ row.last_notified_at = t /\ row.notify_seq = 0
        BY <2>1, <2>7 DEF Promoted, Episode
      <3>2. AlertOf(row) = [last |-> t, count |-> 0] /\ WatchOf(row) = None
        BY <3>1 DEF AlertOf, WatchOf
      <3>3. t - WatchOf(base) >= ForDuration[p[1]]
        BY <2>2, <2>7, <1>r DEF Held
      <3> QED BY <2>1, <2>2, <2>7, <3>2, <3>3 DEF Allowed
    <2> QED BY <2>4, <2>5, <2>6, <2>7
  <1>3. CASE e # None /\ e.state = "open"
    <2>1. /\ e \in Episode(Pairs) /\ base = e
          /\ e.last_notified_at \in Nat /\ e.notify_seq \in Nat
      BY <1>3 DEF Opt, Consistent, Episode, Time
    <2> DEFINE up == [last |-> e.last_notified_at, count |-> e.notify_seq]
    <2>2. AlertOf(base) = up /\ WatchOf(base) = None
      BY <1>3, <2>1 DEF AlertOf, WatchOf
    <2>3. up # None /\ up.last = e.last_notified_at /\ up.count = e.notify_seq
      BY <2>1, NoneIsNoAlert DEF Opt, Time
    <2>4. out = FromOpen(e, finding, t, rule)
      BY <1>3 DEF Advance, rule
    <2>5. \/ row = Frozen(e, t) /\ emit = None
          \/ row = Closed(e, t) /\ emit = "resolved"
          \/ row = Suppress(e) /\ emit = None
          \/ row = Reminded(e, t) /\ emit = "reminder" /\ ReminderDue(e, t, rule)
      <3>1. CASE finding = "unknown"
        BY <2>4, <3>1 DEF FromOpen, Outcome, row, emit
      <3>2. CASE finding = "false"
        BY <2>4, <3>2 DEF FromOpen, Outcome, row, emit
      <3>3. CASE finding = "true"
        BY <2>4, <3>3 DEF FromOpen, Outcome, Reminded, row, emit
      <3> QED BY <3>1, <3>2, <3>3 DEF Findings
    <2>6. CASE row \in {Frozen(e, t), Suppress(e)} /\ emit = None
      <3>1. /\ row.state = "open" /\ row.last_notified_at = e.last_notified_at
            /\ row.notify_seq = e.notify_seq
        BY <1>3, <2>1, <2>6 DEF Frozen, Suppress, Counted, Episode
      <3>2. WatchOf(row) = WatchOf(base) /\ AlertOf(row) = AlertOf(base)
        BY <2>2, <3>1 DEF WatchOf, AlertOf
      <3> QED BY <2>6, <3>2 DEF Allowed
    <2>7. CASE row = Closed(e, t) /\ emit = "resolved"
      <3>1. row.state = "clear"
        BY <2>1, <2>7 DEF Closed, Episode
      <3>2. WatchOf(row) = None /\ AlertOf(row) = None
        BY <3>1 DEF WatchOf, AlertOf
      <3> HIDE DEF up
      <3> QED BY <2>2, <2>3, <2>7, <3>2 DEF Allowed
    <2>8. CASE row = Reminded(e, t) /\ emit = "reminder" /\ ReminderDue(e, t, rule)
      <3>1. /\ row.state = "open" /\ row.last_notified_at = t
            /\ row.notify_seq = e.notify_seq + 1
        BY <1>3, <2>1, <2>8 DEF Reminded, Episode
      <3>2. AlertOf(row) = [last |-> t, count |-> up.count + 1] /\ WatchOf(row) = None
        BY <2>3, <3>1 DEF AlertOf, WatchOf
      <3>3. Cooldown[p[1]] > 0 /\ t - up.last >= Cooldown[p[1]]
        BY <2>3, <2>8, <1>r DEF ReminderDue
      <3> HIDE DEF up
      <3> QED BY <2>2, <2>3, <2>8, <3>2, <3>3 DEF Allowed
    <2> QED BY <2>5, <2>6, <2>7, <2>8
  <1> QED BY <1>1, <1>2, <1>3 DEF ActiveStates

-----------------------------------------------------------------------------
(* The mapping, as a function of the episodes table.                       *)

ActiveIn(table, p) == {i \in EpisodeIds : IsActive(table[i]) /\ table[i].pair = p}

RowAmong(table, p, state) ==
  LET rows == {i \in ActiveIn(table, p) : table[i].state = state}
  IN  IF rows = {} THEN None ELSE table[CHOOSE i \in rows : TRUE]

WatchIn(table, p) ==
  LET e == RowAmong(table, p, "pending") IN IF e = None THEN None ELSE e.first_true_at

AlertIn(table, p) ==
  LET e == RowAmong(table, p, "open")
  IN  IF e = None THEN None ELSE [last |-> e.last_notified_at, count |-> e.notify_seq]

LEMMA MappedTables ==
  /\ Watching = [p \in Pairs |-> WatchIn(episodes, p)]
  /\ Alerting = [p \in Pairs |-> AlertIn(episodes, p)]
  /\ Watching' = [p \in Pairs |-> WatchIn(episodes', p)]
  /\ Alerting' = [p \in Pairs |-> AlertIn(episodes', p)]
  BY DEF Watching, Alerting, RowIn, ActiveOf, WatchIn, AlertIn, RowAmong, ActiveIn

\* The contract sees no more of a table than the active rows of each pair.
LEMMA SameRowsSeen ==
  ASSUME NEW old, NEW new, NEW p, ActiveIn(new, p) = ActiveIn(old, p),
         \A i \in ActiveIn(old, p) : new[i] = old[i]
  PROVE  WatchIn(new, p) = WatchIn(old, p) /\ AlertIn(new, p) = AlertIn(old, p)
  <1>1. ASSUME NEW state PROVE RowAmong(new, p, state) = RowAmong(old, p, state)
    <2> DEFINE rows == {i \in ActiveIn(old, p) : old[i].state = state}
    <2>1. rows = {i \in ActiveIn(new, p) : new[i].state = state}
      OBVIOUS
    <2>2. rows # {} => new[CHOOSE i \in rows : TRUE] = old[CHOOSE i \in rows : TRUE]
      OBVIOUS
    <2> QED BY <2>1, <2>2 DEF RowAmong
  <1> QED BY <1>1 DEF WatchIn, AlertIn

\* Row is the one active row of pair p, or it is clear and there is none.
Current(table, p, row) ==
  \/ /\ row.state = "clear"
     /\ ActiveIn(table, p) = {}
  \/ \E i \in EpisodeIds : /\ table[i] = row
                           /\ ActiveIn(table, p) = {i}

LEMMA CurrentSeen ==
  ASSUME NEW table, NEW p, NEW row \in Episode(Pairs), Current(table, p, row)
  PROVE  WatchIn(table, p) = WatchOf(row) /\ AlertIn(table, p) = AlertOf(row)
  <1>0. row # None
    BY NoneIsNoData
  <1>1. CASE row.state = "clear" /\ ActiveIn(table, p) = {}
    BY <1>1 DEF WatchIn, AlertIn, RowAmong, WatchOf, AlertOf
  <1>2. ASSUME NEW i \in EpisodeIds, table[i] = row, ActiveIn(table, p) = {i}
        PROVE  WatchIn(table, p) = WatchOf(row) /\ AlertIn(table, p) = AlertOf(row)
    <2>1. ASSUME NEW state
          PROVE  RowAmong(table, p, state) = IF row.state = state THEN row ELSE None
      <3> DEFINE rows == {k \in ActiveIn(table, p) : table[k].state = state}
      <3>1. rows = IF row.state = state THEN {i} ELSE {}
        BY <1>2
      <3>2. (CHOOSE k \in {i} : TRUE) = i
        OBVIOUS
      <3> HIDE DEF rows
      <3>3. RowAmong(table, p, state)
              = IF rows = {} THEN None ELSE table[CHOOSE k \in rows : TRUE]
        BY DEF RowAmong, rows
      <3> QED BY <1>2, <3>1, <3>2, <3>3
    <2> QED BY <2>1, <1>0 DEF WatchIn, AlertIn, WatchOf, AlertOf
  <1> QED BY <1>1, <1>2 DEF Current

-----------------------------------------------------------------------------
\* One more notification counts as one more issued.
LEMMA IssuedOne ==
  ASSUME IsFiniteSet(notifications), NEW new \in Notice, new \notin notifications,
         notifications' = notifications \cup {new}
  PROVE  Issued' = [Issued EXCEPT ![new.pair][new.transition] = @ + 1]
  <1> DEFINE Those(S, q, k) == {n \in S : n.pair = q /\ n.transition = k}
             count(q, k) == Cardinality(Those(notifications, q, k))
  <1>1. ASSUME NEW q \in Pairs, NEW k \in Transitions
        PROVE  Cardinality(Those(notifications', q, k))
                 = IF q = new.pair /\ k = new.transition THEN count(q, k) + 1
                   ELSE count(q, k)
    <2>1. IsFiniteSet(Those(notifications, q, k))
      BY FS_Subset
    <2>2. CASE q = new.pair /\ k = new.transition
      <3>1. Those(notifications', q, k) = Those(notifications, q, k) \cup {new}
        BY <2>2
      <3> QED BY <2>1, <2>2, <3>1, FS_AddElement
    <2>3. CASE ~(q = new.pair /\ k = new.transition)
      <3>1. Those(notifications', q, k) = Those(notifications, q, k)
        BY <2>3
      <3> QED BY <2>3, <3>1
    <2> QED BY <2>2, <2>3
  <1>2. /\ Issued = [q \in Pairs |-> [k \in Transitions |-> count(q, k)]]
        /\ Issued' = [q \in Pairs |-> [k \in Transitions |->
                        Cardinality(Those(notifications', q, k))]]
    BY DEF Issued
  <1>3. new.pair \in Pairs /\ new.transition \in Transitions
    BY DEF Notice
  <1> HIDE DEF count, Those
  <1>4. Issued' = [q \in Pairs |-> [k \in Transitions |->
                     IF q = new.pair /\ k = new.transition THEN count(q, k) + 1
                     ELSE count(q, k)]]
    BY <1>1, <1>2
  <1>5. [Issued EXCEPT ![new.pair][new.transition] = @ + 1]
          = [q \in Pairs |-> [k \in Transitions |->
               IF q = new.pair /\ k = new.transition THEN count(q, k) + 1
               ELSE count(q, k)]]
    BY <1>2, <1>3
  <1> QED BY <1>4, <1>5

-----------------------------------------------------------------------------
(* The inductive invariant: what is in hand is allowed from the row that   *)
(* is there now, which is still the only active one of its pair.           *)

InHand(w) ==
  /\ job[w].row.pair = job[w].pair
  /\ ActiveOf(job[w].pair) = IF job[w].prior = None THEN {} ELSE {job[w].prior}
  /\ Allowed(ReadRow(w), job[w].row, job[w].emit, now[w], job[w].pair)

JobsAllowed == \A w \in Workers : pc[w] = "commit" => InHand(w)
InBounds == \A w \in Workers : now[w] \in 0..MaxTime

ContractInv == JobsAllowed /\ InBounds /\ IsFiniteSet(notifications)

LEMMA StepBounds ==
  ASSUME TypeOK, InBounds, [Next]_vars
  PROVE  InBounds'
  <1>1. 0 \in 0..MaxTime
    BY BoundsAssumption
  <1>2. ASSUME NEW w \in Workers, Evaluate(w) \/ Crash(w) PROVE InBounds'
    BY <1>1, <1>2 DEF TypeOK, InBounds, Evaluate, Begin, Decide, Discard, Commit, CommitFails,
         Send, Crash, Die
  <1>3. ASSUME NEW w \in Workers, Loop(w) PROVE InBounds'
    <2>1. CASE OnTick(w)
      <3>1. clock[w] + TickInterval \in 0..MaxTime
        BY <2>1, BoundsAssumption DEF OnTick, TypeOK, Time
      <3> QED BY <2>1, <3>1 DEF OnTick, Trigger, InBounds, TypeOK
    <2> QED BY <1>3, <2>1 DEF Loop, OnEvent, OnSkip, EndRun, Trigger, InBounds, TypeOK
  <1>4. CASE Api \/ UNCHANGED vars
    BY <1>4 DEF Api, CreateRule, DisableRule, vars, InBounds
  <1> QED BY <1>2, <1>3, <1>4 DEF Next

\* The one row read is the one active row of its pair.
LEMMA PriorAlone ==
  ASSUME TypeOK, UniqueActive, NEW p \in Pairs, NEW prior \in GetActive(p)
  PROVE  ActiveOf(p) = IF prior = None THEN {} ELSE {prior}
  <1>1. CASE ActiveOf(p) = {}
    BY <1>1 DEF GetActive
  <1>2. CASE ActiveOf(p) # {}
    <2>1. prior \in ActiveOf(p) /\ prior # None
      BY <1>2, NoneIsNoData DEF GetActive, ActiveOf
    <2>2. \A i \in ActiveOf(p) : i = prior
      BY <2>1 DEF ActiveOf, UniqueActive
    <2> QED BY <2>1, <2>2
  <1> QED BY <1>1, <1>2

LEMMA StepAllowed ==
  ASSUME Serial, OneWorker, Typed, UniqueActive, JobsAllowed, [Next]_vars
  PROVE  JobsAllowed'
  <1> SUFFICES ASSUME NEW v \in Workers, pc'[v] = "commit"
               PROVE  InHand(v)'
    BY DEF JobsAllowed
  <1>1. CASE pc[v] = "commit" /\ job'[v] = job[v]
    <2>1. ~Commit(v) /\ now'[v] = now[v]
      BY <1>1, WaitingSteps DEF Typed
    <2>2. ~Api
      BY <1>1, ApiSteps
    <2>3. episodes' = episodes
      BY <2>1, <2>2, TableSteps DEF OneWorker, Api, Typed
    <2>4. InHand(v)
      BY <1>1 DEF JobsAllowed
    <2> QED BY <1>1, <2>1, <2>3, <2>4 DEF InHand, ReadRow, ActiveOf
  <1>2. ASSUME NEW finding \in Findings, Decide(v, finding)
        PROVE  InHand(v)'
    <2> DEFINE p == job[v].pair
               out(prior) == Advance(Row(prior), p, finding, now[v], RuleOf(p))
    <2>1. p \in Pairs /\ now[v] \in Time
      BY <1>2 DEF Decide, Typed, TypeOK
    <2>2. PICK prior \in GetActive(p) :
            job' = [job EXCEPT ![v] = [pair |-> p, prior |-> prior,
                      row |-> out(prior).row, emit |-> out(prior).emit]]
      BY <1>2 DEF Decide
    <2>3. /\ job'[v].pair = p /\ job'[v].prior = prior
          /\ job'[v].row = out(prior).row /\ job'[v].emit = out(prior).emit
      BY <2>2 DEF Typed, TypeOK
    <2>4. episodes' = episodes /\ now' = now
      BY <1>2 DEF Decide, db
    <2>5. /\ Row(prior) \in Opt(Episode(Pairs))
          /\ prior = None => Row(prior) = None
          /\ prior # None => /\ prior \in EpisodeIds /\ Row(prior) = episodes[prior]
                             /\ IsActive(episodes[prior])
          /\ Row(prior) # None => Row(prior).state \in ActiveStates /\ Row(prior).pair = p
      BY <2>1, PriorRow DEF Typed
    <2>6. Row(prior) # None => Consistent(Row(prior))
      BY <2>5 DEF Typed, RowsLoad
    <2> DEFINE e == IF Row(prior) = None THEN Blank(p) ELSE Row(prior)
    <2>7. Allowed(e, out(prior).row, out(prior).emit, now[v], p)
      BY <2>1, <2>5, <2>6, AdvanceAllowed
    <2>8. ReadRow(v)' = e
      BY <2>3, <2>4, <2>5 DEF ReadRow, IsActive
    <2>9. out(prior).row.pair = p
      BY <2>1, <2>5, RuleOfType, AdvanceType
    <2>10. ActiveOf(p) = IF prior = None THEN {} ELSE {prior}
      BY <2>1, PriorAlone DEF Typed
    <2>11. ActiveOf(job[v].pair)' = ActiveOf(p)
      BY <2>3, <2>4 DEF ActiveOf
    <2> HIDE DEF out, e, p
    <2> QED BY <2>3, <2>4, <2>7, <2>8, <2>9, <2>10, <2>11 DEF InHand
  <1> QED BY <1>1, <1>2, JobSteps DEF Typed

LEMMA StepFinite ==
  ASSUME Typed, LedgerInv, IsFiniteSet(notifications), [Next]_vars
  PROVE  IsFiniteSet(notifications)'
  <1>1. CASE notifications' = notifications
    BY <1>1
  <1>2. ASSUME NEW w \in Workers, Commit(w) PROVE IsFiniteSet(notifications')
    <2>1. \E new : notifications' \in {notifications, notifications \cup {new}}
      BY <1>2, CommitStory
    <2> QED BY <2>1, FS_AddElement
  <1> QED BY <1>1, <1>2, TableSteps DEF Typed, DisableRule

-----------------------------------------------------------------------------
(* Every step is one of the contract's.                                    *)

\* A commit changes what is seen of its own pair, from the row read to the
\* row written, and of no other.
LEMMA CommitSeen ==
  ASSUME Typed, LedgerInv, JobsAllowed, NEW w \in Workers, Commit(w)
  PROVE  LET p == job[w].pair
             e == ReadRow(w)
             row == job[w].row
         IN  /\ Watching[p] = WatchOf(e) /\ Alerting[p] = AlertOf(e)
             /\ Watching' = [Watching EXCEPT ![p] = WatchOf(row)]
             /\ Alerting' = [Alerting EXCEPT ![p] = AlertOf(row)]
  <1> DEFINE p == job[w].pair
             e == ReadRow(w)
             row == job[w].row
  <1>1. PICK i \in EpisodeIds, f \in Episode(Pairs) :
          /\ episodes' = [episodes EXCEPT ![i] = row]
          /\ episodes[i] = f \/ episodes[i] = None
          /\ f = e /\ i \in Target(w)
    BY CommitStory
  <1>2. /\ p \in Pairs /\ row \in Episode(Pairs) /\ row # None /\ e \in Episode(Pairs)
        /\ job[w].prior \in Opt(EpisodeIds)
    BY <1>1, NoneIsNoData DEF Commit, Typed, TypeOK, Job
  <1>3. InHand(w) /\ InFlight(w)
    BY DEF Commit, JobsAllowed, LedgerInv, JobsContinue
  <1>4. e.pair = p /\ row.pair = p
    BY <1>3 DEF InHand, InFlight
  <1>5. \A k \in EpisodeIds : episodes'[k] = IF k = i THEN row ELSE episodes[k]
    BY <1>1 DEF Typed, TypeOK
  <1>6. ActiveIn(episodes, p) \subseteq {i}
    <2>1. ActiveIn(episodes, p) = ActiveOf(p)
      BY DEF ActiveIn, ActiveOf
    <2> QED BY <2>1, <1>1, <1>3 DEF InHand, Target
  <1>7. Current(episodes, p, e)
    <2>1. CASE job[w].prior = None
      <3>1. e = Blank(p) /\ ActiveIn(episodes, p) = {}
        BY <2>1, <1>3 DEF ReadRow, InHand, ActiveOf, ActiveIn
      <3> QED BY <3>1 DEF Current, Blank
    <2>2. CASE job[w].prior # None
      <3>1. e = episodes[job[w].prior] /\ ActiveIn(episodes, p) = {job[w].prior}
        BY <2>2, <1>3 DEF ReadRow, InHand, ActiveOf, ActiveIn
      <3>2. job[w].prior \in EpisodeIds
        BY <2>2, <1>2 DEF Opt
      <3> QED BY <3>1, <3>2 DEF Current
    <2> QED BY <2>1, <2>2
  <1>8. Current(episodes', p, row)
    <2>1. \A k \in EpisodeIds \ {i} : k \notin ActiveIn(episodes', p)
      BY <1>5, <1>6 DEF ActiveIn
    <2>2. i \in ActiveIn(episodes', p) <=> row.state \in ActiveStates
      BY <1>2, <1>4, <1>5 DEF ActiveIn, IsActive
    <2>3. ActiveIn(episodes', p) = IF row.state \in ActiveStates THEN {i} ELSE {}
      BY <2>1, <2>2 DEF ActiveIn
    <2>4. row.state \in States
      BY <1>2 DEF Episode
    <2> QED BY <1>5, <2>3, <2>4 DEF Current, States, ActiveStates
  <1>9. ASSUME NEW q \in Pairs, q # p
        PROVE  WatchIn(episodes', q) = WatchIn(episodes, q)
               /\ AlertIn(episodes', q) = AlertIn(episodes, q)
    <2>1. i \notin ActiveIn(episodes, q) /\ i \notin ActiveIn(episodes', q)
      BY <1>1, <1>2, <1>4, <1>5, <1>9 DEF ActiveIn, IsActive
    <2>2. ActiveIn(episodes', q) = ActiveIn(episodes, q)
      BY <1>5, <2>1 DEF ActiveIn
    <2>3. \A k \in ActiveIn(episodes, q) : episodes'[k] = episodes[k]
      BY <1>5, <2>1 DEF ActiveIn
    <2> QED BY <2>2, <2>3, SameRowsSeen
  <1>10. /\ WatchIn(episodes, p) = WatchOf(e) /\ AlertIn(episodes, p) = AlertOf(e)
         /\ WatchIn(episodes', p) = WatchOf(row) /\ AlertIn(episodes', p) = AlertOf(row)
    BY <1>2, <1>7, <1>8, CurrentSeen
  <1> HIDE DEF p, e, row
  <1>11. /\ Watching[p] = WatchOf(e) /\ Alerting[p] = AlertOf(e)
         /\ Watching' = [Watching EXCEPT ![p] = WatchOf(row)]
         /\ Alerting' = [Alerting EXCEPT ![p] = AlertOf(row)]
    BY <1>2, <1>9, <1>10, MappedTables
  <1> QED BY <1>11 DEF p, e, row

LEMMA CommitKeeps ==
  ASSUME Typed, LedgerInv, ContractInv, NEW w \in Workers, Commit(w)
  PROVE  [Contract!Next]_<<Watching, Alerting, Issued>>
  <1> DEFINE p == job[w].pair
             e == ReadRow(w)
             row == job[w].row
             emit == job[w].emit
             t == now[w]
  <1>1. /\ Watching[p] = WatchOf(e) /\ Alerting[p] = AlertOf(e)
        /\ Watching' = [Watching EXCEPT ![p] = WatchOf(row)]
        /\ Alerting' = [Alerting EXCEPT ![p] = AlertOf(row)]
    BY CommitSeen DEF ContractInv
  <1>2. p \in Pairs /\ t \in 0..MaxTime
    BY DEF Commit, Typed, TypeOK, ContractInv, InBounds
  <1>3. Allowed(e, row, emit, t, p)
    BY DEF Commit, ContractInv, JobsAllowed, InHand
  <1>4. /\ emit = None => Issued' = Issued
        /\ emit # None => Issued' = [Issued EXCEPT ![p][emit] = @ + 1]
    <2>1. PICK i \in EpisodeIds, f \in Episode(Pairs) :
            LET new == NoticeOf(i, f.pair, row, emit, t)
            IN  /\ notifications' = notifications \cup (IF emit = None THEN {} ELSE {new})
                /\ new \in Notice \/ emit = None
                /\ new \notin notifications \/ emit = None
                /\ f = e
      BY CommitStory
    <2> DEFINE new == NoticeOf(i, f.pair, row, emit, t)
    <2>2. CASE emit = None
      BY <2>1, <2>2 DEF Issued
    <2>3. CASE emit # None
      <3>1. f.pair = p
        BY <2>1 DEF Commit, LedgerInv, JobsContinue, InFlight
      <3>2. new.pair = p /\ new.transition = emit
        BY <3>1 DEF NoticeOf
      <3>3. /\ new \in Notice /\ new \notin notifications
            /\ notifications' = notifications \cup {new}
        BY <2>1, <2>3
      <3> HIDE DEF new, p, emit
      <3> QED BY <2>3, <3>2, <3>3, IssuedOne DEF ContractInv
    <2> QED BY <2>2, <2>3
  <1>5. None \notin {"opened", "reminder", "resolved"}
    BY NoneAssumption
  <1>6. /\ Watching = [Watching EXCEPT ![p] = @] /\ Alerting = [Alerting EXCEPT ![p] = @]
    BY <1>2 DEF Watching, Alerting
  <1>7. p[1] \in {q[1] : q \in Pairs} /\ [q \in Pairs |-> ForDuration[q[1]]][p] = ForDuration[p[1]]
        /\ [q \in Pairs |-> Cooldown[q[1]]][p] = Cooldown[p[1]]
    BY <1>2
  <1> HIDE DEF p, e, row, emit, t
  <1>8. CASE /\ emit = None
             /\ WatchOf(row) = WatchOf(e) /\ AlertOf(row) = AlertOf(e)
    BY <1>1, <1>4, <1>6, <1>8
  <1>9. CASE /\ emit = None
             /\ AlertOf(e) = None /\ WatchOf(e) = None
             /\ AlertOf(row) = None /\ WatchOf(row) = t
    <2>1. Contract!Watch(p, t)
      BY <1>1, <1>4, <1>6, <1>9 DEF Contract!Watch
    <2> QED BY <1>2, <2>1 DEF Contract!Next
  <1>10. CASE /\ emit = None
              /\ AlertOf(e) = None /\ WatchOf(e) # None
              /\ AlertOf(row) = None /\ WatchOf(row) = None
    <2>1. Contract!Unwatch(p)
      BY <1>1, <1>4, <1>6, <1>10 DEF Contract!Unwatch
    <2> QED BY <1>2, <2>1 DEF Contract!Next
  <1>11. CASE /\ emit = "opened"
              /\ AlertOf(e) = None
              /\ IF WatchOf(e) = None THEN ForDuration[p[1]] = 0
                                      ELSE t - WatchOf(e) >= ForDuration[p[1]]
              /\ AlertOf(row) = [last |-> t, count |-> 0] /\ WatchOf(row) = None
    <2>1. Contract!Raise(p, t)
      BY <1>1, <1>4, <1>5, <1>7, <1>11 DEF Contract!Raise, Contract!Issue
    <2> QED BY <1>2, <2>1 DEF Contract!Next
  <1>12. CASE /\ emit = "reminder"
              /\ AlertOf(e) # None
              /\ Cooldown[p[1]] > 0 /\ t - AlertOf(e).last >= Cooldown[p[1]]
              /\ AlertOf(row) = [last |-> t, count |-> AlertOf(e).count + 1]
              /\ WatchOf(row) = WatchOf(e)
    <2>1. Contract!Repeat(p, t)
      BY <1>1, <1>4, <1>5, <1>6, <1>7, <1>12 DEF Contract!Repeat, Contract!Issue
    <2> QED BY <1>2, <2>1 DEF Contract!Next
  <1>13. CASE /\ emit = "resolved"
              /\ AlertOf(e) # None
              /\ AlertOf(row) = None /\ WatchOf(row) = WatchOf(e)
    <2>1. Contract!Resolve(p)
      BY <1>1, <1>4, <1>5, <1>6, <1>13 DEF Contract!Resolve, Contract!Issue
    <2> QED BY <1>2, <2>1 DEF Contract!Next
  <1> QED BY <1>3, <1>8, <1>9, <1>10, <1>11, <1>12, <1>13 DEF Allowed

\* Disabling a rule drops what its pairs are watching or alerting about.
LEMMA DisableKeeps ==
  ASSUME TypeOK, NEW r \in Rules, DisableRule(r)
  PROVE  [Contract!Next]_<<Watching, Alerting, Issued>>
  <1>1. /\ \A i \in EpisodeIds : episodes'[i] = CloseSilently(episodes[i], r)
        /\ notifications' = notifications
    BY DEF DisableRule
  <1>2. \A i \in EpisodeIds : IsActive(episodes'[i]) =>
          episodes'[i] = episodes[i] /\ episodes[i].pair[1] # r
    <2> TAKE i \in EpisodeIds
    <2>1. episodes[i] \in Opt(Episode(Pairs))
      BY DEF TypeOK
    <2>2. IsActive(episodes'[i]) => episodes'[i] = episodes[i]
      BY <1>1, <2>1, CloseType
    <2>3. CASE IsActive(episodes[i]) /\ episodes[i].pair[1] = r
      <3>1. episodes'[i].state = "clear"
        BY <1>1, <2>1, <2>3 DEF CloseSilently, IsActive, Opt, Episode
      <3> QED BY <3>1 DEF IsActive, ActiveStates
    <2> QED BY <2>2, <2>3 DEF IsActive
  <1>3. ASSUME NEW i \in EpisodeIds, IsActive(episodes[i]), episodes[i].pair[1] # r
        PROVE  episodes'[i] = episodes[i]
    BY <1>1, <1>3 DEF CloseSilently
  <1>4. ASSUME NEW p \in Pairs, p[1] = r
        PROVE  WatchIn(episodes', p) = None /\ AlertIn(episodes', p) = None
    <2>1. ActiveIn(episodes', p) = {}
      BY <1>2, <1>4 DEF ActiveIn
    <2> QED BY <2>1 DEF WatchIn, AlertIn, RowAmong
  <1>5. ASSUME NEW p \in Pairs, p[1] # r
        PROVE  WatchIn(episodes', p) = WatchIn(episodes, p)
               /\ AlertIn(episodes', p) = AlertIn(episodes, p)
    <2>1. \A i \in ActiveIn(episodes, p) : episodes'[i] = episodes[i]
      BY <1>3, <1>5 DEF ActiveIn
    <2>2. ActiveIn(episodes', p) = ActiveIn(episodes, p)
      BY <1>2, <2>1 DEF ActiveIn
    <2> QED BY <2>1, <2>2, SameRowsSeen
  <1>6. /\ Watching' = [p \in Pairs |-> IF p[1] = r THEN None ELSE Watching[p]]
        /\ Alerting' = [p \in Pairs |-> IF p[1] = r THEN None ELSE Alerting[p]]
    BY <1>4, <1>5, MappedTables
  <1>7. Issued' = Issued
    BY <1>1 DEF Issued
  <1>8. CASE \E p \in Pairs : p[1] = r
    <2> DEFINE owner == [p \in Pairs |-> p[1]]
    <2>1. r \in {owner[p] : p \in Pairs}
      BY <1>8
    <2>2. Contract!Withdraw(r)
      BY <1>6, <1>7 DEF Contract!Withdraw
    <2> QED BY <2>1, <2>2 DEF Contract!Next
  <1>9. CASE \A p \in Pairs : p[1] # r
    <2>1. Watching' = Watching /\ Alerting' = Alerting
      BY <1>6, <1>9 DEF Watching, Alerting
    <2> QED BY <2>1, <1>7
  <1> QED BY <1>8, <1>9

LEMMA StepKeeps ==
  ASSUME Typed, LedgerInv, ContractInv, [Next]_vars
  PROVE  [Contract!Next]_<<Watching, Alerting, Issued>>
  <1>1. CASE UNCHANGED <<episodes, notifications>>
    <2>1. UNCHANGED <<Watching, Alerting, Issued>>
      BY <1>1, MappedTables DEF Issued
    <2> QED BY <2>1
  <1> QED BY <1>1, CommitKeeps, DisableKeeps, TableSteps DEF Typed

LEMMA InitKeeps == Init => Contract!Init /\ ContractInv
  <1> SUFFICES ASSUME Init PROVE Contract!Init /\ ContractInv
    OBVIOUS
  <1>1. ASSUME NEW p \in Pairs
        PROVE  WatchIn(episodes, p) = None /\ AlertIn(episodes, p) = None
    <2>1. ActiveIn(episodes, p) = {}
      BY DEF Init, ActiveIn, IsActive
    <2> QED BY <2>1 DEF WatchIn, AlertIn, RowAmong
  <1>2. Watching = [p \in Pairs |-> None] /\ Alerting = [p \in Pairs |-> None]
    BY <1>1, MappedTables
  <1>3. Issued = [p \in Pairs |-> [k \in {"opened", "reminder", "resolved"} |-> 0]]
    <2>1. \A p \in Pairs, k \in Transitions :
            {n \in notifications : n.pair = p /\ n.transition = k} = {}
      BY DEF Init
    <2> QED BY <2>1, FS_EmptySet DEF Issued, Transitions
  <1>4. ContractInv
    BY BoundsAssumption, FS_EmptySet DEF Init, ContractInv, JobsAllowed, InBounds
  <1> QED BY <1>2, <1>3, <1>4 DEF Contract!Init, Contract!Nothing, Contract!Kinds

\* The engine keeps the contract with the author of a rule: nothing that it
\* reads early and writes late, nor a file out of order, nor a crash with the
\* restart after it, makes an alert appear, repeat, end or vanish otherwise.
THEOREM EngineKeepsContract == Serial /\ OneWorker => (Spec => KeepsContract)
  <1> SUFFICES ASSUME Serial, OneWorker PROVE Spec => KeepsContract
    OBVIOUS
  <1>1. TypeOK /\ RowsLoad /\ UniqueActive /\ LedgerInv /\ ContractInv /\ [Next]_vars
          => ContractInv'
    BY StepAllowed, StepBounds, StepFinite DEF Typed, ContractInv
  <1>2. TypeOK /\ RowsLoad /\ LedgerInv /\ ContractInv /\ [Next]_vars
          => [Contract!Next]_<<Watching, Alerting, Issued>>
    BY StepKeeps DEF Typed
  <1>3. Contract!Spec <=> Contract!Init /\ [][Contract!Next]_<<Watching, Alerting, Issued>>
    BY DEF Contract!Spec, Contract!vars
  <1> QED BY <1>1, <1>2, <1>3, InitKeeps, TypeCorrect, ActiveRowsLoad, OneActiveEpisode,
       LedgerInductive, PTL DEF Spec, KeepsContract

=============================================================================
