---------------------------- MODULE EngineProofs ----------------------------
(***************************************************************************)
(* The engine's safety properties, proved for any number of rules,         *)
(* subjects, episodes and workers, with the API and crashes interleaved    *)
(* at will and whatever the bounds of the model, from what one call of     *)
(* advance() returns for every episode, finding, time and rule.            *)
(***************************************************************************)
EXTENDS EngineProperties, TLAPS

-----------------------------------------------------------------------------
(* One call of advance().                                                  *)


RuleFields == [for_duration : Nat, cooldown : Nat]

\* The rows advance() may return, by where it starts from.
Started(p, t) ==
  {Blank(p),
   [Blank(p) EXCEPT !.state = "open", !.first_true_at = t, !.opened_at = t,
                    !.last_notified_at = t],
   [Blank(p) EXCEPT !.state = "pending", !.first_true_at = t]}

Promoted(e, t) ==
  [e EXCEPT !.state = "open", !.opened_at = t, !.last_notified_at = t, !.notify_seq = 0]

Reminded(e, t) ==
  [e EXCEPT !.notify_seq = @ + 1, !.last_notified_at = t, !.stale_since = None]

\* Each of the ways a row is rewritten keeps it a row of the same pair.
LEMMA RewriteType ==
  ASSUME NEW Owners, NEW e \in Episode(Owners), NEW t \in Time
  PROVE  /\ Counted(e) \in Episode(Owners) /\ Counted(e).pair = e.pair
         /\ Suppress(e) \in Episode(Owners) /\ Suppress(e).pair = e.pair
         /\ Cleared(e) \in Episode(Owners) /\ Cleared(e).pair = e.pair
         /\ Promoted(e, t) \in Episode(Owners) /\ Promoted(e, t).pair = e.pair
         /\ Frozen(e, t) \in Episode(Owners) /\ Frozen(e, t).pair = e.pair
         /\ Closed(e, t) \in Episode(Owners) /\ Closed(e, t).pair = e.pair
         /\ Reminded(e, t) \in Episode(Owners) /\ Reminded(e, t).pair = e.pair
  <1>0. /\ e.evaluations_suppressed + 1 \in Nat
        /\ e.notify_seq + 1 \in Nat
    <2>1. e.evaluations_suppressed \in Nat /\ e.notify_seq \in Nat
      BY DEF Episode
    <2> QED BY <2>1
  <1> DEFINE n == e.evaluations_suppressed + 1
             k == e.notify_seq + 1
  <1>n. n \in Nat /\ k \in Nat
    BY <1>0
  <1>e. /\ Counted(e) = [e EXCEPT !.evaluations_suppressed = n]
        /\ Reminded(e, t) = [e EXCEPT !.notify_seq = k, !.last_notified_at = t,
                                      !.stale_since = None]
    BY DEF Counted, Reminded
  <1> HIDE DEF n, k
  <1> USE DEF Episode, Opt, Time, States
  <1>c. Counted(e) \in Episode(Owners) /\ Counted(e).pair = e.pair
    BY <1>n, <1>e
  <1>1. Suppress(e) \in Episode(Owners) /\ Suppress(e).pair = e.pair
    BY <1>c DEF Suppress
  <1>2. Cleared(e) \in Episode(Owners) /\ Cleared(e).pair = e.pair
    BY DEF Cleared
  <1>3. Promoted(e, t) \in Episode(Owners) /\ Promoted(e, t).pair = e.pair
    BY DEF Promoted
  <1>4. Frozen(e, t) \in Episode(Owners) /\ Frozen(e, t).pair = e.pair
    BY DEF Frozen, Stale
  <1>5. Closed(e, t) \in Episode(Owners) /\ Closed(e, t).pair = e.pair
    BY DEF Closed
  <1>6. Reminded(e, t) \in Episode(Owners) /\ Reminded(e, t).pair = e.pair
    BY <1>n, <1>e
  <1> QED BY <1>c, <1>1, <1>2, <1>3, <1>4, <1>5, <1>6

LEMMA StartedType ==
  ASSUME NEW Owners, NEW p \in Owners, NEW t \in Time, NEW row \in Started(p, t)
  PROVE  row \in Episode(Owners) /\ row.pair = p
  <1>1. Blank(p) \in Episode(Owners) /\ Blank(p).pair = p
    BY DEF Blank, Episode, Opt, States
  <1> HIDE DEF Blank
  <1>2. [Blank(p) EXCEPT !.state = "pending", !.first_true_at = t] \in Episode(Owners)
    BY <1>1 DEF Episode, Opt, Time, States
  <1>3. [Blank(p) EXCEPT !.state = "open", !.first_true_at = t, !.opened_at = t,
                         !.last_notified_at = t] \in Episode(Owners)
    BY <1>1 DEF Episode, Opt, Time, States
  <1> QED BY <1>1, <1>2, <1>3 DEF Started, Episode

\* What advance() may return from no episode, a pending and an open one.
LEMMA AdvanceFromNone ==
  ASSUME NEW p, NEW finding \in Findings, NEW t \in Time, NEW rule \in RuleFields
  PROVE  /\ Advance(None, p, finding, t, rule).row \in Started(p, t)
         /\ Advance(None, p, finding, t, rule).emit \in {None, "opened"}
  BY DEF Advance, FromClear, Outcome, Started

LEMMA AdvanceFromPending ==
  ASSUME NEW Owners, NEW e \in Episode(Owners), e # None, e.state = "pending",
         NEW p, NEW finding \in Findings, NEW t \in Time, NEW rule \in RuleFields
  PROVE  LET out == Advance(e, p, finding, t, rule) IN
         \/ out.row = Cleared(e) /\ out.emit = None
         \/ out.row = Counted(e) /\ out.emit = None
         \/ out.row = Promoted(e, t) /\ out.emit = "opened"
  <1>1. Advance(e, p, finding, t, rule) = FromPending(e, finding, t, rule)
    BY DEF Advance
  <1> QED BY <1>1 DEF FromPending, Outcome, Promoted

LEMMA AdvanceFromOpen ==
  ASSUME NEW Owners, NEW e \in Episode(Owners), e # None, e.state = "open",
         NEW p, NEW finding \in Findings, NEW t \in Time, NEW rule \in RuleFields
  PROVE  LET out == Advance(e, p, finding, t, rule) IN
         \/ out.row = Frozen(e, t) /\ out.emit = None
         \/ out.row = Closed(e, t) /\ out.emit = "resolved"
         \/ out.row = Suppress(e) /\ out.emit = None
         \/ out.row = Reminded(e, t) /\ out.emit = "reminder"
  <1>1. Advance(e, p, finding, t, rule) = FromOpen(e, finding, t, rule)
    BY DEF Advance
  <1>2. CASE finding = "unknown"
    BY <1>1, <1>2 DEF FromOpen, Outcome
  <1>3. CASE finding = "false"
    BY <1>1, <1>3 DEF FromOpen, Outcome
  <1>4. CASE finding = "true"
    BY <1>1, <1>4 DEF FromOpen, Outcome, Reminded
  <1> QED BY <1>2, <1>3, <1>4 DEF Findings

-----------------------------------------------------------------------------
\* advance() returns a well-typed row of the same pair, and at most one
\* transition.
LEMMA AdvanceType ==
  ASSUME NEW Owners, NEW p \in Owners, NEW e \in Opt(Episode(Owners)),
         e # None => e.state \in ActiveStates /\ e.pair = p,
         NEW finding \in Findings, NEW t \in Time, NEW rule \in RuleFields
  PROVE  /\ Advance(e, p, finding, t, rule).row \in Episode(Owners)
         /\ Advance(e, p, finding, t, rule).row.pair = p
         /\ Advance(e, p, finding, t, rule).emit \in Opt(Transitions)
  <1> DEFINE out == Advance(e, p, finding, t, rule)
  <1>1. CASE e = None
    BY <1>1, AdvanceFromNone, StartedType DEF Opt, Transitions
  <1>2. CASE e # None /\ e.state = "pending"
    <2>1. e \in Episode(Owners)
      BY <1>2 DEF Opt
    <2>2. \/ out.row = Cleared(e) /\ out.emit = None
          \/ out.row = Counted(e) /\ out.emit = None
          \/ out.row = Promoted(e, t) /\ out.emit = "opened"
      BY <1>2, <2>1, AdvanceFromPending
    <2> QED BY <1>2, <2>1, <2>2, RewriteType DEF Opt, Transitions
  <1>3. CASE e # None /\ e.state = "open"
    <2>1. e \in Episode(Owners)
      BY <1>3 DEF Opt
    <2>2. \/ out.row = Frozen(e, t) /\ out.emit = None
          \/ out.row = Closed(e, t) /\ out.emit = "resolved"
          \/ out.row = Suppress(e) /\ out.emit = None
          \/ out.row = Reminded(e, t) /\ out.emit = "reminder"
      BY <1>3, <2>1, AdvanceFromOpen
    <2> QED BY <1>3, <2>1, <2>2, RewriteType DEF Opt, Transitions
  <1> QED BY <1>1, <1>2, <1>3 DEF ActiveStates

\* Whatever it is given, advance() never produces an active row that the
\* Episode model would refuse to load.
LEMMA AdvanceConsistent ==
  ASSUME NEW Owners, NEW p \in Owners, NEW e \in Opt(Episode(Owners)),
         e # None => e.state \in ActiveStates /\ Consistent(e),
         NEW finding \in Findings, NEW t \in Time, NEW rule \in RuleFields
  PROVE  LET row == Advance(e, p, finding, t, rule).row
         IN  row.state \in ActiveStates => Consistent(row)
  <1> DEFINE row == Advance(e, p, finding, t, rule).row
  <1>0. t # None
    BY NoneAssumption DEF Time
  <1> SUFFICES row.state \in ActiveStates => Consistent(row)
    OBVIOUS
  <1> HIDE DEF row
  <1>1. CASE e = None
    <2>1. row \in Started(p, t)
      BY <1>1, AdvanceFromNone DEF row
    <2>2. CASE row = Blank(p)
      BY <2>2 DEF Blank, ActiveStates
    <2>3. CASE row = [Blank(p) EXCEPT !.state = "open", !.first_true_at = t,
                                      !.opened_at = t, !.last_notified_at = t]
      BY <2>3, <1>0 DEF Blank, Consistent, Stale
    <2>4. CASE row = [Blank(p) EXCEPT !.state = "pending", !.first_true_at = t]
      BY <2>4, <1>0 DEF Blank, Consistent, Stale
    <2> QED BY <2>1, <2>2, <2>3, <2>4 DEF Started
  <1>2. CASE e # None /\ e.state = "pending"
    <2>1. e \in Episode(Owners)
      BY <1>2 DEF Opt
    <2>2. row \in {Cleared(e), Counted(e), Promoted(e, t)}
      BY <1>2, <2>1, AdvanceFromPending DEF row
    <2> QED BY <2>1, <2>2, <1>0, <1>2
      DEF Cleared, Counted, Promoted, Consistent, Stale, ActiveStates, Episode
  <1>3. CASE e # None /\ e.state = "open"
    <2>1. e \in Episode(Owners)
      BY <1>3 DEF Opt
    <2>2. row \in {Frozen(e, t), Closed(e, t), Suppress(e), Reminded(e, t)}
      BY <1>3, <2>1, AdvanceFromOpen DEF row
    <2>3. e.opened_at # None /\ e.last_notified_at # None
      BY <1>3 DEF Consistent
    <2>4. CASE row = Frozen(e, t)
      BY <2>1, <2>3, <2>4, <1>0, <1>3 DEF Frozen, Consistent, Stale, Episode
    <2>5. CASE row = Closed(e, t)
      BY <2>1, <2>5 DEF Closed, ActiveStates, Episode
    <2>6. CASE row = Suppress(e)
      BY <2>1, <2>3, <2>6, <1>3 DEF Suppress, Counted, Consistent, Stale, Episode
    <2>7. CASE row = Reminded(e, t)
      BY <2>1, <2>3, <2>7, <1>0, <1>3 DEF Reminded, Consistent, Stale, Episode
    <2> QED BY <2>2, <2>4, <2>5, <2>6, <2>7
  <1> QED BY <1>1, <1>2, <1>3 DEF ActiveStates

-----------------------------------------------------------------------------
(* The types of the engine's state.                                        *)

\* The rule record evaluate_rule hands to advance().
LEMMA RuleOfType ==
  ASSUME NEW p \in Pairs
  PROVE  RuleOf(p) \in RuleFields
  BY RulesAssumption DEF RuleOf, RuleFields, Pairs

\* What evaluate_rule reads as the prior episode is no row, or an active row
\* of its pair.
LEMMA PriorRow ==
  ASSUME TypeOK, NEW p \in Pairs, NEW prior \in GetActive(p)
  PROVE  /\ prior \in Opt(EpisodeIds)
         /\ Row(prior) \in Opt(Episode(Pairs))
         /\ prior = None => Row(prior) = None
         /\ prior # None => /\ prior \in EpisodeIds
                            /\ Row(prior) = episodes[prior]
                            /\ IsActive(episodes[prior])
         /\ Row(prior) # None => /\ Row(prior).state \in ActiveStates
                                 /\ Row(prior).pair = p
  <1>1. CASE prior = None
    BY <1>1 DEF Row, Opt
  <1>2. CASE prior # None
    <2>1. prior \in ActiveOf(p)
      BY <1>2 DEF GetActive
    <2>2. prior \in EpisodeIds /\ IsActive(episodes[prior]) /\ episodes[prior].pair = p
      BY <2>1 DEF ActiveOf
    <2>3. Row(prior) = episodes[prior]
      BY <1>2 DEF Row
    <2> QED BY <1>2, <2>2, <2>3 DEF TypeOK, Opt, IsActive
  <1> QED BY <1>1, <1>2

\* A row is written only to a row id of the table.
LEMMA TargetType ==
  ASSUME TypeOK, NEW w \in Workers, NEW i \in Target(w)
  PROVE  i \in EpisodeIds
  BY DEF Target, TypeOK, Job, Opt

LEMMA NotifyType ==
  ASSUME TypeOK, NEW w \in Workers, pc[w] = "commit", NEW i \in EpisodeIds
  PROVE  Notify(w, i) \in SUBSET Notice
  <1>1. /\ job[w].pair \in Pairs
        /\ job[w].row.notify_seq \in Nat
        /\ job[w].emit \in Opt(Transitions)
        /\ now[w] \in Time
    BY DEF TypeOK, Job, Episode
  <1> QED BY <1>1 DEF Notify, Notice, Opt

\* Closing a rule's episodes keeps every row's type, and activates none.
LEMMA CloseType ==
  ASSUME NEW row \in Opt(Episode(Pairs)), NEW r
  PROVE  /\ CloseSilently(row, r) \in Opt(Episode(Pairs))
         /\ IsActive(CloseSilently(row, r)) => CloseSilently(row, r) = row
  <1>1. CASE IsActive(row) /\ row.pair[1] = r
    <2>1. row \in Episode(Pairs)
      BY <1>1 DEF IsActive, Opt
    <2>2. CloseSilently(row, r) = [row EXCEPT !.state = "clear", !.closed_at = Wall]
      BY <1>1 DEF CloseSilently
    <2>3. CloseSilently(row, r) \in Episode(Pairs)
      BY <2>1, <2>2, BoundsAssumption DEF Episode, Opt, Time, States
    <2>4. CloseSilently(row, r).state = "clear"
      BY <2>1, <2>2 DEF Episode
    <2> QED BY <2>3, <2>4 DEF Opt, IsActive, ActiveStates
  <1>2. CASE ~(IsActive(row) /\ row.pair[1] = r)
    BY <1>2 DEF CloseSilently
  <1> QED BY <1>1, <1>2

-----------------------------------------------------------------------------
LEMMA InitType == Init => TypeOK
  BY DEF Init, TypeOK, RuleStates, Opt, Job, NoJob, Time

LEMMA DieType ==
  ASSUME TypeOK, NEW w \in Workers, Die(w)
  PROVE  TypeOK'
  <1>1. clock' \in [Workers -> Time]
    BY BoundsAssumption DEF Die, TypeOK, Time
  <1> QED BY <1>1 DEF Die, Goto, Finish, NoJob, Job, Opt, TypeOK, db, Time

LEMMA StepType == TypeOK /\ [Next]_vars => TypeOK'
  <1> SUFFICES ASSUME TypeOK, [Next]_vars
               PROVE  TypeOK'
    OBVIOUS
  <1>1. ASSUME NEW r \in Rules, CreateRule(r) PROVE TypeOK'
    BY <1>1 DEF CreateRule, TypeOK, RuleStates
  <1>2. ASSUME NEW r \in Rules, DisableRule(r) PROVE TypeOK'
    <2>1. rules' \in [Rules -> RuleStates]
      BY <1>2 DEF DisableRule, TypeOK, RuleStates
    <2>2. episodes' \in [EpisodeIds -> Opt(Episode(Pairs))]
      BY <1>2, CloseType DEF DisableRule, TypeOK
    <2> QED BY <1>2, <2>1, <2>2 DEF DisableRule, TypeOK
  <1>3. ASSUME NEW w \in Workers, NEW s \in Subjects, NEW ts \in 0..MaxTime,
               NEW memberships \in SUBSET QueueIds,
               OnEvent(w, s, ts, memberships)
        PROVE  TypeOK'
    <2>1. /\ Matched(s, memberships) \subseteq Pairs
          /\ ts \in Time /\ Later(ts, w) \in Time
      BY BoundsAssumption DEF Matched, Later, TypeOK, Time
    <2>2. queues' \in [Subjects -> SUBSET QueueIds]
      BY <1>3 DEF OnEvent, TypeOK
    <2> QED BY <1>3, <2>1, <2>2 DEF OnEvent, Trigger, TypeOK, Opt
  <1>4. ASSUME NEW w \in Workers, OnTick(w) PROVE TypeOK'
    <2>1. Due \subseteq Pairs /\ clock[w] + TickInterval \in Time
      BY BoundsAssumption DEF Due, TypeOK, Time
    <2> DEFINE t == clock[w] + TickInterval
    <2>2. clock' = [clock EXCEPT ![w] = t] /\ t \in Time
      BY <1>4, <2>1 DEF OnTick
    <2>3. clock' \in [Workers -> Time]
      BY <2>2 DEF TypeOK
    <2> QED BY <1>4, <2>1, <2>3 DEF OnTick, Trigger, TypeOK, db
  <1>5. ASSUME NEW w \in Workers, NEW p \in Pairs, Begin(w, p) PROVE TypeOK'
    <2>1. todo' \in [Workers -> SUBSET Pairs] /\ evaluations' \in Nat
      BY <1>5 DEF Begin, TypeOK
    <2>2. CASE Runs(p)
      <3>1. pc' = [pc EXCEPT ![w] = "decide"] /\ job' = [job EXCEPT ![w].pair = p]
        BY <1>5, <2>2 DEF Begin, Goto
      <3>2. job' \in [Workers -> Job] /\ job'[w].pair = p
            /\ \A v \in Workers \ {w} : job'[v] = job[v]
        BY <3>1 DEF TypeOK, Job, Opt
      <3> QED BY <1>5, <2>1, <3>1, <3>2 DEF Begin, TypeOK
    <2>3. CASE ~Runs(p)
      BY <1>5, <2>1, <2>3 DEF Begin, TypeOK
    <2> QED BY <2>2, <2>3
  <1>6. ASSUME NEW w \in Workers, NEW finding \in Findings, Decide(w, finding)
        PROVE  TypeOK'
    <2> DEFINE p == job[w].pair
               out(prior) == Advance(Row(prior), p, finding, now[w], RuleOf(p))
    <2>1. p \in Pairs /\ now[w] \in Time
      BY <1>6 DEF Decide, TypeOK
    <2>2. PICK prior \in GetActive(p) :
            job' = [job EXCEPT ![w] = [pair |-> p, prior |-> prior,
                      row |-> out(prior).row, emit |-> out(prior).emit]]
      BY <1>6 DEF Decide
    <2> DEFINE row == out(prior).row
               emit == out(prior).emit
    <2>3. row \in Episode(Pairs) /\ emit \in Opt(Transitions)
      BY <2>1, PriorRow, RuleOfType, AdvanceType
    <2>4. prior \in Opt(EpisodeIds)
      BY <2>1, PriorRow
    <2>5. job' = [job EXCEPT ![w] = [pair |-> p, prior |-> prior, row |-> row, emit |-> emit]]
      BY <2>2
    <2> HIDE DEF row, emit
    <2>6. job' \in [Workers -> Job] /\ job'[w].pair = p /\ job'[w].row = row
          /\ \A v \in Workers \ {w} : job'[v] = job[v]
      BY <2>1, <2>3, <2>4, <2>5 DEF TypeOK, Job, Opt
    <2> QED BY <1>6, <2>1, <2>3, <2>6 DEF Decide, Goto, TypeOK, db
  <1>7. ASSUME NEW w \in Workers, Discard(w) PROVE TypeOK'
    BY <1>7 DEF Discard, Goto, Finish, NoJob, Job, Opt, TypeOK, db
  <1>8. ASSUME NEW w \in Workers, Commit(w) PROVE TypeOK'
    <2>1. PICK i \in Target(w) :
            /\ episodes' = [episodes EXCEPT ![i] = job[w].row]
            /\ notifications' = notifications \cup Inserted(Notify(w, i))
            /\ outbox' = [outbox EXCEPT ![w] = Inserted(Notify(w, i))]
      BY <1>8 DEF Commit
    <2>2. i \in EpisodeIds /\ Inserted(Notify(w, i)) \in SUBSET Notice
      BY <1>8, TargetType, NotifyType DEF Commit, Inserted
    <2>3. job[w].row \in Episode(Pairs)
      BY <1>8 DEF Commit, TypeOK
    <2>4. /\ episodes' \in [EpisodeIds -> Opt(Episode(Pairs))]
          /\ notifications' \in SUBSET Notice
          /\ outbox' \in [Workers -> SUBSET Notice]
      BY <2>1, <2>2, <2>3 DEF TypeOK, Opt
    <2>5. job' \in [Workers -> Job]
      BY <1>8 DEF Commit, Finish, NoJob, Job, Opt, TypeOK
    <2>6. /\ pc' \in [Workers -> {"ready", "decide", "commit", "send"}]
          /\ pc'[w] \in {"ready", "send"}
          /\ \A v \in Workers \ {w} : pc'[v] = pc[v] /\ job'[v] = job[v]
      BY <1>8 DEF Commit, Goto, Finish, TypeOK
    <2> QED BY <1>8, <2>4, <2>5, <2>6 DEF Commit, TypeOK
  <1>9. ASSUME NEW w \in Workers, CommitFails(w) PROVE TypeOK'
    BY <1>9, DieType DEF CommitFails
  <1>10. ASSUME NEW w \in Workers, Send(w) PROVE TypeOK'
    BY <1>10 DEF Send, Goto, TypeOK, db
  <1>11. ASSUME NEW w \in Workers, Crash(w) PROVE TypeOK'
    BY <1>11, DieType DEF Crash
  <1>12. ASSUME NEW w \in Workers, NEW ts \in 0..MaxTime, OnSkip(w, ts) PROVE TypeOK'
    <2>1. Later(ts, w) \in Time
      BY BoundsAssumption DEF Later, TypeOK, Time
    <2> QED BY <1>12, <2>1 DEF OnSkip, TypeOK, db
  <1>13. ASSUME NEW w \in Workers, NEW first \in FileStarts, EndRun(w, first) PROVE TypeOK'
    <2>1. Later(first, w) \in Time
      BY BoundsAssumption DEF Later, TypeOK, Time
    <2> QED BY <1>13, <2>1 DEF EndRun, TypeOK
  <1>14. CASE UNCHANGED vars
    BY <1>14 DEF vars, TypeOK
  <1> QED BY <1>1, <1>2, <1>3, <1>4, <1>5, <1>6, <1>7, <1>8, <1>9, <1>10, <1>11,
       <1>12, <1>13, <1>14 DEF Next, Api, Evaluate, Loop

\* Types hold in every reachable state of the engine.
THEOREM TypeCorrect == Spec => []TypeOK
  BY InitType, StepType, PTL DEF Spec

-----------------------------------------------------------------------------
(* One active episode per pair: the unique index alone is enough.          *)

\* The steps that may touch the episodes table.
LEMMA EpisodeSteps ==
  ASSUME TypeOK, [Next]_vars
  PROVE  \/ episodes' = episodes
         \/ \E r \in Rules : DisableRule(r)
         \/ \E w \in Workers : Commit(w)
  BY DEF Next, Api, Evaluate, Loop, CreateRule, OnEvent, OnSkip, OnTick, EndRun, Begin, Decide,
         Discard, CommitFails, Send, Crash, Die, vars, db

LEMMA StepUnique == TypeOK /\ UniqueActive /\ [Next]_vars => UniqueActive'
  <1> SUFFICES ASSUME TypeOK, UniqueActive, [Next]_vars
               PROVE  UniqueActive'
    OBVIOUS
  <1>1. CASE episodes' = episodes
    BY <1>1 DEF UniqueActive, IsActive
  <1>2. ASSUME NEW r \in Rules, DisableRule(r) PROVE UniqueActive'
    <2>1. \A i \in EpisodeIds : IsActive(episodes'[i]) => episodes'[i] = episodes[i]
      BY <1>2, CloseType DEF DisableRule, TypeOK
    <2> QED BY <2>1 DEF UniqueActive
  <1>3. ASSUME NEW w \in Workers, Commit(w) PROVE UniqueActive'
    <2>1. PICK i \in Target(w) :
            /\ IndexAllows(i, job[w].row)
            /\ episodes' = [episodes EXCEPT ![i] = job[w].row]
      BY <1>3 DEF Commit
    <2>2. /\ i \in EpisodeIds
          /\ episodes'[i] = job[w].row
          /\ \A j \in EpisodeIds \ {i} : episodes'[j] = episodes[j]
      BY <2>1, TargetType DEF TypeOK
    <2>3. \A j \in EpisodeIds \ {i} :
            IsActive(episodes[j]) /\ IsActive(job[w].row)
              => episodes[j].pair # job[w].row.pair
      BY <2>1 DEF IndexAllows, ActiveOf
    <2> QED BY <2>2, <2>3 DEF UniqueActive
  <1> QED BY <1>1, <1>2, <1>3, EpisodeSteps

\* get_active() never has two rows to choose from, however many evaluators
\* and API calls run at once.
THEOREM OneActiveEpisode == Spec => []UniqueActive
  <1>1. Init => UniqueActive
    BY DEF Init, UniqueActive, IsActive
  <1> QED BY <1>1, StepUnique, TypeCorrect, PTL DEF Spec

-----------------------------------------------------------------------------
(* Every active row loads.                                                 *)

\* The strengthening: so does every active row about to be written.  A row
\* on its way may overwrite anything, so the stored rows alone say nothing
\* of the next ones.
JobsLoad ==
  \A w \in Workers :
    pc[w] = "commit" /\ IsActive(job[w].row) => Consistent(job[w].row)

LoadInv == RowsLoad /\ JobsLoad

LEMMA JobSteps ==
  ASSUME TypeOK, [Next]_vars, NEW v \in Workers, pc'[v] = "commit"
  PROVE  \/ pc[v] = "commit" /\ job'[v] = job[v]
         \/ \E finding \in Findings : Decide(v, finding)
  <1>1. ASSUME NEW w \in Workers, w # v,
               Evaluate(w) \/ Loop(w) \/ Crash(w)
        PROVE  pc'[v] = pc[v] /\ job'[v] = job[v]
    BY <1>1 DEF TypeOK, Evaluate, Loop, OnEvent, OnSkip, OnTick, EndRun, Begin, Decide, Discard, Commit,
         CommitFails, Send, Crash, Die, Goto, Finish
  <1>2. ASSUME Evaluate(v) \/ Loop(v) \/ Crash(v)
        PROVE  (\E finding \in Findings : Decide(v, finding)) \/ (pc[v] = "commit" /\ job'[v] = job[v])
    BY <1>2 DEF TypeOK, Evaluate, Loop, OnEvent, OnSkip, OnTick, EndRun, Begin, Discard, Commit,
         CommitFails, Send, Crash, Die, Goto, Finish
  <1>3. CASE Api \/ UNCHANGED vars
    BY <1>3 DEF Api, CreateRule, DisableRule, vars
  <1> QED BY <1>1, <1>2, <1>3 DEF Next

LEMMA StepLoad == TypeOK /\ LoadInv /\ [Next]_vars => LoadInv'
  <1> SUFFICES ASSUME TypeOK, RowsLoad, JobsLoad, [Next]_vars
               PROVE  RowsLoad' /\ JobsLoad'
    BY DEF LoadInv
  <1>1. RowsLoad'
    <2>1. CASE episodes' = episodes
      BY <2>1 DEF RowsLoad
    <2>2. ASSUME NEW r \in Rules, DisableRule(r) PROVE RowsLoad'
      <3>1. \A i \in EpisodeIds : IsActive(episodes'[i]) => episodes'[i] = episodes[i]
        BY <2>2, CloseType DEF DisableRule, TypeOK
      <3> QED BY <3>1 DEF RowsLoad
    <2>3. ASSUME NEW w \in Workers, Commit(w) PROVE RowsLoad'
      <3>1. PICK i \in Target(w) : episodes' = [episodes EXCEPT ![i] = job[w].row]
        BY <2>3 DEF Commit
      <3>2. \A j \in EpisodeIds : episodes'[j] = IF j = i THEN job[w].row ELSE episodes[j]
        BY <3>1 DEF TypeOK
      <3> QED BY <2>3, <3>2 DEF RowsLoad, JobsLoad, Commit
    <2> QED BY <2>1, <2>2, <2>3, EpisodeSteps
  <1>2. JobsLoad'
    <2> SUFFICES ASSUME NEW v \in Workers, pc'[v] = "commit", IsActive(job'[v].row)
                 PROVE  Consistent(job'[v].row)
      BY DEF JobsLoad
    <2>1. CASE pc[v] = "commit" /\ job'[v] = job[v]
      BY <2>1 DEF JobsLoad
    <2>2. ASSUME NEW finding \in Findings, Decide(v, finding)
          PROVE  Consistent(job'[v].row)
      <3> DEFINE p == job[v].pair
                 out(prior) == Advance(Row(prior), p, finding, now[v], RuleOf(p))
      <3>1. p \in Pairs /\ now[v] \in Time
        BY <2>2 DEF Decide, TypeOK
      <3>2. PICK prior \in GetActive(p) :
              job' = [job EXCEPT ![v] = [pair |-> p, prior |-> prior,
                        row |-> out(prior).row, emit |-> out(prior).emit]]
        BY <2>2 DEF Decide
      <3>3. job'[v].row = out(prior).row
        BY <3>2 DEF TypeOK
      <3>4. Row(prior) # None => Row(prior).state \in ActiveStates /\ Consistent(Row(prior))
        BY <3>1, PriorRow DEF RowsLoad
      <3>5. Row(prior) \in Opt(Episode(Pairs)) /\ RuleOf(p) \in RuleFields
        BY <3>1, PriorRow, RuleOfType
      <3> QED BY <3>1, <3>3, <3>4, <3>5, AdvanceConsistent DEF IsActive
    <2> QED BY <2>1, <2>2, JobSteps
  <1> QED BY <1>1, <1>2

\* No stored row makes the engine raise when it loads it.
THEOREM ActiveRowsLoad == Spec => []RowsLoad
  <1>1. Init => LoadInv
    BY DEF Init, LoadInv, RowsLoad, JobsLoad, IsActive
  <1>2. LoadInv => RowsLoad
    BY DEF LoadInv
  <1> QED BY <1>1, <1>2, StepLoad, TypeCorrect, PTL DEF Spec

-----------------------------------------------------------------------------
(* Persist, then send, once.                                               *)

\* The steps that move notifications.
LEMMA NoticeSteps ==
  ASSUME TypeOK, [Next]_vars
  PROVE  \/ UNCHANGED <<notifications, sent, outbox>>
         \/ \E w \in Workers : Commit(w)
         \/ \E w \in Workers : Send(w)
         \/ \E w \in Workers : Die(w)
  BY DEF Next, Api, Evaluate, Loop, CreateRule, DisableRule, OnEvent, OnSkip, OnTick, EndRun, Begin,
         Decide, Discard, CommitFails, Crash, vars, db

LEMMA StepSend == TypeOK /\ SendOnce /\ [Next]_vars => SendOnce'
  <1> SUFFICES ASSUME TypeOK, SendOnce, [Next]_vars
               PROVE  SendOnce'
    OBVIOUS
  <1>1. CASE UNCHANGED <<notifications, sent, outbox>>
    BY <1>1 DEF SendOnce, Key
  <1>2. ASSUME NEW w \in Workers, Commit(w) PROVE SendOnce'
    <2>1. PICK ns \in SUBSET {n \in notifications' : \A m \in notifications : Key(m) # Key(n)} :
            /\ notifications' = notifications \cup ns
            /\ outbox' = [outbox EXCEPT ![w] = ns]
      BY <1>2 DEF Commit, Inserted
    <2>2. sent' = sent
      BY <1>2 DEF Commit
    <2>3. \A v \in Workers : outbox'[v] = IF v = w THEN ns ELSE outbox[v]
      BY <2>1 DEF TypeOK
    <2> QED BY <2>1, <2>2, <2>3 DEF SendOnce, Key
  <1>3. ASSUME NEW w \in Workers, Send(w) PROVE SendOnce'
    <2>1. notifications' = notifications /\ sent' = sent \cup outbox[w]
      BY <1>3 DEF Send, db
    <2>2. \A v \in Workers : outbox'[v] = IF v = w THEN {} ELSE outbox[v]
      BY <1>3 DEF Send, TypeOK
    <2> QED BY <2>1, <2>2 DEF SendOnce, Key
  <1>4. ASSUME NEW w \in Workers, Die(w) PROVE SendOnce'
    <2>1. notifications' = notifications /\ sent' = sent
      BY <1>4 DEF Die, db
    <2>2. \A v \in Workers : outbox'[v] = IF v = w THEN {} ELSE outbox[v]
      BY <1>4 DEF Die, TypeOK
    <2> QED BY <2>1, <2>2 DEF SendOnce, Key
  <1> QED BY <1>1, <1>2, <1>3, <1>4, NoticeSteps

\* No channel is given a notification twice, nor one that is not stored.
THEOREM SentOnce == Spec => []SendOnce
  <1>1. Init => SendOnce
    BY DEF Init, SendOnce
  <1> QED BY <1>1, StepSend, TypeCorrect, PTL DEF Spec

=============================================================================
