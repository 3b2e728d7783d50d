---------------------------- MODULE OrderProofs ----------------------------
(***************************************************************************)
(* What the order of a file's events is worth.  One evaluator reads a      *)
(* sorted file and is not killed: then time runs forward in the tables,    *)
(* for any rules and files, from one replay to the next and with API calls *)
(* between any two steps of an evaluation.                                 *)
(***************************************************************************)
EXTENDS ContractProofs, NotificationView

Uninterrupted == InOrder /\ ~MayCrash

Busy(w) == pc[w] # "ready" \/ todo[w] # {}

(* No evaluator but this one adds an active row, so the unique index has   *)
(* nothing to refuse.                                                      *)
Alone(w) ==
  /\ job[w].row.pair = job[w].pair
  /\ ActiveOf(job[w].pair) \subseteq {job[w].prior}

ForwardInv ==
  \A w \in Workers :
    /\ Busy(w) => now[w] = clock[w]
    /\ pc[w] = "commit" => Alone(w)
    /\ \A n \in notifications : n.at <= clock[w]

LEMMA NobodyDies ==
  ASSUME TypeOK, ForwardInv, ~MayCrash, NEW w \in Workers
  PROVE  ~CommitFails(w) /\ ~Crash(w)
  <1>1. ASSUME pc[w] = "commit", NEW i \in Target(w)
        PROVE  IndexAllows(i, job[w].row)
    <2>1. Alone(w)
      BY <1>1 DEF ForwardInv
    <2>2. ActiveOf(job[w].pair) \subseteq {i}
      <3>1. CASE job[w].prior # None
        BY <2>1, <3>1 DEF Alone, Target
      <3>2. CASE job[w].prior = None
        BY <2>1, <3>2, NoneIsNoData DEF Alone, ActiveOf
      <3> QED BY <3>1, <3>2
    <2> QED BY <2>1, <2>2 DEF IndexAllows, Alone
  <1> QED BY <1>1 DEF CommitFails, Crash

\* A clock moves only while its worker is idle, and then forward; a trigger's
\* time is what the clock shows from then on.
LEMMA ClockSteps ==
  ASSUME TypeOK, ForwardInv, Uninterrupted, OneWorker, [Next]_vars, NEW w \in Workers
  PROVE  /\ clock'[w] \in Nat /\ clock[w] <= clock'[w]
         /\ Busy(w)' => now'[w] = clock'[w]
         /\ Busy(w) => clock'[w] = clock[w] /\ now'[w] = now[w]
  <1>0. clock[w] \in Nat /\ TickInterval \in Nat /\ FileStarts \subseteq Nat
    BY BoundsAssumption DEF TypeOK, Time
  <1> DEFINE Good == /\ clock'[w] \in Nat /\ clock[w] <= clock'[w]
                     /\ Busy(w)' => now'[w] = clock'[w]
                     /\ Busy(w) => clock'[w] = clock[w] /\ now'[w] = now[w]
  <1> SUFFICES Good
    OBVIOUS
  <1>1. ASSUME UNCHANGED <<clock, now, pc, todo>> PROVE Good
    BY <1>0, <1>1 DEF ForwardInv, Busy
  <1>2. ASSUME NEW s \in Subjects, NEW ts \in 0..MaxTime, NEW memberships \in SUBSET QueueIds,
               OnEvent(w, s, ts, memberships)
        PROVE  Good
    <2>1. ~Busy(w) /\ ts >= clock[w] /\ ts \in Nat
      BY <1>2, BoundsAssumption DEF OnEvent, Trigger, Idle, Busy, Uninterrupted
    <2>2. clock'[w] = ts /\ now'[w] = ts
      BY <1>2, <2>1 DEF OnEvent, Trigger, Later, TypeOK
    <2> QED BY <1>0, <2>1, <2>2
  <1>3. ASSUME NEW ts \in 0..MaxTime, OnSkip(w, ts) PROVE Good
    <2>1. ~Busy(w) /\ ~Busy(w)' /\ ts \in Nat
      BY <1>3, BoundsAssumption DEF OnSkip, Idle, Busy
    <2>2. clock'[w] = Later(ts, w)
      BY <1>3 DEF OnSkip, TypeOK
    <2> QED BY <1>0, <2>1, <2>2 DEF Later
  <1>4. ASSUME OnTick(w) PROVE Good
    <2>1. ~Busy(w)
      BY <1>4 DEF OnTick, Trigger, Idle, Busy
    <2>2. clock'[w] = clock[w] + TickInterval /\ now'[w] = clock[w] + TickInterval
      BY <1>4 DEF OnTick, Trigger, TypeOK
    <2> QED BY <1>0, <2>1, <2>2
  <1>5. ASSUME NEW first \in FileStarts, EndRun(w, first) PROVE Good
    <2>1. ~Busy(w) /\ ~Busy(w)' /\ first \in Nat
      BY <1>0, <1>5 DEF EndRun, Idle, Busy
    <2>2. clock'[w] = Later(first, w)
      BY <1>5 DEF EndRun, TypeOK
    <2> QED BY <1>0, <2>1, <2>2 DEF Later
  <1>6. ASSUME Evaluate(w) PROVE Good
    <2>1. ~CommitFails(w)
      BY NobodyDies DEF Uninterrupted
    <2>2. Busy(w) /\ UNCHANGED <<clock, now>>
      BY <1>6, <2>1 DEF Evaluate, Begin, Decide, Discard, Commit, Send, Busy
    <2> QED BY <1>0, <2>2 DEF ForwardInv
  <1>7. ~Crash(w)
    BY NobodyDies DEF Uninterrupted
  <1>8. CASE Api \/ UNCHANGED vars
    BY <1>1, <1>8 DEF Api, CreateRule, DisableRule, vars
  <1>9. ASSUME NEW v \in Workers, Evaluate(v) \/ Loop(v) \/ Crash(v) PROVE Good
    <2>1. v = w
      BY DEF OneWorker
    <2> QED BY <1>9, <2>1, <1>2, <1>3, <1>4, <1>5, <1>6, <1>7 DEF Loop
  <1> QED BY <1>8, <1>9 DEF Next

LEMMA StepAlone ==
  ASSUME Typed, UniqueActive, ForwardInv, OneWorker, [Next]_vars,
         NEW v \in Workers, pc'[v] = "commit"
  PROVE  Alone(v)'
  <1>1. CASE pc[v] = "commit" /\ job'[v] = job[v]
    <2>1. ~Commit(v) /\ Alone(v)
      BY <1>1, WaitingSteps DEF Typed, ForwardInv
    <2>2. \A i \in EpisodeIds : IsActive(episodes'[i]) => episodes'[i] = episodes[i]
      <3>1. ASSUME NEW r \in Rules, DisableRule(r)
            PROVE  \A i \in EpisodeIds : IsActive(episodes'[i]) => episodes'[i] = episodes[i]
        BY <3>1, CloseType DEF DisableRule, Typed, TypeOK
      <3> QED BY <2>1, <3>1, TableSteps DEF OneWorker, Typed
    <2>3. ActiveOf(job[v].pair)' \subseteq ActiveOf(job[v].pair)
      BY <1>1, <2>2 DEF ActiveOf
    <2> QED BY <1>1, <2>1, <2>3 DEF Alone
  <1>2. ASSUME NEW finding \in Findings, Decide(v, finding)
        PROVE  Alone(v)'
    <2> DEFINE p == job[v].pair
               out(prior) == Advance(Row(prior), p, finding, now[v], RuleOf(p))
    <2>1. p \in Pairs /\ now[v] \in Time
      BY <1>2 DEF Decide, Typed, TypeOK
    <2>2. PICK prior \in GetActive(p) :
            job' = [job EXCEPT ![v] = [pair |-> p, prior |-> prior,
                      row |-> out(prior).row, emit |-> out(prior).emit]]
      BY <1>2 DEF Decide
    <2>3. job'[v].pair = p /\ job'[v].prior = prior /\ job'[v].row = out(prior).row
      BY <2>2 DEF Typed, TypeOK
    <2>4. out(prior).row.pair = p
      BY <2>1, PriorRow, RuleOfType, AdvanceType DEF Typed
    <2>5. ActiveOf(p) \subseteq {prior}
      BY <2>1, PriorAlone DEF Typed
    <2>6. ActiveOf(job[v].pair)' = ActiveOf(p)
      BY <1>2, <2>3 DEF Decide, db, ActiveOf
    <2> HIDE DEF p, out
    <2> QED BY <2>3, <2>4, <2>5, <2>6 DEF Alone
  <1> QED BY <1>1, <1>2, JobSteps DEF Typed

\* A new notification has the time its worker's clock shows.
LEMMA NewNotices ==
  ASSUME TypeOK, ForwardInv, OneWorker, [Next]_vars, NEW w \in Workers,
         NEW n \in notifications', n \notin notifications
  PROVE  n.at = clock[w] /\ Busy(w)
  <1>1. PICK v \in Workers : Commit(v)
    BY TableSteps DEF DisableRule
  <1>2. v = w
    BY DEF OneWorker
  <1>3. n.at = now[w]
    BY <1>1, <1>2 DEF Commit, Inserted, Notify
  <1>4. Busy(w)
    BY <1>1, <1>2 DEF Commit, Busy
  <1> QED BY <1>3, <1>4 DEF ForwardInv

LEMMA StepForward ==
  ASSUME Typed, UniqueActive, ForwardInv, Uninterrupted, OneWorker, [Next]_vars
  PROVE  ForwardInv'
  <1> SUFFICES ASSUME NEW w \in Workers
               PROVE  /\ Busy(w)' => now'[w] = clock'[w]
                      /\ pc'[w] = "commit" => Alone(w)'
                      /\ \A n \in notifications' : n.at <= clock'[w]
    BY DEF ForwardInv
  <1>1. /\ clock'[w] \in Nat /\ clock[w] \in Nat /\ clock[w] <= clock'[w]
        /\ Busy(w)' => now'[w] = clock'[w]
    BY ClockSteps DEF Typed, TypeOK, Time
  <1>2. ASSUME NEW n \in notifications' PROVE n.at <= clock'[w]
    <2>1. CASE n \in notifications
      <3>1. n.at <= clock[w] /\ n.at \in Nat
        BY <2>1 DEF ForwardInv, Typed, TypeOK, Notice, Time
      <3> QED BY <1>1, <3>1
    <2>2. CASE n \notin notifications
      BY <1>1, <1>2, <2>2, NewNotices DEF Typed
    <2> QED BY <2>1, <2>2
  <1> QED BY <1>1, <1>2, StepAlone

LEMMA ForwardHolds == Uninterrupted /\ OneWorker => (Spec => []ForwardInv)
  <1> SUFFICES ASSUME Uninterrupted, OneWorker PROVE Spec => []ForwardInv
    OBVIOUS
  <1>1. Init => ForwardInv
    BY DEF Init, ForwardInv, Busy
  <1>2. TypeOK /\ RowsLoad /\ UniqueActive /\ ForwardInv /\ [Next]_vars => ForwardInv'
    BY StepForward DEF Typed
  <1> QED BY <1>1, <1>2, TypeCorrect, ActiveRowsLoad, OneActiveEpisode, PTL DEF Spec

\* The notifications of a pair, and of all pairs, come in the order of their
\* times, over any number of sorted files and however ticks and events follow
\* one another.
THEOREM NoticesInOrder == Uninterrupted /\ OneWorker => (Spec => NeverBackward)
  <1> SUFFICES ASSUME Uninterrupted, OneWorker PROVE Spec => NeverBackward
    OBVIOUS
  <1>1. TypeOK /\ ForwardInv /\ [Next]_vars =>
          [\A n \in notifications' \ notifications, m \in notifications :
             m.pair = n.pair => m.at <= n.at]_vars
    <2> SUFFICES ASSUME TypeOK, ForwardInv, [Next]_vars,
                        NEW n \in notifications' \ notifications, NEW m \in notifications
                 PROVE  m.at <= n.at
      OBVIOUS
    <2>1. PICK w \in Workers : Commit(w)
      BY TableSteps DEF DisableRule
    <2>2. n.at = clock[w]
      BY NewNotices
    <2> QED BY <2>2 DEF ForwardInv
  <1> QED BY <1>1, ForwardHolds, TypeCorrect, PTL DEF Spec, NeverBackward

-----------------------------------------------------------------------------
(* The times within one row.                                               *)

InLife(e) ==
  e.opened_at # None =>
    /\ e.first_true_at # None /\ e.last_notified_at # None
    /\ e.first_true_at <= e.opened_at
    /\ e.opened_at <= e.last_notified_at
    /\ e.stale_since # None => e.last_notified_at <= e.stale_since

RowTimes(e, t) ==
  /\ e.first_true_at # None => e.first_true_at <= t
  /\ e.opened_at # None => e.opened_at <= t
  /\ e.last_notified_at # None => e.last_notified_at <= t
  /\ e.stale_since # None => e.stale_since <= t
  /\ InLife(e)

LEMMA LaterTimes ==
  ASSUME NEW e \in Episode(Pairs), NEW t \in Nat, NEW u \in Nat, t <= u, RowTimes(e, t)
  PROVE  RowTimes(e, u)
  <1>1. /\ e.first_true_at \in Opt(Nat) /\ e.opened_at \in Opt(Nat)
        /\ e.last_notified_at \in Opt(Nat) /\ e.stale_since \in Opt(Nat)
    BY DEF Episode, Time
  <1> QED BY <1>1 DEF RowTimes, Opt

\* What advance() makes of a row at time t has no time beyond it, and its
\* times are in the order of an episode's life.
LEMMA AdvanceTimes ==
  ASSUME NEW p \in Pairs, NEW e \in Opt(Episode(Pairs)),
         e # None => /\ e.state \in ActiveStates
                     /\ Consistent(e) /\ RowOrdered(e),
         NEW finding \in Findings, NEW t \in Nat,
         e # None => RowTimes(e, t)
  PROVE  RowTimes(Advance(e, p, finding, t, RuleOf(p)).row, t)
  <1> DEFINE row == Advance(e, p, finding, t, RuleOf(p)).row
  <1>t. t # None /\ t \in Time /\ RuleOf(p) \in RuleFields
    BY NoneAssumption, RuleOfType DEF Time
  <1> SUFFICES RowTimes(row, t)
    OBVIOUS
  <1> HIDE DEF row
  <1>1. CASE e = None
    <2>1. row \in Started(p, t)
      BY <1>1, <1>t, AdvanceFromNone DEF row
    <2>2. CASE row = Blank(p)
      BY <2>2 DEF Blank, RowTimes, InLife
    <2>3. CASE row = [Blank(p) EXCEPT !.state = "open", !.first_true_at = t,
                                      !.opened_at = t, !.last_notified_at = t]
      <3>1. /\ row.first_true_at = t /\ row.opened_at = t /\ row.last_notified_at = t
            /\ row.stale_since = None
        BY <2>3 DEF Blank
      <3> QED BY <1>t, <3>1 DEF RowTimes, InLife
    <2>4. CASE row = [Blank(p) EXCEPT !.state = "pending", !.first_true_at = t]
      <3>1. /\ row.first_true_at = t /\ row.opened_at = None /\ row.last_notified_at = None
            /\ row.stale_since = None
        BY <2>4 DEF Blank
      <3> QED BY <1>t, <3>1 DEF RowTimes, InLife
    <2> QED BY <2>1, <2>2, <2>3, <2>4 DEF Started
  <1>2. CASE e # None
    <2>1. e \in Episode(Pairs) /\ RowTimes(e, t)
      BY <1>2 DEF Opt
    <2>2. CASE e.state = "pending"
      <3>1. row \in {Cleared(e), Counted(e), Promoted(e, t)}
        BY <1>2, <1>t, <2>1, <2>2, AdvanceFromPending DEF row
      <3>2. e.opened_at = None /\ e.stale_since = None /\ e.first_true_at # None
        BY <1>2, <2>2 DEF RowOrdered, Consistent, Stale
      <3>3. CASE row = Cleared(e)
        <4>1. /\ row.first_true_at = None /\ row.opened_at = None
              /\ row.last_notified_at = e.last_notified_at
              /\ row.stale_since = None
          BY <2>1, <3>2, <3>3 DEF Cleared, Episode
        <4> QED BY <2>1, <4>1 DEF RowTimes, InLife
      <3>4. CASE row = Counted(e)
        <4>1. /\ row.first_true_at = e.first_true_at /\ row.opened_at = None
              /\ row.last_notified_at = e.last_notified_at
              /\ row.stale_since = None
          BY <2>1, <3>2, <3>4 DEF Counted, Episode
        <4> QED BY <2>1, <4>1 DEF RowTimes, InLife
      <3>5. CASE row = Promoted(e, t)
        <4>1. /\ row.first_true_at = e.first_true_at /\ row.opened_at = t
              /\ row.last_notified_at = t
              /\ row.stale_since = None
          BY <2>1, <3>2, <3>5 DEF Promoted, Episode
        <4> QED BY <1>t, <2>1, <3>2, <4>1 DEF RowTimes, InLife
      <3> QED BY <3>1, <3>3, <3>4, <3>5
    <2>3. CASE e.state = "open"
      <3>1. row \in {Frozen(e, t), Closed(e, t), Suppress(e), Reminded(e, t)}
        BY <1>2, <1>t, <2>1, <2>3, AdvanceFromOpen DEF row
      <3>2. /\ e.opened_at # None /\ e.first_true_at # None /\ e.last_notified_at # None
            /\ e.first_true_at <= e.opened_at /\ e.opened_at <= e.last_notified_at
            /\ e.first_true_at <= t /\ e.opened_at <= t
            /\ e.last_notified_at <= t
            /\ e.stale_since # None =>
                 e.stale_since <= t /\ e.last_notified_at <= e.stale_since
        BY <1>2, <2>1, <2>3 DEF Consistent, RowTimes, InLife
      <3>3. CASE row = Frozen(e, t)
        <4>1. /\ row.first_true_at = e.first_true_at /\ row.opened_at = e.opened_at
              /\ row.last_notified_at = e.last_notified_at
              /\ row.stale_since = IF e.stale_since # None THEN e.stale_since ELSE t
          BY <2>1, <3>3 DEF Frozen, Stale, Episode
        <4> QED BY <1>t, <3>2, <4>1 DEF RowTimes, InLife
      <3>4. CASE row = Closed(e, t)
        <4>1. /\ row.first_true_at = e.first_true_at /\ row.opened_at = e.opened_at
              /\ row.last_notified_at = e.last_notified_at
              /\ row.stale_since = None
          BY <2>1, <3>4 DEF Closed, Episode
        <4> QED BY <1>t, <3>2, <4>1 DEF RowTimes, InLife
      <3>5. CASE row = Suppress(e)
        <4>1. /\ row.first_true_at = e.first_true_at /\ row.opened_at = e.opened_at
              /\ row.last_notified_at = e.last_notified_at
              /\ row.stale_since = None
          BY <2>1, <3>5 DEF Suppress, Counted, Episode
        <4> QED BY <3>2, <4>1 DEF RowTimes, InLife
      <3>6. CASE row = Reminded(e, t)
        <4>1. /\ row.first_true_at = e.first_true_at /\ row.opened_at = e.opened_at
              /\ row.last_notified_at = t
              /\ row.stale_since = None
          BY <2>1, <3>6 DEF Reminded, Episode
        <4> QED BY <1>t, <3>2, <4>1 DEF RowTimes, InLife
      <3> QED BY <3>1, <3>3, <3>4, <3>5, <3>6
    <2> QED BY <1>2, <2>2, <2>3 DEF ActiveStates
  <1> QED BY <1>1, <1>2

\* A silent close leaves all the engine's own times as they were.
LEMMA CloseTimes ==
  ASSUME NEW e \in Episode(Pairs), NEW t \in Nat, NEW r, RowTimes(e, t)
  PROVE  RowTimes(CloseSilently(e, r), t)
  <1> DEFINE c == CloseSilently(e, r)
  <1>1. /\ c.first_true_at = e.first_true_at /\ c.opened_at = e.opened_at
        /\ c.last_notified_at = e.last_notified_at /\ c.stale_since = e.stale_since
    BY DEF CloseSilently, Episode
  <1> HIDE DEF c
  <1>2. RowTimes(c, t)
    BY <1>1 DEF RowTimes, InLife
  <1> QED BY <1>2 DEF c

-----------------------------------------------------------------------------
\* The rows there are, and the row in hand.
TimesInv ==
  \A w \in Workers :
    /\ \A i \in EpisodeIds : episodes[i] # None => RowTimes(episodes[i], clock[w])
    /\ pc[w] = "commit" => RowTimes(job[w].row, now[w])

LEMMA StepTimes ==
  ASSUME Typed, RowsOrdered, ForwardInv, TimesInv, Uninterrupted, OneWorker, [Next]_vars
  PROVE  TimesInv'
  <1> SUFFICES ASSUME NEW w \in Workers
               PROVE  /\ \A i \in EpisodeIds :
                           episodes'[i] # None => RowTimes(episodes'[i], clock'[w])
                      /\ pc'[w] = "commit" => RowTimes(job'[w].row, now'[w])
    BY DEF TimesInv
  <1>1. /\ clock'[w] \in Nat /\ clock[w] \in Nat /\ clock[w] <= clock'[w]
        /\ now[w] \in Nat
    BY ClockSteps DEF Typed, TypeOK, Time
  <1>2. ASSUME NEW i \in EpisodeIds, episodes'[i] # None
        PROVE  RowTimes(episodes'[i], clock'[w])
    <2>1. CASE episodes'[i] = episodes[i]
      <3>1. episodes[i] \in Episode(Pairs) /\ RowTimes(episodes[i], clock[w])
        BY <1>2, <2>1 DEF TimesInv, Typed, TypeOK, Opt
      <3> QED BY <1>1, <2>1, <3>1, LaterTimes
    <2>2. ASSUME NEW r \in Rules, DisableRule(r) PROVE RowTimes(episodes'[i], clock'[w])
      <3>1. episodes'[i] = CloseSilently(episodes[i], r) /\ clock' = clock
        BY <2>2 DEF DisableRule
      <3>2. episodes[i] # None
        BY <1>2, <3>1 DEF CloseSilently, IsActive
      <3>3. episodes[i] \in Episode(Pairs) /\ RowTimes(episodes[i], clock[w])
        BY <3>2 DEF TimesInv, Typed, TypeOK, Opt
      <3> QED BY <1>1, <3>1, <3>3, CloseTimes
    <2>3. ASSUME NEW v \in Workers, Commit(v) PROVE RowTimes(episodes'[i], clock'[w])
      <3>1. v = w /\ pc[w] = "commit" /\ clock' = clock
        BY <2>3 DEF OneWorker, Commit
      <3>2. now[w] = clock[w] /\ RowTimes(job[w].row, now[w])
        BY <3>1 DEF ForwardInv, Busy, TimesInv
      <3>3. PICK k \in Target(w) : episodes' = [episodes EXCEPT ![k] = job[w].row]
        BY <2>3, <3>1 DEF Commit
      <3>4. episodes'[i] = episodes[i] \/ episodes'[i] = job[w].row
        BY <3>3 DEF Typed, TypeOK
      <3> QED BY <2>1, <3>1, <3>2, <3>4
    <2> QED BY <2>1, <2>2, <2>3, TableSteps DEF Typed
  <1>3. ASSUME pc'[w] = "commit" PROVE RowTimes(job'[w].row, now'[w])
    <2>1. CASE pc[w] = "commit" /\ job'[w] = job[w]
      BY <1>3, <2>1, WaitingSteps DEF TimesInv, Typed
    <2>2. ASSUME NEW finding \in Findings, Decide(w, finding)
          PROVE  RowTimes(job'[w].row, now'[w])
      <3> DEFINE p == job[w].pair
                 out(prior) == Advance(Row(prior), p, finding, now[w], RuleOf(p))
      <3>1. p \in Pairs
        BY <2>2 DEF Decide, Typed, TypeOK
      <3>2. PICK prior \in GetActive(p) :
              job' = [job EXCEPT ![w] = [pair |-> p, prior |-> prior,
                        row |-> out(prior).row, emit |-> out(prior).emit]]
        BY <2>2 DEF Decide
      <3>3. job'[w].row = out(prior).row /\ now'[w] = now[w]
        BY <2>2, <3>2 DEF Decide, Typed, TypeOK
      <3>4. /\ Row(prior) \in Opt(Episode(Pairs))
            /\ prior = None => Row(prior) = None
            /\ prior # None => /\ prior \in EpisodeIds /\ Row(prior) = episodes[prior]
                               /\ IsActive(episodes[prior])
            /\ Row(prior) # None => Row(prior).state \in ActiveStates
        BY <3>1, PriorRow DEF Typed
      <3>5. now[w] = clock[w]
        BY <2>2 DEF Decide, ForwardInv, Busy
      <3>6. Row(prior) # None => /\ Consistent(Row(prior)) /\ RowOrdered(Row(prior))
                                 /\ RowTimes(Row(prior), now[w])
        BY <3>4, <3>5 DEF Typed, RowsLoad, RowsOrdered, TimesInv
      <3> QED BY <1>1, <3>1, <3>3, <3>4, <3>6, AdvanceTimes
    <2> QED BY <1>3, <2>1, <2>2, JobSteps DEF Typed
  <1> QED BY <1>2, <1>3

\* Rows are written by evaluators.
SomebodyWrote == (\E i \in EpisodeIds : episodes[i] # None) => Workers # {}

LEMMA StepWrote == TypeOK /\ SomebodyWrote /\ [Next]_vars => SomebodyWrote'
  <1> SUFFICES ASSUME TypeOK, SomebodyWrote, [Next]_vars, Workers = {}
               PROVE  \A i \in EpisodeIds : episodes'[i] = None
    BY DEF SomebodyWrote
  <1>1. ASSUME NEW r \in Rules, DisableRule(r)
        PROVE  \A i \in EpisodeIds : episodes'[i] = None
    BY <1>1 DEF DisableRule, CloseSilently, IsActive, SomebodyWrote
  <1> QED BY <1>1, TableSteps DEF SomebodyWrote

-----------------------------------------------------------------------------
(* The order a list has the notifications of an episode in is the order    *)
(* they were recorded in.                                                  *)

PageInv ==
  /\ \A m, n \in notifications : Key(m) = Key(n) => m = n
  /\ \A m, n \in notifications :
       m.episode = n.episode /\ RecordedBefore(m, n) => m.at <= n.at
  /\ \A n \in notifications :
       n.transition = "resolved" => episodes[n.episode].stale_since = None
  /\ \A w \in Workers :
       pc[w] = "commit" /\ job[w].emit = "resolved" => job[w].row.stale_since = None

\* An episode that resolves is not stale any more.
LEMMA ResolvedIsFresh ==
  ASSUME NEW p \in Pairs, NEW e \in Opt(Episode(Pairs)),
         e # None => e.state \in ActiveStates,
         NEW finding \in Findings, NEW t \in Time,
         Advance(e, p, finding, t, RuleOf(p)).emit = "resolved"
  PROVE  Advance(e, p, finding, t, RuleOf(p)).row.stale_since = None
  <1> DEFINE out == Advance(e, p, finding, t, RuleOf(p))
  <1>1. e # None /\ e.state # "pending" /\ out = FromOpen(e, finding, t, RuleOf(p))
    BY NoneAssumption DEF Advance, FromClear, FromPending, Outcome
  <1>2. out.row = Closed(e, t)
    BY <1>1, NoneAssumption DEF FromOpen, Outcome, Findings
  <1>3. e \in Episode(Pairs)
    BY <1>1 DEF Opt
  <1> QED BY <1>2, <1>3 DEF Closed, Episode

\* A commit adds at most one notification, whose key is a new one, recorded
\* after all those of its episode.
LEMMA CommitRecords ==
  ASSUME Typed, LedgerInv, ForwardInv, OneWorker, [Next]_vars, NEW w \in Workers, Commit(w)
  PROVE  \E i \in EpisodeIds :
           /\ episodes' = [episodes EXCEPT ![i] = job[w].row]
           /\ \A n \in Of(i) : n.transition # "resolved"
           /\ \A m, n \in notifications' \ notifications : m = n
           /\ \A n \in notifications' \ notifications :
                /\ n.episode = i /\ n.transition = job[w].emit
                /\ \A m \in notifications : Key(m) # Key(n)
                /\ \A m \in Of(i) : m.at <= n.at /\ ~RecordedBefore(n, m)
  <1>1. PICK i \in Target(w) :
          /\ episodes' = [episodes EXCEPT ![i] = job[w].row]
          /\ notifications' = notifications \cup Inserted(Notify(w, i))
    BY DEF Commit
  <1>2. i \in EpisodeIds
    BY TargetType DEF Typed
  <1>3. InFlight(w) /\ pc[w] = "commit"
    BY DEF Commit, LedgerInv, JobsContinue
  <1> DEFINE e == ReadRow(w)
  <1>4. /\ \A n \in Of(i) : n.transition # "resolved"
        /\ Of(i) = {} \/ SameStory(e, Of(i))
    <2>1. CASE job[w].prior = None
      <3>1. episodes[i] = None
        BY <2>1 DEF Target
      <3> QED BY <3>1 DEF LedgerInv, NoticeLedger, Of
    <2>2. CASE job[w].prior # None
      <3>1. e = episodes[i] /\ i = job[w].prior
        BY <2>2 DEF ReadRow, Target
      <3> QED BY <1>2, <1>3, <2>2, <3>1 DEF InFlight, LedgerInv, NoticeLedger
    <2> QED BY <2>1, <2>2
  <1>5. Continues(e, job[w].row, job[w].emit, now[w], job[w].pair[1])
    BY <1>3 DEF InFlight
  <1>6. \A m, n \in notifications' \ notifications : m = n
    BY <1>1 DEF Inserted, Notify
  <1>7. ASSUME NEW n \in notifications' \ notifications
        PROVE  /\ n.episode = i /\ n.transition = job[w].emit
               /\ n.seq = IF job[w].emit = "reminder" THEN job[w].row.notify_seq ELSE 0
               /\ \A m \in notifications : Key(m) # Key(n)
    BY <1>1 DEF Inserted, Notify
  <1>8. ASSUME NEW n \in notifications' \ notifications, NEW m \in Of(i)
        PROVE  m.at <= n.at
    <2>1. n.at = clock[w]
      BY NewNotices DEF Typed
    <2> QED BY <2>1 DEF ForwardInv, Of
  <1>9. ASSUME NEW n \in notifications' \ notifications, NEW m \in Of(i), RecordedBefore(n, m)
        PROVE  FALSE
    <2> HIDE DEF e
    <2>1. SameStory(e, Of(i))
      BY <1>4
    <2>2. n.transition = job[w].emit /\ m.transition # "resolved"
      BY <1>4, <1>7
    <2>3. CASE n.transition = "opened"
      BY <1>5, <2>1, <2>2, <2>3 DEF Continues, SameStory
    <2>4. CASE n.transition = "reminder" /\ m.transition = "reminder" /\ n.seq < m.seq
      <3>1. n.seq = e.notify_seq + 1 /\ e.notify_seq \in Nat
        <4>1. e \in Episode(Pairs)
          <5>1. /\ job[w].pair \in Pairs /\ job[w].prior \in Opt(EpisodeIds)
            BY <1>3 DEF Typed, TypeOK, Job
          <5> QED BY <1>3, <5>1, BlankStory DEF e, ReadRow, InFlight, Typed, TypeOK, Opt
        <4> QED BY <1>5, <1>7, <2>2, <2>4, <4>1 DEF Continues, Episode
      <3>2. <<"reminder", m.seq>> \in Keys(Of(i))
        BY <2>4 DEF Keys
      <3>3. <<"reminder", m.seq>> \in Reminders(e.notify_seq)
        BY <2>1, <3>2 DEF SameStory
      <3>4. m.seq \in 1..e.notify_seq
        BY <3>3 DEF Reminders
      <3> QED BY <2>4, <3>1, <3>4
    <2> QED BY <1>9, <2>2, <2>3, <2>4 DEF RecordedBefore
  <1> QED BY <1>1, <1>2, <1>4, <1>6, <1>7, <1>8, <1>9

LEMMA StepPage ==
  ASSUME Typed, LedgerInv, ForwardInv, PageInv, OneWorker, [Next]_vars
  PROVE  PageInv'
  <1>0. \A n \in notifications : n \in Notice /\ n.episode \in EpisodeIds /\ episodes[n.episode] # None
    BY DEF Typed, TypeOK, Notice, LedgerInv, NoticeLedger
  <1>1. ASSUME NEW w \in Workers, pc'[w] = "commit", job'[w].emit = "resolved"
        PROVE  job'[w].row.stale_since = None
    <2>1. CASE pc[w] = "commit" /\ job'[w] = job[w]
      BY <1>1, <2>1 DEF PageInv
    <2>2. ASSUME NEW finding \in Findings, Decide(w, finding)
          PROVE  job'[w].row.stale_since = None
      <3> DEFINE p == job[w].pair
                 out(prior) == Advance(Row(prior), p, finding, now[w], RuleOf(p))
      <3>1. p \in Pairs /\ now[w] \in Time
        BY <2>2 DEF Decide, Typed, TypeOK
      <3>2. PICK prior \in GetActive(p) :
              job' = [job EXCEPT ![w] = [pair |-> p, prior |-> prior,
                        row |-> out(prior).row, emit |-> out(prior).emit]]
        BY <2>2 DEF Decide
      <3>3. job'[w].row = out(prior).row /\ job'[w].emit = out(prior).emit
        BY <3>2 DEF Typed, TypeOK
      <3>4. /\ Row(prior) \in Opt(Episode(Pairs))
            /\ Row(prior) # None => Row(prior).state \in ActiveStates
        BY <3>1, PriorRow DEF Typed
      <3> QED BY <1>1, <3>1, <3>3, <3>4, ResolvedIsFresh
    <2> QED BY <1>1, <2>1, <2>2, JobSteps DEF Typed
  <1>2. CASE UNCHANGED <<episodes, notifications>>
    BY <1>1, <1>2 DEF PageInv, Key, RecordedBefore
  <1>3. ASSUME NEW r \in Rules, DisableRule(r) PROVE PageInv'
    <2>1. notifications' = notifications
          /\ \A i \in EpisodeIds : episodes'[i] = CloseSilently(episodes[i], r)
      BY <1>3 DEF DisableRule
    <2>2. ASSUME NEW n \in notifications, n.transition = "resolved"
          PROVE  episodes'[n.episode].stale_since = None
      <3>1. episodes[n.episode].state = "clear"
        BY <1>0, <2>2 DEF LedgerInv, NoticeLedger, SameStory, Of
      <3>2. episodes'[n.episode] = episodes[n.episode]
        BY <1>0, <2>1, <3>1 DEF CloseSilently, IsActive, ActiveStates
      <3> QED BY <2>2, <3>2 DEF PageInv
    <2> QED BY <1>1, <2>1, <2>2 DEF PageInv, Key, RecordedBefore
  <1>4. ASSUME NEW w \in Workers, Commit(w) PROVE PageInv'
    <2>1. PICK i \in EpisodeIds :
           /\ episodes' = [episodes EXCEPT ![i] = job[w].row]
           /\ \A n \in Of(i) : n.transition # "resolved"
           /\ \A m, n \in notifications' \ notifications : m = n
           /\ \A n \in notifications' \ notifications :
                /\ n.episode = i /\ n.transition = job[w].emit
                /\ \A m \in notifications : Key(m) # Key(n)
                /\ \A m \in Of(i) : m.at <= n.at /\ ~RecordedBefore(n, m)
      BY <1>4, CommitRecords
    <2>2. notifications \subseteq notifications'
      BY <1>4 DEF Commit
    <2>3. ASSUME NEW m \in notifications', NEW n \in notifications', Key(m) = Key(n) PROVE m = n
      BY <2>1, <2>3 DEF PageInv
    <2>4. ASSUME NEW m \in notifications', NEW n \in notifications',
                 m.episode = n.episode, RecordedBefore(m, n)
          PROVE  m.at <= n.at
      <3>1. CASE m \in notifications /\ n \in notifications
        BY <2>4, <3>1 DEF PageInv
      <3>2. CASE m \in notifications /\ n \notin notifications
        BY <2>1, <2>4, <3>2 DEF Of
      <3>3. CASE m \notin notifications /\ n \in notifications
        BY <2>1, <2>4, <3>3 DEF Of
      <3>4. CASE m \notin notifications /\ n \notin notifications
        <4>1. m = n
          BY <2>1, <3>4
        <4>2. n.at = clock[w] /\ clock[w] \in Nat
          BY <3>4, NewNotices DEF Typed, TypeOK, Time
        <4> QED BY <4>1, <4>2
      <3> QED BY <3>1, <3>2, <3>3, <3>4
    <2>5. ASSUME NEW n \in notifications', n.transition = "resolved"
          PROVE  episodes'[n.episode].stale_since = None
      <3>1. CASE n \in notifications
        <4>1. n.episode # i
          BY <2>1, <2>5, <3>1 DEF Of
        <4> QED BY <1>0, <2>1, <2>5, <3>1, <4>1 DEF PageInv, Typed, TypeOK
      <3>2. CASE n \notin notifications
        <4>1. n.episode = i /\ job[w].emit = "resolved" /\ pc[w] = "commit"
          BY <1>4, <2>1, <2>5, <3>2 DEF Commit
        <4> QED BY <2>1, <4>1 DEF PageInv, Typed, TypeOK
      <3> QED BY <3>1, <3>2
    <2> QED BY <1>1, <2>3, <2>4, <2>5 DEF PageInv, Key, RecordedBefore
  <1> QED BY <1>2, <1>3, <1>4, TableSteps DEF Typed

-----------------------------------------------------------------------------
\* What is listed last of an episode whose story is told in order: the
\* resolution once there is one, and before it the notification its row was
\* last written with.
LEMMA StoryEnds ==
  ASSUME TypeOK, NoticeLedger, RowsOrdered, PageInv, NEW n \in notifications
  PROVE  LET i == n.episode
             e == episodes[i]
         IN  \E top \in Of(i) :
               /\ top.transition # "resolved" /\ top.at = e.last_notified_at
               /\ n.transition = "resolved" => top.at <= n.at /\ ~Stale(e)
               /\ n.transition # "resolved" => n = top \/ top.transition = "reminder"
               /\ \A l, m \in Of(i) :
                    m # l /\ (l.transition = "resolved" \/ (l = top /\ m.transition # "resolved"))
                    => ListedBefore(m, l) /\ ~ListedBefore(l, m)
  <1> DEFINE i == n.episode
             e == episodes[i]
             k == e.notify_seq
  <1>1. /\ i \in EpisodeIds /\ e \in Episode(Pairs) /\ k \in Nat
        /\ SameStory(e, Of(i)) /\ RowOrdered(e)
        /\ \A m \in Of(i) : m \in notifications /\ m.episode = i /\ m.at \in Nat
        /\ n \in Of(i)
    BY DEF TypeOK, Notice, NoticeLedger, RowsOrdered, Opt, Episode, Of, Time
  <1>2. \A m \in Of(i) : \/ m.transition = "resolved" /\ m.seq = 0
                         \/ m.transition = "opened" /\ m.seq = 0
                         \/ m.transition = "reminder" /\ m.seq \in 1..k
    <2> SUFFICES ASSUME NEW m \in Of(i), <<m.transition, m.seq>> # <<"resolved", 0>>
                 PROVE  \/ m.transition = "opened" /\ m.seq = 0
                        \/ m.transition = "reminder" /\ m.seq \in 1..k
      OBVIOUS
    <2>1. <<m.transition, m.seq>> \in Keys(Of(i)) \ {<<"resolved", 0>>}
      BY DEF Keys
    <2>2. <<m.transition, m.seq>> \in {<<"opened", 0>>} \cup Reminders(k)
      BY <1>1, <2>1 DEF SameStory
    <2> QED BY <2>2 DEF Reminders
  <1>3. PICK top \in Of(i) : IF k = 0 THEN top.transition = "opened" /\ top.seq = 0
                                     ELSE top.transition = "reminder" /\ top.seq = k
    <2> DEFINE key == IF k = 0 THEN <<"opened", 0>> ELSE <<"reminder", k>>
    <2>1. e.opened_at # None
      BY <1>1 DEF SameStory
    <2>2. key \in {<<"opened", 0>>} \cup Reminders(k)
      BY <1>1 DEF Reminders
    <2>3. key \in Keys(Of(i))
      BY <1>1, <2>1, <2>2 DEF SameStory
    <2>4. PICK m \in Of(i) : <<m.transition, m.seq>> = key
      BY <2>3 DEF Keys
    <2> QED BY <2>4
  <1>4. top.at = e.last_notified_at
    BY <1>1, <1>3 DEF SameStory, RowOrdered
  <1>5. ASSUME NEW m \in Of(i), NEW l \in Of(i), m # l,
               l.transition = "resolved" \/ (l = top /\ m.transition # "resolved")
        PROVE  RecordedBefore(m, l) /\ ~RecordedBefore(l, m)
    <2>1. ~(m.transition = l.transition /\ m.seq = l.seq)
      BY <1>1, <1>5 DEF PageInv, Key
    <2> HIDE DEF k
    <2> QED BY <1>1, <1>2, <1>3, <1>5, <2>1 DEF RecordedBefore
  <1>6. ASSUME NEW l \in Of(i), NEW m \in Of(i), m # l,
               l.transition = "resolved" \/ (l = top /\ m.transition # "resolved")
        PROVE  ListedBefore(m, l) /\ ~ListedBefore(l, m)
    <2>1. RecordedBefore(m, l) /\ ~RecordedBefore(l, m)
      BY <1>5, <1>6
    <2>2. m.at <= l.at /\ m.at \in Nat /\ l.at \in Nat
      BY <1>1, <2>1 DEF PageInv
    <2> QED BY <2>1, <2>2 DEF ListedBefore
  <1>7. n.transition = "resolved" => top.at <= n.at /\ ~Stale(e)
    <2> SUFFICES ASSUME n.transition = "resolved" PROVE top.at <= n.at /\ ~Stale(e)
      OBVIOUS
    <2>1. e.stale_since = None
      BY DEF PageInv
    <2>2. RecordedBefore(top, n)
      BY <1>3 DEF RecordedBefore
    <2>3. top.at <= n.at
      BY <1>1, <2>2 DEF PageInv
    <2> QED BY <2>1, <2>3 DEF Stale
  <1>8. n.transition # "resolved" => n = top \/ top.transition = "reminder"
    <2> SUFFICES ASSUME n.transition # "resolved", n # top, top.transition # "reminder"
                 PROVE  FALSE
      OBVIOUS
    <2>1. k = 0 /\ top.transition = "opened" /\ top.seq = 0
      BY <1>3
    <2>2. n.transition = "opened" /\ n.seq = 0
      BY <1>1, <1>2, <2>1
    <2> QED BY <1>1, <2>1, <2>2 DEF PageInv, Key
  <1>9. top.transition # "resolved"
    BY <1>3
  <1> QED BY <1>4, <1>6, <1>7, <1>8, <1>9

\* No time the engine writes into a row is ahead of the clock, and they are in
\* the order of an episode's life; a resolved one closes at its resolution.
THEOREM LifeInOrder == Uninterrupted /\ OneWorker => (Spec => []TimesOrdered)
  <1> SUFFICES ASSUME Uninterrupted, OneWorker PROVE Spec => []TimesOrdered
    OBVIOUS
  <1>1. Init => TimesInv /\ SomebodyWrote /\ PageInv
    BY DEF Init, TimesInv, SomebodyWrote, PageInv
  <1>2. TypeOK /\ RowsLoad /\ LedgerInv /\ ForwardInv /\ TimesInv /\ [Next]_vars => TimesInv'
    BY StepTimes DEF Typed, LedgerInv
  <1>3. TypeOK /\ RowsLoad /\ LedgerInv /\ ForwardInv /\ PageInv /\ [Next]_vars => PageInv'
    BY StepPage DEF Typed
  <1>4. TypeOK /\ LedgerInv /\ ForwardInv /\ TimesInv /\ SomebodyWrote /\ PageInv => TimesOrdered
    <2> SUFFICES ASSUME TypeOK, LedgerInv, ForwardInv, TimesInv, SomebodyWrote, PageInv,
                        NEW i \in EpisodeIds, episodes[i] # None
                 PROVE  LET e == episodes[i] IN
                        /\ \A t \in Stamps(e), w \in Workers : t <= clock[w]
                        /\ InLife(e)
                        /\ \A n \in Of(i) : n.transition = "resolved" =>
                             /\ e.last_notified_at <= e.closed_at
                             /\ \A w \in Workers : e.closed_at <= clock[w]
      BY DEF TimesOrdered, InLife, Stale
    <2>1. \A w \in Workers : RowTimes(episodes[i], clock[w])
      BY DEF TimesInv
    <2>2. InLife(episodes[i])
      BY <2>1 DEF SomebodyWrote, RowTimes
    <2>3. ASSUME NEW t \in Stamps(episodes[i]), NEW w \in Workers
          PROVE  t <= clock[w]
      BY <2>1, <2>3 DEF RowTimes, Stamps
    <2>4. ASSUME NEW n \in Of(i), n.transition = "resolved"
          PROVE  /\ episodes[i].last_notified_at <= episodes[i].closed_at
                 /\ \A w \in Workers : episodes[i].closed_at <= clock[w]
      <3>1. n \in notifications /\ n.episode = i
        BY DEF Of
      <3>2. episodes[i].closed_at = n.at
        BY <2>4 DEF LedgerInv, NoticeLedger, SameStory
      <3>3. episodes[i].last_notified_at <= n.at
        BY <2>4, <3>1, StoryEnds DEF LedgerInv
      <3> QED BY <3>1, <3>2, <3>3 DEF ForwardInv
    <2> QED BY <2>2, <2>3, <2>4
  <1> QED BY <1>1, <1>2, <1>3, <1>4, StepWrote, TypeCorrect, ActiveRowsLoad, LedgerInductive,
       ForwardHolds, PTL DEF Spec

-----------------------------------------------------------------------------
(* A request for the page, beside the engine.                              *)

ViewInv ==
  /\ listed \subseteq notifications
  /\ \A n \in listed :
       /\ \E m \in Listed(n.episode) : IsLatest(m)
       /\ n.transition = "resolved" => IsLatest(n)
  /\ \A x \in shown : x.notice \in listed /\ Fits(x)

\* What list() returns has a last notification of each episode in it.
LEMMA WholeStory ==
  ASSUME TypeOK, NoticeLedger, RowsOrdered, PageInv, NEW n \in notifications
  PROVE  /\ \E l \in Of(n.episode) : \A m \in Of(n.episode) : m # l => ListedBefore(m, l)
         /\ n.transition = "resolved" =>
              \A m \in Of(n.episode) : m # n => ListedBefore(m, n)
  <1>1. n \in Of(n.episode)
    BY DEF Of
  <1>2. PICK top \in Of(n.episode) :
          \A l, m \in Of(n.episode) :
            m # l /\ (l.transition = "resolved" \/ (l = top /\ m.transition # "resolved"))
            => ListedBefore(m, l)
    BY StoryEnds
  <1>3. CASE \E l \in Of(n.episode) : l.transition = "resolved"
    BY <1>1, <1>2, <1>3
  <1>4. CASE \A l \in Of(n.episode) : l.transition # "resolved"
    BY <1>1, <1>2, <1>4
  <1> QED BY <1>3, <1>4

LEMMA LookUpFits ==
  ASSUME TypeOK, NoticeLedger, RowsOrdered, PageInv, ViewInv, NEW n \in listed, IsLatest(n)
  PROVE  Fits(Beside(n))
  <1> DEFINE i == n.episode
             e == episodes[i]
  <1>1. n \in notifications /\ n \in Of(i) /\ n \in Listed(i) /\ Listed(i) \subseteq Of(i)
    BY DEF ViewInv, Of, Listed
  <1>2. PICK top \in Of(i) :
          /\ top.transition # "resolved" /\ top.at = e.last_notified_at
          /\ n.transition = "resolved" => top.at <= n.at /\ ~Stale(e)
          /\ n.transition # "resolved" => n = top \/ top.transition = "reminder"
          /\ \A l, m \in Of(i) :
               m # l /\ (l.transition = "resolved" \/ (l = top /\ m.transition # "resolved"))
               => ListedBefore(m, l) /\ ~ListedBefore(l, m)
    BY <1>1, StoryEnds
  <1>3. /\ Beside(n).notice = n /\ Beside(n).stale = Stale(e)
        /\ Beside(n).summary # None => Beside(n).summary.since = e.last_notified_at
    BY DEF Beside, Summary
  <1>4. CASE n.transition = "resolved"
    BY <1>2, <1>3, <1>4 DEF Fits
  <1>5. CASE n.transition # "resolved"
    <2>1. CASE top \in listed
      <3>1. top \in Listed(i)
        BY <2>1 DEF Of, Listed
      <3>2. n = top
        BY <1>1, <1>2, <1>5, <3>1 DEF IsLatest
      <3> QED BY <1>2, <1>3, <1>5, <3>2 DEF Fits
    <2>2. CASE top \notin listed
      <3>1. top \in Of(i) \ listed /\ top.transition = "reminder"
        BY <1>2, <1>5, <2>2
      <3> QED BY <1>2, <1>3, <1>5, <3>1 DEF Fits
    <2> QED BY <2>1, <2>2
  <1> QED BY <1>4, <1>5

LEMMA StepView ==
  ASSUME TypeOK, NoticeLedger, RowsOrdered, PageInv, ViewInv, [PNext]_pvars
  PROVE  ViewInv'
  <1>1. ASSUME [Next]_vars, UNCHANGED page PROVE ViewInv'
    <2>1. notifications \subseteq notifications'
      BY <1>1, TableSteps DEF Commit, DisableRule
    <2>2. listed' = listed /\ shown' = shown
      BY <1>1 DEF page
    <2>3. \A i : Of(i) \subseteq Of(i)'
      BY <2>1 DEF Of
    <2>4. \A x : Fits(x) => Fits(x)'
      BY <2>2, <2>3 DEF Fits
    <2>5. \A n : IsLatest(n)' <=> IsLatest(n)
      BY <2>2 DEF IsLatest, Listed, ListedBefore, RecordedBefore
    <2> QED BY <2>1, <2>2, <2>4, <2>5 DEF ViewInv, Listed
  <1>2. ASSUME List PROVE ViewInv'
    <2>1. listed' = notifications /\ shown' = {} /\ notifications' = notifications
      BY <1>2 DEF List, vars
    <2>2. \A i : Listed(i)' = Of(i)
      BY <2>1 DEF Listed, Of
    <2>3. \A n : IsLatest(n)' <=> \A m \in Of(n.episode) : m # n => ListedBefore(m, n)
      BY <2>2 DEF IsLatest
    <2>4. ASSUME NEW n \in notifications
          PROVE  /\ \E m \in Of(n.episode) : IsLatest(m)'
                 /\ n.transition = "resolved" => IsLatest(n)'
      <3>1. \A m \in Of(n.episode) : m.episode = n.episode
        BY DEF Of
      <3> QED BY <2>3, <3>1, WholeStory
    <2> QED BY <2>1, <2>2, <2>4 DEF ViewInv
  <1>3. ASSUME NEW n \in listed, LookUp(n) PROVE ViewInv'
    <2>1. /\ listed' = listed /\ shown' = shown \cup {Beside(n)}
          /\ notifications' = notifications
      BY <1>3 DEF LookUp, vars
    <2>2. Fits(Beside(n)) /\ Beside(n).notice = n
      BY <1>3, LookUpFits DEF LookUp, Beside
    <2>3. \A x : Fits(x)' <=> Fits(x)
      BY <2>1 DEF Fits, Of
    <2>4. \A m : IsLatest(m)' <=> IsLatest(m)
      BY <2>1 DEF IsLatest, Listed
    <2> HIDE DEF Beside
    <2> QED BY <2>1, <2>2, <2>3, <2>4 DEF ViewInv, Listed
  <1> QED BY <1>1, <1>2, <1>3 DEF PNext, pvars, page, vars

\* The notifications page never puts the state of an episode beside a
\* notification it does not belong to, but for that of a reminder recorded
\* since it was listed, whatever the engine and the API commit between two
\* reads of a request.
THEOREM PageFits == Uninterrupted /\ OneWorker => (PSpec => []LiveStateFits)
  <1> SUFFICES ASSUME Uninterrupted, OneWorker PROVE PSpec => []LiveStateFits
    OBVIOUS
  <1>1. PInit => Init /\ PageInv /\ ViewInv
    BY DEF PInit, Init, PageInv, ViewInv
  <1>2. [PNext]_pvars => [Next]_vars
    BY DEF PNext, List, LookUp, pvars
  <1>3. PSpec => Spec
    BY <1>1, <1>2, PTL DEF PSpec, Spec
  <1>4. TypeOK /\ RowsLoad /\ LedgerInv /\ ForwardInv /\ PageInv /\ [Next]_vars => PageInv'
    BY StepPage DEF Typed
  <1>5. TypeOK /\ LedgerInv /\ PageInv /\ ViewInv /\ [PNext]_pvars => ViewInv'
    BY StepView DEF LedgerInv
  <1>6. ViewInv => LiveStateFits
    BY DEF ViewInv, LiveStateFits
  <1> QED BY <1>1, <1>2, <1>3, <1>4, <1>5, <1>6, TypeCorrect, ActiveRowsLoad, LedgerInductive,
       ForwardHolds, PTL DEF PSpec

=============================================================================
