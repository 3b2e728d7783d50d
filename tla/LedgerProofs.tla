---------------------------- MODULE LedgerProofs ----------------------------
(***************************************************************************)
(* What one evaluator's episodes and notifications have to do with each    *)
(* other, proved for any number of rules, subjects and episodes, with API  *)
(* calls and crashes between any two steps of an evaluation.               *)
(***************************************************************************)
EXTENDS EngineProofs

OneWorker == \A v, w \in Workers : v = w

\* A row waits to open before it opens; its cooldown starts at the opening.
RowOrdered(e) ==
  /\ e.state = "pending" => e.opened_at = None
  /\ e.opened_at # None /\ e.notify_seq = 0 => e.last_notified_at = e.opened_at

\* The row to be written, and the transition with it, follow from row e at
\* time t under rule r.
Continues(e, row, emit, t, r) ==
  /\ row.pair = e.pair
  /\ row.opened_at = IF emit = "opened" THEN t ELSE e.opened_at
  /\ row.notify_seq = IF emit = "opened" THEN 0
                      ELSE IF emit = "reminder" THEN e.notify_seq + 1
                      ELSE e.notify_seq
  /\ row.last_notified_at =
       IF emit \in {"opened", "reminder"} THEN t ELSE e.last_notified_at
  /\ e.opened_at # None => row.first_true_at = e.first_true_at
  /\ emit = "opened" => e.opened_at = None /\ t - row.first_true_at >= ForDuration[r]
  /\ emit \in {"reminder", "resolved"} => e.opened_at # None
  /\ emit = "reminder" => Cooldown[r] > 0 /\ t - e.last_notified_at >= Cooldown[r]
  /\ emit = "resolved" => row.state = "clear" /\ row.closed_at = t

\* What advance() makes of the row it is given continues that row.
LEMMA AdvanceContinues ==
  ASSUME NEW p \in Pairs, NEW e \in Opt(Episode(Pairs)),
         e # None => /\ e.state \in ActiveStates /\ e.pair = p
                     /\ Consistent(e) /\ RowOrdered(e),
         NEW finding \in Findings, NEW t \in Time
  PROVE  LET out == Advance(e, p, finding, t, RuleOf(p))
         IN  /\ RowOrdered(out.row)
             /\ Continues(IF e = None THEN Blank(p) ELSE e, out.row, out.emit, t, p[1])
  <1> DEFINE rule == RuleOf(p)
             out == Advance(e, p, finding, t, rule)
             row == out.row
             emit == out.emit
             base == IF e = None THEN Blank(p) ELSE e
  <1> SUFFICES RowOrdered(row) /\ Continues(base, row, emit, t, p[1])
    OBVIOUS
  <1>t. t # None /\ t \in Nat
    BY NoneAssumption DEF Time
  <1>n. None # "opened" /\ None # "reminder" /\ None # "resolved"
    BY NoneAssumption
  <1>r. /\ p[1] \in Rules
        /\ rule.for_duration = ForDuration[p[1]] /\ rule.cooldown = Cooldown[p[1]]
        /\ ForDuration[p[1]] \in Nat /\ Cooldown[p[1]] \in Nat
    BY RulesAssumption DEF RuleOf, Pairs
  <1> HIDE DEF rule, row, emit
  <1>1. CASE e = None
    <2>1. out = FromClear(p, finding, t, rule)
      BY <1>1 DEF Advance, rule
    <2>2. \/ row = Blank(p) /\ emit = None
          \/ /\ row = [Blank(p) EXCEPT !.state = "open", !.first_true_at = t,
                                       !.opened_at = t, !.last_notified_at = t]
             /\ emit = "opened" /\ ForDuration[p[1]] = 0
          \/ /\ row = [Blank(p) EXCEPT !.state = "pending", !.first_true_at = t]
             /\ emit = None
      BY <2>1, <1>r DEF FromClear, Outcome, row, emit, rule
    <2>3. CASE row = Blank(p) /\ emit = None
      BY <1>1, <2>3, <1>n DEF Blank, Continues, RowOrdered
    <2>4. CASE emit = "opened"
      <3>1. /\ row = [Blank(p) EXCEPT !.state = "open", !.first_true_at = t,
                                      !.opened_at = t, !.last_notified_at = t]
            /\ ForDuration[p[1]] = 0
        BY <2>2, <2>4, <1>n
      <3>2. /\ row.pair = p /\ row.state = "open" /\ row.notify_seq = 0
            /\ row.first_true_at = t /\ row.opened_at = t /\ row.last_notified_at = t
        BY <3>1 DEF Blank
      <3>3. base.pair = p /\ base.opened_at = None
        BY <1>1 DEF Blank
      <3>4. t - row.first_true_at >= ForDuration[p[1]]
        BY <3>1, <3>2, <1>t
      <3> QED BY <2>4, <3>2, <3>3, <3>4 DEF Continues, RowOrdered
    <2>5. CASE /\ row = [Blank(p) EXCEPT !.state = "pending", !.first_true_at = t]
               /\ emit = None
      BY <1>1, <2>5, <1>t, <1>n DEF Blank, Continues, RowOrdered
    <2> QED BY <2>2, <2>3, <2>4, <2>5
  <1>2. CASE e # None /\ e.state = "pending"
    <2>0. base = e
      BY <1>2
    <2>1. e \in Episode(Pairs) /\ e.opened_at = None /\ e.first_true_at \in Nat
      BY <1>2 DEF Opt, RowOrdered, Consistent, Episode, Time
    <2>2. out = FromPending(e, finding, t, rule)
      BY <1>2 DEF Advance, rule
    <2>3. \/ row = Cleared(e) /\ emit = None
          \/ row = Counted(e) /\ emit = None
          \/ row = Promoted(e, t) /\ emit = "opened" /\ Held(e, t, rule)
      BY <2>2 DEF FromPending, Outcome, Promoted, row, emit
    <2>4. CASE row = Cleared(e) /\ emit = None
      BY <2>1, <2>4, <1>n, <2>0 DEF Cleared, Continues, RowOrdered, Episode
    <2>5. CASE row = Counted(e) /\ emit = None
      BY <2>1, <2>5, <1>n, <2>0 DEF Counted, Continues, RowOrdered, Episode
    <2>6. CASE row = Promoted(e, t) /\ emit = "opened" /\ Held(e, t, rule)
      BY <2>1, <2>6, <1>t, <1>n, <1>r, <2>0 DEF Promoted, Held, Continues, RowOrdered, Episode
    <2> QED BY <2>3, <2>4, <2>5, <2>6
  <1>3. CASE e # None /\ e.state = "open"
    <2>0. base = e
      BY <1>3
    <2>1. /\ e \in Episode(Pairs) /\ e.pair = p /\ RowOrdered(e)
          /\ e.opened_at # None /\ e.last_notified_at \in Nat
      BY <1>3 DEF Opt, Consistent, Episode, Time
    <2>2. out = FromOpen(e, finding, t, rule)
      BY <1>3 DEF Advance, rule
    <2>3. \/ row = Frozen(e, t) /\ emit = None
          \/ row = Closed(e, t) /\ emit = "resolved"
          \/ row = Suppress(e) /\ emit = None
          \/ row = Reminded(e, t) /\ emit = "reminder" /\ ReminderDue(e, t, rule)
      <3>1. CASE finding = "unknown"
        BY <2>2, <3>1 DEF FromOpen, Outcome, row, emit
      <3>2. CASE finding = "false"
        BY <2>2, <3>2 DEF FromOpen, Outcome, row, emit
      <3>3. CASE finding = "true"
        BY <2>2, <3>3 DEF FromOpen, Outcome, Reminded, row, emit
      <3> QED BY <3>1, <3>2, <3>3 DEF Findings
    <2>4. CASE row = Frozen(e, t) /\ emit = None
      BY <2>1, <2>4, <1>n, <2>0 DEF Frozen, Continues, RowOrdered, Episode
    <2>5. CASE row = Closed(e, t) /\ emit = "resolved"
      BY <2>1, <2>5, <1>n, <2>0 DEF Closed, Continues, RowOrdered, Episode
    <2>6. CASE row = Suppress(e) /\ emit = None
      BY <2>1, <2>6, <1>n, <2>0 DEF Suppress, Counted, Continues, RowOrdered, Episode
    <2>7. CASE row = Reminded(e, t) /\ emit = "reminder" /\ ReminderDue(e, t, rule)
      <3> DEFINE k == e.notify_seq + 1
      <3>1. e.notify_seq \in Nat
        BY <2>1 DEF Episode
      <3>2. k # 0
        BY <3>1
      <3>3. row = [e EXCEPT !.notify_seq = k, !.last_notified_at = t, !.stale_since = None]
        BY <2>7 DEF Reminded
      <3>4. t - e.last_notified_at >= Cooldown[p[1]] /\ Cooldown[p[1]] > 0
        BY <2>7, <1>r DEF ReminderDue
      <3>5. row.notify_seq = e.notify_seq + 1 /\ row.notify_seq # 0
        <4> HIDE DEF k
        <4>1. row.notify_seq = k
          BY <3>3, <2>1 DEF Episode
        <4> QED BY <4>1, <3>2 DEF k
      <3> HIDE DEF k
      <3>6. /\ row.pair = e.pair /\ row.opened_at = e.opened_at
            /\ row.last_notified_at = t /\ row.first_true_at = e.first_true_at
            /\ row.state = "open"
        BY <3>3, <2>1, <1>3 DEF Episode
      <3> QED BY <2>1, <2>7, <3>4, <3>5, <3>6, <1>n, <2>0 DEF Continues, RowOrdered
    <2> QED BY <2>3, <2>4, <2>5, <2>6, <2>7
  <1> QED BY <1>1, <1>2, <1>3 DEF ActiveStates

-----------------------------------------------------------------------------
\* The notification of a transition, as Notify() makes it.
NoticeOf(i, p, row, emit, t) ==
  [episode |-> i, pair |-> p, transition |-> emit,
   seq |-> IF emit = "reminder" THEN row.notify_seq ELSE 0, at |-> t]

\* A row that continues another, together with the notification of its
\* transition, continues the story; and the notification's key is a new one.
LEMMA StoryContinues ==
  ASSUME NEW e \in Episode(Pairs), NEW row \in Episode(Pairs),
         NEW S \in SUBSET Notice, NEW i \in EpisodeIds, NEW t \in Time,
         NEW r, NEW emit \in Opt(Transitions),
         SameStory(e, S), \A n \in S : n.transition # "resolved",
         Continues(e, row, emit, t, r)
  PROVE  LET new == NoticeOf(i, e.pair, row, emit, t) IN
         /\ emit = None => SameStory(row, S)
         /\ emit # None => /\ SameStory(row, S \cup {new})
                           /\ <<new.transition, new.seq>> \notin Keys(S)
  <1> DEFINE new == NoticeOf(i, e.pair, row, emit, t)
             key == <<new.transition, new.seq>>
             k == e.notify_seq
  <1>t. t # None
    BY NoneAssumption DEF Time
  <1>k. k \in Nat /\ row.pair = e.pair
    BY DEF Episode, Continues
  <1>n. /\ new.pair = row.pair /\ new.transition = emit /\ new.at = t
        /\ new.seq = IF emit = "reminder" THEN row.notify_seq ELSE 0
    BY <1>k DEF NoticeOf
  <1>u. Keys(S \cup {new}) = Keys(S) \cup {key}
    BY DEF Keys
  <1>s. \A n \in S : <<n.transition, n.seq>> # <<"resolved", 0>>
    BY DEF Notice
  <1>0. <<"resolved", 0>> \notin Keys(S)
    BY <1>s DEF Keys
  <1>1. CASE emit = None
    <2>1. /\ row.opened_at = e.opened_at /\ row.notify_seq = e.notify_seq
          /\ row.last_notified_at = e.last_notified_at
      BY <1>1, NoneAssumption DEF Continues
    <2> QED BY <1>1, <2>1, <1>k DEF SameStory
  <1>2. CASE emit = "opened"
    <2>1. S = {} /\ row.opened_at = t /\ row.notify_seq = 0
      BY <1>2 DEF Continues, SameStory
    <2>2. Keys(S \cup {new}) = {<<"opened", 0>>} /\ key = <<"opened", 0>>
      BY <1>2, <1>n, <1>u, <2>1 DEF Keys
    <2>3. Reminders(0) = {}
      BY DEF Reminders
    <2>4. Keys(S \cup {new}) \ {<<"resolved", 0>>} = {<<"opened", 0>>}
      BY <2>2
    <2>5. SameStory(row, S \cup {new})
      BY <1>2, <1>n, <1>t, <2>1, <2>3, <2>4 DEF SameStory
    <2>6. key \notin Keys(S)
      BY <2>1 DEF Keys
    <2> QED BY <1>2, <2>5, <2>6, NoneAssumption
  <1>3. CASE emit = "reminder"
    <2>1. /\ e.opened_at # None /\ row.opened_at = e.opened_at
          /\ row.notify_seq = k + 1 /\ row.last_notified_at = t
      BY <1>3 DEF Continues
    <2>2. Keys(S) = {<<"opened", 0>>} \cup Reminders(k)
      BY <1>0, <2>1 DEF SameStory
    <2>3. \A j : <<"reminder", j>> \in Keys(S) => j \in 1..k
      BY <2>2 DEF Reminders
    <2>4. key = <<"reminder", k + 1>> /\ key \notin Keys(S)
      BY <1>3, <1>n, <1>k, <2>1, <2>3
    <2>5. Reminders(k + 1) = Reminders(k) \cup {key}
      <3>1. 1..(k + 1) = 1..k \cup {k + 1}
        BY <1>k
      <3> QED BY <3>1, <2>4 DEF Reminders
    <2>6. Keys(S \cup {new}) \ {<<"resolved", 0>>} = {<<"opened", 0>>} \cup Reminders(k + 1)
      BY <1>u, <2>2, <2>4, <2>5, <1>0
    <2>7. \A n \in S : ~(n.transition = "reminder" /\ n.seq = k + 1)
      BY <2>3, <1>k DEF Keys
    <2>8. SameStory(row, S \cup {new})
      BY <1>3, <1>n, <1>k, <2>1, <2>6, <2>7 DEF SameStory
    <2> QED BY <1>3, <2>4, <2>8, NoneAssumption
  <1>4. CASE emit = "resolved"
    <2>1. /\ e.opened_at # None /\ row.opened_at = e.opened_at
          /\ row.notify_seq = e.notify_seq /\ row.last_notified_at = e.last_notified_at
          /\ row.state = "clear" /\ row.closed_at = t
      BY <1>4 DEF Continues
    <2>2. key = <<"resolved", 0>>
      BY <1>4, <1>n
    <2>3. Keys(S \cup {new}) \ {<<"resolved", 0>>} = Keys(S) \ {<<"resolved", 0>>}
      BY <1>u, <2>2
    <2>4. SameStory(row, S \cup {new})
      BY <1>4, <1>n, <1>k, <2>1, <2>3 DEF SameStory
    <2> QED BY <1>4, <2>2, <2>4, <1>0, NoneAssumption
  <1> QED BY <1>1, <1>2, <1>3, <1>4 DEF Opt, Transitions

-----------------------------------------------------------------------------
(* The inductive invariant: the row in flight continues the row it was     *)
(* read from, even if the API has closed that one since.                   *)

RowsOrdered == \A i \in EpisodeIds : episodes[i] # None => RowOrdered(episodes[i])

ReadRow(w) == IF job[w].prior = None THEN Blank(job[w].pair) ELSE episodes[job[w].prior]

InFlight(w) ==
  /\ job[w].prior # None =>
       /\ episodes[job[w].prior] # None
       /\ \A n \in Of(job[w].prior) : n.transition # "resolved"
  /\ ReadRow(w).pair = job[w].pair
  /\ RowOrdered(job[w].row)
  /\ Continues(ReadRow(w), job[w].row, job[w].emit, now[w], job[w].pair[1])

JobsContinue == \A w \in Workers : pc[w] = "commit" => InFlight(w)

LedgerInv == NoticeLedger /\ RowsOrdered /\ JobsContinue

Typed == TypeOK /\ RowsLoad

\* A fresh row has no story yet.
LEMMA BlankStory ==
  ASSUME NEW p \in Pairs
  PROVE  /\ Blank(p) \in Episode(Pairs) /\ Blank(p).pair = p
         /\ SameStory(Blank(p), {})
  <1>1. Blank(p) \in Episode(Pairs) /\ Blank(p).pair = p
    BY DEF Blank, Episode, Opt, States
  <1>2. Blank(p).opened_at = None /\ Blank(p).notify_seq = 0
    BY DEF Blank
  <1>3. Reminders(0) = {} /\ Keys({}) = {}
    BY DEF Reminders, Keys
  <1> QED BY <1>1, <1>2, <1>3 DEF SameStory

\* Closing a row keeps all but its state and closed_at.
LEMMA CloseKeeps ==
  ASSUME NEW row \in Opt(Episode(Pairs)), row # None, NEW r
  PROVE  LET c == CloseSilently(row, r) IN
         /\ c # None
         /\ c.pair = row.pair /\ c.first_true_at = row.first_true_at
         /\ c.opened_at = row.opened_at /\ c.notify_seq = row.notify_seq
         /\ c.last_notified_at = row.last_notified_at
         /\ c = row \/ (IsActive(row) /\ c.state = "clear")
  <1>1. row \in Episode(Pairs)
    BY DEF Opt
  <1>2. CASE IsActive(row) /\ row.pair[1] = r
    <2>1. CloseSilently(row, r) = [row EXCEPT !.state = "clear", !.closed_at = Wall]
      BY <1>2 DEF CloseSilently
    <2>2. CloseSilently(row, r) \in Episode(Pairs)
      BY <1>1, <2>1, BoundsAssumption DEF Episode, Opt, Time, States
    <2> DEFINE c == CloseSilently(row, r)
    <2>3. c # None
      BY <2>2, NoneIsNoData
    <2>4. /\ c.pair = row.pair /\ c.first_true_at = row.first_true_at
          /\ c.opened_at = row.opened_at /\ c.notify_seq = row.notify_seq
          /\ c.last_notified_at = row.last_notified_at /\ c.state = "clear"
      BY <1>1, <2>1 DEF Episode
    <2> QED BY <1>2, <2>3, <2>4
  <1>3. CASE ~(IsActive(row) /\ row.pair[1] = r)
    BY <1>3 DEF CloseSilently
  <1> QED BY <1>2, <1>3

\* What a commit writes: a row that continues the story of the row it takes
\* the place of, and the notification of its transition.
LEMMA CommitStory ==
  ASSUME Typed, LedgerInv, NEW w \in Workers, Commit(w)
  PROVE  \E i \in EpisodeIds, e \in Episode(Pairs) :
           LET j == job[w]
               new == NoticeOf(i, e.pair, j.row, j.emit, now[w])
           IN  /\ episodes' = [episodes EXCEPT ![i] = j.row]
               /\ notifications' = notifications \cup (IF j.emit = None THEN {} ELSE {new})
               /\ SameStory(e, Of(i))
               /\ SameStory(j.row, Of(i) \cup (IF j.emit = None THEN {} ELSE {new}))
               /\ Continues(e, j.row, j.emit, now[w], e.pair[1])
               /\ RowOrdered(e) /\ RowOrdered(j.row)
               /\ episodes[i] = e \/ (episodes[i] = None /\ Of(i) = {})
               /\ new \in Notice \/ j.emit = None
               /\ new \notin notifications \/ j.emit = None
               /\ e = ReadRow(w) /\ i \in Target(w)
  <1> DEFINE j == job[w]
             e == ReadRow(w)
  <1>1. PICK i \in Target(w) :
          /\ episodes' = [episodes EXCEPT ![i] = j.row]
          /\ notifications' = notifications \cup Inserted(Notify(w, i))
    BY DEF Commit
  <1> DEFINE new == NoticeOf(i, e.pair, j.row, j.emit, now[w])
  <1>2. i \in EpisodeIds
    BY TargetType DEF Typed
  <1>3. /\ j.pair \in Pairs /\ j.row \in Episode(Pairs) /\ j.emit \in Opt(Transitions)
        /\ j.prior \in Opt(EpisodeIds) /\ now[w] \in Time
    BY DEF Commit, Typed, TypeOK, Job
  <1>4. InFlight(w)
    BY DEF Commit, LedgerInv, JobsContinue
  <1>5. /\ e \in Episode(Pairs) /\ SameStory(e, Of(i)) /\ RowOrdered(e)
        /\ \A n \in Of(i) : n.transition # "resolved"
        /\ episodes[i] = e \/ (episodes[i] = None /\ Of(i) = {})
    <2>1. CASE j.prior = None
      <3>1. e = Blank(j.pair) /\ episodes[i] = None
        BY <2>1 DEF ReadRow, Target
      <3>2. Of(i) = {}
        BY <3>1 DEF LedgerInv, NoticeLedger, Of
      <3>3. RowOrdered(Blank(j.pair))
        BY DEF RowOrdered, Blank
      <3> QED BY <1>3, <3>1, <3>2, <3>3, BlankStory
    <2>2. CASE j.prior # None
      <3>1. e = episodes[i] /\ i = j.prior
        BY <2>2 DEF ReadRow, Target
      <3>2. episodes[i] # None /\ \A n \in Of(i) : n.transition # "resolved"
        BY <2>2, <3>1, <1>4 DEF InFlight
      <3> QED BY <1>2, <3>1, <3>2 DEF LedgerInv, NoticeLedger, RowsOrdered, Typed, TypeOK, Opt
    <2> QED BY <2>1, <2>2
  <1>6. /\ e.pair = j.pair /\ RowOrdered(j.row)
        /\ Continues(e, j.row, j.emit, now[w], e.pair[1])
    BY <1>4 DEF InFlight
  <1>e. e = ReadRow(w) /\ i \in Target(w)
    OBVIOUS
  <1> HIDE DEF e
  <1>7. Of(i) \in SUBSET Notice
    BY DEF Of, Typed, TypeOK
  <1>8. /\ j.emit = None => SameStory(j.row, Of(i))
        /\ j.emit # None => /\ SameStory(j.row, Of(i) \cup {new})
                            /\ <<new.transition, new.seq>> \notin Keys(Of(i))
    <2> DEFINE row == j.row
               emit == j.emit
               t == now[w]
    <2>1. /\ row \in Episode(Pairs) /\ emit \in Opt(Transitions) /\ t \in Time
          /\ Continues(e, row, emit, t, e.pair[1])
      BY <1>3, <1>6
    <2> HIDE DEF row, emit, t
    <2>2. LET n == NoticeOf(i, e.pair, row, emit, t) IN
          /\ emit = None => SameStory(row, Of(i))
          /\ emit # None => /\ SameStory(row, Of(i) \cup {n})
                            /\ <<n.transition, n.seq>> \notin Keys(Of(i))
      BY <1>2, <1>5, <1>7, <2>1, StoryContinues
    <2> QED BY <2>2 DEF row, emit, t
  <1>9. Notify(w, i) = IF j.emit = None THEN {} ELSE {new}
    BY <1>6 DEF Notify, NoticeOf
  <1>10. Inserted(Notify(w, i)) = IF j.emit = None THEN {} ELSE {new}
    <2>1. CASE j.emit = None
      BY <2>1, <1>9 DEF Inserted
    <2>2. CASE j.emit # None
      <3>1. new.episode = i
        BY DEF NoticeOf
      <3>2. \A m \in notifications : Key(m) # Key(new)
        BY <2>2, <3>1, <1>8 DEF Key, Keys, Of
      <3> QED BY <2>2, <1>9, <3>2 DEF Inserted
    <2> QED BY <2>1, <2>2
  <1>11. new \in Notice \/ j.emit = None
    <2>1. e.pair \in Pairs /\ j.row.notify_seq \in Nat
      BY <1>3, <1>5 DEF Episode
    <2> QED BY <2>1, <1>2, <1>3 DEF NoticeOf, Notice, Opt
  <1>12. new \notin notifications \/ j.emit = None
    BY <1>10 DEF Inserted
  <1> QED BY <1>1, <1>2, <1>5, <1>6, <1>8, <1>10, <1>11, <1>12, <1>e

-----------------------------------------------------------------------------
\* The steps that move the two tables.
LEMMA TableSteps ==
  ASSUME TypeOK, [Next]_vars
  PROVE  \/ UNCHANGED <<episodes, notifications>>
         \/ \E r \in Rules : DisableRule(r)
         \/ \E w \in Workers : Commit(w)
  BY DEF Next, Api, Evaluate, Loop, CreateRule, OnEvent, OnSkip, OnTick, EndRun, Begin, Decide,
         Discard, CommitFails, Send, Crash, Die, vars, db

\* Only the worker itself leaves the commit of its row or moves its time.
LEMMA WaitingSteps ==
  ASSUME TypeOK, [Next]_vars, NEW v \in Workers, pc[v] = "commit", pc'[v] = "commit"
  PROVE  now'[v] = now[v] /\ job'[v] = job[v] /\ ~Commit(v)
  <1>1. job'[v] = job[v]
    BY JobSteps DEF Decide
  <1>2. ~Commit(v)
    BY DEF Commit, Goto, TypeOK
  <1>3. ASSUME NEW w \in Workers, Evaluate(w) \/ Loop(w) \/ Crash(w)
        PROVE  now'[v] = now[v]
    BY <1>3 DEF TypeOK, Evaluate, Loop, OnEvent, OnSkip, OnTick, EndRun, Trigger, Idle, Begin, Decide,
         Discard, Commit, CommitFails, Send, Crash, Die, Goto
  <1>4. ASSUME Api \/ UNCHANGED vars
        PROVE  now'[v] = now[v]
    BY <1>4 DEF Api, CreateRule, DisableRule, vars
  <1>5. now'[v] = now[v]
    BY <1>3, <1>4 DEF Next
  <1> QED BY <1>1, <1>2, <1>5

\* A silent close tells the same story: what is active was not resolved.
LEMMA CloseStory ==
  ASSUME NEW row \in Opt(Episode(Pairs)), row # None, NEW r, NEW S,
         SameStory(row, S), RowOrdered(row)
  PROVE  SameStory(CloseSilently(row, r), S) /\ RowOrdered(CloseSilently(row, r))
  <1> DEFINE c == CloseSilently(row, r)
  <1>1. /\ c.pair = row.pair /\ c.opened_at = row.opened_at
        /\ c.notify_seq = row.notify_seq /\ c.last_notified_at = row.last_notified_at
        /\ c = row \/ (IsActive(row) /\ c.state = "clear")
    BY CloseKeeps
  <1> HIDE DEF c
  <1>2. CASE c = row
    BY <1>2 DEF c
  <1>3. CASE IsActive(row) /\ c.state = "clear"
    <2>1. row.state # "clear"
      BY <1>3 DEF IsActive, ActiveStates
    <2>2. SameStory(c, S)
      BY <1>1, <2>1 DEF SameStory
    <2>3. RowOrdered(c)
      BY <1>1, <1>3 DEF RowOrdered
    <2> QED BY <2>2, <2>3 DEF c
  <1> QED BY <1>1, <1>2, <1>3

LEMMA StepLedger ==
  ASSUME Typed, LedgerInv, [Next]_vars
  PROVE  NoticeLedger' /\ RowsOrdered'
  <1>1. CASE UNCHANGED <<episodes, notifications>>
    BY <1>1 DEF LedgerInv, NoticeLedger, RowsOrdered, Of
  <1>2. ASSUME NEW r \in Rules, DisableRule(r) PROVE NoticeLedger' /\ RowsOrdered'
    <2>1. /\ notifications' = notifications
          /\ \A i \in EpisodeIds : episodes'[i] = CloseSilently(episodes[i], r)
      BY <1>2 DEF DisableRule
    <2>2. \A i \in EpisodeIds : episodes[i] \in Opt(Episode(Pairs))
      BY DEF Typed, TypeOK
    <2>3. \A i \in EpisodeIds : (episodes'[i] # None) <=> (episodes[i] # None)
      <3>1. CloseSilently(None, r) = None
        BY DEF CloseSilently, IsActive
      <3> QED BY <2>1, <2>2, <3>1, CloseKeeps
    <2>4. \A n \in notifications : n.episode \in EpisodeIds
      BY DEF Typed, TypeOK, Notice
    <2>5. \A i \in EpisodeIds : Of(i)' = Of(i)
      BY <2>1 DEF Of
    <2>6. \A i \in EpisodeIds : episodes'[i] # None =>
            SameStory(episodes'[i], Of(i)) /\ RowOrdered(episodes'[i])
      BY <2>1, <2>2, <2>3, CloseStory DEF LedgerInv, NoticeLedger, RowsOrdered
    <2> QED BY <2>1, <2>3, <2>4, <2>5, <2>6 DEF LedgerInv, NoticeLedger, RowsOrdered
  <1>3. ASSUME NEW w \in Workers, Commit(w) PROVE NoticeLedger' /\ RowsOrdered'
    <2>1. PICK i \in EpisodeIds, ns \in SUBSET Notice :
            /\ episodes' = [episodes EXCEPT ![i] = job[w].row]
            /\ notifications' = notifications \cup ns
            /\ \A n \in ns : n.episode = i
            /\ SameStory(job[w].row, Of(i) \cup ns)
            /\ RowOrdered(job[w].row)
      <3>1. PICK i \in EpisodeIds, e \in Episode(Pairs) :
              LET j == job[w]
                  new == NoticeOf(i, e.pair, j.row, j.emit, now[w])
                  ns == IF j.emit = None THEN {} ELSE {new}
              IN  /\ episodes' = [episodes EXCEPT ![i] = j.row]
                  /\ notifications' = notifications \cup ns
                  /\ SameStory(j.row, Of(i) \cup ns)
                  /\ RowOrdered(j.row)
                  /\ new \in Notice \/ j.emit = None
        BY <1>3, CommitStory
      <3> DEFINE new == NoticeOf(i, e.pair, job[w].row, job[w].emit, now[w])
                 ns == IF job[w].emit = None THEN {} ELSE {new}
      <3>2. ns \in SUBSET Notice /\ \A n \in ns : n.episode = i
        BY <3>1 DEF NoticeOf
      <3>3. /\ episodes' = [episodes EXCEPT ![i] = job[w].row]
            /\ notifications' = notifications \cup ns
            /\ SameStory(job[w].row, Of(i) \cup ns)
            /\ RowOrdered(job[w].row)
        BY <3>1
      <3> HIDE DEF ns
      <3> QED BY <3>2, <3>3
    <2>2. job[w].row # None
      BY <1>3, NoneIsNoData DEF Commit, Typed, TypeOK
    <2>3. \A k \in EpisodeIds : episodes'[k] = IF k = i THEN job[w].row ELSE episodes[k]
      BY <2>1 DEF Typed, TypeOK
    <2>4. \A k \in EpisodeIds : Of(k)' = IF k = i THEN Of(k) \cup ns ELSE Of(k)
      BY <2>1 DEF Of
    <2>5. \A n \in notifications' : episodes'[n.episode] # None
      BY <2>1, <2>2, <2>3 DEF LedgerInv, NoticeLedger, Typed, TypeOK, Notice
    <2>6. \A k \in EpisodeIds : episodes'[k] # None =>
            SameStory(episodes'[k], Of(k)') /\ RowOrdered(episodes'[k])
      BY <2>1, <2>3, <2>4 DEF LedgerInv, NoticeLedger, RowsOrdered
    <2> QED BY <2>5, <2>6 DEF NoticeLedger, RowsOrdered
  <1> QED BY <1>1, <1>2, <1>3, TableSteps DEF Typed

LEMMA StepJobs ==
  ASSUME Typed, OneWorker, LedgerInv, [Next]_vars
  PROVE  JobsContinue'
  <1> SUFFICES ASSUME NEW v \in Workers, pc'[v] = "commit"
               PROVE  InFlight(v)'
    BY DEF JobsContinue
  <1>1. ASSUME NEW finding \in Findings, Decide(v, finding)
        PROVE  InFlight(v)'
    <2> DEFINE p == job[v].pair
               out(prior) == Advance(Row(prior), p, finding, now[v], RuleOf(p))
    <2>1. p \in Pairs /\ now[v] \in Time
      BY <1>1 DEF Decide, Typed, TypeOK
    <2>2. PICK prior \in GetActive(p) :
            job' = [job EXCEPT ![v] = [pair |-> p, prior |-> prior,
                      row |-> out(prior).row, emit |-> out(prior).emit]]
      BY <1>1 DEF Decide
    <2>3. /\ job'[v].pair = p /\ job'[v].prior = prior
          /\ job'[v].row = out(prior).row /\ job'[v].emit = out(prior).emit
      BY <2>2 DEF Typed, TypeOK
    <2>4. episodes' = episodes /\ notifications' = notifications /\ now' = now
      BY <1>1 DEF Decide, db
    <2>5. /\ Row(prior) \in Opt(Episode(Pairs))
          /\ prior = None => Row(prior) = None
          /\ prior # None => /\ prior \in EpisodeIds /\ Row(prior) = episodes[prior]
                             /\ IsActive(episodes[prior])
          /\ Row(prior) # None => Row(prior).state \in ActiveStates /\ Row(prior).pair = p
      BY <2>1, PriorRow DEF Typed
    <2>6. Row(prior) # None => Consistent(Row(prior)) /\ RowOrdered(Row(prior))
      BY <2>5 DEF LedgerInv, RowsOrdered, Typed, RowsLoad
    <2> DEFINE e == IF Row(prior) = None THEN Blank(p) ELSE Row(prior)
    <2>7. RowOrdered(out(prior).row) /\ Continues(e, out(prior).row, out(prior).emit, now[v], p[1])
      BY <2>1, <2>5, <2>6, AdvanceContinues
    <2>8. ReadRow(v)' = e
      BY <2>3, <2>4, <2>5 DEF ReadRow, IsActive
    <2>9. e.pair = p
      BY <2>5 DEF Blank
    <2>10. prior # None => \A n \in Of(prior) : n.transition # "resolved"
      BY <2>5 DEF LedgerInv, NoticeLedger, SameStory, IsActive, ActiveStates
    <2>11. prior # None => episodes[prior] # None
      BY <2>5 DEF IsActive
    <2>12. Of(prior)' = Of(prior)
      BY <2>4 DEF Of
    <2> HIDE DEF out, e, p
    <2> QED BY <2>3, <2>4, <2>7, <2>8, <2>9, <2>10, <2>11, <2>12 DEF InFlight, Of
  <1>2. CASE pc[v] = "commit" /\ job'[v] = job[v]
    <2>1. now'[v] = now[v] /\ ~Commit(v)
      BY <1>2, WaitingSteps DEF Typed
    <2>2. InFlight(v)
      BY <1>2 DEF LedgerInv, JobsContinue
    <2>3. CASE UNCHANGED <<episodes, notifications>>
      BY <1>2, <2>1, <2>2, <2>3 DEF InFlight, ReadRow, Of
    <2>4. ASSUME NEW r \in Rules, DisableRule(r) PROVE InFlight(v)'
      <3>1. /\ notifications' = notifications
            /\ \A i \in EpisodeIds : episodes'[i] = CloseSilently(episodes[i], r)
        BY <2>4 DEF DisableRule
      <3>2. job[v].prior \in Opt(EpisodeIds)
        BY DEF Typed, TypeOK, Job
      <3>3. CASE job[v].prior = None
        BY <1>2, <2>1, <2>2, <3>1, <3>3 DEF InFlight, ReadRow
      <3>4. CASE job[v].prior # None
        <4> DEFINE i == job[v].prior
        <4>1. i \in EpisodeIds /\ episodes[i] \in Opt(Episode(Pairs)) /\ episodes[i] # None
          BY <3>2, <3>4, <2>2 DEF Typed, TypeOK, InFlight, Opt
        <4>2. /\ episodes'[i] # None
              /\ episodes'[i].pair = episodes[i].pair
              /\ episodes'[i].first_true_at = episodes[i].first_true_at
              /\ episodes'[i].opened_at = episodes[i].opened_at
              /\ episodes'[i].notify_seq = episodes[i].notify_seq
              /\ episodes'[i].last_notified_at = episodes[i].last_notified_at
          BY <3>1, <4>1, CloseKeeps
        <4>3. ReadRow(v) = episodes[i] /\ ReadRow(v)' = episodes'[i]
          BY <1>2, <3>4 DEF ReadRow
        <4>4. Of(i)' = Of(i)
          BY <1>2, <3>1 DEF Of
        <4>5. Continues(ReadRow(v)', job[v].row, job[v].emit, now[v], job[v].pair[1])
          BY <2>2, <4>2, <4>3 DEF InFlight, Continues
        <4> QED BY <1>2, <2>1, <2>2, <4>2, <4>3, <4>4, <4>5 DEF InFlight, Of
      <3> QED BY <3>3, <3>4
    <2>5. ASSUME NEW w \in Workers, Commit(w) PROVE FALSE
      BY <2>1, <2>5 DEF OneWorker
    <2> QED BY <2>3, <2>4, <2>5, TableSteps DEF Typed
  <1> QED BY <1>1, <1>2, JobSteps DEF Typed

LEMMA LedgerInductive == OneWorker => (Spec => []LedgerInv)
  <1> SUFFICES ASSUME OneWorker PROVE Spec => []LedgerInv
    OBVIOUS
  <1>1. Init => LedgerInv
    BY DEF Init, LedgerInv, NoticeLedger, RowsOrdered, JobsContinue
  <1>2. TypeOK /\ RowsLoad /\ LedgerInv /\ [Next]_vars => LedgerInv'
    BY StepLedger, StepJobs DEF Typed, LedgerInv
  <1> QED BY <1>1, <1>2, TypeCorrect, ActiveRowsLoad, PTL DEF Spec

\* One evaluator, however often it dies and whatever the API does between its
\* steps, keeps the episodes and the notifications telling the same story.
THEOREM LedgerKept == OneWorker => (Spec => []NoticeLedger)
  <1>1. LedgerInv => NoticeLedger
    BY DEF LedgerInv
  <1> QED BY <1>1, LedgerInductive, PTL

-----------------------------------------------------------------------------
\* The new notification of a commit is a reminder only a cooldown after the
\* one before it, and an opening only once the condition has held long enough.
LEMMA StepSpacing ==
  ASSUME Typed, LedgerInv, ReminderSpacing, [Next]_vars
  PROVE  ReminderSpacing'
  <1>1. ASSUME notifications' = notifications PROVE ReminderSpacing'
    BY <1>1 DEF ReminderSpacing
  <1>2. ASSUME NEW w \in Workers, Commit(w) PROVE ReminderSpacing'
    <2> DEFINE row == job[w].row
               emit == job[w].emit
    <2>1. PICK i \in EpisodeIds, e \in Episode(Pairs) :
            LET new == NoticeOf(i, e.pair, row, emit, now[w])
            IN  /\ notifications' = notifications \cup (IF emit = None THEN {} ELSE {new})
                /\ SameStory(e, Of(i))
                /\ Continues(e, row, emit, now[w], e.pair[1])
                /\ RowOrdered(e)
      BY <1>2, CommitStory
    <2> DEFINE new == NoticeOf(i, e.pair, row, emit, now[w])
               k == e.notify_seq
               r == e.pair[1]
    <2>2. new.episode = i /\ new.transition = emit /\ new.pair = e.pair /\ new.at = now[w]
      BY DEF NoticeOf
    <2>3. k \in Nat
      BY DEF Episode
    <2>4. ASSUME emit = "reminder"
          PROVE  /\ Cooldown[r] > 0
                 /\ \E m \in notifications : Before(m, new) /\ new.at - m.at >= Cooldown[r]
      <3>1. /\ Cooldown[r] > 0 /\ now[w] - e.last_notified_at >= Cooldown[r]
            /\ e.opened_at # None /\ row.notify_seq = k + 1
        BY <2>1, <2>4 DEF Continues
      <3>2. new.seq = k + 1
        BY <2>4, <3>1 DEF NoticeOf
      <3>3. Keys(Of(i)) \ {<<"resolved", 0>>} = {<<"opened", 0>>} \cup Reminders(k)
        BY <2>1, <3>1 DEF SameStory
      <3>4. CASE k = 0
        <4>1. <<"opened", 0>> \in Keys(Of(i))
          BY <3>3
        <4>2. PICK m \in Of(i) : m.transition = "opened" /\ m.seq = 0
          BY <4>1 DEF Keys
        <4>3. m \in notifications /\ m.episode = i
          BY DEF Of
        <4>4. m.at = e.last_notified_at
          BY <2>1, <3>1, <3>4, <4>2 DEF SameStory, RowOrdered
        <4> QED BY <2>2, <3>1, <3>2, <3>4, <4>2, <4>3, <4>4 DEF Before
      <3>5. CASE k # 0
        <4>0. k \in 1..k
          BY <2>3, <3>5
        <4>1. <<"reminder", k>> \in Keys(Of(i))
          BY <3>3, <4>0 DEF Reminders
        <4>2. PICK m \in Of(i) : m.transition = "reminder" /\ m.seq = k
          BY <4>1 DEF Keys
        <4>3. m \in notifications /\ m.episode = i
          BY DEF Of
        <4>4. m.at = e.last_notified_at
          BY <2>1, <4>2 DEF SameStory
        <4>5. new.seq # 1 /\ m.seq = new.seq - 1
          BY <2>3, <3>2, <3>5, <4>2
        <4> QED BY <2>2, <3>1, <4>2, <4>3, <4>4, <4>5 DEF Before
      <3> QED BY <3>4, <3>5
    <2> HIDE DEF new, row, emit, r
    <2>5. \A n \in notifications' : n \in notifications \/ (emit # None /\ n = new)
      BY <2>1 DEF new, row, emit
    <2>6. notifications \subseteq notifications'
      BY <2>1
    <2>7. new.pair[1] = r
      BY <2>2 DEF r
    <2>8. SUFFICES ASSUME NEW n \in notifications', n.transition = "reminder"
                   PROVE  /\ Cooldown[n.pair[1]] > 0
                          /\ \E m \in notifications' :
                               Before(m, n) /\ n.at - m.at >= Cooldown[n.pair[1]]
      BY DEF ReminderSpacing, Before
    <2>9. CASE n \in notifications
      BY <2>6, <2>8, <2>9 DEF ReminderSpacing
    <2>10. CASE n = new
      BY <2>2, <2>4, <2>6, <2>7, <2>8, <2>10
    <2> QED BY <2>5, <2>9, <2>10
  <1> QED BY <1>1, <1>2, TableSteps DEF Typed, DisableRule

LEMMA StepEarly ==
  ASSUME Typed, LedgerInv, NeverEarly, [Next]_vars
  PROVE  NeverEarly'
  <1>0. \A n \in notifications : n.episode \in EpisodeIds
    BY DEF Typed, TypeOK, Notice
  <1>1. ASSUME notifications' = notifications,
               \A i \in EpisodeIds : episodes[i] # None =>
                 episodes'[i].first_true_at = episodes[i].first_true_at
        PROVE  NeverEarly'
    BY <1>0, <1>1 DEF NeverEarly, LedgerInv, NoticeLedger
  <1>2. ASSUME NEW r \in Rules, DisableRule(r) PROVE NeverEarly'
    <2>1. \A i \in EpisodeIds : episodes[i] # None =>
            episodes'[i].first_true_at = episodes[i].first_true_at
      BY <1>2, CloseKeeps DEF DisableRule, Typed, TypeOK
    <2> QED BY <1>1, <1>2, <2>1 DEF DisableRule
  <1>3. ASSUME NEW w \in Workers, Commit(w) PROVE NeverEarly'
    <2> DEFINE row == job[w].row
               emit == job[w].emit
    <2>1. PICK i \in EpisodeIds, e \in Episode(Pairs) :
            LET new == NoticeOf(i, e.pair, row, emit, now[w])
            IN  /\ episodes' = [episodes EXCEPT ![i] = row]
                /\ notifications' = notifications \cup (IF emit = None THEN {} ELSE {new})
                /\ SameStory(e, Of(i))
                /\ Continues(e, row, emit, now[w], e.pair[1])
                /\ episodes[i] = e \/ (episodes[i] = None /\ Of(i) = {})
      BY <1>3, CommitStory
    <2> DEFINE new == NoticeOf(i, e.pair, row, emit, now[w])
    <2>2. new.episode = i /\ new.transition = emit /\ new.pair = e.pair /\ new.at = now[w]
      BY DEF NoticeOf
    <2>3. \A k \in EpisodeIds : episodes'[k] = IF k = i THEN row ELSE episodes[k]
      BY <2>1 DEF Typed, TypeOK
    <2> HIDE DEF new, row, emit
    <2>4. \A n \in notifications' : n \in notifications \/ (emit # None /\ n = new)
      BY <2>1 DEF new, row, emit
    <2>5. SUFFICES ASSUME NEW n \in notifications', n.transition = "opened"
                   PROVE  n.at - episodes'[n.episode].first_true_at >= ForDuration[n.pair[1]]
      BY DEF NeverEarly
    <2>6. CASE n \in notifications /\ n.episode # i
      BY <1>0, <2>3, <2>5, <2>6 DEF NeverEarly
    <2>7. CASE n \in notifications /\ n.episode = i
      <3>1. n \in Of(i)
        BY <2>7 DEF Of
      <3>2. episodes[i] = e /\ e.opened_at # None
        BY <2>1, <3>1 DEF SameStory
      <3>3. row.first_true_at = e.first_true_at
        BY <2>1, <3>2 DEF Continues
      <3> QED BY <2>3, <2>5, <2>7, <3>2, <3>3 DEF NeverEarly
    <2>8. CASE n = new
      <3>1. now[w] - row.first_true_at >= ForDuration[e.pair[1]]
        BY <2>1, <2>2, <2>5, <2>8 DEF Continues
      <3> QED BY <2>2, <2>3, <2>8, <3>1
    <2> QED BY <2>4, <2>6, <2>7, <2>8
  <1> QED BY <1>1, <1>2, <1>3, TableSteps DEF Typed

\* Reminders keep their distance across crashes, restarts and silent closes.
THEOREM RemindersSpaced == OneWorker => (Spec => []ReminderSpacing)
  <1> SUFFICES ASSUME OneWorker PROVE Spec => []ReminderSpacing
    OBVIOUS
  <1>1. Init => ReminderSpacing
    BY DEF Init, ReminderSpacing
  <1>2. TypeOK /\ RowsLoad /\ LedgerInv /\ ReminderSpacing /\ [Next]_vars => ReminderSpacing'
    BY StepSpacing DEF Typed
  <1> QED BY <1>1, <1>2, TypeCorrect, ActiveRowsLoad, LedgerInductive, PTL DEF Spec

\* No alert opens before its condition has held for the rule's duration.
THEOREM AlertsNotEarly == OneWorker => (Spec => []NeverEarly)
  <1> SUFFICES ASSUME OneWorker PROVE Spec => []NeverEarly
    OBVIOUS
  <1>1. Init => NeverEarly
    BY DEF Init, NeverEarly
  <1>2. TypeOK /\ RowsLoad /\ LedgerInv /\ NeverEarly /\ [Next]_vars => NeverEarly'
    BY StepEarly DEF Typed
  <1> QED BY <1>1, <1>2, TypeCorrect, ActiveRowsLoad, LedgerInductive, PTL DEF Spec

=============================================================================
