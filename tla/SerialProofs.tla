---------------------------- MODULE SerialProofs ----------------------------
(***************************************************************************)
(* What holds when API calls are served between evaluations, as R12 has    *)
(* it: a disabled rule stays quiet, a cleared episode stays as it is, and  *)
(* an episode begins only for a selected subject.  Proved for any number   *)
(* of rules, subjects and episodes, with crashes at any point.             *)
(***************************************************************************)
EXTENDS LedgerProofs

\* Being evaluated, a rule is enabled; the row to be written is of its pair.
Serving ==
  \A w \in Workers :
    /\ pc[w] \in {"decide", "commit"} => Enabled(job[w].pair[1])
    /\ pc[w] = "commit" => job[w].row.pair = job[w].pair

\* The row to be replaced is still active.
PriorActive ==
  \A w \in Workers :
    pc[w] = "commit" /\ job[w].prior # None => IsActive(episodes[job[w].prior])

\* The steps of an evaluation that is or gets under way.
LEMMA ServingSteps ==
  ASSUME TypeOK, [Next]_vars, NEW v \in Workers, pc'[v] \in {"decide", "commit"}
  PROVE  \/ pc'[v] = pc[v] /\ job'[v] = job[v]
         \/ \E p \in Pairs : Begin(v, p)
         \/ \E finding \in Findings : Decide(v, finding)
  <1>1. ASSUME NEW w \in Workers, w # v, Evaluate(w) \/ Loop(w) \/ Crash(w)
        PROVE  pc'[v] = pc[v] /\ job'[v] = job[v]
    BY <1>1 DEF TypeOK, Evaluate, Loop, OnEvent, OnSkip, OnTick, EndRun, Begin, Decide, Discard,
         Commit, CommitFails, Send, Crash, Die, Goto, Finish
  <1>2. ASSUME Evaluate(v) \/ Loop(v) \/ Crash(v)
        PROVE  \/ pc'[v] = pc[v] /\ job'[v] = job[v]
               \/ \E p \in Pairs : Begin(v, p)
               \/ \E finding \in Findings : Decide(v, finding)
    BY <1>2 DEF TypeOK, Evaluate, Loop, OnEvent, OnSkip, OnTick, EndRun, Discard, Commit,
         CommitFails, Send, Crash, Die, Goto, Finish
  <1>3. ASSUME Api \/ UNCHANGED vars
        PROVE  pc'[v] = pc[v] /\ job'[v] = job[v]
    BY <1>3 DEF Api, CreateRule, DisableRule, vars
  <1> QED BY <1>1, <1>2, <1>3 DEF Next

\* The API changes rules only while no evaluation is under way.
LEMMA RuleSteps ==
  ASSUME [Next]_vars
  PROVE  rules' = rules \/ Api
  BY DEF Next, Evaluate, Loop, OnEvent, OnSkip, OnTick, EndRun, Begin, Decide, Discard, Commit,
         CommitFails, Send, Crash, Die, vars, db

LEMMA ApiSteps ==
  ASSUME Serial, Api, NEW w \in Workers
  PROVE  pc[w] = "ready" /\ pc' = pc /\ notifications' = notifications
  BY DEF Api, CreateRule, DisableRule, ApiMayRun

LEMMA StepServing ==
  ASSUME Serial, TypeOK, Serving, [Next]_vars
  PROVE  Serving'
  <1> SUFFICES ASSUME NEW v \in Workers, pc'[v] \in {"decide", "commit"}
               PROVE  /\ Enabled(job[v].pair[1])'
                      /\ pc'[v] = "commit" => job'[v].row.pair = job'[v].pair
    BY DEF Serving
  <1>1. ~Api /\ rules' = rules
    BY ApiSteps, RuleSteps
  <1>2. CASE pc'[v] = pc[v] /\ job'[v] = job[v]
    BY <1>1, <1>2 DEF Serving, Enabled
  <1>3. ASSUME NEW p \in Pairs, Begin(v, p)
        PROVE  Enabled(job[v].pair[1])' /\ pc'[v] # "commit"
    <2>1. CASE Runs(p)
      <3>1. pc'[v] = "decide" /\ job'[v].pair = p
        BY <1>3, <2>1 DEF Begin, Goto, TypeOK, Job
      <3> QED BY <1>1, <2>1, <3>1 DEF Runs, Enabled
    <2>2. CASE ~Runs(p)
      BY <1>3, <2>2 DEF Begin
    <2> QED BY <2>1, <2>2
  <1>4. ASSUME NEW finding \in Findings, Decide(v, finding)
        PROVE  /\ Enabled(job[v].pair[1])'
               /\ job'[v].row.pair = job'[v].pair
    <2> DEFINE p == job[v].pair
               out(prior) == Advance(Row(prior), p, finding, now[v], RuleOf(p))
    <2>1. p \in Pairs /\ now[v] \in Time
      BY <1>4 DEF Decide, TypeOK
    <2>2. PICK prior \in GetActive(p) :
            job' = [job EXCEPT ![v] = [pair |-> p, prior |-> prior,
                      row |-> out(prior).row, emit |-> out(prior).emit]]
      BY <1>4 DEF Decide
    <2>3. job'[v].pair = p /\ job'[v].row = out(prior).row
      BY <2>2 DEF TypeOK
    <2>4. out(prior).row.pair = p
      BY <2>1, PriorRow, RuleOfType, AdvanceType
    <2>5. Enabled(p[1])
      BY <1>4 DEF Decide, Serving
    <2> HIDE DEF out
    <2> QED BY <1>1, <2>3, <2>4, <2>5 DEF Enabled
  <1> QED BY <1>2, <1>3, <1>4, ServingSteps

LEMMA StepQuiet ==
  ASSUME Serial, TypeOK, Serving, DisabledIsQuiet, [Next]_vars
  PROVE  DisabledIsQuiet'
  <1>1. CASE Api
    <2>1. PICK r \in Rules : CreateRule(r) \/ DisableRule(r)
      BY <1>1 DEF Api
    <2>2. CASE CreateRule(r)
      BY <2>2 DEF CreateRule, DisabledIsQuiet, TypeOK
    <2>3. CASE DisableRule(r)
      <3>1. \A i \in EpisodeIds : episodes'[i] = CloseSilently(episodes[i], r)
        BY <2>3 DEF DisableRule
      <3>2. \A i \in EpisodeIds : IsActive(episodes'[i]) =>
              episodes'[i] = episodes[i] /\ IsActive(episodes[i])
        BY <3>1, CloseType DEF TypeOK
      <3>3. \A i \in EpisodeIds : IsActive(episodes'[i]) => episodes[i].pair[1] # r
        BY <3>1, <3>2, CloseType DEF CloseSilently, IsActive, ActiveStates, TypeOK, Opt, Episode
      <3>4. \A q \in Rules : q # r => rules'[q] = rules[q]
        BY <2>3 DEF DisableRule, TypeOK
      <3>5. \A i \in EpisodeIds : IsActive(episodes[i]) => episodes[i].pair[1] \in Rules
        BY DEF TypeOK, IsActive, Opt, Episode, Pairs
      <3> QED BY <3>2, <3>3, <3>4, <3>5 DEF DisabledIsQuiet
    <2> QED BY <2>1, <2>2, <2>3
  <1>2. CASE ~Api
    <2>1. rules' = rules
      BY <1>2, RuleSteps
    <2>2. CASE episodes' = episodes
      BY <2>1, <2>2 DEF DisabledIsQuiet
    <2>3. ASSUME NEW w \in Workers, Commit(w) PROVE DisabledIsQuiet'
      <3>1. PICK i \in Target(w) : episodes' = [episodes EXCEPT ![i] = job[w].row]
        BY <2>3 DEF Commit
      <3>2. \A k \in EpisodeIds : episodes'[k] = IF k = i THEN job[w].row ELSE episodes[k]
        BY <3>1 DEF TypeOK
      <3>3. rules[job[w].row.pair[1]] = "enabled"
        BY <2>3 DEF Commit, Serving, Enabled
      <3> QED BY <2>1, <3>2, <3>3 DEF DisabledIsQuiet
    <2> QED BY <1>2, <2>2, <2>3, TableSteps DEF Api
  <1> QED BY <1>1, <1>2

LEMMA StepSilent ==
  ASSUME TypeOK, Serving, [Next]_vars
  PROVE  \A n \in notifications' \ notifications : Enabled(n.pair[1])
  <1>1. CASE notifications' = notifications
    BY <1>1
  <1>2. ASSUME NEW w \in Workers, Commit(w)
        PROVE  \A n \in notifications' \ notifications : n.pair = job[w].pair
    BY <1>2 DEF Commit, Inserted, Notify
  <1>3. ASSUME NEW w \in Workers, Commit(w)
        PROVE  Enabled(job[w].pair[1])
    BY <1>3 DEF Commit, Serving
  <1> QED BY <1>1, <1>2, <1>3, TableSteps DEF DisableRule

LEMMA InitServing == Init => Serving /\ DisabledIsQuiet /\ PriorActive
  BY DEF Init, Serving, DisabledIsQuiet, PriorActive, IsActive

\* A disabled rule has no pending or open episode, and gets none.
THEOREM DisabledStaysQuiet == Serial => (Spec => []DisabledIsQuiet)
  <1> SUFFICES ASSUME Serial PROVE Spec => []DisabledIsQuiet
    OBVIOUS
  <1>1. TypeOK /\ Serving /\ [Next]_vars => Serving'
    BY StepServing
  <1>2. TypeOK /\ Serving /\ DisabledIsQuiet /\ [Next]_vars => DisabledIsQuiet'
    BY StepQuiet
  <1> QED BY <1>1, <1>2, InitServing, TypeCorrect, PTL DEF Spec

\* Nothing is recorded for a rule that is not enabled at that moment.
THEOREM DisabledNotifiesNobody == Serial => (Spec => NoNoticeWhenDisabled)
  <1> SUFFICES ASSUME Serial PROVE Spec => NoNoticeWhenDisabled
    OBVIOUS
  <1>1. TypeOK /\ Serving /\ [Next]_vars => Serving'
    BY StepServing
  <1>2. TypeOK /\ Serving /\ [Next]_vars =>
          [\A n \in notifications' \ notifications : Enabled(n.pair[1])]_vars
    BY StepSilent
  <1> QED BY <1>1, <1>2, InitServing, TypeCorrect, PTL DEF Spec, NoNoticeWhenDisabled

-----------------------------------------------------------------------------
LEMMA StepPrior ==
  ASSUME Serial, OneWorker, TypeOK, PriorActive, [Next]_vars
  PROVE  PriorActive'
  <1> SUFFICES ASSUME NEW v \in Workers, pc'[v] = "commit", job'[v].prior # None
               PROVE  IsActive(episodes'[job'[v].prior])
    BY DEF PriorActive
  <1>1. CASE pc[v] = "commit" /\ job'[v] = job[v]
    <2>1. ~Commit(v)
      BY <1>1, WaitingSteps
    <2>2. ~Api
      BY <1>1, ApiSteps
    <2>3. episodes' = episodes
      BY <2>1, <2>2, TableSteps DEF OneWorker, Api
    <2> QED BY <1>1, <2>3 DEF PriorActive
  <1>2. ASSUME NEW finding \in Findings, Decide(v, finding)
        PROVE  IsActive(episodes'[job'[v].prior])
    <2>1. job[v].pair \in Pairs
      BY <1>2 DEF Decide, TypeOK
    <2>2. PICK prior \in GetActive(job[v].pair) : job'[v].prior = prior
      BY <1>2 DEF Decide, TypeOK
    <2>3. episodes' = episodes
      BY <1>2 DEF Decide, db
    <2> QED BY <2>1, <2>2, <2>3, PriorRow
  <1> QED BY <1>1, <1>2, JobSteps

LEMMA StepFinal ==
  ASSUME TypeOK, PriorActive, [Next]_vars,
         NEW i \in EpisodeIds, episodes[i] # None, ~IsActive(episodes[i])
  PROVE  episodes'[i] = episodes[i]
  <1>1. ASSUME NEW r \in Rules, DisableRule(r) PROVE episodes'[i] = episodes[i]
    BY <1>1 DEF DisableRule, CloseSilently
  <1>2. ASSUME NEW w \in Workers, Commit(w) PROVE episodes'[i] = episodes[i]
    <2>1. PICK k \in Target(w) : episodes' = [episodes EXCEPT ![k] = job[w].row]
      BY <1>2 DEF Commit
    <2>2. k # i
      BY <1>2, <2>1 DEF Target, PriorActive, Commit
    <2> QED BY <2>1, <2>2 DEF TypeOK
  <1> QED BY <1>1, <1>2, TableSteps

\* With one evaluator, a cleared episode is never written again.
THEOREM ClosedStaysClosed == Serial /\ OneWorker => (Spec => ClosedIsFinal)
  <1> SUFFICES ASSUME Serial, OneWorker PROVE Spec => ClosedIsFinal
    OBVIOUS
  <1>1. TypeOK /\ PriorActive /\ [Next]_vars => PriorActive'
    BY StepPrior
  <1>2. TypeOK /\ PriorActive /\ [Next]_vars =>
          [\A i \in EpisodeIds :
             episodes[i] # None /\ ~IsActive(episodes[i]) => episodes'[i] = episodes[i]]_vars
    BY StepFinal
  <1> QED BY <1>1, <1>2, InitServing, TypeCorrect, PTL DEF Spec, ClosedIsFinal

-----------------------------------------------------------------------------
(* Episodes begin for subjects that are selected.                          *)

\* The pair of an enabled rule goes on with its episode, or is selected.
Wanted(p) ==
  /\ rules[p[1]] # "absent"
  /\ Enabled(p[1]) => ActiveOf(p) # {} \/ p[2] \in Resolve(p[1])

SelectedFor(w) ==
  /\ \A p \in todo[w] : Wanted(p)
  /\ pc[w] = "decide" => Wanted(job[w].pair)
  /\ pc[w] = "commit" /\ job[w].prior = None =>
       job[w].pair[2] \in Resolve(job[w].pair[1])
  /\ pc[w] \in {"decide", "commit"} => job[w].pair \notin todo[w]

SelectedInv == \A w \in Workers : SelectedFor(w)

\* What is wanted stays so while rules, states and its episodes do.
LEMMA StillWanted ==
  ASSUME NEW p \in Pairs, Wanted(p), UNCHANGED <<rules, watermark, queues>>,
         \A i \in ActiveOf(p) : episodes'[i] = episodes[i]
  PROVE  Wanted(p)'
  <1>1. ActiveOf(p) \subseteq ActiveOf(p)'
    BY DEF ActiveOf
  <1>2. Resolve(p[1])' = Resolve(p[1])
    BY DEF Resolve, Known
  <1> QED BY <1>1, <1>2 DEF Wanted, Enabled

LEMMA EventSelects ==
  ASSUME TypeOK, NEW w \in Workers, NEW s \in Subjects, NEW ts \in 0..MaxTime,
         NEW memberships \in SUBSET QueueIds, OnEvent(w, s, ts, memberships),
         NEW p \in Matched(s, memberships)
  PROVE  Wanted(p)'
  <1>1. /\ p \in Pairs /\ p[2] = s /\ Enabled(p[1]) /\ SameType(p[1], s)
        /\ Selector[p[1]].kind = "ids" => s \in Selector[p[1]].ids
        /\ Selector[p[1]].kind # "ids" => Admits(p[1], memberships)
    BY DEF Matched
  <1>2. ts # None
    BY NoneAssumption, BoundsAssumption
  <1>3. watermark'[s] = ts /\ queues'[s] = memberships /\ rules' = rules
    BY DEF OnEvent, TypeOK
  <1>4. s \in Known(p[1])'
    BY <1>1, <1>2, <1>3 DEF Known
  <1>5. s \in Resolve(p[1])'
    BY <1>1, <1>3, <1>4 DEF Resolve
  <1> QED BY <1>1, <1>3, <1>5 DEF Wanted, Enabled

LEMMA DueSelects ==
  ASSUME TypeOK, DisabledIsQuiet, NEW p \in Due
  PROVE  Wanted(p)
  <1>1. ASSUME NEW i \in ActiveOf(p) PROVE rules[p[1]] = "enabled"
    BY <1>1 DEF ActiveOf, DisabledIsQuiet
  <1> QED BY <1>1 DEF Due, Wanted, Enabled

LEMMA StepSelected ==
  ASSUME Serial, OneWorker, TypeOK, Serving, JobsContinue, DisabledIsQuiet, SelectedInv,
         [Next]_vars
  PROVE  SelectedInv'
  <1> SUFFICES ASSUME NEW w \in Workers PROVE SelectedFor(w)'
    BY DEF SelectedInv, SelectedFor
  <1>0. SelectedFor(w) /\ todo[w] \subseteq Pairs
    BY DEF SelectedInv, SelectedFor, TypeOK
  <1>1. ASSUME UNCHANGED <<rules, watermark, queues, episodes, pc, job, todo>>
        PROVE  SelectedFor(w)'
    BY <1>0, <1>1 DEF SelectedFor, Wanted, Enabled, ActiveOf, Resolve, Known
  <1>2. ASSUME NEW s \in Subjects, NEW ts \in 0..MaxTime, NEW memberships \in SUBSET QueueIds,
               OnEvent(w, s, ts, memberships)
        PROVE  SelectedFor(w)'
    <2>1. todo'[w] = Matched(s, memberships) /\ pc'[w] = "ready"
      BY <1>2 DEF OnEvent, Trigger, Idle, TypeOK
    <2> QED BY <1>2, <2>1, EventSelects DEF SelectedFor
  <1>3. ASSUME OnTick(w) PROVE SelectedFor(w)'
    <2>1. todo'[w] = Due /\ pc'[w] = "ready" /\ UNCHANGED <<rules, watermark, queues, episodes>>
      BY <1>3 DEF OnTick, Trigger, Idle, TypeOK, db
    <2>2. \A p \in Due : p \in Pairs /\ Wanted(p)
      BY DueSelects DEF Due
    <2>3. \A p \in Due : Wanted(p)'
      BY <2>1, <2>2, StillWanted
    <2> QED BY <2>1, <2>3 DEF SelectedFor
  <1>4. ASSUME NEW p \in Pairs, Begin(w, p) PROVE SelectedFor(w)'
    <2>1. /\ todo'[w] = todo[w] \ {p} /\ p \in todo[w]
          /\ UNCHANGED <<rules, watermark, queues, episodes>>
      BY <1>4 DEF Begin, TypeOK
    <2>2. /\ pc'[w] = "ready" \/ (pc'[w] = "decide" /\ job'[w].pair = p)
      BY <1>4 DEF Begin, Goto, TypeOK, Job
    <2>3. \A q \in todo[w] : Wanted(q)'
      BY <1>0, <2>1, StillWanted DEF SelectedFor
    <2> QED BY <2>1, <2>2, <2>3 DEF SelectedFor
  <1>5. ASSUME NEW finding \in Findings, Decide(w, finding) PROVE SelectedFor(w)'
    <2>1. /\ pc[w] = "decide" /\ pc'[w] = "commit" /\ job[w].pair \in Pairs
          /\ UNCHANGED <<rules, watermark, queues, episodes, todo>>
      BY <1>5 DEF Decide, Goto, TypeOK, db
    <2>2. PICK p \in Pairs : p = job[w].pair
      BY <2>1
    <2>3. PICK prior \in GetActive(p) : job'[w].pair = p /\ job'[w].prior = prior
      BY <1>5, <2>2 DEF Decide, TypeOK
    <2>4. Enabled(p[1]) /\ Wanted(p) /\ p \notin todo[w]
      BY <1>0, <2>1, <2>2 DEF Serving, SelectedFor
    <2>5. prior = None => ActiveOf(p) = {}
      BY <2>3, NoneIsNoData DEF GetActive, ActiveOf
    <2>6. prior = None => p[2] \in Resolve(p[1])
      BY <2>4, <2>5 DEF Wanted
    <2>7. Resolve(p[1])' = Resolve(p[1])
      BY <2>1 DEF Resolve, Known
    <2>8. \A q \in todo[w] : Wanted(q)'
      BY <1>0, <2>1, StillWanted DEF SelectedFor
    <2> QED BY <2>1, <2>3, <2>4, <2>6, <2>7, <2>8 DEF SelectedFor
  <1>6. ASSUME Commit(w) PROVE SelectedFor(w)'
    <2> DEFINE p == job[w].pair
    <2>1. /\ pc[w] = "commit" /\ pc'[w] \in {"ready", "send"} /\ p \in Pairs
          /\ UNCHANGED <<rules, watermark, queues, todo>>
      BY <1>6 DEF Commit, Goto, TypeOK
    <2>2. PICK k \in Target(w) : episodes' = [episodes EXCEPT ![k] = job[w].row]
      BY <1>6 DEF Commit
    <2>3. episodes[k] = None \/ (k = job[w].prior /\ job[w].prior # None)
      BY <2>2 DEF Target
    <2>4. ASSUME NEW q \in todo[w] PROVE Wanted(q)'
      <3>1. q \in Pairs /\ q # p /\ Wanted(q)
        BY <1>0, <2>1, <2>4 DEF SelectedFor
      <3>2. ASSUME NEW i \in ActiveOf(q) PROVE episodes'[i] = episodes[i]
        <4>1. i \in EpisodeIds /\ IsActive(episodes[i]) /\ episodes[i].pair = q
          BY <3>2 DEF ActiveOf
        <4>2. k # i
          <5>1. CASE episodes[k] = None
            BY <4>1, <5>1 DEF IsActive
          <5>2. CASE k = job[w].prior /\ job[w].prior # None
            BY <2>1, <3>1, <4>1, <5>2 DEF JobsContinue, InFlight, ReadRow
          <5> QED BY <2>3, <5>1, <5>2
        <4> QED BY <2>2, <4>1, <4>2 DEF TypeOK
      <3> QED BY <2>1, <3>1, <3>2, StillWanted
    <2> QED BY <2>1, <2>4 DEF SelectedFor
  <1>7. ASSUME Discard(w) \/ Send(w) PROVE SelectedFor(w)'
    <2>1. /\ pc'[w] = "ready"
          /\ UNCHANGED <<rules, watermark, queues, episodes, todo>>
      BY <1>7 DEF Discard, Send, Goto, TypeOK, db
    <2>2. \A q \in todo[w] : Wanted(q)'
      BY <1>0, <2>1, StillWanted DEF SelectedFor
    <2> QED BY <2>1, <2>2 DEF SelectedFor
  <1>8. ASSUME Die(w) PROVE SelectedFor(w)'
    BY <1>8 DEF Die, Goto, TypeOK, SelectedFor
  <1>9. ASSUME NEW r \in Rules, CreateRule(r) PROVE SelectedFor(w)'
    <2>1. /\ pc[w] = "ready" /\ pc' = pc /\ todo' = todo
          /\ UNCHANGED <<watermark, queues, episodes>>
      BY <1>9, ApiSteps DEF Api, CreateRule
    <2>2. \A q \in Rules : rules[q] # "absent" => rules'[q] = rules[q]
      BY <1>9 DEF CreateRule, TypeOK
    <2>3. ASSUME NEW q \in todo[w] PROVE Wanted(q)'
      <3>1. q \in Pairs /\ Wanted(q) /\ q[1] \in Rules
        BY <1>0, <2>3 DEF SelectedFor, Pairs
      <3>2. rules'[q[1]] = rules[q[1]]
        BY <2>2, <3>1 DEF Wanted
      <3> QED BY <2>1, <3>1, <3>2 DEF Wanted, Enabled, ActiveOf, Resolve, Known
    <2> QED BY <2>1, <2>3 DEF SelectedFor
  <1>10. ASSUME NEW r \in Rules, DisableRule(r) PROVE SelectedFor(w)'
    <2>1. /\ pc[w] = "ready" /\ pc' = pc /\ todo' = todo
          /\ UNCHANGED <<watermark, queues>>
          /\ rules' = [rules EXCEPT ![r] = "disabled"]
          /\ \A i \in EpisodeIds : episodes'[i] = CloseSilently(episodes[i], r)
      BY <1>10, ApiSteps DEF Api, DisableRule
    <2>2. ASSUME NEW q \in todo[w] PROVE Wanted(q)'
      <3>1. q \in Pairs /\ Wanted(q) /\ q[1] \in Rules
        BY <1>0, <2>2 DEF SelectedFor, Pairs
      <3>2. CASE q[1] = r
        BY <2>1, <3>1, <3>2 DEF Wanted, Enabled, TypeOK
      <3>3. CASE q[1] # r
        <4>1. rules'[q[1]] = rules[q[1]]
          BY <2>1, <3>1, <3>3 DEF TypeOK
        <4>2. \A i \in ActiveOf(q) : episodes'[i] = episodes[i]
          BY <2>1, <3>3 DEF ActiveOf, CloseSilently
        <4>3. ActiveOf(q) \subseteq ActiveOf(q)'
          BY <4>2 DEF ActiveOf
        <4> QED BY <2>1, <3>1, <4>1, <4>3 DEF Wanted, Enabled, Resolve, Known
      <3> QED BY <3>2, <3>3
    <2> QED BY <2>1, <2>2 DEF SelectedFor
  <1>11. ASSUME \/ \E ts \in 0..MaxTime : OnSkip(w, ts)
                \/ \E first \in FileStarts : EndRun(w, first)
         PROVE  SelectedFor(w)'
    BY <1>1, <1>11 DEF OnSkip, EndRun, db
  <1>12. CASE UNCHANGED vars
    BY <1>1, <1>12 DEF vars
  <1>13. ASSUME NEW v \in Workers, Evaluate(v) \/ Loop(v) \/ Crash(v) PROVE SelectedFor(w)'
    <2>1. v = w
      BY DEF OneWorker
    <2> QED BY <1>13, <2>1, <1>2, <1>3, <1>4, <1>5, <1>6, <1>7, <1>8, <1>11
         DEF Evaluate, Loop, CommitFails, Crash
  <1> QED BY <1>9, <1>10, <1>12, <1>13 DEF Next, Api

LEMMA InitSelected == Init => SelectedInv
  BY DEF Init, SelectedInv, SelectedFor

\* A row is only new where the evaluation found none, and the pair it was
\* for is selected.
LEMMA StepBegins ==
  ASSUME TypeOK, Serving, SelectedInv, [Next]_vars,
         JobsContinue, NEW i \in EpisodeIds, episodes[i] = None, episodes'[i] # None
  PROVE  episodes'[i].pair[2] \in Resolve(episodes'[i].pair[1])
  <1>1. ASSUME NEW w \in Workers, Commit(w)
        PROVE  episodes'[i].pair[2] \in Resolve(episodes'[i].pair[1])
    <2>1. PICK k \in Target(w) : episodes' = [episodes EXCEPT ![k] = job[w].row]
      BY <1>1 DEF Commit
    <2>2. k = i /\ episodes'[i] = job[w].row
      BY <2>1 DEF TypeOK
    <2>3. pc[w] = "commit" /\ job[w].row.pair = job[w].pair
      BY <1>1 DEF Commit, Serving
    <2>4. CASE job[w].prior = None
      BY <2>2, <2>3, <2>4 DEF SelectedInv, SelectedFor
    <2>5. job[w].prior = None
      BY <2>1, <2>2, <2>3 DEF Target, JobsContinue, InFlight
    <2> QED BY <2>4, <2>5
  <1>2. ASSUME NEW r \in Rules, DisableRule(r) PROVE episodes'[i] = None
    BY <1>2 DEF DisableRule, CloseSilently, IsActive
  <1> QED BY <1>1, <1>2, TableSteps

\* With one evaluator, an episode begins only for a subject its rule's
\* selector takes in at that moment.
THEOREM BegunWhenSelected == Serial /\ OneWorker => (Spec => BeginsSelected)
  <1> SUFFICES ASSUME Serial, OneWorker PROVE Spec => BeginsSelected
    OBVIOUS
  <1>1. TypeOK /\ Serving /\ [Next]_vars => Serving'
    BY StepServing
  <1>2. TypeOK /\ Serving /\ DisabledIsQuiet /\ [Next]_vars => DisabledIsQuiet'
    BY StepQuiet
  <1>3. /\ TypeOK /\ Serving /\ LedgerInv /\ DisabledIsQuiet /\ SelectedInv /\ [Next]_vars
        => SelectedInv'
    BY StepSelected DEF LedgerInv
  <1>4. TypeOK /\ Serving /\ SelectedInv /\ LedgerInv /\ [Next]_vars =>
          [\A i \in EpisodeIds :
             episodes[i] = None /\ episodes'[i] # None =>
               episodes'[i].pair[2] \in Resolve(episodes'[i].pair[1])]_vars
    BY StepBegins DEF LedgerInv
  <1>5. Spec => []LedgerInv
    BY LedgerInductive
  <1> QED BY <1>1, <1>2, <1>3, <1>4, <1>5, InitServing, InitSelected, TypeCorrect, PTL
       DEF Spec, BeginsSelected

=============================================================================
