---------------------------- MODULE TruthProofs ----------------------------
(***************************************************************************)
(* What a replay says of its subjects is so: what its notifications say    *)
(* was so when they say it, and its episodes are in step with the          *)
(* conditions between any two triggers.  Proved for any rules and for      *)
(* files whose events come in time.                                        *)
(***************************************************************************)
EXTENDS ReplayProofs

-----------------------------------------------------------------------------
(* A pass with no_eval is no run of Engine, but its steps leave the types  *)
(* and the episodes as they are.                                           *)

LEMMA StepReplayType ==
  ASSUME Reading, TypeOK, UniqueActive, [RNext]_allvars
  PROVE  TypeOK' /\ UniqueActive'
<1>1. [Next]_vars => TypeOK' /\ UniqueActive'
  BY StepType, StepUnique
<1>2. Proc \in Workers /\ TickInterval \in Nat /\ clock \in [Workers -> Nat]
  BY ReplayAssumption, BoundsAssumption DEF TypeOK, Time
<1>3. Die(Proc) => TypeOK' /\ UniqueActive'
  <2> SUFFICES ASSUME Die(Proc) PROVE TypeOK' /\ UniqueActive'
    OBVIOUS
  <2>1. TypeOK' /\ UNCHANGED episodes
    BY <1>2, DieType DEF Die, db
  <2> QED
    BY <2>1 DEF UniqueActive, IsActive
<1>4. ASSUME HasLine, event.ts # None
      PROVE  event.ts \in 0..MaxTime /\ event.ts \in Nat /\ event.subject \in Subjects
             /\ Memberships(event) \in SUBSET QueueIds
  BY <1>4, EventFits DEF Opt
<1>5. CASE Walk
  <2>1. CASE OnTick(Proc)
    BY <1>1, <1>2, <2>1 DEF Next, Loop
  <2>2. CASE SkipTick
    <3>1. clock' \in [Workers -> Time]
      BY <1>2, <2>2 DEF SkipTick, Time
    <3> QED
      BY <2>2, <3>1 DEF SkipTick, db, TypeOK, UniqueActive, IsActive
  <2> QED
    BY <1>5, <2>1, <2>2 DEF Walk
<1>6. CASE Invalid \/ Duplicate \/ Late
  <2>1. OnSkip(Proc, event.ts) /\ event.ts \in 0..MaxTime
    BY <1>4, <1>6 DEF Invalid, Duplicate, Late, Reached, Near, HasTs
  <2> QED
    BY <1>1, <1>2, <2>1 DEF Next, Loop
<1>7. CASE Accept
  <2>1. /\ event.ts \in 0..MaxTime /\ event.subject \in Subjects
        /\ Memberships(event) \in SUBSET QueueIds /\ event.ts \in Nat
        /\ OnEvent(Proc, event.subject, event.ts, Memberships(event)) \/ Project
    BY <1>4, <1>7 DEF Accept, Reached, Near, HasTs
  <2>2. CASE OnEvent(Proc, event.subject, event.ts, Memberships(event))
    BY <1>1, <1>2, <2>1, <2>2 DEF Next, Loop
  <2>3. CASE Project
    <3>1. Later(event.ts, Proc) \in Nat
      BY <1>2, <2>1 DEF Later
    <3>2. /\ watermark' \in [Subjects -> Opt(Time)]
          /\ queues' \in [Subjects -> SUBSET QueueIds]
          /\ clock' \in [Workers -> Time]
      BY <1>2, <2>1, <2>3, <3>1 DEF Project, TypeOK, Opt, Time
    <3> QED
      BY <2>3, <3>2 DEF Project, TypeOK, UniqueActive, IsActive
  <2> QED
    BY <2>1, <2>2, <2>3
<1>8. CASE EvaluateRule
  <2>1. \A p, t : FindingAt(p, t) \in Findings
    BY DEF FindingAt, Finding, Findings
  <2>2. Evaluate(Proc)
    BY <1>8, <2>1 DEF EvaluateRule, Evaluate
  <2> QED
    BY <1>1, <1>2, <2>2 DEF Next
<1>9. CASE Finished \/ Abort \/ Killed
  <2>1. lines[1].ts \in FileStarts
    BY FilesAreSequences DEF Reading
  <2>2. Die(Proc) \/ EndRun(Proc, lines[1].ts)
    BY <1>9 DEF Finished, Save, Abort, Killed, Crash
  <2> QED
    BY <1>1, <1>2, <1>3, <2>1, <2>2 DEF Next, Loop
<1>10. CASE Disabling
  BY <1>1, <1>10, ReplayAssumption DEF Disabling, Next, Api
<1>11. CASE UNCHANGED allvars
  BY <1>1, <1>11 DEF allvars, vars
<1> QED
  BY <1>5, <1>6, <1>7, <1>8, <1>9, <1>10, <1>11 DEF RNext

LEMMA ReplayTypes == RSpec => [](TypeOK /\ UniqueActive)
<1>1. RInit => TypeOK /\ UniqueActive
  BY InitType DEF RInit, Init, UniqueActive, IsActive
<1> QED
  BY <1>1, StepReplayType, InitReading, StepReading, PTL DEF RSpec

-----------------------------------------------------------------------------
(* Where the clock is while a pass reads the file, and what it has logged. *)

Passing ==
  /\ ticked > 0 => Passed
  /\ Passed \/ clock[Proc] = 0
       \/ \E k \in 1..Len(lines) : k <= pos + 1 /\ clock[Proc] <= lines[k].ts
  /\ \A k \in 1..pos : lines[k].ts <= clock[Proc]
  /\ \A m \in 1..Len(log) : \E k \in 1..Len(lines) : News(lines, k) /\ log[m] = lines[k]

LEMMA LineTypes ==
  ASSUME Reading, Stamped
  PROVE  /\ lines \in Files /\ DOMAIN lines = 1..Len(lines)
         /\ Len(lines) \in Nat \ {0} /\ pos \in Nat /\ 1..pos \subseteq 1..Len(lines)
         /\ \A k \in 1..Len(lines) :
              lines[k].ts \in Nat /\ lines[k].ts # None /\ lines[k].subject \in Subjects
         /\ HasLine => pos + 1 \in 1..Len(lines) /\ event = lines[pos + 1]
  BY FilesAreSequences, NoneAssumption DEF Reading, Stamped, Opt, HasLine, event

\* Only the first line with its id is ever logged.
LEMMA ReadOnce ==
  ASSUME Stamped, ~MayCrash \/ AfterOrigin, Remembered, Late \/ Accept
  PROVE  /\ ~Passed /\ News(lines, pos + 1) /\ event.ts \in Nat /\ event = lines[pos + 1]
         /\ pos + 1 \in 1..Len(lines) /\ event.subject \in Subjects /\ Reached
<1>1. /\ Reading /\ HasLine /\ Parses /\ ~IsDuplicate /\ Reached
      /\ \A k \in 1..Len(lines) : HasRead(k) /\ lines[k].valid => Stored(lines[k].id) # {}
  BY DEF Late, Accept, Reached, Near, HasTs, Remembered
<1>2. /\ pos + 1 \in 1..Len(lines) /\ pos \in Nat /\ Len(lines) \in Nat
      /\ event = lines[pos + 1] /\ event.ts \in Nat /\ event.subject \in Subjects
  BY <1>1, LineTypes
<1>3. ASSUME NEW i \in 1..((pos + 1) - 1), lines[i].valid PROVE lines[i].id # lines[pos + 1].id
  <2>1. i \in 1..Len(lines) /\ HasRead(i)
    BY <1>2 DEF HasRead
  <2> QED
    BY <1>1, <1>2, <1>3, <2>1 DEF IsDuplicate
<1>4. ~Passed
  BY NothingTriggers
<1> QED
  BY <1>1, <1>2, <1>3, <1>4 DEF News, Parses

\* An event that is accepted is not behind the clock.
LEMMA AcceptedAhead ==
  ASSUME Stamped, ~MayCrash \/ AfterOrigin, InTime, TypeOK, Projected, Remembered, Passing,
         Accept
  PROVE  event.ts >= clock[Proc]
<1>1. /\ ~Passed /\ News(lines, pos + 1) /\ event.ts \in Nat /\ event = lines[pos + 1]
      /\ pos + 1 \in 1..Len(lines) /\ event.subject \in Subjects
      /\ ~IsLate /\ clock[Proc] \in Nat
  BY ReadOnce DEF Accept, Remembered
<1>2. /\ lines \in Files /\ DOMAIN lines = 1..Len(lines) /\ pos \in Nat /\ Len(lines) \in Nat
      /\ \A k \in 1..Len(lines) : lines[k].ts \in Nat
  BY LineTypes DEF Remembered
<1>3. ASSUME NEW k \in 1..pos PROVE lines[k].ts <= event.ts
  <2>1. k \in 1..((pos + 1) - 1) /\ k \in 1..Len(lines)
    BY <1>1, <1>2
  <2> SUFFICES ASSUME lines[k].ts > lines[pos + 1].ts PROVE FALSE
    BY <1>1, <1>2, <2>1
  <2>2. PICK i \in 1..((pos + 1) - 1) :
          /\ News(lines, i) /\ lines[i].subject = lines[pos + 1].subject
          /\ lines[i].ts > lines[pos + 1].ts
    BY <1>1, <1>2, <2>1 DEF InTime, News
  <2>3. i \in 1..pos /\ i \in 1..Len(lines)
    BY <1>1, <1>2
  <2>4. Stored(lines[i].id) # {}
    BY <2>2, <2>3 DEF Remembered, HasRead, News
  <2>5. PICK m \in 1..Len(log) : log[m].id = lines[i].id
    BY <2>4 DEF Stored
  <2>6. PICK j \in 1..Len(lines) : News(lines, j) /\ log[m] = lines[j]
    BY DEF Passing
  <2>7. j = i
    <3>1. j < i => j \in 1..(i - 1)
      BY <1>2, <2>3
    <3>2. i < j => i \in 1..(j - 1)
      BY <1>2, <2>3
    <3>3. i < j \/ j < i \/ i = j
      BY <1>2, <2>3
    <3> QED
      BY <2>2, <2>5, <2>6, <3>1, <3>2, <3>3 DEF News
  <2>8. watermark[event.subject] # None /\ lines[i].ts <= watermark[event.subject]
    BY <1>1, <2>2, <2>6, <2>7 DEF Projected, RowIs
  <2>9. watermark[event.subject] \in Nat
    BY <1>1, <2>8 DEF TypeOK, Opt, Time
  <2>10. event.ts < watermark[event.subject]
    <3>1. lines[i].ts \in Nat /\ lines[i].ts > event.ts
      BY <1>1, <1>2, <2>2, <2>3
    <3> QED
      BY <1>1, <2>8, <2>9, <3>1
  <2> QED
    BY <1>1, <2>8, <2>10 DEF IsLate
<1>4. \A k \in 1..Len(lines) : k <= pos + 1 => lines[k].ts <= event.ts
  BY <1>1, <1>2, <1>3
<1> QED
  BY <1>1, <1>2, <1>4 DEF Passing

LEMMA StepPassing ==
  ASSUME SameStart, Stamped, ~MayCrash \/ AfterOrigin, Projected, Remembered, Passing,
         [RNext]_allvars
  PROVE  Passing'
<1>1. /\ Reading /\ pos \in Nat /\ runs \in Nat /\ Proc \in Workers /\ TickInterval \in Nat
      /\ ticked \in Nat /\ clock[Proc] \in Nat /\ clock = [w \in Workers |-> clock[w]]
      /\ LastTs \in Nat /\ \E k \in 1..Len(lines) : lines[k].ts = LastTs
  BY ReplayAssumption, BoundsAssumption, LastIsLast DEF Remembered, Reading
<1>2. /\ lines \in Files /\ Len(lines) \in Nat \ {0} /\ 1..pos \subseteq 1..Len(lines)
      /\ \A k \in 1..Len(lines) : lines[k].ts \in Nat
      /\ HasLine => pos + 1 \in 1..Len(lines) /\ event = lines[pos + 1] /\ event.ts # None
  BY <1>1, LineTypes
<1>3. UNCHANGED lines
  BY DEF RNext, Walk, Invalid, Duplicate, Late, Accept, ReadOn, EvaluateRule, Finished, Abort,
         Killed, Restart, Disabling, allvars, ingest
<1>4. LastTs' = LastTs
  BY <1>3 DEF LastTs
<1>5. CASE UNCHANGED allvars \/ EvaluateRule \/ Disabling
  <2>1. UNCHANGED <<runs, log, pos, ticked, clock>>
    BY <1>5 DEF EvaluateRule, Begin, Decide, Discard, Commit, Send, Disabling, DisableRule,
                allvars, vars, ingest, db
  <2> QED
    BY <1>3, <1>4, <2>1 DEF Passing, Passed
<1>6. CASE Walk
  <2>1. /\ UNCHANGED <<runs, log, pos, ticked>>
        /\ clock' = [clock EXCEPT ![Proc] = @ + TickInterval]
        /\ HasLine /\ ~(event.ts < clock[Proc] + TickInterval)
    BY <1>6 DEF Walk, OnTick, SkipTick, Trigger, ingest, db, Reached, Near, HasTs
  <2>2. clock'[Proc] = clock[Proc] + TickInterval
    BY <1>1, <2>1
  <2>3. pos + 1 \in 1..Len(lines) /\ clock'[Proc] <= lines[pos + 1].ts
    BY <1>1, <1>2, <2>1, <2>2
  <2>4. \A k \in 1..pos : lines[k].ts <= clock'[Proc]
    BY <1>1, <1>2, <2>2 DEF Passing
  <2>5. \E k \in 1..Len(lines) : k <= pos' + 1 /\ clock'[Proc] <= lines[k].ts
    BY <1>1, <2>1, <2>3
  <2> QED
    BY <1>3, <1>4, <2>1, <2>4, <2>5 DEF Passing, Passed
<1>7. CASE Invalid \/ Duplicate \/ Late \/ Accept
  <2>1. /\ UNCHANGED <<runs, ticked>> /\ pos' = pos + 1 /\ HasLine
        /\ clock' = [clock EXCEPT ![Proc] = Later(event.ts, Proc)]
    BY <1>7 DEF Invalid, Duplicate, Late, Accept, OnSkip, OnEvent, Project, ReadOn, Reached,
                Near, HasTs, db
  <2>2. /\ pos + 1 \in 1..Len(lines) /\ event = lines[pos + 1] /\ event.ts \in Nat
        /\ 1..pos' = 1..pos \cup {pos + 1}
    BY <1>1, <1>2, <2>1
  <2>3. /\ clock'[Proc] = event.ts \/ clock'[Proc] = clock[Proc]
        /\ clock'[Proc] >= event.ts /\ clock'[Proc] >= clock[Proc] /\ clock'[Proc] \in Nat
    BY <1>1, <2>1, <2>2 DEF Later
  <2>4. Passed \/ clock'[Proc] = 0
          \/ \E k \in 1..Len(lines) : k <= pos' + 1 /\ clock'[Proc] <= lines[k].ts
    <3>1. CASE clock'[Proc] = event.ts
      BY <1>1, <2>1, <2>2, <3>1
    <3>2. CASE clock'[Proc] = clock[Proc]
      <4>1. \A k \in 1..Len(lines) : k <= pos + 1 => k <= pos' + 1
        BY <1>1, <2>1
      <4> QED
        BY <3>2, <4>1 DEF Passing
    <3> QED
      BY <2>3, <3>1, <3>2
  <2>5. \A k \in 1..pos' : lines[k].ts <= clock'[Proc]
    <3> SUFFICES ASSUME NEW k \in 1..pos' PROVE lines[k].ts <= clock'[Proc]
      OBVIOUS
    <3>1. CASE k = pos + 1
      BY <2>2, <2>3, <3>1
    <3>2. CASE k \in 1..pos
      <4>1. lines[k].ts <= clock[Proc] /\ lines[k].ts \in Nat
        BY <1>2, <3>2 DEF Passing
      <4> QED
        BY <1>1, <2>3, <4>1
    <3> QED
      BY <2>2, <3>1, <3>2
  <2>6. \A m \in 1..Len(log') : \E k \in 1..Len(lines) : News(lines, k) /\ log'[m] = lines[k]
    <3>1. CASE log' = log
      BY <3>1 DEF Passing
    <3>2. CASE log' = Append(log, event) /\ (Late \/ Accept)
      <4>1. News(lines, pos + 1) /\ Reached
        BY <3>2, ReadOnce
      <4>2. log \in Seq(Logged) /\ event \in Logged
        BY <1>1, <4>1, EventIsLogged DEF Projected
      <4>3. /\ Len(log') = Len(log) + 1 /\ Len(log) \in Nat
            /\ \A m \in 1..Len(log) : log'[m] = log[m]
            /\ log'[Len(log) + 1] = event
        BY <3>2, <4>2
      <4>4. ASSUME NEW m \in 1..Len(log')
            PROVE  \E k \in 1..Len(lines) : News(lines, k) /\ log'[m] = lines[k]
        <5>1. CASE m = Len(log) + 1
          BY <2>2, <4>1, <4>3, <5>1
        <5>2. CASE m \in 1..Len(log)
          BY <4>3, <5>2 DEF Passing
        <5> QED
          BY <4>3, <5>1, <5>2
      <4> QED
        BY <4>4
    <3> QED
      BY <1>7, <3>1, <3>2 DEF Invalid, Duplicate, Late, Accept
  <2>7. (ticked > 0 => Passed) /\ (Passed => Passed')
    BY <1>4, <2>1 DEF Passing, Passed
  <2> QED
    BY <1>3, <2>1, <2>4, <2>5, <2>6, <2>7 DEF Passing
<1>8. CASE Finished \/ Killed
  <2>1. /\ pos' = 0 /\ runs' = runs + 1 /\ UNCHANGED log
        /\ \A k \in 1..pos' : FALSE
    BY <1>8 DEF Finished, Killed, Restart
  <2>2. CASE Finished /\ evaluating
    <3>1. pos = Len(lines) /\ ticked' = clock[Proc]
      BY <2>2 DEF Finished, Save, EndRun
    <3>2. LastTs <= clock[Proc]
      BY <1>1, <3>1 DEF Passing
    <3>3. Passed'
      BY <1>1, <1>4, <2>1, <3>1, <3>2 DEF Passed
    <3> QED
      BY <1>3, <2>1, <3>3 DEF Passing
  <2>3. CASE Killed \/ (Finished /\ ~evaluating)
    <3>1. FileStarts = {0}
      <4>1. Passes = {TRUE} => evaluating
        BY <1>1 DEF Reading
      <4>2. ~evaluating \/ MayCrash
        BY <2>3 DEF Killed, Crash
      <4> QED
        BY <4>1, <4>2 DEF SameStart
    <3>2. /\ clock' = [clock EXCEPT ![Proc] = IF 0 >= ticked THEN 0 ELSE ticked]
          /\ UNCHANGED ticked
      BY <2>3, <3>1 DEF Killed, Crash, Finished, Save, Die, db
    <3>3. ticked > 0 \/ clock'[Proc] = 0
      BY <1>1, <3>2
    <3>4. ticked > 0 => Passed'
      BY <1>1, <1>4, <2>1, <3>2 DEF Passing, Passed
    <3> QED
      BY <1>3, <2>1, <3>2, <3>3, <3>4 DEF Passing
  <2> QED
    BY <1>8, <2>2, <2>3
<1>9. ~Abort
  BY <1>1, NoAbort
<1> QED
  BY <1>5, <1>6, <1>7, <1>8, <1>9 DEF RNext

LEMMA PassesHold ==
  ASSUME SameStart, Stamped, ~MayCrash \/ AfterOrigin
  PROVE  RSpec => []Passing
<1>1. RInit => Passing
  <2> SUFFICES ASSUME RInit PROVE Passing
    OBVIOUS
  <2>1. /\ log = <<>> /\ pos = 0 /\ clock = [w \in Workers |-> 0] /\ Proc \in Workers
        /\ ticked = 0
    BY ReplayAssumption DEF RInit, Init
  <2>2. clock[Proc] = 0 /\ (\A m \in 1..Len(log) : FALSE) /\ \A k \in 1..pos : FALSE
    BY <2>1
  <2> QED
    BY <2>1, <2>2 DEF Passing
<1>2. Projected /\ Remembered /\ Passing /\ [RNext]_allvars => Passing'
  BY StepPassing
<1>3. RSpec => []Remembered
  BY RemembersHold
<1> QED
  BY <1>1, <1>2, <1>3, ProjectedHolds, PTL DEF RSpec

-----------------------------------------------------------------------------
(* A notification is about the history: SaidThen() of a history h.         *)

FactsOf(s, row, mark, t) ==
  IF SubjectType[s] = "agent" THEN AgentFacts(row, t) ELSE QueueFacts(row, mark, t)

Warrants(transition) == IF transition = "resolved" THEN "false" ELSE "true"

UpTo(h, s, k) == {i \in AcceptedIn(h, s) : i <= k}
LastUpTo(h, s, k) == CHOOSE i \in UpTo(h, s, k) : \A j \in UpTo(h, s, k) : j <= i

SaidAt(n, h, k) ==
  LET s == n.pair[2]
  IN  /\ UpTo(h, s, k) # {}
      /\ \A i \in AcceptedIn(h, s) : IF i <= k THEN h[i].ts <= n.at ELSE h[i].ts >= n.at
      /\ Finding(Conditions[n.pair[1]],
                 FactsOf(s, StatesIn(h, s)[k], h[LastUpTo(h, s, k)].ts, n.at))
           = Warrants(n.transition)

SaidIn(n, h) == \E k \in 1..Len(h) : SaidAt(n, h, k)

LEMMA SaidThenIn == ASSUME NEW n PROVE SaidThen(n) <=> SaidIn(n, log)
<1> DEFINE s == n.pair[2]
<1>1. AcceptedAt(s) = AcceptedIn(log, s) /\ StateAfter(s) = StatesIn(log, s)
  BY AcceptedIsIn, StateIsIn
<1> QED
  BY <1>1 DEF SaidThen, SaidIn, SaidAt, UpTo, LastUpTo, FactsOf, Warrants

\* Of some accepted entries up to a place there is a last one.
LEMMA LastIsUpTo ==
  ASSUME NEW h \in Seq(Logged), NEW s, NEW k \in Nat, UpTo(h, s, k) # {}
  PROVE  /\ LastUpTo(h, s, k) \in UpTo(h, s, k)
         /\ \A j \in UpTo(h, s, k) : j <= LastUpTo(h, s, k)
         /\ UpTo(h, s, k) \subseteq 1..Len(h)
<1>1. UpTo(h, s, k) \subseteq 1..Len(h) /\ Len(h) \in Nat
  BY DEF UpTo, AcceptedIn
<1>2. UpTo(h, s, k) \in SUBSET (0..Len(h))
  BY <1>1
<1>3. \E i \in UpTo(h, s, k) : \A j \in UpTo(h, s, k) : j <= i
  BY <1>1, <1>2, LatestOf
<1> QED
  BY <1>1, <1>3 DEF LastUpTo

\* What was said of a history stays true of it when an event is added that is
\* late, of another subject, or not earlier than the notification.
LEMMA SaidStays ==
  ASSUME NEW h \in Seq(Logged), NEW e \in Logged, NEW n, OneSum(h, n.pair[2]),
         SaidIn(n, h),
         Len(h) + 1 \in AcceptedIn(Append(h, e), n.pair[2]) => e.ts >= n.at
  PROVE  SaidIn(n, Append(h, e))
<1> DEFINE s == n.pair[2]
           more == Append(h, e)
<1>1. /\ Len(h) \in Nat /\ Len(more) = Len(h) + 1
      /\ \A i \in 1..Len(h) : more[i] = h[i]
      /\ more[Len(h) + 1] = e
      /\ \A i \in 1..Len(h) : i \in AcceptedIn(more, s) <=> i \in AcceptedIn(h, s)
      /\ AcceptedIn(h, s) \subseteq 1..Len(h)
      /\ AcceptedIn(more, s) \subseteq 1..(Len(h) + 1)
  <2>1. AcceptedIn(h, s) \subseteq 1..Len(h)
    BY DEF AcceptedIn
  <2> QED
    BY <2>1, AcceptedGrows
<1>2. \A k \in 0..Len(h) : StatesIn(more, s)[k] = StatesIn(h, s)[k]
  BY SumGrows
<1>3. PICK k \in 1..Len(h) : SaidAt(n, h, k)
  BY DEF SaidIn
<1> HIDE DEF more
<1>4. UpTo(more, s, k) = UpTo(h, s, k)
  BY <1>1 DEF UpTo
<1>5. LastUpTo(more, s, k) = LastUpTo(h, s, k)
  BY <1>4 DEF LastUpTo
<1>6. LastUpTo(h, s, k) \in 1..Len(h)
  BY <1>1, <1>3, LastIsUpTo DEF SaidAt
<1>7. ASSUME NEW i \in AcceptedIn(more, s)
      PROVE  IF i <= k THEN more[i].ts <= n.at ELSE more[i].ts >= n.at
  <2>1. CASE i \in 1..Len(h)
    BY <1>1, <1>3, <1>7, <2>1 DEF SaidAt
  <2>2. CASE i = Len(h) + 1
    BY <1>1, <1>7, <2>2 DEF more
  <2> QED
    BY <1>1, <1>7, <2>1, <2>2
<1>8. SaidAt(n, more, k)
  BY <1>1, <1>2, <1>3, <1>4, <1>5, <1>6, <1>7 DEF SaidAt
<1>9. k \in 1..Len(more)
  BY <1>1
<1> QED
  BY <1>8, <1>9 DEF SaidIn, more

\* The state rows and the watermark are the end of the history.
LEMMA SaidNow ==
  ASSUME NEW h \in Seq(Logged), NEW n, NEW row, NEW mark, NEW member,
         RowIs(h, n.pair[2], row, mark, member), mark # None, n.at \in Nat, mark <= n.at,
         Finding(Conditions[n.pair[1]], FactsOf(n.pair[2], row, mark, n.at))
           = Warrants(n.transition)
  PROVE  SaidIn(n, h)
<1> DEFINE s == n.pair[2]
           k == Len(h)
<1>1. PICK last \in AcceptedIn(h, s) :
        (\A j \in AcceptedIn(h, s) : j <= last) /\ mark = h[last].ts
  BY DEF RowIs
<1>2. AcceptedIn(h, s) \subseteq 1..k /\ k \in Nat
  BY DEF AcceptedIn
<1>3. UpTo(h, s, k) = AcceptedIn(h, s)
  BY <1>2 DEF UpTo
<1>4. LastUpTo(h, s, k) = last
  <2>1. /\ LastUpTo(h, s, k) \in AcceptedIn(h, s)
        /\ \A j \in AcceptedIn(h, s) : j <= LastUpTo(h, s, k)
    BY <1>1, <1>2, <1>3, LastIsUpTo
  <2>2. LastUpTo(h, s, k) <= last /\ last <= LastUpTo(h, s, k)
    BY <1>1, <2>1
  <2> QED
    BY <1>2, <2>1, <2>2
<1>5. \A i \in AcceptedIn(h, s) : i <= k /\ h[i].ts <= n.at
  <2> SUFFICES ASSUME NEW i \in AcceptedIn(h, s) PROVE i <= k /\ h[i].ts <= n.at
    OBVIOUS
  <2>1. i \in 1..k /\ last \in 1..k /\ h[i].subject = s
    BY <1>2 DEF AcceptedIn
  <2>2. h[i].ts \in Nat /\ h[last].ts \in Nat
    BY <2>1, LoggedTypes
  <2>3. h[i].ts <= mark
    BY <2>1 DEF RowIs
  <2> QED
    BY <1>1, <2>1, <2>2, <2>3
<1>6. SaidAt(n, h, k)
  BY <1>1, <1>3, <1>4, <1>5 DEF SaidAt, RowIs
<1>7. k \in 1..Len(h)
  BY <1>1, <1>2
<1> QED
  BY <1>6, <1>7 DEF SaidIn

-----------------------------------------------------------------------------
(* What a notification says was so when it says.                           *)

\* Nothing stored is newer than the clock, nor than the trigger that is being
\* served for the pairs it is served for; what is about to be notified was found.
Timely ==
  /\ now[Proc] <= clock[Proc]
  /\ \A s \in Subjects : watermark[s] # None => watermark[s] <= clock[Proc]
  /\ \A n \in notifications : n.at <= clock[Proc]
  /\ \A p \in todo[Proc] : watermark[p[2]] # None => watermark[p[2]] <= now[Proc]
  /\ pc[Proc] \in {"decide", "commit"} =>
       LET s == job[Proc].pair[2] IN watermark[s] # None /\ watermark[s] <= now[Proc]
  /\ pc[Proc] = "commit" /\ job[Proc].emit # None =>
       FindingAt(job[Proc].pair, now[Proc]) = Warrants(job[Proc].emit)

\* advance() opens and reminds when the conditions hold, resolves when they are
\* refuted.
LEMMA EmitTells ==
  ASSUME NEW e, NEW p, NEW finding \in Findings, NEW t, NEW rule
  PROVE  LET out == Advance(e, p, finding, t, rule)
         IN  out.emit # None => finding = Warrants(out.emit)
<1> DEFINE out == Advance(e, p, finding, t, rule)
<1>1. CASE out = FromClear(p, finding, t, rule)
  BY <1>1 DEF FromClear, Outcome, Warrants
<1>2. CASE out = FromPending(e, finding, t, rule)
  BY <1>2 DEF FromPending, Outcome, Warrants
<1>3. CASE out = FromOpen(e, finding, t, rule)
  <2>1. CASE finding = "true"
    BY <1>3, <2>1 DEF FromOpen, Outcome, Warrants
  <2>2. CASE finding = "false"
    BY <1>3, <2>2 DEF FromOpen, Outcome, Warrants
  <2>3. CASE finding = "unknown"
    BY <1>3, <2>3 DEF FromOpen, Outcome, Warrants
  <2> QED
    BY <2>1, <2>2, <2>3 DEF Findings
<1> QED
  BY <1>1, <1>2, <1>3 DEF Advance

LEMMA StepTimely ==
  ASSUME Evaluated, Stamped, ~MayCrash, Reading, TypeOK, TypeOK', Timely, [RNext]_allvars
  PROVE  Timely'
<1>1. /\ Proc \in Workers /\ evaluating
      /\ clock \in [Workers -> Nat] /\ now \in [Workers -> Nat]
      /\ clock[Proc] \in Nat /\ now[Proc] \in Nat
      /\ clock' \in [Workers -> Nat] /\ clock'[Proc] \in Nat
      /\ watermark \in [Subjects -> Opt(Nat)]
      /\ todo \in [Workers -> SUBSET Pairs]
      /\ pc \in [Workers -> {"ready", "decide", "commit", "send"}]
      /\ job \in [Workers -> Job]
      /\ TickInterval \in Nat
      /\ \A p \in Pairs : p[2] \in Subjects
      /\ \A n \in notifications : n.at \in Nat
      /\ pc[Proc] \in {"decide", "commit"} => job[Proc].pair \in Pairs
      /\ \A s \in Subjects : watermark[s] # None => watermark[s] \in Nat
  BY ReplayAssumption, BoundsAssumption DEF Reading, TypeOK, Time, Evaluated, Pairs, Notice, Opt
<1>2. ASSUME UNCHANGED <<watermark, states, notifications, now, todo, pc, job>>,
             clock'[Proc] >= clock[Proc]
      PROVE  Timely'
  <2>1. /\ now'[Proc] <= clock'[Proc]
        /\ \A s \in Subjects : watermark'[s] # None => watermark'[s] <= clock'[Proc]
        /\ \A n \in notifications' : n.at <= clock'[Proc]
    BY <1>1, <1>2 DEF Timely
  <2>2. \A p, t : FindingAt(p, t)' = FindingAt(p, t)
    BY <1>2 DEF FindingAt, FactsAt
  <2> QED
    BY <1>2, <2>1, <2>2 DEF Timely
<1>3. ASSUME NEW t \in Nat PROVE Later(t, Proc) >= clock[Proc] /\ Later(t, Proc) >= t
  BY <1>1 DEF Later
<1>4. ASSUME HasLine PROVE event.ts \in Nat /\ event.ts # None /\ event.subject \in Subjects
  BY <1>4, EventFits, NoneAssumption DEF Opt
<1>5. CASE UNCHANGED allvars \/ Disabling
  <2>1. UNCHANGED <<watermark, states, notifications, now, todo, pc, job, clock>>
    BY <1>5 DEF allvars, vars, ingest, Disabling, DisableRule
  <2>2. clock'[Proc] >= clock[Proc]
    BY <1>1, <2>1
  <2> QED
    BY <1>2, <2>1, <2>2
<1>6. CASE Walk
  <2>1. /\ OnTick(Proc) /\ UNCHANGED ingest
    BY <1>1, <1>6 DEF Walk
  <2>2. /\ clock' = [clock EXCEPT ![Proc] = @ + TickInterval]
        /\ now' = [now EXCEPT ![Proc] = clock[Proc] + TickInterval]
        /\ UNCHANGED <<watermark, states, notifications, pc, job>>
        /\ pc[Proc] = "ready"
    BY <2>1 DEF OnTick, Trigger, Idle, db, ingest
  <2>3. clock'[Proc] = clock[Proc] + TickInterval /\ now'[Proc] = clock'[Proc]
    BY <1>1, <2>2
  <2>4. \A s \in Subjects : watermark'[s] # None => watermark'[s] <= clock'[Proc]
    BY <1>1, <2>2, <2>3 DEF Timely
  <2>5. \A n \in notifications' : n.at <= clock'[Proc]
    BY <1>1, <2>2, <2>3 DEF Timely
  <2>6. \A p \in todo'[Proc] : p[2] \in Subjects
    <3>1. todo'[Proc] \subseteq Pairs
      BY <1>1 DEF TypeOK
    <3> QED
      BY <1>1, <3>1
  <2> QED
    BY <1>1, <2>2, <2>3, <2>4, <2>5, <2>6 DEF Timely
<1>7. CASE Invalid \/ Duplicate \/ Late
  <2>1. HasLine /\ OnSkip(Proc, event.ts) /\ UNCHANGED states
    BY <1>7 DEF Invalid, Duplicate, Late, Reached, Near, HasTs
  <2>2. clock'[Proc] >= clock[Proc]
    BY <1>1, <1>3, <1>4, <2>1 DEF OnSkip
  <2> QED
    BY <1>2, <2>1, <2>2 DEF OnSkip, db
<1>8. CASE Accept
  <2> DEFINE who == event.subject
             ts == event.ts
  <2>1. HasLine /\ OnEvent(Proc, who, ts, Memberships(event))
    BY <1>1, <1>8 DEF Accept, Reached, Near, HasTs
  <2>2. ts \in Nat /\ who \in Subjects
    BY <1>4, <2>1
  <2>3. /\ clock' = [clock EXCEPT ![Proc] = Later(ts, Proc)]
        /\ now' = [now EXCEPT ![Proc] = ts]
        /\ todo' = [todo EXCEPT ![Proc] = Matched(who, Memberships(event))]
        /\ watermark' = [watermark EXCEPT ![who] = ts]
        /\ UNCHANGED <<notifications, pc, job>> /\ pc[Proc] = "ready"
    BY <2>1 DEF OnEvent, Trigger, Idle
  <2> HIDE DEF who, ts
  <2>4. /\ clock'[Proc] = Later(ts, Proc) /\ now'[Proc] = ts
        /\ todo'[Proc] = Matched(who, Memberships(event)) /\ pc'[Proc] = "ready"
        /\ watermark'[who] = ts
        /\ \A s \in Subjects : s # who => watermark'[s] = watermark[s]
    BY <1>1, <2>2, <2>3
  <2>5. \A p \in todo'[Proc] : p[2] = who
    BY <2>4 DEF Matched
  <2>6. clock'[Proc] >= clock[Proc] /\ clock'[Proc] >= ts
    BY <1>3, <2>2, <2>4
  <2>7. \A s \in Subjects : watermark'[s] # None => watermark'[s] <= clock'[Proc]
    <3> SUFFICES ASSUME NEW s \in Subjects, watermark'[s] # None
                 PROVE  watermark'[s] <= clock'[Proc]
      OBVIOUS
    <3>1. CASE s = who
      BY <1>1, <2>2, <2>4, <2>6, <3>1
    <3>2. CASE s # who
      <4>1. watermark[s] <= clock[Proc] /\ watermark[s] \in Nat /\ watermark'[s] = watermark[s]
        BY <1>1, <2>4, <3>2 DEF Timely
      <4> QED
        BY <1>1, <2>6, <4>1
    <3> QED
      BY <3>1, <3>2
  <2>8. \A n \in notifications' : n.at <= clock'[Proc]
    BY <1>1, <2>3, <2>6 DEF Timely
  <2>9. \A p \in todo'[Proc] : watermark'[p[2]] <= now'[Proc]
    BY <2>2, <2>4, <2>5
  <2> QED
    BY <1>1, <2>2, <2>4, <2>6, <2>7, <2>8, <2>9 DEF Timely
<1>9. CASE EvaluateRule
  <2>1. UNCHANGED <<states, watermark, clock, now>>
    BY <1>9 DEF EvaluateRule, Begin, Decide, Discard, Commit, Send, ingest, db
  <2>2. \A p, t : FindingAt(p, t)' = FindingAt(p, t) /\ FindingAt(p, t) \in Findings
    BY <2>1 DEF FindingAt, FactsAt, Finding, Findings
  <2>3. /\ now'[Proc] <= clock'[Proc]
        /\ \A s \in Subjects : watermark'[s] # None => watermark'[s] <= clock'[Proc]
    BY <2>1 DEF Timely
  <2>4. CASE \E p \in Pairs : Begin(Proc, p)
    <3>1. PICK p \in Pairs : Begin(Proc, p)
      BY <2>4
    <3>2. /\ p \in todo[Proc] /\ todo' = [todo EXCEPT ![Proc] = @ \ {p}]
          /\ UNCHANGED notifications /\ pc[Proc] = "ready"
          /\ IF Runs(p) THEN /\ pc' = [pc EXCEPT ![Proc] = "decide"]
                             /\ job' = [job EXCEPT ![Proc].pair = p]
                        ELSE UNCHANGED <<pc, job>>
      BY <3>1 DEF Begin, Goto
    <3>3. todo'[Proc] \subseteq todo[Proc]
      BY <1>1, <3>2
    <3>4. CASE Runs(p)
      <4>1. pc'[Proc] = "decide" /\ job'[Proc].pair = p
        BY <1>1, <3>2, <3>4 DEF Job
      <4>2. watermark[p[2]] # None
        BY <3>4 DEF Runs, Known
      <4>3. watermark[p[2]] <= now[Proc]
        BY <3>2, <4>2 DEF Timely
      <4> QED
        BY <2>1, <2>3, <3>2, <3>3, <4>1, <4>2, <4>3 DEF Timely
    <3>5. CASE ~Runs(p)
      BY <2>1, <2>3, <3>2, <3>3, <3>5 DEF Timely
    <3> QED
      BY <3>4, <3>5
  <2>5. CASE pc[Proc] = "decide" /\ Decide(Proc, FindingAt(job[Proc].pair, now[Proc]))
    <3> DEFINE p == job[Proc].pair
    <3>1. PICK prior \in GetActive(p) :
            job' = [job EXCEPT ![Proc] =
              [pair |-> p, prior |-> prior,
               row |-> Advance(Row(prior), p, FindingAt(p, now[Proc]), now[Proc], RuleOf(p)).row,
               emit |-> Advance(Row(prior), p, FindingAt(p, now[Proc]), now[Proc],
                                RuleOf(p)).emit]]
      BY <2>5 DEF Decide
    <3>2. /\ job'[Proc].pair = p
          /\ job'[Proc].emit = Advance(Row(prior), p, FindingAt(p, now[Proc]), now[Proc],
                                       RuleOf(p)).emit
      BY <1>1, <3>1
    <3>3. job'[Proc].emit # None => FindingAt(p, now[Proc]) = Warrants(job'[Proc].emit)
      BY <2>2, <3>2, EmitTells
    <3>4. UNCHANGED <<notifications, todo>> /\ pc'[Proc] = "commit"
      BY <1>1, <2>5 DEF Decide, db, Goto
    <3>5. watermark[p[2]] # None /\ watermark[p[2]] <= now[Proc]
      BY <2>5 DEF Timely
    <3> HIDE DEF p
    <3> QED
      BY <2>1, <2>2, <2>3, <3>2, <3>3, <3>4, <3>5 DEF Timely
  <2>6. CASE Discard(Proc) \/ Send(Proc)
    <3>1. UNCHANGED <<notifications, todo>> /\ pc'[Proc] = "ready"
      BY <1>1, <2>6 DEF Discard, Send, db, Goto
    <3> QED
      BY <2>1, <2>3, <3>1 DEF Timely
  <2>7. CASE Commit(Proc)
    <3>1. UNCHANGED todo /\ pc'[Proc] \in {"ready", "send"}
      BY <1>1, <2>7 DEF Commit, Goto
    <3>2. \A n \in notifications' : n \in notifications \/ n.at = now[Proc]
      BY <2>7 DEF Commit, Inserted, Notify
    <3>3. \A n \in notifications' : n.at <= clock[Proc]
      BY <3>2 DEF Timely
    <3> QED
      BY <2>1, <2>3, <3>1, <3>3 DEF Timely
  <2> QED
    BY <1>9, <2>4, <2>5, <2>6, <2>7 DEF EvaluateRule
<1>10. CASE Finished
  <2>1. EndRun(Proc, lines[1].ts) /\ UNCHANGED states
    BY <1>1, <1>10 DEF Finished, Save, Restart
  <2>2. lines[1].ts \in Nat
    BY FilesAreSequences, BoundsAssumption DEF Reading
  <2>3. clock'[Proc] >= clock[Proc]
    BY <1>1, <1>3, <2>1, <2>2 DEF EndRun
  <2> QED
    BY <1>2, <2>1, <2>3 DEF EndRun
<1>11. ~Abort /\ ~Killed
  BY <1>1, NoAbort DEF Killed, Crash
<1> QED
  BY <1>5, <1>6, <1>7, <1>8, <1>9, <1>10, <1>11 DEF RNext

\* A notification is recorded while its history ends at the latest when it says.
LEMMA StepHonest ==
  ASSUME Evaluated, Stamped, ~MayCrash, InTime, Projected, Remembered, Passing, TypeOK,
         Timely, \A n \in notifications : SaidIn(n, log), [RNext]_allvars
  PROVE  (\A n \in notifications : SaidIn(n, log))'
<1>1. /\ log \in Seq(Logged)
      /\ \A s \in Subjects : RowIs(log, s, states[s], watermark[s], queues[s])
      /\ \A n \in notifications : n.pair[2] \in Subjects /\ n.at \in Nat
      /\ Proc \in Workers /\ evaluating
  BY ReplayAssumption DEF Projected, TypeOK, Notice, Pairs, Time, Reading, Evaluated
<1>2. CASE UNCHANGED <<log, notifications>>
  BY <1>2
<1>3. CASE Late \/ Accept
  <2>1. /\ UNCHANGED notifications /\ log' = Append(log, event) /\ Reached
        /\ event.subject \in Subjects /\ event.ts \in Nat
    BY <1>1, <1>3, ReadOnce DEF Late, Accept, OnSkip, OnEvent, db
  <2>2. event \in Logged
    BY <1>1, <2>1, EventIsLogged DEF Projected
  <2>3. ASSUME NEW n \in notifications,
               Len(log) + 1 \in AcceptedIn(Append(log, event), n.pair[2])
        PROVE  event.ts >= n.at
    <3>1. CASE Late
      <4>1. watermark[event.subject] # None /\ event.ts < watermark[event.subject]
        BY <3>1 DEF Late, IsLate
      <4>2. Len(log) + 1 \notin AcceptedIn(Append(log, event), n.pair[2])
        BY <1>1, <2>2, <4>1, OtherRow
      <4> QED
        BY <2>3, <4>2
    <3>2. CASE Accept
      <4>1. event.ts >= clock[Proc] /\ n.at <= clock[Proc] /\ clock[Proc] \in Nat
        BY <3>2, AcceptedAhead DEF Timely, Remembered
      <4> QED
        BY <1>1, <2>1, <4>1
    <3> QED
      BY <1>3, <3>1, <3>2
  <2>4. \A n \in notifications : SaidIn(n, Append(log, event))
    BY <1>1, <2>2, <2>3, SaidStays DEF RowIs
  <2> QED
    BY <2>1, <2>4
<1>4. CASE Commit(Proc) /\ UNCHANGED ingest
  <2> DEFINE p == job[Proc].pair
  <2>1. UNCHANGED log
    BY <1>4 DEF ingest
  <2>2. /\ pc[Proc] = "commit" /\ p \in Pairs /\ p[2] \in Subjects
        /\ now[Proc] \in Nat
        /\ watermark[p[2]] # None /\ watermark[p[2]] <= now[Proc]
    BY <1>1, <1>4 DEF Commit, TypeOK, Timely, Pairs, Time
  <2>3. ASSUME NEW n \in notifications', n \notin notifications PROVE SaidIn(n, log)
    <3>1. /\ job[Proc].emit # None
          /\ n.pair = p /\ n.transition = job[Proc].emit /\ n.at = now[Proc]
      BY <1>4, <2>3 DEF Commit, Inserted, Notify
    <3>2. FindingAt(p, n.at) = Warrants(n.transition)
      BY <2>2, <3>1 DEF Timely
    <3>3. Finding(Conditions[p[1]], FactsOf(p[2], states[p[2]], watermark[p[2]], n.at))
            = Warrants(n.transition)
      BY <3>2 DEF FindingAt, FactsAt, FactsOf
    <3> HIDE DEF p
    <3> QED
      BY <1>1, <2>2, <3>1, <3>3, SaidNow
  <2> QED
    BY <2>1, <2>3
<1>5. CASE ~Late /\ ~Accept /\ ~(Commit(Proc) /\ UNCHANGED ingest)
  <2>1. UNCHANGED <<log, notifications>>
    BY <1>5 DEF RNext, Walk, OnTick, SkipTick, Invalid, Duplicate, EvaluateRule, Finished,
                Abort, Killed, Disabling, DisableRule, Begin, Decide, Discard, Send, Save,
                EndRun, Die, Crash, OnSkip, Restart, allvars, vars, ingest, db
  <2> QED
    BY <1>2, <2>1
<1> QED
  BY <1>3, <1>4, <1>5

\* What a replay that is not killed has told people was so at the time it gave,
\* of a file whose events come in time: for any rules and conditions, over any
\* number of replays, and whoever disables rules meanwhile.
THEOREM NoticesAreTrue ==
  Evaluated /\ Stamped /\ ~MayCrash /\ InTime => (RSpec => []Honest)
<1> SUFFICES ASSUME Evaluated, Stamped, ~MayCrash, InTime PROVE RSpec => []Honest
  OBVIOUS
<1> DEFINE Said == \A n \in notifications : SaidIn(n, log)
<1>1. RInit => Timely /\ Said
  <2> SUFFICES ASSUME RInit PROVE Timely /\ Said
    OBVIOUS
  <2>1. /\ notifications = {} /\ Proc \in Workers
        /\ clock = [w \in Workers |-> 0] /\ now = [w \in Workers |-> 0]
        /\ todo = [w \in Workers |-> {}] /\ pc = [w \in Workers |-> "ready"]
        /\ watermark = [s \in Subjects |-> None]
    BY ReplayAssumption DEF RInit, Init
  <2>2. /\ clock[Proc] = 0 /\ now[Proc] = 0 /\ todo[Proc] = {} /\ pc[Proc] = "ready"
        /\ \A s \in Subjects : watermark[s] = None
    BY <2>1
  <2> QED
    BY <2>1, <2>2 DEF Timely
<1>2. /\ Projected /\ Remembered /\ Passing /\ TypeOK /\ TypeOK' /\ Timely /\ Said
      /\ [RNext]_allvars
      => Timely' /\ Said'
  <2> SUFFICES ASSUME Projected, Remembered, Passing, TypeOK, TypeOK', Timely, Said,
                      [RNext]_allvars
               PROVE  Timely' /\ Said'
    OBVIOUS
  <2>1. Reading
    BY DEF Remembered
  <2> QED
    BY <2>1, StepTimely, StepHonest
<1>3. Said => Honest
  BY SaidThenIn DEF Honest
<1>4. RSpec => []Remembered
  BY RemembersHold
<1>5. RSpec => []Passing
  BY PassesHold DEF SameStart, Evaluated
<1> HIDE DEF Said
<1> QED
  BY <1>1, <1>2, <1>3, <1>4, <1>5, ProjectedHolds, ReplayTypes, PTL DEF RSpec

-----------------------------------------------------------------------------
(* Between two triggers: the pairs that are still to be evaluated, the one *)
(* that is being evaluated, and those that agree with their conditions.    *)

Agrees(p, finding) ==
  /\ ActiveOf(p) = {} => finding # "true"
  /\ \A i \in ActiveOf(p) :
       IF episodes[i].state = "pending" THEN finding = "true" ELSE finding # "false"

Working(p) == pc[Proc] \in {"decide", "commit"} /\ job[Proc].pair = p

Served(p) ==
  Selected(p) /\ watermark[p[2]] # None =>
    p \in todo[Proc] \/ Working(p) \/ Agrees(p, FindingAt(p, clock[Proc]))

\* What is about to be committed agrees with what was found, and replaces the
\* one active row of its pair.
RowAgrees ==
  /\ ~Idle(Proc) => now[Proc] = clock[Proc]
  /\ pc[Proc] = "commit" =>
       LET p == job[Proc].pair
           row == job[Proc].row
           prior == job[Proc].prior
           finding == FindingAt(p, now[Proc])
       IN  /\ row.pair = p
           /\ ActiveOf(p) \subseteq {prior}
           /\ prior # None => /\ prior \in EpisodeIds
                              /\ episodes[prior] # None /\ episodes[prior].pair = p
           /\ row.state = "clear" => finding # "true"
           /\ row.state = "pending" => finding = "true"
           /\ row.state = "open" => finding # "false"

LEMMA AdvanceAgrees ==
  ASSUME NEW p \in Pairs, NEW e \in Opt(Episode(Pairs)),
         e # None => e.state \in ActiveStates /\ e.pair = p,
         NEW finding \in Findings, NEW t \in Time, NEW rule \in RuleFields
  PROVE  LET row == Advance(e, p, finding, t, rule).row
         IN  /\ row.pair = p
             /\ row.state = "clear" => finding # "true"
             /\ row.state = "pending" => finding = "true"
             /\ row.state = "open" => finding # "false"
<1> DEFINE row == Advance(e, p, finding, t, rule).row
<1>1. row.pair = p
  BY AdvanceType
<1>2. CASE e = None
  <2>1. row = FromClear(p, finding, t, rule).row
    BY <1>2 DEF Advance
  <2> QED
    BY <1>1, <2>1 DEF FromClear, Outcome, Blank
<1>3. CASE e # None /\ e.state = "pending"
  <2>1. row = FromPending(e, finding, t, rule).row /\ e \in Episode(Pairs)
    BY <1>3 DEF Advance, Opt
  <2> QED
    BY <1>1, <1>3, <2>1 DEF FromPending, Outcome, Cleared, Counted, Episode
<1>4. CASE e # None /\ e.state = "open"
  <2>1. row = FromOpen(e, finding, t, rule).row /\ e \in Episode(Pairs)
    BY <1>4 DEF Advance, Opt
  <2>2. CASE finding = "true"
    <3>1. row.state = "open"
      BY <1>4, <2>1, <2>2 DEF FromOpen, Outcome, Suppress, Counted, Episode
    <3> QED
      BY <1>1, <2>2, <3>1
  <2>3. CASE finding = "false"
    <3>1. row.state = "clear"
      BY <1>4, <2>1, <2>3 DEF FromOpen, Outcome, Closed, Episode
    <3> QED
      BY <1>1, <2>3, <3>1
  <2>4. CASE finding = "unknown"
    <3>1. row.state = "open"
      BY <1>4, <2>1, <2>4 DEF FromOpen, Outcome, Frozen, Episode
    <3> QED
      BY <1>1, <2>4, <3>1
  <2> QED
    BY <2>2, <2>3, <2>4 DEF Findings
<1> QED
  BY <1>2, <1>3, <1>4 DEF ActiveStates

\* Disabling a rule takes the active rows of its pairs away and leaves the
\* active rows of all others.
LEMMA DisablingCloses ==
  ASSUME TypeOK, NEW r \in Rules, DisableRule(r)
  PROVE  /\ \A i \in EpisodeIds : IsActive(episodes'[i]) => episodes'[i] = episodes[i]
         /\ \A i \in EpisodeIds :
              episodes[i] # None => episodes'[i] # None /\ episodes'[i].pair = episodes[i].pair
         /\ \A i \in EpisodeIds :
              episodes[i] # None /\ episodes[i].pair[1] # r => episodes'[i] = episodes[i]
         /\ rules'[r] = "disabled"
         /\ UNCHANGED <<watermark, queues, clock, now, todo, pc, job>>
<1>1. /\ rules' = [rules EXCEPT ![r] = "disabled"]
      /\ episodes' = [i \in EpisodeIds |-> CloseSilently(episodes[i], r)]
      /\ UNCHANGED <<watermark, queues, clock, now, todo, pc, job>>
  BY DEF DisableRule
<1>2. rules'[r] = "disabled"
  BY <1>1 DEF TypeOK
<1>3. ASSUME NEW i \in EpisodeIds
      PROVE  /\ IsActive(episodes'[i]) => episodes'[i] = episodes[i]
             /\ episodes[i] # None => episodes'[i] # None /\ episodes'[i].pair = episodes[i].pair
             /\ episodes[i] # None /\ episodes[i].pair[1] # r => episodes'[i] = episodes[i]
  <2>1. episodes[i] \in Opt(Episode(Pairs)) /\ episodes'[i] = CloseSilently(episodes[i], r)
    BY <1>1 DEF TypeOK
  <2>2. IsActive(episodes'[i]) => episodes'[i] = episodes[i]
    BY <2>1, CloseType
  <2>3. CASE IsActive(episodes[i]) /\ episodes[i].pair[1] = r
    <3>1. /\ episodes[i] \in Episode(Pairs)
          /\ episodes'[i] = [episodes[i] EXCEPT !.state = "clear", !.closed_at = Wall]
      BY <2>1, <2>3 DEF CloseSilently, IsActive, Opt
    <3>2. episodes'[i].pair = episodes[i].pair
      BY <3>1 DEF Episode
    <3>3. episodes'[i] \in Episode(Pairs)
      BY <3>1, BoundsAssumption DEF Episode, Opt, Time, States
    <3> QED
      BY <2>2, <2>3, <3>2, <3>3, NoneIsNoData
  <2>4. CASE ~(IsActive(episodes[i]) /\ episodes[i].pair[1] = r)
    BY <2>1, <2>4 DEF CloseSilently
  <2> QED
    BY <2>2, <2>3, <2>4
<1> QED
  BY <1>1, <1>2, <1>3

LEMMA StepRowAgrees ==
  ASSUME Reading, TypeOK, UniqueActive, RowAgrees, [RNext]_allvars,
         Accept => event.ts >= clock[Proc]
  PROVE  RowAgrees'
<1>1. /\ Proc \in Workers /\ clock \in [Workers -> Nat] /\ now \in [Workers -> Nat]
      /\ todo \in [Workers -> SUBSET Pairs]
      /\ pc \in [Workers -> {"ready", "decide", "commit", "send"}]
      /\ job \in [Workers -> Job] /\ TickInterval \in Nat /\ clock[Proc] \in Nat
  BY ReplayAssumption, BoundsAssumption DEF TypeOK, Time
<1>2. ASSUME pc'[Proc] # "commit", ~Idle(Proc)' => now'[Proc] = clock'[Proc]
      PROVE  RowAgrees'
  BY <1>2 DEF RowAgrees
<1>3. CASE UNCHANGED allvars
  BY <1>3 DEF allvars, vars, ingest, RowAgrees, Idle, ActiveOf, IsActive, FindingAt, FactsAt
<1>4. CASE Walk
  <2>1. CASE OnTick(Proc)
    <3>1. now'[Proc] = clock'[Proc] /\ pc'[Proc] = "ready"
      BY <1>1, <2>1 DEF OnTick, Trigger, Idle
    <3> QED
      BY <1>2, <3>1
  <2>2. CASE SkipTick
    <3>1. Idle(Proc)' /\ pc'[Proc] = "ready"
      BY <1>4, <2>2 DEF Walk, SkipTick, HasTs, HasLine, Idle
    <3> QED
      BY <1>2, <3>1
  <2> QED
    BY <1>4, <2>1, <2>2 DEF Walk
<1>5. CASE Invalid \/ Duplicate \/ Late
  <2>1. Idle(Proc)' /\ pc'[Proc] = "ready"
    BY <1>5 DEF Invalid, Duplicate, Late, OnSkip, Idle
  <2> QED
    BY <1>2, <2>1
<1>6. CASE Accept
  <2>1. CASE evaluating
    <3>1. now' = [now EXCEPT ![Proc] = event.ts] /\ pc'[Proc] = "ready"
          /\ clock' = [clock EXCEPT ![Proc] = Later(event.ts, Proc)]
      BY <1>6, <2>1 DEF Accept, OnEvent, Trigger, Idle
    <3>2. now'[Proc] = clock'[Proc]
      BY <1>1, <1>6, <3>1 DEF Later
    <3> QED
      BY <1>2, <3>1, <3>2
  <2>2. CASE ~evaluating
    <3>1. Idle(Proc)' /\ pc'[Proc] = "ready"
      BY <1>6, <2>2 DEF Accept, Project, Reached, Near, HasTs, HasLine, Idle
    <3> QED
      BY <1>2, <3>1
  <2> QED
    BY <2>1, <2>2
<1>7. CASE EvaluateRule
  <2>1. UNCHANGED <<states, watermark, clock, now>>
    BY <1>7 DEF EvaluateRule, Begin, Decide, Discard, Commit, Send, ingest, db
  <2>2. ~Idle(Proc)
    BY <1>7 DEF EvaluateRule, Begin, Decide, Discard, Commit, Send, Idle
  <2>3. now'[Proc] = clock'[Proc]
    BY <2>1, <2>2 DEF RowAgrees
  <2>4. CASE \E p \in Pairs : Begin(Proc, p)
    <3>1. pc'[Proc] \in {"ready", "decide"}
      BY <1>1, <2>4 DEF Begin, Goto
    <3> QED
      BY <1>2, <2>3, <3>1
  <2>5. CASE Discard(Proc) \/ Commit(Proc) \/ Send(Proc)
    <3>1. pc'[Proc] \in {"ready", "send"}
      BY <1>1, <2>5 DEF Discard, Commit, Send, Goto
    <3> QED
      BY <1>2, <2>3, <3>1
  <2>6. CASE pc[Proc] = "decide" /\ Decide(Proc, FindingAt(job[Proc].pair, now[Proc]))
    <3> DEFINE p == job[Proc].pair
               t == now[Proc]
               finding == FindingAt(p, t)
    <3>1. /\ p \in Pairs /\ t \in Time /\ finding \in Findings /\ RuleOf(p) \in RuleFields
      <4>1. p \in Pairs
        BY <1>1, <2>6 DEF TypeOK
      <4> QED
        BY <1>1, <4>1, RuleOfType DEF FindingAt, Finding, Findings, Time
    <3>2. PICK prior \in GetActive(p) :
            job' = [job EXCEPT ![Proc] =
              [pair |-> p, prior |-> prior,
               row |-> Advance(Row(prior), p, finding, t, RuleOf(p)).row,
               emit |-> Advance(Row(prior), p, finding, t, RuleOf(p)).emit]]
      BY <2>6 DEF Decide
    <3>3. /\ Row(prior) \in Opt(Episode(Pairs))
          /\ Row(prior) # None => Row(prior).state \in ActiveStates /\ Row(prior).pair = p
          /\ prior # None => /\ prior \in EpisodeIds /\ Row(prior) = episodes[prior]
                             /\ IsActive(episodes[prior])
      BY <3>1, PriorRow
    <3> DEFINE row == Advance(Row(prior), p, finding, t, RuleOf(p)).row
    <3>4. /\ row.pair = p
          /\ row.state = "clear" => finding # "true"
          /\ row.state = "pending" => finding = "true"
          /\ row.state = "open" => finding # "false"
      BY <3>1, <3>3, AdvanceAgrees
    <3>5. ActiveOf(p) \subseteq {prior}
      <4>1. CASE ActiveOf(p) = {}
        BY <4>1
      <4>2. CASE ActiveOf(p) # {}
        <5>1. prior \in ActiveOf(p)
          BY <4>2 DEF GetActive
        <5> QED
          BY <5>1 DEF UniqueActive, ActiveOf
      <4> QED
        BY <4>1, <4>2
    <3>6. prior # None => episodes[prior] # None /\ episodes[prior].pair = p
      BY <3>3 DEF IsActive
    <3>7. /\ job'[Proc].pair = p /\ job'[Proc].prior = prior /\ job'[Proc].row = row
          /\ UNCHANGED episodes
      BY <1>1, <2>6, <3>2 DEF Decide, db
    <3>8. FindingAt(job[Proc].pair, now[Proc])' = finding
      BY <2>1, <3>7 DEF FindingAt, FactsAt
    <3>9. ActiveOf(job[Proc].pair)' = ActiveOf(p)
      BY <3>7 DEF ActiveOf, IsActive
    <3> HIDE DEF p, t, finding, row
    <3> QED
      BY <2>3, <3>3, <3>4, <3>5, <3>6, <3>7, <3>8, <3>9 DEF RowAgrees
  <2> QED
    BY <1>7, <2>4, <2>5, <2>6 DEF EvaluateRule
<1>8. CASE Finished \/ Abort \/ Killed
  <2>1. CASE Die(Proc)
    <3>1. Idle(Proc)' /\ pc'[Proc] = "ready"
      BY <1>1, <2>1 DEF Die, Goto, Idle
    <3> QED
      BY <1>2, <3>1
  <2>2. CASE EndRun(Proc, lines[1].ts)
    <3>1. Idle(Proc)' /\ pc'[Proc] = "ready"
      BY <2>2 DEF EndRun, Idle
    <3> QED
      BY <1>2, <3>1
  <2> QED
    BY <1>8, <2>1, <2>2 DEF Finished, Save, Abort, Killed, Crash
<1>9. CASE Disabling
  <2>1. PICK r \in Rules : DisableRule(r) /\ UNCHANGED ingest
    BY <1>9, ReplayAssumption DEF Disabling
  <2>2. /\ \A i \in EpisodeIds : IsActive(episodes'[i]) => episodes'[i] = episodes[i]
        /\ \A i \in EpisodeIds :
             episodes[i] # None => episodes'[i] # None /\ episodes'[i].pair = episodes[i].pair
        /\ UNCHANGED <<watermark, states, clock, now, todo, pc, job>>
    BY <2>1, DisablingCloses DEF ingest
  <2> DEFINE p == job[Proc].pair
  <2>3. ActiveOf(p)' \subseteq ActiveOf(p)
    BY <2>2 DEF ActiveOf
  <2>4. FindingAt(p, now[Proc])' = FindingAt(p, now[Proc])
    BY <2>2 DEF FindingAt, FactsAt
  <2>5. Idle(Proc)' = Idle(Proc)
    BY <2>2 DEF Idle
  <2> QED
    BY <2>2, <2>3, <2>4, <2>5 DEF RowAgrees
<1> QED
  BY <1>3, <1>4, <1>5, <1>6, <1>7, <1>8, <1>9 DEF RNext

\* An evaluation serves its pair, and whoever disables a rule meanwhile takes
\* the pairs of that rule out of what is served.
LEMMA StepServed ==
  ASSUME TypeOK, RowAgrees, NEW p \in Pairs, Served(p), EvaluateRule \/ Disabling
  PROVE  Served(p)'
<1> SUFFICES ASSUME Selected(p)', watermark'[p[2]] # None
             PROVE  (p \in todo[Proc])' \/ Working(p)' \/ Agrees(p, FindingAt(p, clock[Proc]))'
  BY DEF Served
<1>1. /\ Proc \in Workers /\ todo \in [Workers -> SUBSET Pairs]
      /\ pc \in [Workers -> {"ready", "decide", "commit", "send"}]
      /\ job \in [Workers -> Job] /\ None \notin EpisodeIds
  BY ReplayAssumption, NoneIsNoData DEF TypeOK
<1> DEFINE finding == FindingAt(p, clock[Proc])
<1>2. CASE Disabling
  <2>1. PICK r \in Rules : DisableRule(r) /\ UNCHANGED ingest
    BY <1>2, ReplayAssumption DEF Disabling
  <2>2. /\ \A i \in EpisodeIds : IsActive(episodes'[i]) => episodes'[i] = episodes[i]
        /\ \A i \in EpisodeIds :
             episodes[i] # None /\ episodes[i].pair[1] # r => episodes'[i] = episodes[i]
        /\ rules'[r] = "disabled"
        /\ UNCHANGED <<watermark, queues, states, clock, now, todo, pc, job>>
        /\ rules' = [rules EXCEPT ![r] = "disabled"]
    BY <2>1, DisablingCloses DEF ingest, DisableRule
  <2>3. p[1] # r /\ p[1] \in Rules
    BY <2>2 DEF Selected, Matched, Enabled, Pairs
  <2>4. rules'[p[1]] = rules[p[1]]
    BY <2>2, <2>3 DEF TypeOK
  <2>5. Selected(p)
    BY <2>2, <2>4 DEF Selected, Matched, Enabled
  <2>6. /\ ActiveOf(p)' = ActiveOf(p)
        /\ \A i \in ActiveOf(p) : episodes'[i] = episodes[i]
    BY <2>2, <2>3 DEF ActiveOf, IsActive
  <2>7. finding' = finding
    BY <2>2 DEF FindingAt, FactsAt
  <2>8. Agrees(p, finding) => Agrees(p, finding)'
    BY <2>6, <2>7 DEF Agrees
  <2> QED
    BY <2>2, <2>5, <2>8 DEF Served, Working
<1>3. CASE EvaluateRule
  <2>1. UNCHANGED <<rules, queues, states, watermark, clock, now>>
    BY <1>3 DEF EvaluateRule, Begin, Decide, Discard, Commit, Send, ingest, db
  <2>2. Selected(p) /\ watermark[p[2]] # None
    BY <2>1 DEF Selected, Matched, Enabled
  <2>3. p \in todo[Proc] \/ Working(p) \/ Agrees(p, finding)
    BY <2>2 DEF Served
  <2>4. finding' = finding
    BY <2>1 DEF FindingAt, FactsAt
  <2>5. ASSUME UNCHANGED episodes PROVE Agrees(p, finding) => Agrees(p, finding)'
    BY <2>4, <2>5 DEF Agrees, ActiveOf, IsActive
  <2>6. now[Proc] = clock[Proc]
    <3>1. ~Idle(Proc)
      BY <1>3 DEF EvaluateRule, Begin, Decide, Discard, Commit, Send, Idle
    <3> QED
      BY <3>1 DEF RowAgrees
  <2> HIDE DEF finding
  <2>7. CASE \E q \in Pairs : Begin(Proc, q)
    <3>1. PICK q \in Pairs : Begin(Proc, q)
      BY <2>7
    <3>2. /\ todo' = [todo EXCEPT ![Proc] = @ \ {q}] /\ UNCHANGED episodes
          /\ pc[Proc] = "ready"
          /\ Runs(q) => /\ pc' = [pc EXCEPT ![Proc] = "decide"]
                        /\ job' = [job EXCEPT ![Proc].pair = q]
      BY <3>1 DEF Begin, Goto
    <3>3. ~Working(p)
      BY <3>2 DEF Working
    <3>4. CASE p \in todo[Proc] /\ p # q
      BY <1>1, <3>2, <3>4
    <3>5. CASE p = q
      <4>1. Runs(p)
        BY <2>2 DEF Runs, Selected, Matched, Known, Pairs
      <4>2. pc'[Proc] = "decide" /\ job'[Proc].pair = p
        BY <1>1, <3>2, <3>5, <4>1 DEF Job
      <4> QED
        BY <4>2 DEF Working
    <3> QED
      BY <2>3, <2>5, <3>2, <3>3, <3>4, <3>5 DEF finding
  <2>8. CASE pc[Proc] = "decide" /\ Decide(Proc, FindingAt(job[Proc].pair, now[Proc]))
    <3>1. /\ pc'[Proc] = "commit" /\ job'[Proc].pair = job[Proc].pair
          /\ UNCHANGED <<todo, episodes>>
      BY <1>1, <2>8 DEF Decide, Goto, db
    <3>2. Working(p) => Working(p)'
      BY <3>1 DEF Working
    <3> QED
      BY <2>3, <2>5, <3>1, <3>2 DEF finding
  <2>9. CASE Send(Proc)
    <3>1. UNCHANGED <<todo, episodes>> /\ ~Working(p)
      BY <2>9 DEF Send, db, Working
    <3> QED
      BY <2>3, <2>5, <3>1 DEF finding
  <2>10. CASE Discard(Proc)
    <3>1. UNCHANGED <<todo, episodes>> /\ job[Proc].prior = None
          /\ job[Proc].row.state = "clear" /\ pc[Proc] = "commit"
      BY <2>10 DEF Discard, db
    <3>2. CASE Working(p)
      <4>1. ActiveOf(p) \subseteq {None} /\ finding # "true"
        BY <2>6, <3>1, <3>2 DEF RowAgrees, Working, finding
      <4>2. ActiveOf(p) = {}
        BY <1>1, <4>1 DEF ActiveOf
      <4>3. Agrees(p, finding)
        BY <4>1, <4>2 DEF Agrees
      <4> QED
        BY <2>4, <2>5, <3>1, <4>3 DEF finding
    <3> QED
      BY <2>3, <2>5, <3>1, <3>2 DEF finding
  <2>11. CASE Commit(Proc)
    <3> DEFINE q == job[Proc].pair
               row == job[Proc].row
               prior == job[Proc].prior
    <3>1. PICK i \in Target(Proc) : episodes' = [episodes EXCEPT ![i] = row]
      BY <2>11 DEF Commit
    <3>2. UNCHANGED todo /\ pc[Proc] = "commit"
      BY <2>11 DEF Commit
    <3>3. /\ i \in EpisodeIds /\ episodes'[i] = row
          /\ \A j \in EpisodeIds \ {i} : episodes'[j] = episodes[j]
          /\ row \in Episode(Pairs) /\ row # None /\ row.state \in States
      <4>1. i \in EpisodeIds
        BY <1>1, TargetType
      <4>2. row \in Episode(Pairs)
        BY <1>1, <3>2 DEF TypeOK
      <4> QED
        BY <3>1, <4>1, <4>2, NoneIsNoData DEF TypeOK, Episode
    <3>4. /\ row.pair = q /\ ActiveOf(q) \subseteq {prior}
          /\ prior # None => prior = i /\ episodes[i] # None /\ episodes[i].pair = q
          /\ prior = None => episodes[i] = None
      <4>1. prior # None => i = prior
        BY DEF Target
      <4>2. prior = None => episodes[i] = None
        BY DEF Target
      <4> QED
        BY <3>2, <4>1, <4>2 DEF RowAgrees
    <3> HIDE DEF q, row, prior
    <3>5. CASE p = q
      <4>1. /\ row.state = "clear" => finding # "true"
            /\ row.state = "pending" => finding = "true"
            /\ row.state = "open" => finding # "false"
        BY <2>6, <3>2, <3>5 DEF RowAgrees, q, row, finding
      <4>2. ActiveOf(p)' = IF row.state = "clear" THEN {} ELSE {i}
        <5>1. \A j \in EpisodeIds \ {i} : j \notin ActiveOf(p)
          BY <1>1, <3>4, <3>5
        <5>2. \A j \in EpisodeIds \ {i} : j \notin ActiveOf(p)'
          BY <3>3, <5>1 DEF ActiveOf, IsActive
        <5>3. i \in ActiveOf(p)' <=> row.state # "clear"
          BY <3>3, <3>4, <3>5 DEF ActiveOf, IsActive, ActiveStates, States
        <5>4. ActiveOf(p)' \subseteq EpisodeIds
          BY DEF ActiveOf
        <5> QED
          BY <5>2, <5>3, <5>4
      <4>3. Agrees(p, finding)'
        BY <2>4, <3>3, <4>1, <4>2 DEF Agrees, States
      <4> QED
        BY <4>3 DEF finding
    <3>6. CASE p # q
      <4>1. ~Working(p)
        BY <3>6 DEF Working, q
      <4>2. i \notin ActiveOf(p) /\ i \notin ActiveOf(p)'
        BY <3>3, <3>4, <3>6 DEF ActiveOf, IsActive
      <4>3. \A j \in EpisodeIds \ {i} : j \in ActiveOf(p)' <=> j \in ActiveOf(p)
        BY <3>3 DEF ActiveOf, IsActive
      <4>4. ActiveOf(p)' \subseteq EpisodeIds /\ ActiveOf(p) \subseteq EpisodeIds
        BY DEF ActiveOf
      <4>5. ActiveOf(p)' = ActiveOf(p) /\ \A j \in ActiveOf(p) : episodes'[j] = episodes[j]
        BY <3>3, <4>2, <4>3, <4>4
      <4>6. Agrees(p, finding) => Agrees(p, finding)'
        BY <2>4, <4>5 DEF Agrees
      <4> QED
        BY <2>3, <3>2, <4>1, <4>6 DEF finding
    <3> QED
      BY <3>5, <3>6
  <2> QED
    BY <1>3, <2>7, <2>8, <2>9, <2>10, <2>11 DEF EvaluateRule
<1> QED
  BY <1>2, <1>3

\* Only the durations and the age of a snapshot depend on the time.
LEMMA SameFact ==
  ASSUME NEW s, NEW t, NEW u, NEW fact \in FactNames(SubjectType[s]) \ TimeDerived
  PROVE  FactsAt(s, t)[fact] = FactsAt(s, u)[fact]
<1>1. CASE SubjectType[s] = "agent"
  <2>1. fact \in {"current_state", "in_adherence_violation"}
    BY <1>1 DEF FactNames, TimeDerived
  <2> QED
    BY <1>1, <2>1 DEF FactsAt, AgentFacts
<1>2. CASE SubjectType[s] # "agent"
  <2>1. fact \in {"tickets_waiting", "longest_wait_sec", "sla_target_sec",
                  "agents_available", "sla_risk_pct"}
    BY <1>2 DEF FactNames, TimeDerived
  <2> QED
    BY <1>2, <2>1 DEF FactsAt, QueueFacts
<1> QED
  BY <1>1, <1>2

\* What a rule that is not time-sensitive finds does not depend on the time.
LEMMA Timeless ==
  ASSUME Registered, TimedOnTheLeft, NEW p \in Pairs, p[1] \notin TimeSensitive,
         SameType(p[1], p[2]), NEW t, NEW u
  PROVE  FindingAt(p, t) = FindingAt(p, u)
<1>1. p[1] \in Rules /\ p[2] \in Subjects
  BY DEF Pairs
<1>2. ASSUME NEW c \in Conditions[p[1]]
      PROVE  /\ c.fact \in FactNames(SubjectType[p[2]]) \ TimeDerived
             /\ c.ref \in Opt(FactNames(SubjectType[p[2]]) \ TimeDerived)
  BY <1>1, <1>2, ReplayAssumption DEF Registered, TimedOnTheLeft, SameType, IsTimeSensitive, Opt
<1>3. \A fact \in FactNames(SubjectType[p[2]]) \ TimeDerived :
        FactsAt(p[2], t)[fact] = FactsAt(p[2], u)[fact]
  BY SameFact
<1>4. ASSUME NEW c \in Conditions[p[1]]
      PROVE  /\ Computable(c, FactsAt(p[2], t)) <=> Computable(c, FactsAt(p[2], u))
             /\ Holds(c, FactsAt(p[2], t)) <=> Holds(c, FactsAt(p[2], u))
  <2>1. FactsAt(p[2], t)[c.fact] = FactsAt(p[2], u)[c.fact]
    BY <1>2, <1>3
  <2>2. Operand(c, FactsAt(p[2], t)) = Operand(c, FactsAt(p[2], u))
    BY <1>2, <1>3 DEF Operand, Opt
  <2> QED
    BY <2>1, <2>2 DEF Computable, Holds
<1> QED
  BY <1>4 DEF FindingAt, Finding

\* With a tick for every second, a trigger serves every pair it can have put
\* out of step: a tick those that an episode or the time concerns, an event
\* those of its subject.
LEMMA TriggerServes ==
  ASSUME NEW p \in Pairs, p[1] \in TimeSensitive \/ (Registered /\ TimedOnTheLeft),
         TickInterval = 1, TypeOK, Projected, evaluating,
         Served(p) \/ (Walk /\ p[1] \in TimeSensitive),
         Walk \/ Invalid \/ Duplicate \/ Late \/ Accept,
         event.ts \in Nat, event.subject \in Subjects, Accept => event.ts >= clock[Proc]
  PROVE  Served(p)'
<1> SUFFICES ASSUME Selected(p)', watermark'[p[2]] # None
             PROVE  (p \in todo[Proc])' \/ Working(p)' \/ Agrees(p, FindingAt(p, clock[Proc]))'
  BY DEF Served
<1>1. /\ Proc \in Workers /\ todo \in [Workers -> SUBSET Pairs]
      /\ clock \in [Workers -> Nat] /\ clock[Proc] \in Nat
      /\ watermark \in [Subjects -> Opt(Time)] /\ queues \in [Subjects -> SUBSET QueueIds]
      /\ p[1] \in Rules /\ p[2] \in Subjects
  BY ReplayAssumption DEF TypeOK, Time, Pairs
<1>2. Idle(Proc) /\ ~Working(p)
  BY DEF Walk, Invalid, Duplicate, Late, Accept, Reached, Near, HasTs, HasLine, Idle, Working
<1>3. CASE Walk
  <2>1. /\ OnTick(Proc) /\ UNCHANGED <<states, rules, watermark, queues, episodes>>
        /\ todo' = [todo EXCEPT ![Proc] = Due]
    BY <1>3 DEF Walk, OnTick, Trigger, ingest, db
  <2>2. Selected(p) /\ watermark[p[2]] # None
    BY <2>1 DEF Selected, Matched, Enabled
  <2>3. todo'[Proc] = Due
    BY <1>1, <2>1
  <2>4. CASE p[1] \in TimeSensitive
    <3>1. Enabled(p[1]) /\ p[2] \in Resolve(p[1])
      BY <1>1, <2>2 DEF Selected, Matched, Resolve, Known
    <3> QED
      BY <2>3, <2>4, <3>1 DEF Due
  <2>5. CASE p[1] \notin TimeSensitive /\ Served(p)
    <3>1. CASE ActiveOf(p) # {}
      BY <2>3, <3>1 DEF Due
    <3>2. CASE ActiveOf(p) = {}
      <4>1. SameType(p[1], p[2])
        BY <2>2 DEF Selected, Matched
      <4>2. FindingAt(p, clock[Proc]) # "true"
        BY <1>2, <2>2, <2>5, <3>2 DEF Served, Agrees, Idle
      <4>3. FindingAt(p, clock'[Proc]) # "true"
        BY <2>5, <4>1, <4>2, Timeless
      <4>4. FindingAt(p, clock[Proc])' # "true"
        BY <2>1, <4>3 DEF FindingAt, FactsAt
      <4>5. ActiveOf(p)' = {}
        BY <2>1, <3>2 DEF ActiveOf, IsActive
      <4> QED
        BY <4>4, <4>5 DEF Agrees
    <3> QED
      BY <3>1, <3>2
  <2> QED
    BY <2>4, <2>5
<1>4. ASSUME Served(p), UNCHANGED clock, UNCHANGED <<rules, episodes>>,
             states'[p[2]] = states[p[2]], watermark'[p[2]] = watermark[p[2]],
             queues'[p[2]] = queues[p[2]]
      PROVE  Agrees(p, FindingAt(p, clock[Proc]))'
  <2>1. Selected(p) /\ watermark[p[2]] # None
    BY <1>4 DEF Selected, Matched, Enabled
  <2>2. Agrees(p, FindingAt(p, clock[Proc]))
    BY <1>2, <1>4, <2>1 DEF Served, Idle
  <2>3. FindingAt(p, clock[Proc])' = FindingAt(p, clock[Proc])
    BY <1>4 DEF FindingAt, FactsAt
  <2> QED
    BY <1>4, <2>2, <2>3 DEF Agrees, ActiveOf, IsActive
<1>5. ASSUME clock' = [clock EXCEPT ![Proc] = Later(event.ts, Proc)],
             event.ts < clock[Proc] + TickInterval
      PROVE  UNCHANGED clock
  <2>1. Later(event.ts, Proc) = clock[Proc]
    BY <1>1, <1>5 DEF Later
  <2> QED
    BY <1>1, <1>5, <2>1
<1>6. CASE Invalid \/ Duplicate \/ Late
  <2>1. /\ OnSkip(Proc, event.ts) /\ UNCHANGED <<states, rules, watermark, queues, episodes>>
        /\ Served(p)
    BY <1>6 DEF Invalid, Duplicate, Late, OnSkip, db, Walk, Reached
  <2> QED
    BY <1>4, <1>5, <2>1 DEF OnSkip
<1>7. CASE Accept
  <2> DEFINE s == event.subject
             members == Memberships(event)
  <2>1. /\ OnEvent(Proc, s, event.ts, members) /\ UNCHANGED <<rules, episodes>>
        /\ states' = [states EXCEPT ![s] = Apply(states[s], event)]
        /\ watermark' = [watermark EXCEPT ![s] = event.ts]
        /\ queues' = [queues EXCEPT ![s] = members]
        /\ todo' = [todo EXCEPT ![Proc] = Matched(s, members)]
    BY <1>7 DEF Accept, OnEvent, Trigger, Put
  <2>2. UNCHANGED clock /\ Served(p)
    BY <1>5, <1>7, <2>1 DEF OnEvent, Walk, Accept, Reached
  <2>3. CASE p[2] # s
    <3>1. /\ watermark'[p[2]] = watermark[p[2]] /\ queues'[p[2]] = queues[p[2]]
      BY <1>1, <2>1, <2>3
    <3>2. states'[p[2]] = states[p[2]]
      BY <1>1, <2>1, <2>3 DEF Projected
    <3> QED
      BY <1>4, <2>1, <2>2, <3>1, <3>2
  <2>4. CASE p[2] = s
    <3>1. queues'[s] = members /\ todo'[Proc] = Matched(s, members)
      BY <1>1, <2>1
    <3>2. p \in Matched(s, members)
      BY <2>1, <2>4, <3>1 DEF Selected, Matched, Enabled
    <3> QED
      BY <3>1, <3>2
  <2> QED
    BY <2>3, <2>4
<1> QED
  BY <1>3, <1>6, <1>7

\* What Served reads, and a run that ends leaves as it is: the clock is at the
\* last line of the file or beyond.
Reads == <<rules, watermark, queues, episodes, todo, pc, job, states, clock>>

LEMMA ServedStays ==
  ASSUME NEW p \in Pairs, Served(p), UNCHANGED Reads
  PROVE  Served(p)'
BY DEF Reads, Served, Selected, Matched, Enabled, Working, Agrees, FindingAt, FactsAt, ActiveOf,
       IsActive

LEMMA FinishKeeps ==
  ASSUME Stamped, TypeOK, Passing, Reading, evaluating, Finished
  PROVE  UNCHANGED Reads /\ ticked' = clock'[Proc]
<1>1. /\ EndRun(Proc, lines[1].ts) /\ UNCHANGED states /\ pos = Len(lines)
  BY DEF Finished, Save, Restart
<1>2. /\ lines[1].ts \in Nat /\ lines[1].ts <= clock[Proc] /\ clock \in [Workers -> Nat]
      /\ Proc \in Workers
  <2>1. Len(lines) \in Nat \ {0} /\ \A k \in 1..Len(lines) : lines[k].ts \in Nat
    BY LineTypes
  <2> QED
    BY <1>1, <2>1, ReplayAssumption DEF Passing, TypeOK, Time
<1>3. UNCHANGED clock
  <2>1. clock' = [clock EXCEPT ![Proc] = Later(lines[1].ts, Proc)]
    BY <1>1 DEF EndRun
  <2>2. Later(lines[1].ts, Proc) = clock[Proc]
    BY <1>2 DEF Later
  <2> QED
    BY <1>2, <2>1, <2>2
<1> QED
  BY <1>1, <1>3 DEF EndRun, Reads

\* Every pair is served, all the time.
AllServed == \A p \in Pairs : Served(p)

LEMMA ServedHolds ==
  ASSUME Evaluated, Stamped, ~MayCrash, InTime, Registered, TimedOnTheLeft,
         TickInterval = 1
  PROVE  RSpec => []AllServed
<1>1. RInit => RowAgrees /\ AllServed
  <2> SUFFICES ASSUME RInit PROVE RowAgrees /\ AllServed
    OBVIOUS
  <2>1. /\ pc = [w \in Workers |-> "ready"] /\ todo = [w \in Workers |-> {}]
        /\ watermark = [s \in Subjects |-> None] /\ Proc \in Workers
    BY ReplayAssumption DEF RInit, Init
  <2>2. pc[Proc] = "ready" /\ todo[Proc] = {} /\ \A s \in Subjects : watermark[s] = None
    BY <2>1
  <2> QED
    BY <2>2 DEF RowAgrees, Idle, AllServed, Served, Pairs
<1>2. /\ TypeOK /\ UniqueActive /\ Projected /\ Remembered /\ Passing /\ RowAgrees /\ AllServed
      /\ [RNext]_allvars
      => RowAgrees' /\ AllServed'
  <2> SUFFICES ASSUME TypeOK, UniqueActive, Projected, Remembered, Passing, RowAgrees, AllServed,
                      [RNext]_allvars
               PROVE  RowAgrees' /\ AllServed'
    OBVIOUS
  <2>1. Reading /\ evaluating
    BY DEF Remembered, Reading, Evaluated
  <2>2. Accept => event.ts >= clock[Proc]
    BY AcceptedAhead
  <2>3. RowAgrees'
    BY <2>1, <2>2, StepRowAgrees
  <2>4. ASSUME NEW p \in Pairs PROVE Served(p)'
    <3>1. Served(p)
      BY DEF AllServed
    <3>2. CASE EvaluateRule \/ Disabling
      BY <3>1, <3>2, StepServed
    <3>3. CASE Finished \/ Abort \/ Killed
      <4>1. Finished
        <5>1. ~Abort
          BY <2>1, NoAbort
        <5> QED
          BY <3>3, <5>1 DEF Killed, Crash
      <4> QED
        BY <2>1, <3>1, <4>1, FinishKeeps, ServedStays
    <3>4. CASE Walk \/ Invalid \/ Duplicate \/ Late \/ Accept
      <4>1. HasLine
        BY <3>4 DEF Walk, Invalid, Duplicate, Late, Accept, Reached, Near, HasTs
      <4>2. event.ts \in Nat /\ event.subject \in Subjects
        BY <2>1, <4>1, LineTypes
      <4> QED
        BY <2>1, <2>2, <3>1, <3>4, <4>2, TriggerServes
    <3>5. CASE UNCHANGED allvars
      BY <3>1, <3>5, ServedStays DEF allvars, vars, ingest, Reads
    <3> QED
      BY <3>2, <3>3, <3>4, <3>5 DEF RNext
  <2> QED
    BY <2>3, <2>4 DEF AllServed
<1>3. RSpec => []Remembered
  BY RemembersHold
<1>4. RSpec => []Passing
  BY PassesHold DEF SameStart, Evaluated
<1> QED
  BY <1>1, <1>2, <1>3, <1>4, ProjectedHolds, ReplayTypes, PTL DEF RSpec

\* Between any two triggers of a replay, with a tick for every second, the
\* episodes are in step with the conditions: a rule whose conditions hold has
\* its episode, one whose conditions are refuted has none.
THEOREM EpisodesInStep ==
  /\ Evaluated /\ Stamped /\ ~MayCrash /\ InTime
  /\ Registered /\ TimedOnTheLeft /\ TickInterval = 1
  => (RSpec => []InStep)
<1> SUFFICES ASSUME Evaluated, Stamped, ~MayCrash, InTime, Registered, TimedOnTheLeft,
                    TickInterval = 1
             PROVE  RSpec => []InStep
  OBVIOUS
<1>1. RSpec => []AllServed
  BY ServedHolds
<1>2. AllServed => InStep
  <2> SUFFICES ASSUME AllServed, Idle(Proc), NEW p \in Pairs, Selected(p), SettledAt(p[2])
               PROVE  InStepAt(p)
    BY DEF InStep
  <2>1. Agrees(p, FindingAt(p, clock[Proc]))
    BY DEF AllServed, Served, SettledAt, Idle, Working
  <2>2. ASSUME NEW i \in ActiveOf(p) PROVE FindingAt(p, clock[Proc]) # "false"
    BY <2>1 DEF Agrees
  <2> QED
    BY <2>1, <2>2 DEF Agrees, InStepAt
<1> QED
  BY <1>1, <1>2, PTL

-----------------------------------------------------------------------------
(* Passes with no_eval, and passes that are killed: what a pass that       *)
(* evaluates has served by the time its clock is off the origin.  A tick   *)
(* serves every pair the scan looks after, whoever has left it behind.     *)

OnTime ==
  /\ ticked > 0 => clock[Proc] = ticked
  /\ (evaluating \/ ticked > 0) /\ clock[Proc] > 0 =>
       \A p \in Pairs : p[1] \in TimeSensitive => Served(p)

LEMMA StepOnTime ==
  ASSUME Stamped, ~MayCrash \/ AfterOrigin, InTime, TickInterval = 1, FileStarts = {0},
         TypeOK, Projected, Remembered, Passing, RowAgrees, OnTime, [RNext]_allvars
  PROVE  OnTime'
<1>1. /\ Reading /\ Proc \in Workers /\ clock \in [Workers -> Nat] /\ clock[Proc] \in Nat
      /\ ticked \in Nat
  BY ReplayAssumption DEF Remembered, TypeOK, Time
<1>2. ticked > 0 => /\ ~Walk /\ ~Accept /\ ~Late /\ ~EvaluateRule /\ Idle(Proc)
  BY NothingTriggers DEF Passing, Remembered
<1>3. Accept => event.ts >= clock[Proc]
  BY AcceptedAhead
<1>4. ASSUME HasLine PROVE event.ts \in Nat /\ event.subject \in Subjects /\ event.ts # None
  BY <1>1, <1>4, LineTypes
<1>5. CASE EvaluateRule \/ Disabling \/ UNCHANGED allvars
  <2>1. UNCHANGED <<ticked, clock, evaluating>>
    BY <1>5 DEF EvaluateRule, Begin, Decide, Discard, Commit, Send, Disabling, DisableRule,
                allvars, vars, ingest, db
  <2>2. ASSUME NEW p \in Pairs, Served(p) PROVE Served(p)'
    <3>1. CASE UNCHANGED allvars
      BY <2>2, <3>1, ServedStays DEF allvars, vars, ingest, Reads
    <3> QED
      BY <1>5, <2>2, <3>1, StepServed
  <2> QED
    BY <2>1, <2>2 DEF OnTime
<1>6. CASE Walk \/ Invalid \/ Duplicate \/ Late \/ Accept
  <2>1. HasLine /\ UNCHANGED <<ticked, evaluating>>
    BY <1>6 DEF Walk, Invalid, Duplicate, Late, Accept, Reached, Near, HasTs, OnTick, SkipTick, OnSkip,
                OnEvent, Project, ReadOn, ingest, db
  <2>2. event.ts \in Nat /\ event.subject \in Subjects
    BY <1>4, <2>1
  <2>3. ~Walk => UNCHANGED clock
    <3>1. ~Walk => clock' = [clock EXCEPT ![Proc] = Later(event.ts, Proc)] /\ Reached
      BY <1>6 DEF Invalid, Duplicate, Late, Accept, OnSkip, OnEvent, Project
    <3>2. Reached => Later(event.ts, Proc) = clock[Proc]
      BY <1>1, <2>2 DEF Reached, Near, Later
    <3> QED
      BY <1>1, <3>1, <3>2
  <2>4. (ticked > 0 => clock[Proc] = ticked)'
    BY <1>2, <2>1, <2>3 DEF OnTime
  <2>5. ASSUME evaluating \/ ticked > 0, clock'[Proc] > 0, NEW p \in Pairs,
               p[1] \in TimeSensitive
        PROVE  Served(p)'
    <3>1. Served(p) \/ Walk
      BY <2>3, <2>5 DEF OnTime
    <3>2. CASE evaluating
      BY <1>3, <1>6, <2>2, <2>5, <3>1, <3>2, TriggerServes
    <3>3. CASE ticked > 0
      <4>1. (Invalid \/ Duplicate) /\ ~Walk
        BY <1>2, <1>6, <3>3
      <4>2. UNCHANGED Reads
        BY <2>3, <4>1 DEF Invalid, Duplicate, OnSkip, db, Reads
      <4> QED
        BY <3>1, <4>1, <4>2, ServedStays
    <3> QED
      BY <2>5, <3>2, <3>3
  <2> QED
    BY <2>1, <2>4, <2>5 DEF OnTime
<1>7. CASE Finished \/ Abort \/ Killed
  <2>1. ~Abort
    BY <1>1, NoAbort DEF Remembered
  <2>2. CASE Finished /\ evaluating
    <3>1. UNCHANGED Reads /\ ticked' = clock'[Proc]
      BY <1>1, <2>2, FinishKeeps
    <3>2. clock'[Proc] = clock[Proc]
      BY <3>1 DEF Reads
    <3> QED
      BY <2>2, <3>1, <3>2, ServedStays DEF OnTime
  <2>3. CASE Killed \/ (Finished /\ ~evaluating)
    <3>1. /\ clock' = [clock EXCEPT ![Proc] = IF 0 >= ticked THEN 0 ELSE ticked]
          /\ todo' = [todo EXCEPT ![Proc] = {}] /\ pc' = [pc EXCEPT ![Proc] = "ready"]
          /\ UNCHANGED <<ticked, rules, watermark, queues, episodes, states>>
      BY <2>3 DEF Killed, Crash, Finished, Save, Die, db, Goto, Restart
    <3>2. CASE ticked = 0
      <4>1. clock'[Proc] = 0 /\ ticked' = 0
        BY <1>1, <3>1, <3>2
      <4> QED
        BY <4>1 DEF OnTime
    <3>3. CASE ticked > 0
      <4>1. clock'[Proc] = clock[Proc] /\ clock[Proc] = ticked /\ clock'[Proc] > 0
        BY <1>1, <3>1, <3>3 DEF OnTime
      <4>2. ASSUME NEW p \in Pairs, p[1] \in TimeSensitive PROVE Served(p)'
        <5> SUFFICES ASSUME Selected(p)', watermark'[p[2]] # None
                     PROVE  Agrees(p, FindingAt(p, clock[Proc]))'
          BY DEF Served
        <5>1. Served(p) /\ Selected(p) /\ watermark[p[2]] # None
          BY <3>1, <3>3, <4>1, <4>2 DEF OnTime, Selected, Matched, Enabled
        <5>2. Agrees(p, FindingAt(p, clock[Proc]))
          BY <1>2, <3>3, <5>1 DEF Served, Idle, Working
        <5>3. FindingAt(p, clock[Proc])' = FindingAt(p, clock[Proc])
          BY <3>1, <4>1 DEF FindingAt, FactsAt
        <5> QED
          BY <3>1, <5>2, <5>3 DEF Agrees, ActiveOf, IsActive
      <4> QED
        BY <3>1, <4>1, <4>2 DEF OnTime
    <3> QED
      BY <1>1, <3>2, <3>3
  <2> QED
    BY <1>7, <2>1, <2>2, <2>3
<1> QED
  BY <1>5, <1>6, <1>7 DEF RNext

\* A pass with no_eval, or one that was killed, takes nothing away from the
\* passes after it: where one that evaluates has read its file to the end,
\* every time-sensitive rule is in step with its conditions.
THEOREM LaterPassesCatchUp ==
  /\ Stamped /\ InTime /\ TickInterval = 1 /\ FileStarts = {0}
  /\ ~MayCrash \/ AfterOrigin
  => (RSpec => []CaughtUp)
<1> SUFFICES ASSUME Stamped, InTime, TickInterval = 1, FileStarts = {0}, ~MayCrash \/ AfterOrigin
             PROVE  RSpec => []CaughtUp
  OBVIOUS
<1>1. RInit => RowAgrees /\ OnTime
  <2> SUFFICES ASSUME RInit PROVE RowAgrees /\ OnTime
    OBVIOUS
  <2>1. /\ pc = [w \in Workers |-> "ready"] /\ todo = [w \in Workers |-> {}] /\ ticked = 0
        /\ clock = [w \in Workers |-> 0] /\ Proc \in Workers
    BY ReplayAssumption DEF RInit, Init
  <2>2. pc[Proc] = "ready" /\ todo[Proc] = {} /\ clock[Proc] = 0
    BY <2>1
  <2> QED
    BY <2>1, <2>2 DEF RowAgrees, Idle, OnTime
<1>2. /\ TypeOK /\ UniqueActive /\ Projected /\ Remembered /\ Passing /\ RowAgrees /\ OnTime
      /\ [RNext]_allvars
      => RowAgrees' /\ OnTime'
  <2> SUFFICES ASSUME TypeOK, UniqueActive, Projected, Remembered, Passing, RowAgrees, OnTime,
                      [RNext]_allvars
               PROVE  RowAgrees' /\ OnTime'
    OBVIOUS
  <2>1. Reading
    BY DEF Remembered
  <2>2. Accept => event.ts >= clock[Proc]
    BY AcceptedAhead
  <2> QED
    BY <2>1, <2>2, StepRowAgrees, StepOnTime
<1>3. OnTime => CaughtUp
  <2> SUFFICES ASSUME OnTime, Idle(Proc), evaluating, NEW p \in Pairs, p[1] \in TimeSensitive,
                      Selected(p), SettledAt(p[2])
               PROVE  InStepAt(p)
    BY DEF CaughtUp
  <2>1. Served(p)
    BY DEF OnTime, SettledAt
  <2>2. Agrees(p, FindingAt(p, clock[Proc]))
    BY <2>1 DEF Served, SettledAt, Idle, Working
  <2>3. ASSUME NEW i \in ActiveOf(p) PROVE FindingAt(p, clock[Proc]) # "false"
    BY <2>2 DEF Agrees
  <2> QED
    BY <2>2, <2>3 DEF Agrees, InStepAt
<1>4. RSpec => []Remembered
  BY RemembersHold
<1>5. RSpec => []Passing
  BY PassesHold DEF SameStart
<1> QED
  BY <1>1, <1>2, <1>3, <1>4, <1>5, ProjectedHolds, ReplayTypes, PTL DEF RSpec

-----------------------------------------------------------------------------
(* What the passing of time alone can do to a pair, for rules that compare *)
(* a duration with a number it grows past.                                 *)

AgentRow == [current_state : Opt(AgentStateValue), state_entered_at : Opt(Int),
             violation_active : BOOLEAN, violation_started_at : Opt(Int),
             violation_start_source : {"event", "unknown"}]

RowsTyped ==
  \A s \in Subjects :
    SubjectType[s] = "agent" =>
      IF watermark[s] = None THEN states[s] = None ELSE states[s] \in AgentRow

LEMMA ApplyType ==
  ASSUME NEW prev, prev = None \/ prev \in AgentRow, NEW e,
         e.type \in {"agent_state_change", "adherence_check"}, e.ts \in Nat,
         e.type = "adherence_check" => /\ e.in_violation \in BOOLEAN
                                       /\ e.violation_started_at \in Opt(Int)
  PROVE  Apply(prev, e) \in AgentRow
<1>1. Base(prev) \in AgentRow
  BY DEF Base, NewAgent, AgentRow, Opt
<1>2. CASE e.type = "agent_state_change"
  <2>1. Apply(prev, e) = ApplyStateChange(prev, e)
    BY <1>2 DEF Apply
  <2>2. Normalize(e.new_state) \in AgentStateValue
    BY DEF Normalize, AgentStateValue
  <2> DEFINE row == Base(prev)
             name == Normalize(e.new_state)
  <2>3. Apply(prev, e) = [row EXCEPT !.current_state = name, !.state_entered_at = e.ts]
    BY <2>1 DEF ApplyStateChange
  <2>4. row \in AgentRow /\ name \in Opt(AgentStateValue) /\ e.ts \in Opt(Int)
    BY <1>1, <2>2 DEF Opt
  <2> HIDE DEF row, name
  <2> QED
    BY <2>3, <2>4 DEF AgentRow
<1>3. CASE e.type = "adherence_check"
  <2>1. Apply(prev, e) = ApplyAdherence(prev, e)
    BY <1>3 DEF Apply
  <2> DEFINE start == IF e.in_violation THEN e.violation_started_at ELSE None
             source == IF start = None THEN "unknown" ELSE "event"
  <2>2. start \in Opt(Int) /\ source \in {"event", "unknown"}
    BY <1>3 DEF Opt
  <2>3. Apply(prev, e) = [Base(prev) EXCEPT !.violation_active = e.in_violation,
                                            !.violation_started_at = start,
                                            !.violation_start_source = source]
    BY <2>1 DEF ApplyAdherence
  <2> HIDE DEF start, source
  <2> QED
    BY <1>1, <1>3, <2>2, <2>3 DEF AgentRow
<1> QED
  BY <1>2, <1>3

LEMMA StepRowsTyped ==
  ASSUME Stamped, Parsed, Reading, Projected, RowsTyped, [RNext]_allvars
  PROVE  RowsTyped'
<1>1. CASE UNCHANGED <<states, watermark>>
  BY <1>1 DEF RowsTyped
<1>2. CASE Accept
  <2> DEFINE s == event.subject
  <2>1. /\ HasLine /\ event.valid
        /\ states' = [states EXCEPT ![s] = Apply(states[s], event)]
        /\ watermark' = [watermark EXCEPT ![s] = event.ts]
    BY <1>2 DEF Accept, OnEvent, Project, Put, Reached, Near, HasTs, Parses
  <2>2. /\ lines \in Files /\ pos + 1 \in DOMAIN lines /\ event = lines[pos + 1]
        /\ event.ts \in Nat /\ event.ts # None /\ s \in Subjects
    BY <2>1, LineTypes
  <2>3. SubjectType[s] = "queue" <=> event.type = "queue_snapshot"
    BY <2>2, FilesAssumption
  <2>4. /\ states'[s] = Apply(states[s], event) /\ watermark'[s] = event.ts
        /\ \A x \in Subjects \ {s} : states'[x] = states[x] /\ watermark'[x] = watermark[x]
    BY <2>1, <2>2 DEF Projected
  <2>5. ASSUME SubjectType[s] = "agent" PROVE states'[s] \in AgentRow
    <3>1. event.type \in {"agent_state_change", "adherence_check"}
      BY <2>1, <2>2, <2>3, <2>5 DEF Parsed
    <3>2. event.type = "adherence_check" => /\ event.in_violation \in BOOLEAN
                                            /\ event.violation_started_at \in Opt(Int)
      BY <2>1, <2>2 DEF Parsed
    <3>3. states[s] = None \/ states[s] \in AgentRow
      BY <2>2, <2>5 DEF RowsTyped
    <3> QED
      BY <2>2, <2>4, <3>1, <3>2, <3>3, ApplyType
  <2> QED
    BY <2>2, <2>4, <2>5 DEF RowsTyped
<1> QED
  BY <1>1, <1>2 DEF RNext, Walk, OnTick, SkipTick, Invalid, Duplicate, Late, OnSkip, EvaluateRule,
                    Begin, Decide, Discard, Commit, Send, Finished, Save, EndRun, Abort, Killed,
                    Crash, Die, Restart, Disabling, DisableRule, allvars, vars, ingest, db

\* A duration is unknown, or it is counted from the field of the state row that
\* the due time is reckoned from; without that field it is unknown.
LEMMA DurationOf ==
  ASSUME TypeOK, RowsTyped, NEW s \in Subjects, watermark[s] # None,
         NEW fact \in FactNames(SubjectType[s]) \cap TimeDerived
  PROVE  LET start == StartOf(fact, states[s], watermark[s])
         IN  /\ start \in Opt(Int)
             /\ \/ \A t \in Int : FactsAt(s, t)[fact] = Missing
                \/ start # None /\ \A t \in Int : FactsAt(s, t)[fact] = t - start
<1> DEFINE start == StartOf(fact, states[s], watermark[s])
<1>1. watermark[s] \in Nat
  BY DEF TypeOK, Opt, Time
<1>2. CASE SubjectType[s] = "agent"
  <2>1. states[s] \in AgentRow
    BY <1>2 DEF RowsTyped
  <2>2. CASE fact = "current_state_duration_sec"
    <3>1. start = states[s].state_entered_at
      BY <2>2 DEF StartOf
    <3>2. \A t : FactsAt(s, t)[fact] = IF start = None THEN Missing ELSE t - start
      BY <1>2, <2>2, <3>1 DEF FactsAt, AgentFacts, Since
    <3> QED
      BY <2>1, <3>1, <3>2 DEF AgentRow
  <2>3. CASE fact = "adherence_violation_duration_sec"
    <3>1. start = states[s].violation_started_at
      BY <2>3 DEF StartOf
    <3>2. \A t : FactsAt(s, t)[fact] =
                   IF states[s].violation_start_source = "unknown" \/ start = None
                   THEN Missing ELSE t - start
      BY <1>2, <2>3, <3>1 DEF FactsAt, AgentFacts, Since
    <3> QED
      BY <2>1, <3>1, <3>2 DEF AgentRow
  <2> QED
    BY <1>2, <2>2, <2>3 DEF FactNames, TimeDerived
<1>3. CASE SubjectType[s] # "agent"
  <2>1. fact = "snapshot_age_sec"
    BY <1>3 DEF FactNames, TimeDerived
  <2>2. start = watermark[s]
    BY <2>1 DEF StartOf
  <2>3. \A t : FactsAt(s, t)[fact] = t - start
    BY <1>3, <2>1, <2>2 DEF FactsAt, QueueFacts
  <2> QED
    BY <1>1, <2>2, <2>3, NoneAssumption DEF Opt
<1> QED
  BY <1>2, <1>3

LEMMA OrderOf ==
  ASSUME NEW x \in Int, NEW y \in Int, NEW op \in {"gt", "gte"}
  PROVE  /\ Compare(op, x, y) => x >= y
         /\ x > y => Compare(op, x, y)
         /\ \A z \in Int : z >= x /\ Compare(op, x, y) => Compare(op, z, y)
<1>1. CASE op = "gt"
  <2>1. \A z : Compare(op, z, y) <=> z > y
    BY <1>1 DEF Compare
  <2> QED
    BY <2>1
<1>2. CASE op = "gte"
  <2>1. \A z : Compare(op, z, y) <=> z >= y
    BY <1>2 DEF Compare
  <2> QED
    BY <2>1
<1> QED
  BY <1>1, <1>2

\* What is computable stays so, and a condition that holds goes on to hold.
LEMMA ConditionGrows ==
  ASSUME Registered, Thresholds, TypeOK, RowsTyped, NEW p \in Pairs, SameType(p[1], p[2]),
         watermark[p[2]] # None, NEW t \in Int, NEW u \in Int, t <= u,
         NEW c \in Conditions[p[1]]
  PROVE  /\ Computable(c, FactsAt(p[2], t)) <=> Computable(c, FactsAt(p[2], u))
         /\ Holds(c, FactsAt(p[2], t)) => Holds(c, FactsAt(p[2], u))
<1> DEFINE s == p[2]
<1>1. p[1] \in Rules /\ s \in Subjects /\ SubjectType[p[1]] = SubjectType[s]
  BY DEF Pairs, SameType
<1>2. /\ c.fact \in FactNames(SubjectType[s])
      /\ c.ref \in Opt(FactNames(SubjectType[s]) \ TimeDerived)
  BY <1>1 DEF Registered, Thresholds, Opt
<1>3. Operand(c, FactsAt(s, t)) = Operand(c, FactsAt(s, u))
  BY <1>2, SameFact DEF Operand, Opt
<1>4. CASE c.fact \notin TimeDerived
  <2>1. FactsAt(s, t)[c.fact] = FactsAt(s, u)[c.fact]
    BY <1>2, <1>4, SameFact
  <2> QED
    BY <1>3, <2>1 DEF Computable, Holds
<1>5. CASE c.fact \in TimeDerived
  <2> DEFINE start == StartOf(c.fact, states[s], watermark[s])
  <2>1. c.ref = None /\ c.op \in {"gt", "gte"} /\ c.value \in Int
    BY <1>1, <1>5 DEF Thresholds
  <2>2. Operand(c, FactsAt(s, t)) = c.value /\ Operand(c, FactsAt(s, u)) = c.value
    BY <2>1 DEF Operand
  <2>3. /\ start \in Opt(Int)
        /\ \/ \A x \in Int : FactsAt(s, x)[c.fact] = Missing
           \/ start # None /\ \A x \in Int : FactsAt(s, x)[c.fact] = x - start
    BY <1>1, <1>2, <1>5, DurationOf
  <2>4. CASE \A x \in Int : FactsAt(s, x)[c.fact] = Missing
    BY <2>4 DEF Computable, Holds
  <2>5. CASE start # None /\ \A x \in Int : FactsAt(s, x)[c.fact] = x - start
    <3>1. start \in Int /\ FactsAt(s, t)[c.fact] = t - start /\ FactsAt(s, u)[c.fact] = u - start
      BY <2>3, <2>5 DEF Opt
    <3> HIDE DEF start
    <3>2. t - start # Missing /\ u - start # Missing
      BY <3>1, MissingAssumption
    <3>3. Compare(c.op, t - start, c.value) => Compare(c.op, u - start, c.value)
      BY <2>1, <3>1, OrderOf
    <3> QED
      BY <2>2, <3>1, <3>2, <3>3 DEF Computable, Holds
  <2> QED
    BY <2>3, <2>4, <2>5
<1> QED
  BY <1>4, <1>5

LEMMA FindingGrows ==
  ASSUME Registered, Thresholds, TypeOK, RowsTyped, NEW p \in Pairs, SameType(p[1], p[2]),
         watermark[p[2]] # None, NEW t \in Int, NEW u \in Int, t <= u
  PROVE  /\ FindingAt(p, t) = "true" => FindingAt(p, u) = "true"
         /\ FindingAt(p, t) # "false" => FindingAt(p, u) # "false"
<1>1. ASSUME NEW c \in Conditions[p[1]]
      PROVE  /\ Computable(c, FactsAt(p[2], t)) <=> Computable(c, FactsAt(p[2], u))
             /\ Holds(c, FactsAt(p[2], t)) => Holds(c, FactsAt(p[2], u))
  BY ConditionGrows
<1> QED
  BY <1>1 DEF FindingAt, Finding

\* Without an episode the conditions do not come true before the crossing, or
\* ever, when there is none to wait for.
LEMMA NotBeforeCrossing ==
  ASSUME Registered, Thresholds, TypeOK, RowsTyped, NEW p \in Pairs, SameType(p[1], p[2]),
         watermark[p[2]] # None, NEW t \in Int, NEW u \in Int, FindingAt(p, t) # "true",
         NEW due, due = CrossingAt(Conditions[p[1]], SubjectType[p[2]], states[p[2]],
                                   watermark[p[2]]),
         due = None \/ u < due
  PROVE  FindingAt(p, u) # "true"
<1> DEFINE s == p[2]
           conditions == Conditions[p[1]]
           facts == DurationFacts(SubjectType[s])
           literals(fact) == {c \in conditions : c.fact = fact /\ c.ref = None /\ c.op # "in_"}
           start(i) == StartOf(facts[i], states[s], watermark[s])
           usable == {i \in DOMAIN facts : Threshold(conditions, facts[i]) # None /\ start(i) # None}
           first == CHOOSE i \in usable : \A j \in usable : i <= j
<1>1. p[1] \in Rules /\ s \in Subjects /\ SubjectType[p[1]] = SubjectType[s]
  BY DEF Pairs, SameType
<1>2. /\ DOMAIN facts \subseteq {1, 2}
      /\ \A i \in DOMAIN facts : facts[i] \in FactNames(SubjectType[s]) \cap TimeDerived
      /\ \A fact \in FactNames(SubjectType[s]) \cap TimeDerived :
           \E i \in DOMAIN facts : facts[i] = fact
  <2>1. CASE SubjectType[s] = "agent"
    <3>1. facts = <<"current_state_duration_sec", "adherence_violation_duration_sec">>
      BY <2>1 DEF DurationFacts
    <3>2. FactNames(SubjectType[s]) \cap TimeDerived
            = {"current_state_duration_sec", "adherence_violation_duration_sec"}
      BY <2>1 DEF FactNames, TimeDerived
    <3> HIDE DEF facts
    <3>3. DOMAIN facts = {1, 2} /\ facts[1] = "current_state_duration_sec"
          /\ facts[2] = "adherence_violation_duration_sec"
      BY <3>1
    <3> QED
      BY <3>2, <3>3
  <2>2. CASE SubjectType[s] # "agent"
    <3>1. facts = <<"snapshot_age_sec">>
      BY <2>2 DEF DurationFacts
    <3>2. FactNames(SubjectType[s]) \cap TimeDerived = {"snapshot_age_sec"}
      BY <2>2 DEF FactNames, TimeDerived
    <3> HIDE DEF facts
    <3>3. DOMAIN facts = {1} /\ facts[1] = "snapshot_age_sec"
      BY <3>1
    <3> QED
      BY <3>2, <3>3
  <2> QED
    BY <2>1, <2>2
<1>3. \A c \in conditions : c.fact \in TimeDerived =>
        c \in literals(c.fact) /\ c.op \in {"gt", "gte"} /\ c.value \in Int /\ c.ref = None
  BY <1>1 DEF Thresholds
<1>4. due = IF usable = {} THEN None ELSE start(first) + Threshold(conditions, facts[first])
  BY DEF CrossingAt
<1>5. \A fact : IF literals(fact) = {} THEN Threshold(conditions, fact) = None
                ELSE \E c \in literals(fact) : Threshold(conditions, fact) = c.value
  BY DEF Threshold
<1>6. ASSUME NEW c \in conditions, ~Holds(c, FactsAt(s, u))
      PROVE  FindingAt(p, u) # "true"
  BY <1>6 DEF FindingAt, Finding
<1>7. ASSUME NEW i \in DOMAIN facts
      PROVE  /\ start(i) \in Opt(Int)
             /\ \/ FactsAt(s, u)[facts[i]] = Missing
                \/ start(i) # None /\ FactsAt(s, u)[facts[i]] = u - start(i)
  <2>1. facts[i] \in FactNames(SubjectType[s]) \cap TimeDerived
    BY <1>2
  <2> DEFINE fact == facts[i]
  <2> HIDE DEF fact, s
  <2>2. /\ StartOf(fact, states[s], watermark[s]) \in Opt(Int)
        /\ \/ \A x \in Int : FactsAt(s, x)[fact] = Missing
           \/ /\ StartOf(fact, states[s], watermark[s]) # None
              /\ \A x \in Int : FactsAt(s, x)[fact]
                                  = x - StartOf(fact, states[s], watermark[s])
    BY <1>1, <2>1, DurationOf DEF fact, s
  <2>3. \/ FactsAt(s, u)[fact] = Missing
        \/ /\ StartOf(fact, states[s], watermark[s]) # None
           /\ FactsAt(s, u)[fact] = u - StartOf(fact, states[s], watermark[s])
    BY <2>2
  <2> QED
    BY <2>2, <2>3 DEF fact, s
<1>8. CASE usable # {}
  <2>1. PICK i \in usable : due = start(i) + Threshold(conditions, facts[i])
    <3>1. \E i \in usable : \A j \in usable : i <= j
      <4>1. usable \subseteq {1, 2}
        BY <1>2
      <4> HIDE DEF usable
      <4>2. CASE 1 \in usable
        <5>1. \A j \in usable : 1 <= j
          BY <4>1
        <5> QED
          BY <4>2, <5>1
      <4>3. CASE 1 \notin usable
        <5>1. 2 \in usable /\ \A j \in usable : j = 2
          BY <1>8, <4>1, <4>3
        <5> QED
          BY <5>1
      <4> QED
        BY <4>2, <4>3
    <3>2. first \in usable
      BY <3>1
    <3> QED
      BY <1>4, <1>8, <3>2
  <2>2. i \in DOMAIN facts /\ start(i) # None /\ Threshold(conditions, facts[i]) # None
    BY <2>1
  <2>3. PICK c \in literals(facts[i]) : Threshold(conditions, facts[i]) = c.value
    BY <1>5, <2>2
  <2>4. /\ c \in conditions /\ c.fact = facts[i] /\ c.op \in {"gt", "gte"} /\ c.value \in Int
        /\ c.ref = None
    BY <1>2, <1>3, <2>2, <2>3
  <2> HIDE DEF start
  <2>5. start(i) \in Int /\ due = start(i) + c.value
    BY <1>7, <2>1, <2>2, <2>3 DEF Opt
  <2>6. u - start(i) < c.value
    BY <2>4, <2>5, NoneAssumption
  <2>7. Operand(c, FactsAt(s, u)) = c.value
    BY <2>4 DEF Operand
  <2>8. ~Holds(c, FactsAt(s, u))
    <3>1. CASE FactsAt(s, u)[facts[i]] = Missing
      BY <2>4, <3>1 DEF Holds, Computable
    <3>2. CASE FactsAt(s, u)[facts[i]] = u - start(i)
      <4>1. u - start(i) \in Int
        BY <2>5
      <4>2. ~Compare(c.op, u - start(i), c.value)
        BY <2>4, <2>6, <4>1, OrderOf
      <4> QED
        BY <2>4, <2>7, <3>2, <4>2 DEF Holds
    <3> QED
      BY <1>7, <2>2, <3>1, <3>2
  <2> QED
    BY <1>6, <2>4, <2>8
<1>9. CASE usable = {}
  <2>1. CASE \E c \in conditions : c.fact \in TimeDerived
    <3>1. PICK c \in conditions : c.fact \in TimeDerived
      BY <2>1
    <3>2. c.fact \in FactNames(SubjectType[s]) /\ c \in literals(c.fact)
      BY <1>1, <1>3, <3>1 DEF Registered
    <3>3. PICK i \in DOMAIN facts : facts[i] = c.fact
      BY <1>2, <3>1, <3>2
    <3>4. Threshold(conditions, facts[i]) # None
      <4>1. PICK d \in literals(c.fact) : Threshold(conditions, c.fact) = d.value
        BY <1>5, <3>2
      <4>2. d.value \in Int
        BY <1>3, <3>1, <4>1
      <4> QED
        BY <3>3, <4>1, <4>2, NoneAssumption
    <3>5. start(i) = None
      BY <1>9, <3>3, <3>4
    <3>6. FactsAt(s, u)[c.fact] = Missing
      BY <1>7, <3>3, <3>5
    <3>7. ~Holds(c, FactsAt(s, u))
      BY <3>6 DEF Holds, Computable
    <3> QED
      BY <1>6, <3>7
  <2>2. CASE ~\E c \in conditions : c.fact \in TimeDerived
    <3>1. p[1] \notin TimeSensitive /\ TimedOnTheLeft
      BY <1>1, <2>2, ReplayAssumption DEF IsTimeSensitive, Thresholds, TimedOnTheLeft
    <3> QED
      BY <3>1, Timeless
  <2> QED
    BY <2>1, <2>2
<1> QED
  BY <1>8, <1>9

\* Of a pair that is in step nothing changes before its due time but counters:
\* evaluated at any earlier time, it would neither change the state of its
\* episode nor notify.
THEOREM DueTimesAreRight ==
  /\ Evaluated /\ Stamped /\ ~MayCrash /\ InTime /\ Parsed
  /\ Registered /\ Thresholds /\ TickInterval = 1
  => (RSpec => []NothingBeforeDue)
<1> SUFFICES ASSUME Evaluated, Stamped, ~MayCrash, InTime, Parsed, Registered, Thresholds,
                    TickInterval = 1
             PROVE  RSpec => []NothingBeforeDue
  OBVIOUS
<1>1. RSpec => []AllServed
  <2>1. TimedOnTheLeft
    BY DEF Thresholds, TimedOnTheLeft
  <2> QED
    BY <2>1, ServedHolds
<1>2. RSpec => []RowsLoad
  BY ReplayIsEngine, ActiveRowsLoad, PTL
<1>3. RSpec => []RowsTyped
  <2>1. RInit => RowsTyped
    BY DEF RInit, Init, RowsTyped
  <2> QED
    BY <2>1, StepRowsTyped, ProjectedHolds, InitReading, StepReading, PTL DEF RSpec
<1>4. TypeOK /\ AllServed /\ RowsLoad /\ RowsTyped => NothingBeforeDue
  <2> SUFFICES ASSUME TypeOK, AllServed, RowsLoad, RowsTyped, Idle(Proc), NEW p \in Pairs,
                      Selected(p), SettledAt(p[2])
               PROVE  \E i \in GetActive(p) :
                        LET e == Row(i) IN
                        \A t \in clock[Proc]..(MaxTime + 1) :
                          DueOf(p, e) = None \/ t < DueOf(p, e) =>
                            LET then == Advance(e, p, FindingAt(p, t), t, RuleOf(p))
                            IN  /\ then.emit = None
                                /\ then.row.state = IF e = None THEN "clear" ELSE e.state
    BY DEF NothingBeforeDue
  <2> DEFINE n == clock[Proc]
  <2>1. /\ Agrees(p, FindingAt(p, n)) /\ SameType(p[1], p[2]) /\ watermark[p[2]] # None
    BY DEF AllServed, Served, SettledAt, Idle, Working, Selected, Matched
  <2>2. /\ n \in Nat /\ MaxTime \in Nat /\ RuleOf(p) \in RuleFields
    BY ReplayAssumption, BoundsAssumption, RuleOfType DEF TypeOK, Time
  <2>3. \A t \in n..(MaxTime + 1) :
          /\ t \in Nat /\ n <= t /\ FindingAt(p, t) \in Findings
          /\ FindingAt(p, n) = "true" => FindingAt(p, t) = "true"
          /\ FindingAt(p, n) # "false" => FindingAt(p, t) # "false"
    <3> SUFFICES ASSUME NEW t \in n..(MaxTime + 1)
                 PROVE  /\ t \in Nat /\ n <= t /\ FindingAt(p, t) \in Findings
                        /\ FindingAt(p, n) = "true" => FindingAt(p, t) = "true"
                        /\ FindingAt(p, n) # "false" => FindingAt(p, t) # "false"
      OBVIOUS
    <3>1. t \in Nat /\ n <= t /\ t \in Int /\ n \in Int
      BY <2>2
    <3>2. FindingAt(p, t) \in Findings
      BY DEF FindingAt, Finding, Findings
    <3> HIDE DEF n
    <3> QED
      BY <2>1, <3>1, <3>2, FindingGrows
  <2>4. CASE ActiveOf(p) = {}
    <3>1. None \in GetActive(p) /\ Row(None) = None
      BY <2>4 DEF GetActive, Row
    <3>2. FindingAt(p, n) # "true"
      BY <2>1, <2>4 DEF Agrees
    <3>3. ASSUME NEW t \in n..(MaxTime + 1), DueOf(p, None) = None \/ t < DueOf(p, None)
          PROVE  LET then == Advance(None, p, FindingAt(p, t), t, RuleOf(p))
                 IN  then.emit = None /\ then.row.state = "clear"
      <4>1. DueOf(p, None) =
              CrossingAt(Conditions[p[1]], SubjectType[p[2]], states[p[2]], watermark[p[2]])
        BY DEF DueOf, NextDueAt
      <4>2. n \in Int /\ t \in Int
        BY <2>2
      <4> HIDE DEF n
      <4>3. FindingAt(p, t) # "true"
        BY <2>1, <3>2, <3>3, <4>1, <4>2, NotBeforeCrossing
      <4> QED
        BY <4>3 DEF Advance, FromClear, Outcome, Blank
    <3> QED
      BY <3>1, <3>3
  <2>5. CASE ActiveOf(p) # {}
    <3>1. PICK i \in ActiveOf(p) : TRUE
      BY <2>5
    <3> DEFINE e == episodes[i]
    <3>2. /\ i \in GetActive(p) /\ Row(i) = e /\ e # None /\ e \in Episode(Pairs)
          /\ e.state \in ActiveStates /\ Consistent(e)
      BY <2>5, <3>1, NoneIsNoData DEF GetActive, Row, ActiveOf, IsActive, RowsLoad, TypeOK, Opt
    <3>3. ASSUME NEW t \in n..(MaxTime + 1), DueOf(p, e) = None \/ t < DueOf(p, e)
          PROVE  LET then == Advance(e, p, FindingAt(p, t), t, RuleOf(p))
                 IN  then.emit = None /\ then.row.state = e.state
      <4> DEFINE rule == RuleOf(p)
      <4>1. t \in Nat /\ FindingAt(p, t) \in Findings
        BY <2>3
      <4>2. CASE e.state = "pending"
        <5>1. FindingAt(p, t) = "true"
          BY <2>1, <2>3, <3>1, <4>2 DEF Agrees
        <5>2. DueOf(p, e) = e.first_true_at + rule.for_duration
          BY <3>2, <4>2 DEF DueOf, NextDueAt
        <5>3. e.first_true_at \in Nat /\ rule.for_duration \in Nat
          BY <2>2, <3>2, <4>2 DEF Consistent, Episode, Opt, Time, RuleFields
        <5> HIDE DEF rule, n
        <5>4. ~Held(e, t, rule)
          BY <3>3, <4>1, <5>2, <5>3, NoneAssumption DEF Held
        <5>5. Advance(e, p, FindingAt(p, t), t, rule) = Outcome(Counted(e), None)
          BY <3>2, <4>2, <5>1, <5>4 DEF Advance, FromPending
        <5> QED
          BY <3>2, <5>5 DEF Outcome, Counted, Episode, rule
      <4>3. CASE e.state = "open"
        <5>1. FindingAt(p, t) \in {"true", "unknown"}
          BY <2>1, <2>3, <3>1, <4>1, <4>3 DEF Agrees, Findings
        <5>2. DueOf(p, e) = IF rule.cooldown > 0 THEN e.last_notified_at + rule.cooldown ELSE None
          BY <3>2, <4>3 DEF DueOf, NextDueAt
        <5>3. e.last_notified_at \in Nat /\ rule.cooldown \in Nat
          BY <2>2, <3>2, <4>3 DEF Consistent, Episode, Opt, Time, RuleFields
        <5> HIDE DEF rule, n
        <5>4. ~ReminderDue(e, t, rule)
          BY <3>3, <4>1, <5>2, <5>3, NoneAssumption DEF ReminderDue
        <5>5. CASE FindingAt(p, t) = "unknown"
          <6>1. Advance(e, p, FindingAt(p, t), t, rule) = Outcome(Frozen(e, t), None)
            BY <3>2, <4>3, <5>5 DEF Advance, FromOpen
          <6> QED
            BY <3>2, <6>1 DEF Outcome, Frozen, Episode, rule
        <5>6. CASE FindingAt(p, t) = "true"
          <6>1. Advance(e, p, FindingAt(p, t), t, rule) = Outcome(Suppress(e), None)
            BY <3>2, <4>3, <5>4, <5>6 DEF Advance, FromOpen
          <6> QED
            <7>1. Counted(e) \in Episode(Pairs) /\ Counted(e).state = e.state
              BY <3>2 DEF Counted, Episode
            <7>2. Suppress(e).state = e.state
              BY <7>1 DEF Suppress, Episode
            <7> QED
              BY <6>1, <7>2 DEF Outcome, rule
        <5> QED
          BY <5>1, <5>5, <5>6
      <4> QED
        BY <3>2, <4>2, <4>3 DEF ActiveStates
    <3> QED
      BY <3>2, <3>3
  <2> QED
    BY <2>4, <2>5
<1> QED
  BY <1>1, <1>2, <1>3, <1>4, ReplayTypes, PTL

=============================================================================
