---------------------------- MODULE ReplayProofs ----------------------------
(***************************************************************************)
(* What holds of a replay of any files, whatever the conditions of the     *)
(* rules: its evaluating passes are runs of Engine, so that what is proved *)
(* of Engine is true of them; no line of a file goes uncounted; the state  *)
(* rows are what the events table adds up to; and a replay of what was     *)
(* replayed is quiet.                                                      *)
(***************************************************************************)
EXTENDS ReplayInputs, ContractProofs, WellFoundedInduction

(* What is known of the file being read.                                   *)
Reading ==
  /\ lines \in Files
  /\ evaluating \in Passes
  /\ pos \in 0..Len(lines)
  /\ runs \in Nat

LEMMA FilesAreSequences ==
  ASSUME NEW f \in Files
  PROVE  /\ Len(f) \in Nat \ {0} /\ DOMAIN f = 1..Len(f)
         /\ f[1].ts \in FileStarts
         /\ \A i \in 1..Len(f) :
              /\ f[i].ts \in Opt(0..MaxTime) /\ f[i].subject \in Subjects
              /\ SubjectType[f[i].subject] = "queue" <=> f[i].type = "queue_snapshot"
              /\ Memberships(f[i]) \subseteq QueueIds
<1>1. f \in Seq({f[i] : i \in DOMAIN f}) /\ f # <<>>
  BY FilesAssumption
<1>2. Len(f) \in Nat \ {0} /\ DOMAIN f = 1..Len(f)
  BY <1>1
<1> QED
  BY <1>2, FilesAssumption

\* A step reads at most one line, and a run ends on the file it began with.
LEMMA StepReading == Reading /\ [RNext]_allvars => Reading'
<1> SUFFICES ASSUME Reading, [RNext]_allvars PROVE Reading'
  OBVIOUS
<1>1. Len(lines) \in Nat
  BY FilesAreSequences DEF Reading
<1>2. CASE UNCHANGED ingest
  BY <1>2 DEF ingest, Reading
<1>3. CASE Invalid \/ Duplicate \/ Late \/ Accept
  <2>1. ReadOn /\ pos < Len(lines)
    BY <1>3 DEF Invalid, Duplicate, Late, Accept, Reached, Near, HasTs, HasLine
  <2> QED
    BY <1>1, <2>1 DEF ReadOn, Reading
<1>4. CASE Restart
  BY <1>1, <1>4 DEF Restart, Reading
<1> QED
  BY <1>2, <1>3, <1>4
     DEF RNext, Walk, EvaluateRule, Finished, Abort, Killed, Disabling, allvars

LEMMA InitReading == RInit => Reading
  BY FilesAreSequences DEF RInit, Reading

LEMMA EventFits ==
  ASSUME Reading, HasLine
  PROVE  /\ event.ts \in Opt(0..MaxTime) /\ event.subject \in Subjects
         /\ SubjectType[event.subject] = "queue" <=> event.type = "queue_snapshot"
         /\ Memberships(event) \subseteq QueueIds
         /\ Stamped => event.ts # None
<1>1. lines \in Files /\ pos + 1 \in 1..Len(lines)
  BY FilesAreSequences DEF Reading, HasLine
<1> QED
  BY <1>1, FilesAreSequences DEF event, Stamped

\* No line of a file whose timestamps are all there and in UTC ends the run.
LEMMA NoAbort == ASSUME Reading, Stamped PROVE ~Abort
<1>1. HasLine => lines \in Files /\ pos + 1 \in DOMAIN lines
  BY FilesAreSequences DEF Reading, HasLine
<1>2. HasLine => event.ts # None /\ event.utc
  BY <1>1 DEF event, Stamped
<1> QED
  BY <1>2 DEF Abort, Settable

-----------------------------------------------------------------------------
\* Every step of a replay is a step of Engine, or none.
LEMMA StepOfEngine ==
  ASSUME Evaluated, MayCrash \/ Stamped, Reading, [RNext]_allvars
  PROVE  [Next]_vars
<1>1. evaluating /\ Proc \in Workers
  BY ReplayAssumption DEF Reading, Evaluated
<1>2. CASE Walk
  BY <1>1, <1>2 DEF Walk, Next, Loop
<1>3. CASE Invalid \/ Duplicate \/ Late
  <2>1. OnSkip(Proc, event.ts) /\ event.ts # None /\ HasLine
    BY <1>3 DEF Invalid, Duplicate, Late, Reached, Near, HasTs
  <2>2. event.ts \in 0..MaxTime
    BY <2>1, EventFits DEF Opt
  <2> QED
    BY <1>1, <2>1, <2>2 DEF Next, Loop
<1>4. CASE Accept
  <2>1. /\ OnEvent(Proc, event.subject, event.ts, Memberships(event))
        /\ event.ts # None /\ HasLine
    BY <1>1, <1>4 DEF Accept, Reached, Near, HasTs
  <2>2. /\ event.ts \in 0..MaxTime /\ event.subject \in Subjects
        /\ Memberships(event) \in SUBSET QueueIds
    BY <2>1, EventFits DEF Opt
  <2> QED
    BY <1>1, <2>1, <2>2 DEF Next, Loop
<1>5. CASE EvaluateRule
  <2>1. \A p, t : FindingAt(p, t) \in Findings
    BY DEF FindingAt, Finding, Findings
  <2>2. Evaluate(Proc)
    BY <1>5, <2>1 DEF EvaluateRule, Evaluate
  <2> QED
    BY <1>1, <2>2 DEF Next
<1>6. CASE Finished
  <2>1. EndRun(Proc, lines[1].ts) /\ lines[1].ts \in FileStarts
    BY <1>1, <1>6, FilesAreSequences DEF Finished, Save, Reading
  <2> QED
    BY <1>1, <2>1 DEF Next, Loop
<1>7. CASE Abort \/ Killed
  <2>1. Crash(Proc)
    BY <1>7, NoAbort DEF Abort, Killed, Crash
  <2> QED
    BY <1>1, <2>1 DEF Next
<1>8. CASE Disabling
  BY <1>8, ReplayAssumption DEF Disabling, Next, Api
<1>9. CASE UNCHANGED allvars
  BY <1>9 DEF allvars, vars
<1> QED
  BY <1>2, <1>3, <1>4, <1>5, <1>6, <1>7, <1>8, <1>9 DEF RNext

\* A replay that evaluates is a run of Engine with findings that come from
\* its conditions and the projected state: the composition with ingestion
\* adds no behaviour to the engine's.
THEOREM ReplayIsEngine ==
  Evaluated /\ (MayCrash \/ Stamped) => (RSpec => Spec)
<1> SUFFICES ASSUME Evaluated, MayCrash \/ Stamped PROVE RSpec => Spec
  OBVIOUS
<1>1. RInit => Init
  BY DEF RInit
<1>2. Reading /\ [RNext]_allvars => [Next]_vars
  BY StepOfEngine
<1> QED
  BY <1>1, <1>2, InitReading, StepReading, PTL DEF RSpec, Spec

LEMMA ReplayHasOneWorker == OneWorker
  BY ReplayAssumption DEF OneWorker

\* Whatever the files say and wherever a replay is killed, the episode rows and
\* the notifications it leaves tell one story.
THEOREM ReplayKeepsLedger ==
  Evaluated /\ (MayCrash \/ Stamped) => (RSpec => []NoticeLedger)
  BY ReplayIsEngine, ReplayHasOneWorker, LedgerKept, PTL

\* A reminder of a replay is a cooldown or more after the notification before
\* it, over restarts and later replays as well.
THEOREM ReplaySpacesReminders ==
  Evaluated /\ (MayCrash \/ Stamped) => (RSpec => []ReminderSpacing)
  BY ReplayIsEngine, ReplayHasOneWorker, RemindersSpaced, PTL

\* A replay opens no episode before its condition has held for the duration of
\* its rule, whatever lies between the events of the file.
THEOREM ReplayNeverEarly ==
  Evaluated /\ (MayCrash \/ Stamped) => (RSpec => []NeverEarly)
  BY ReplayIsEngine, ReplayHasOneWorker, AlertsNotEarly, PTL

\* A replay keeps the contract with the author of a rule, whatever the order of
\* its file's events and wherever it is killed and started again.
THEOREM ReplayKeepsContract ==
  Serial /\ Evaluated /\ (MayCrash \/ Stamped) => (RSpec => KeepsContract)
  BY ReplayIsEngine, ReplayHasOneWorker, EngineKeepsContract, PTL

\* A rule that is disabled while replays run has no active episode from then
\* on, whichever of its pairs a trigger had still to evaluate.
THEOREM ReplayLeavesDisabled ==
  Serial /\ Evaluated /\ (MayCrash \/ Stamped) => (RSpec => []DisabledIsQuiet)
  BY ReplayIsEngine, DisabledStaysQuiet, PTL

-----------------------------------------------------------------------------
(* The counters, the log and the place in the file, and their types.       *)
Lines == UNION {{f[i] : i \in DOMAIN f} : f \in Files}

Counting ==
  /\ Reading
  /\ counters \in [CounterNames -> Nat]
  /\ log \in Seq(Lines)
  /\ LinesAccounted

LEMMA CountedUp ==
  ASSUME NEW names, counters \in [CounterNames -> Nat], Count(names)
  PROVE  /\ counters' \in [CounterNames -> Nat]
         /\ \A c \in CounterNames :
              counters'[c] = counters[c] + IF c \in names THEN 1 ELSE 0
  BY DEF Count

LEMMA CounterTypes ==
  ASSUME NEW f \in [CounterNames -> Nat]
  PROVE  /\ f["events_accepted"] \in Nat /\ f["late_drops"] \in Nat
         /\ f["duplicates"] \in Nat /\ f["validation_failures"] \in Nat
  BY DEF CounterNames

LEMMA StepCounting ==
  ASSUME ~MayCrash, Stamped, Counting, [RNext]_allvars
  PROVE  Counting'
<1>1. /\ Reading /\ Reading' /\ counters \in [CounterNames -> Nat] /\ log \in Seq(Lines)
      /\ LinesAccounted /\ Len(lines) \in Nat /\ pos \in Nat /\ runs \in Nat
  BY StepReading, FilesAreSequences DEF Counting, Reading
<1>2. CASE UNCHANGED ingest
  BY <1>1, <1>2 DEF ingest, Counting, LinesAccounted
<1>3. ASSUME HasLine PROVE event \in Lines
  BY <1>1, <1>3, FilesAreSequences DEF HasLine, event, Lines, Reading
<1>4. ASSUME NEW names, NEW more \in {0, 1}, Count(names), ReadOn,
             log' \in Seq(Lines), Len(log') = Len(log) + more,
             more = 1 <=> "events_accepted" \in names \/ "late_drops" \in names,
             more = 0 <=> "duplicates" \in names \/ "validation_failures" \in names,
             ~("events_accepted" \in names /\ "late_drops" \in names),
             ~("duplicates" \in names /\ "validation_failures" \in names)
      PROVE  Counting'
  <2>1. /\ counters' \in [CounterNames -> Nat]
        /\ \A c \in CounterNames :
             counters'[c] = counters[c] + IF c \in names THEN 1 ELSE 0
    BY <1>1, <1>4, CountedUp
  <2>2. /\ counters'["events_accepted"] + counters'["late_drops"]
             = counters["events_accepted"] + counters["late_drops"] + more
        /\ counters'["duplicates"] + counters'["validation_failures"]
             = counters["duplicates"] + counters["validation_failures"] + 1 - more
    <3> DEFINE plus(c) == IF c \in names THEN 1 ELSE 0
    <3>1. /\ counters'["events_accepted"] = counters["events_accepted"] + plus("events_accepted")
          /\ counters'["late_drops"] = counters["late_drops"] + plus("late_drops")
          /\ counters'["duplicates"] = counters["duplicates"] + plus("duplicates")
          /\ counters'["validation_failures"]
               = counters["validation_failures"] + plus("validation_failures")
      BY <2>1 DEF CounterNames
    <3>2. /\ plus("events_accepted") + plus("late_drops") = more
          /\ plus("duplicates") + plus("validation_failures") = 1 - more
      BY <1>4
    <3>3. /\ counters["events_accepted"] \in Nat /\ counters["late_drops"] \in Nat
          /\ counters["duplicates"] \in Nat /\ counters["validation_failures"] \in Nat
      BY <1>1, CounterTypes
    <3>4. \A c : plus(c) \in Nat
      OBVIOUS
    <3> HIDE DEF plus
    <3>5. /\ counters'["events_accepted"] + counters'["late_drops"]
               = counters["events_accepted"] + counters["late_drops"]
                 + (plus("events_accepted") + plus("late_drops"))
          /\ counters'["duplicates"] + counters'["validation_failures"]
               = counters["duplicates"] + counters["validation_failures"]
                 + (plus("duplicates") + plus("validation_failures"))
      BY <3>1, <3>3, <3>4
    <3>6. /\ counters["events_accepted"] + counters["late_drops"] \in Nat
          /\ counters["duplicates"] + counters["validation_failures"] \in Nat
          /\ more \in Nat
      BY <3>3
    <3> QED
      BY <3>2, <3>5, <3>6
  <2>3. pos' = pos + 1 /\ UNCHANGED <<runs, lines>>
    BY <1>4 DEF ReadOn
  <2>4. runs * Len(lines) \in Nat /\ Len(log) \in Nat
    BY <1>1
  <2>5. LinesAccounted'
    <3>1. /\ counters["events_accepted"] \in Nat /\ counters["late_drops"] \in Nat
          /\ counters["duplicates"] \in Nat /\ counters["validation_failures"] \in Nat
          /\ counters'["events_accepted"] \in Nat /\ counters'["late_drops"] \in Nat
          /\ counters'["duplicates"] \in Nat /\ counters'["validation_failures"] \in Nat
      BY <1>1, <2>1, CounterTypes
    <3>2. runs * Len(lines) + pos \in Nat /\ Len(log) \in Nat /\ Len(log') \in Nat
      BY <1>1, <1>4, <2>4
    <3>3. /\ counters["events_accepted"] + counters["late_drops"] = Len(log)
          /\ counters["events_accepted"] + counters["late_drops"] + counters["duplicates"]
               + counters["validation_failures"] = runs * Len(lines) + pos
      BY <1>1 DEF LinesAccounted
    <3>4. /\ counters'["events_accepted"] + counters'["late_drops"] = Len(log')
          /\ counters'["events_accepted"] + counters'["late_drops"] + counters'["duplicates"]
               + counters'["validation_failures"] = runs * Len(lines) + pos + 1
      <4>1. Len(log') = Len(log) + more /\ more \in {0, 1}
        BY <1>4
      <4>2. PICK a \in Nat, b \in Nat, c \in Nat, d \in Nat :
              /\ a = counters["events_accepted"] /\ b = counters["late_drops"]
              /\ c = counters["duplicates"] /\ d = counters["validation_failures"]
        BY <3>1
      <4>3. PICK a1 \in Nat, b1 \in Nat, c1 \in Nat, d1 \in Nat :
              /\ a1 = counters'["events_accepted"] /\ b1 = counters'["late_drops"]
              /\ c1 = counters'["duplicates"] /\ d1 = counters'["validation_failures"]
        BY <3>1
      <4>4. PICK read \in Nat, logged \in Nat, logged1 \in Nat :
              read = runs * Len(lines) + pos /\ logged = Len(log) /\ logged1 = Len(log')
        BY <3>2
      <4>5. /\ a + b = logged /\ a + b + c + d = read /\ logged1 = logged + more
            /\ a1 + b1 = a + b + more /\ c1 + d1 = c + d + 1 - more
        BY <2>2, <3>3, <4>1, <4>2, <4>3, <4>4
      <4>6. a1 + b1 = logged1 /\ a1 + b1 + c1 + d1 = read + 1
        BY <4>1, <4>5
      <4> QED
        BY <4>3, <4>4, <4>6
    <3>5. runs' * Len(lines') + pos' = runs * Len(lines) + pos + 1
      BY <1>1, <2>3, <2>4
    <3> QED
      BY <3>4, <3>5 DEF LinesAccounted
  <2> QED
    BY <1>1, <1>4, <2>1, <2>5 DEF Counting
<1>5. CASE Invalid \/ Duplicate
  <2>1. PICK names : /\ Count(names) /\ ReadOn /\ UNCHANGED log
                     /\ names \cap {"events_accepted", "late_drops"} = {}
                     /\ \/ "duplicates" \in names /\ "validation_failures" \notin names
                        \/ "duplicates" \notin names /\ "validation_failures" \in names
    BY <1>5 DEF Invalid, Duplicate
  <2>2. Len(log') = Len(log) + 0 /\ log' \in Seq(Lines)
    BY <1>1, <2>1
  <2>3. "events_accepted" \notin names /\ "late_drops" \notin names
    BY <2>1
  <2>4. 0 \in {0, 1} /\ Count(names) /\ ReadOn
    BY <2>1
  <2>5. "duplicates" \in names \/ "validation_failures" \in names
    BY <2>1
  <2>6. ~("duplicates" \in names /\ "validation_failures" \in names)
    BY <2>1
  <2>7. /\ 0 = 1 <=> "events_accepted" \in names \/ "late_drops" \in names
        /\ 0 = 0 <=> "duplicates" \in names \/ "validation_failures" \in names
        /\ ~("events_accepted" \in names /\ "late_drops" \in names)
    BY <2>3, <2>5
  <2> QED
    BY <1>4, <2>2, <2>4, <2>6, <2>7
<1>6. CASE Late \/ Accept
  <2>1. PICK names : /\ Count(names) /\ ReadOn /\ log' = Append(log, event) /\ HasLine
                     /\ names \cap {"duplicates", "validation_failures"} = {}
                     /\ \/ "events_accepted" \in names /\ "late_drops" \notin names
                        \/ "events_accepted" \notin names /\ "late_drops" \in names
    BY <1>6 DEF Late, Accept, Reached, Near, HasTs
  <2>2. Len(log') = Len(log) + 1 /\ log' \in Seq(Lines)
    BY <1>1, <1>3, <2>1
  <2> QED
    BY <1>4, <2>1, <2>2
<1>7. CASE Finished
  <2>1. pos = Len(lines) /\ pos' = 0 /\ runs' = runs + 1 /\ UNCHANGED <<lines, log, counters>>
    BY <1>7 DEF Finished, Restart
  <2>2. runs' * Len(lines) + pos' = runs * Len(lines) + pos
    BY <1>1, <2>1
  <2> QED
    BY <1>1, <2>1, <2>2 DEF Counting, LinesAccounted
<1>8. ~Abort /\ ~Killed
  BY <1>1, NoAbort DEF Killed, Crash
<1> QED
  BY <1>2, <1>5, <1>6, <1>7, <1>8 DEF RNext, Walk, EvaluateRule, Disabling, allvars

\* Over any number of replays of any file whose lines have timestamps, each
\* line read is counted in exactly one bucket, and each one that was accepted
\* or late is in the table.
THEOREM EveryLineAccounted == ~MayCrash /\ Stamped => (RSpec => []LinesAccounted)
<1> SUFFICES ASSUME ~MayCrash, Stamped PROVE RSpec => []LinesAccounted
  OBVIOUS
<1>1. RInit => Counting
  <2> SUFFICES ASSUME RInit PROVE Counting
    OBVIOUS
  <2>1. Reading /\ Len(lines) \in Nat
    BY InitReading, FilesAreSequences DEF Reading
  <2>2. pos = 0 /\ runs = 0 /\ log = <<>> /\ counters = [c \in CounterNames |-> 0]
    BY DEF RInit
  <2>3. log \in Seq(Lines) /\ Len(log) = 0
    BY <2>2
  <2> QED
    BY <2>1, <2>2, <2>3 DEF Counting, LinesAccounted, CounterNames
<1>2. Counting /\ [RNext]_allvars => Counting'
  BY StepCounting
<1>3. Counting => LinesAccounted
  BY DEF Counting
<1> QED
  BY <1>1, <1>2, <1>3, PTL DEF RSpec

-----------------------------------------------------------------------------
(* Adding up a history h of events: what AcceptedAt() and StateAfter() say *)
(* of the events table.                                                    *)

AcceptedIn(h, s) ==
  {i \in 1..Len(h) :
     /\ h[i].subject = s
     /\ \A j \in 1..(i - 1) : h[j].subject = s => h[j].ts <= h[i].ts}

AddsUp(f, h, s) ==
  f = [i \in 0..Len(h) |->
         IF i = 0 THEN None
         ELSE IF i \in AcceptedIn(h, s) THEN Apply(f[i - 1], h[i]) ELSE f[i - 1]]

StatesIn(h, s) == CHOOSE f : AddsUp(f, h, s)

(* There is one way to add up.  That it exists for every history would     *)
(* take an induction over the history; it takes one over the behaviour     *)
(* instead, as the history grows by an event at a time.                    *)
OneSum(h, s) ==
  /\ AddsUp(StatesIn(h, s), h, s)
  /\ \A f : AddsUp(f, h, s) => f = StatesIn(h, s)

LEMMA AcceptedIsIn == ASSUME NEW s PROVE AcceptedAt(s) = AcceptedIn(log, s)
  BY DEF AcceptedAt, AcceptedIn

LEMMA StateIsIn == ASSUME NEW s PROVE StateAfter(s) = StatesIn(log, s)
<1>1. AcceptedAt(s) = AcceptedIn(log, s)
  BY AcceptedIsIn
<1> HIDE DEF AcceptedAt
<1>2. StateAfter(s) = CHOOSE f : f = [i \in 0..Len(log) |->
        IF i = 0 THEN None
        ELSE IF i \in AcceptedAt(s) THEN Apply(f[i - 1], log[i]) ELSE f[i - 1]]
  BY DEF StateAfter
<1> QED
  BY <1>1, <1>2 DEF StatesIn, AddsUp

\* One more event leaves what was accepted before as it was.
LEMMA AcceptedGrows ==
  ASSUME NEW S, NEW h \in Seq(S), NEW e \in S, NEW s
  PROVE  LET n == Len(h)
             more == Append(h, e)
         IN  /\ n \in Nat /\ Len(more) = n + 1 /\ more \in Seq(S)
             /\ \A i \in 1..n : more[i] = h[i]
             /\ more[n + 1] = e
             /\ AcceptedIn(more, s) =
                  AcceptedIn(h, s) \cup
                    (IF e.subject = s /\ \A j \in 1..n : h[j].subject = s => h[j].ts <= e.ts
                     THEN {n + 1} ELSE {})
<1> DEFINE n == Len(h)
           more == Append(h, e)
<1>1. /\ n \in Nat /\ Len(more) = n + 1 /\ more \in Seq(S)
      /\ \A i \in 1..n : more[i] = h[i]
      /\ more[n + 1] = e
  OBVIOUS
<1> HIDE DEF more
<1>2. 1..(n + 1) = 1..n \cup {n + 1} /\ \A i \in 1..n : 1..(i - 1) \subseteq 1..n
  BY <1>1
<1>3. (n + 1) - 1 = n
  BY <1>1
<1> HIDE DEF n
<1>4. AcceptedIn(more, s) = {i \in 1..(n + 1) :
        /\ more[i].subject = s
        /\ \A j \in 1..(i - 1) : more[j].subject = s => more[j].ts <= more[i].ts}
  BY <1>1 DEF AcceptedIn
<1>5. AcceptedIn(h, s) = {i \in 1..n :
        /\ h[i].subject = s
        /\ \A j \in 1..(i - 1) : h[j].subject = s => h[j].ts <= h[i].ts}
  BY DEF AcceptedIn, n
<1>6. \A i \in 1..n : i \in AcceptedIn(more, s) <=> i \in AcceptedIn(h, s)
  BY <1>1, <1>2, <1>4, <1>5
<1>7. n + 1 \in AcceptedIn(more, s)
        <=> e.subject = s /\ \A j \in 1..n : h[j].subject = s => h[j].ts <= e.ts
  BY <1>1, <1>2, <1>3, <1>4
<1>8. AcceptedIn(more, s) \subseteq 1..n \cup {n + 1} /\ AcceptedIn(h, s) \subseteq 1..n
      /\ n + 1 \notin 1..n
  BY <1>1, <1>2, <1>4, <1>5
<1> QED
  BY <1>1, <1>6, <1>7, <1>8 DEF n, more

\* Nothing has happened to a subject before its first event.
LEMMA SumOfNothing ==
  ASSUME NEW s
  PROVE  OneSum(<<>>, s) /\ StatesIn(<<>>, s)[0] = None
<1> DEFINE f0 == [i \in {0} |-> None]
<1>1. 0..Len(<<>>) = {0}
  OBVIOUS
<1>2. \A f : AddsUp(f, <<>>, s) <=> f = f0
  <2> SUFFICES ASSUME NEW f PROVE AddsUp(f, <<>>, s) <=> f = f0
    OBVIOUS
  <2>1. [i \in 0..Len(<<>>) |->
           IF i = 0 THEN None
           ELSE IF i \in AcceptedIn(<<>>, s) THEN Apply(f[i - 1], <<>>[i]) ELSE f[i - 1]] = f0
    BY <1>1
  <2> QED
    BY <2>1 DEF AddsUp
<1> HIDE DEF f0
<1>3. StatesIn(<<>>, s) = f0
  BY <1>2 DEF StatesIn
<1> QED
  BY <1>2, <1>3 DEF OneSum, f0

\* One more event extends the sum by its effect, if it is accepted.
LEMMA SumGrows ==
  ASSUME NEW S, NEW h \in Seq(S), NEW e \in S, NEW s, OneSum(h, s)
  PROVE  LET n == Len(h)
             more == Append(h, e)
         IN  /\ OneSum(more, s)
             /\ \A k \in 0..n : StatesIn(more, s)[k] = StatesIn(h, s)[k]
             /\ StatesIn(more, s)[n + 1] =
                  IF n + 1 \in AcceptedIn(more, s)
                  THEN Apply(StatesIn(h, s)[n], e) ELSE StatesIn(h, s)[n]
<1> DEFINE n == Len(h)
           more == Append(h, e)
           F == StatesIn(h, s)
           last == IF n + 1 \in AcceptedIn(more, s) THEN Apply(F[n], e) ELSE F[n]
           G == [i \in 0..(n + 1) |-> IF i = n + 1 THEN last ELSE F[i]]
           body(f, g, i) == IF i = 0 THEN None
                            ELSE IF i \in AcceptedIn(g, s) THEN Apply(f[i - 1], g[i])
                            ELSE f[i - 1]
<1>1. /\ n \in Nat /\ Len(more) = n + 1
      /\ \A i \in 1..n : more[i] = h[i]
      /\ more[n + 1] = e
      /\ \A i \in 1..n : i \in AcceptedIn(more, s) <=> i \in AcceptedIn(h, s)
  <2>1. AcceptedIn(h, s) \subseteq 1..n
    BY DEF AcceptedIn
  <2> QED
    BY <2>1, AcceptedGrows
<1> HIDE DEF n, more
<1>2. /\ 0..(n + 1) = 0..n \cup {n + 1} /\ n + 1 \notin 0..n
      /\ \A i \in 0..n : i = 0 \/ (i \in 1..n /\ i - 1 \in 0..n)
      /\ n + 1 # 0 /\ (n + 1) - 1 = n /\ n \in 0..n
  BY <1>1
<1>3. \A f, i : i \in 0..n => body(f, more, i) = body(f, h, i)
  BY <1>1, <1>2
<1>4. F = [i \in 0..n |-> body(F, h, i)]
  BY DEF OneSum, AddsUp, n
<1>5. \A f : AddsUp(f, h, s) <=> f = [i \in 0..n |-> body(f, h, i)]
  BY DEF AddsUp, n
<1>6. \A f : AddsUp(f, more, s) <=> f = [i \in 0..(n + 1) |-> body(f, more, i)]
  BY <1>1 DEF AddsUp
<1>7. AddsUp(G, more, s)
  <2>1. \A i \in 0..n : G[i] = F[i]
    BY <1>2
  <2>2. ASSUME NEW i \in 0..(n + 1) PROVE G[i] = body(G, more, i)
    <3>1. CASE i = n + 1
      <4>1. body(G, more, i) = IF n + 1 \in AcceptedIn(more, s) THEN Apply(G[n], e) ELSE G[n]
        BY <1>1, <1>2, <3>1
      <4> QED
        BY <1>2, <2>1, <3>1, <4>1
    <3>2. CASE i \in 0..n
      <4>1. G[i] = body(F, h, i)
        BY <1>4, <2>1, <3>2
      <4>2. body(F, h, i) = body(G, h, i)
        BY <1>2, <2>1, <3>2
      <4> QED
        BY <1>3, <3>2, <4>1, <4>2
    <3> QED
      BY <1>2, <3>1, <3>2
  <2> HIDE DEF body
  <2>3. G = [i \in 0..(n + 1) |-> body(G, more, i)]
    BY <2>2
  <2> QED
    BY <1>6, <2>3
<1>8. ASSUME NEW f, AddsUp(f, more, s) PROVE f = G
  <2> DEFINE r == [i \in 0..n |-> f[i]]
  <2>1. f = [i \in 0..(n + 1) |-> body(f, more, i)]
    BY <1>6, <1>8
  <2>2. r = [i \in 0..n |-> body(r, h, i)]
    <3>1. ASSUME NEW i \in 0..n PROVE f[i] = body(r, h, i)
      <4>1. f[i] = body(f, more, i)
        BY <1>2, <2>1
      <4>2. body(f, h, i) = body(r, h, i)
        BY <1>2
      <4> QED
        BY <1>3, <4>1, <4>2
    <3> HIDE DEF body
    <3> QED
      BY <3>1
  <2>3. r = F
    BY <1>5, <2>2 DEF OneSum
  <2>4. \A i \in 0..n : f[i] = F[i]
    BY <2>3
  <2>5. f[n + 1] = last
    <3>1. f[n + 1] = body(f, more, n + 1)
      BY <1>2, <2>1
    <3> QED
      BY <1>1, <1>2, <2>4, <3>1
  <2>6. \A i \in 0..(n + 1) : f[i] = G[i]
    BY <1>2, <2>4, <2>5
  <2> HIDE DEF body, last
  <2>7. f = [i \in 0..(n + 1) |-> f[i]]
    BY <2>1
  <2> QED
    BY <2>6, <2>7
<1>9. StatesIn(more, s) = G
  <2> HIDE DEF G
  <2> QED
    BY <1>7, <1>8 DEF StatesIn
<1>10. OneSum(more, s)
  <2> HIDE DEF G
  <2> QED
    BY <1>7, <1>8, <1>9 DEF OneSum
<1>11. /\ \A k \in 0..n : G[k] = F[k]
       /\ G[n + 1] = last
  BY <1>2
<1> QED
  BY <1>9, <1>10, <1>11 DEF n, more

-----------------------------------------------------------------------------
(* The inductive invariant: what is stored of each subject, and by its     *)
(* watermark which of its events are accepted.                             *)

Logged == {l \in Lines : l.ts # None}

\* The row of a subject is what its history h adds up to.
RowIs(h, s, row, mark, member) ==
  /\ OneSum(h, s)
  /\ row = StatesIn(h, s)[Len(h)]
  /\ \A i \in 1..Len(h) : h[i].subject = s => mark # None /\ h[i].ts <= mark
  /\ IF AcceptedIn(h, s) = {} THEN mark = None /\ member = {}
     ELSE \E last \in AcceptedIn(h, s) :
            /\ \A j \in AcceptedIn(h, s) : j <= last
            /\ mark = h[last].ts /\ member = Memberships(h[last])

Projected ==
  /\ Reading
  /\ log \in Seq(Logged)
  /\ states = [s \in Subjects |-> states[s]]
  /\ watermark = [s \in Subjects |-> watermark[s]]
  /\ queues = [s \in Subjects |-> queues[s]]
  /\ \A s \in Subjects : RowIs(log, s, states[s], watermark[s], queues[s])

LEMMA LoggedTypes ==
  ASSUME NEW l \in Logged
  PROVE  l.ts \in Nat /\ l.ts \in 0..MaxTime /\ l.subject \in Subjects
<1>1. PICK f \in Files : \E i \in DOMAIN f : l = f[i]
  BY DEF Logged, Lines
<1>2. l.ts \in Opt(0..MaxTime) /\ l.subject \in Subjects /\ l.ts # None
  BY <1>1, FilesAreSequences DEF Logged
<1> QED
  BY <1>2 DEF Opt

LEMMA EventIsLogged ==
  ASSUME Reading, Reached
  PROVE  event \in Logged /\ pos + 1 \in 1..Len(lines) /\ pos \in Nat
<1>1. lines \in Files /\ pos + 1 \in 1..Len(lines) /\ pos \in Nat /\ event.ts # None
  BY FilesAreSequences DEF Reading, Reached, Near, HasTs, HasLine
<1>2. event \in Lines
  BY <1>1, FilesAreSequences DEF event, Lines
<1> QED
  BY <1>1, <1>2 DEF Logged

\* An event that is not behind the watermark is accepted.
LEMMA AcceptedRow ==
  ASSUME NEW h \in Seq(Logged), NEW e \in Logged, NEW s, e.subject = s,
         NEW row, NEW mark, NEW member, RowIs(h, s, row, mark, member),
         mark # None => e.ts >= mark
  PROVE  RowIs(Append(h, e), s, Apply(row, e), e.ts, Memberships(e))
<1> DEFINE n == Len(h)
           more == Append(h, e)
<1>1. /\ n \in Nat /\ Len(more) = n + 1
      /\ \A i \in 1..n : more[i] = h[i]
      /\ more[n + 1] = e
      /\ AcceptedIn(more, s) =
           AcceptedIn(h, s) \cup
             (IF e.subject = s /\ \A j \in 1..n : h[j].subject = s => h[j].ts <= e.ts
              THEN {n + 1} ELSE {})
  BY AcceptedGrows
<1>2. \A i \in 1..n : h[i] \in Logged
  OBVIOUS
<1>3. \A j \in 1..n : h[j].subject = s => h[j].ts <= e.ts
  <2> SUFFICES ASSUME NEW j \in 1..n, h[j].subject = s PROVE h[j].ts <= e.ts
    OBVIOUS
  <2>1. mark # None /\ h[j].ts <= mark /\ mark \in Nat
    <3>1. \E last \in 1..n : mark = h[last].ts
      BY DEF RowIs, AcceptedIn
    <3> QED
      BY <1>2, <3>1, LoggedTypes DEF RowIs
  <2> QED
    BY <1>2, <2>1, LoggedTypes
<1>4. AcceptedIn(more, s) = AcceptedIn(h, s) \cup {n + 1}
  BY <1>1, <1>3
<1>5. AcceptedIn(h, s) \subseteq 1..n
  BY DEF AcceptedIn
<1>6. /\ OneSum(more, s)
      /\ StatesIn(more, s)[n + 1] = IF n + 1 \in AcceptedIn(more, s)
                                    THEN Apply(StatesIn(h, s)[n], e) ELSE StatesIn(h, s)[n]
  BY SumGrows DEF RowIs
<1>7. StatesIn(more, s)[n + 1] = Apply(row, e)
  BY <1>4, <1>6 DEF RowIs
<1>8. \A i \in 1..(n + 1) : more[i].subject = s => e.ts # None /\ more[i].ts <= e.ts
  <2>1. e.ts \in Nat /\ e.ts # None
    BY LoggedTypes DEF Logged
  <2> QED
    BY <1>1, <1>3, <2>1
<1>9. \A j \in AcceptedIn(more, s) : j <= n + 1
  BY <1>1, <1>4, <1>5
<1> QED
  BY <1>1, <1>4, <1>6, <1>7, <1>8, <1>9 DEF RowIs

\* One that is, or that is about another subject, changes nothing.
LEMMA OtherRow ==
  ASSUME NEW h \in Seq(Logged), NEW e \in Logged, NEW s,
         NEW row, NEW mark, NEW member, RowIs(h, s, row, mark, member),
         e.subject = s => mark # None /\ e.ts < mark
  PROVE  /\ RowIs(Append(h, e), s, row, mark, member)
         /\ Len(h) + 1 \notin AcceptedIn(Append(h, e), s)
<1> DEFINE n == Len(h)
           more == Append(h, e)
<1>1. /\ n \in Nat /\ Len(more) = n + 1
      /\ \A i \in 1..n : more[i] = h[i]
      /\ more[n + 1] = e
      /\ AcceptedIn(more, s) =
           AcceptedIn(h, s) \cup
             (IF e.subject = s /\ \A j \in 1..n : h[j].subject = s => h[j].ts <= e.ts
              THEN {n + 1} ELSE {})
  BY AcceptedGrows
<1>2. \A i \in 1..n : h[i] \in Logged
  OBVIOUS
<1>3. AcceptedIn(h, s) \subseteq 1..n /\ \A i \in AcceptedIn(h, s) : h[i].subject = s
  BY DEF AcceptedIn
<1>4. e.subject = s => \E last \in 1..n : h[last].subject = s /\ ~(h[last].ts <= e.ts)
  <2> SUFFICES ASSUME e.subject = s
               PROVE  \E last \in 1..n : h[last].subject = s /\ ~(h[last].ts <= e.ts)
    OBVIOUS
  <2>1. PICK last \in AcceptedIn(h, s) : mark = h[last].ts
    BY DEF RowIs
  <2>2. h[last].ts \in Nat /\ e.ts \in Nat /\ e.ts < h[last].ts
    BY <1>2, <1>3, <2>1, LoggedTypes
  <2> QED
    BY <1>3, <2>1, <2>2
<1>5. AcceptedIn(more, s) = AcceptedIn(h, s) /\ n + 1 \notin AcceptedIn(more, s)
  BY <1>1, <1>3, <1>4
<1>6. /\ OneSum(more, s)
      /\ StatesIn(more, s)[n + 1] = IF n + 1 \in AcceptedIn(more, s)
                                    THEN Apply(StatesIn(h, s)[n], e) ELSE StatesIn(h, s)[n]
  BY SumGrows DEF RowIs
<1>7. StatesIn(more, s)[n + 1] = row
  BY <1>5, <1>6 DEF RowIs
<1>8. \A i \in 1..(n + 1) : more[i].subject = s => mark # None /\ more[i].ts <= mark
  <2>1. \A i \in 1..n : more[i].subject = s => mark # None /\ more[i].ts <= mark
    BY <1>1 DEF RowIs
  <2>2. e.subject = s => mark # None /\ e.ts <= mark
    <3> SUFFICES ASSUME e.subject = s PROVE e.ts <= mark
      OBVIOUS
    <3>1. PICK last \in AcceptedIn(h, s) : mark = h[last].ts
      BY DEF RowIs
    <3>2. mark \in Nat /\ e.ts \in Nat
      BY <1>2, <1>3, <3>1, LoggedTypes
    <3> QED
      BY <3>2
  <2> QED
    BY <1>1, <2>1, <2>2
<1>9. \A j \in AcceptedIn(h, s) : more[j] = h[j]
  BY <1>1, <1>3
<1> HIDE DEF n, more
<1>10. IF AcceptedIn(more, s) = {} THEN mark = None /\ member = {}
       ELSE \E last \in AcceptedIn(more, s) :
              /\ \A j \in AcceptedIn(more, s) : j <= last
              /\ mark = more[last].ts /\ member = Memberships(more[last])
  BY <1>5, <1>9 DEF RowIs
<1> QED
  BY <1>1, <1>5, <1>6, <1>7, <1>8, <1>10 DEF RowIs, more, n

LEMMA InitProjected == RInit => Projected
<1> SUFFICES ASSUME RInit PROVE Projected
  OBVIOUS
<1>1. /\ log = <<>> /\ states = [s \in Subjects |-> None]
      /\ watermark = [s \in Subjects |-> None] /\ queues = [s \in Subjects |-> {}]
  BY DEF RInit, Init
<1>2. Len(<<>>) = 0 /\ <<>> \in Seq(Logged) /\ 1..0 = {}
  OBVIOUS
<1>3. ASSUME NEW s \in Subjects PROVE RowIs(<<>>, s, None, None, {})
  <2>1. AcceptedIn(<<>>, s) = {}
    BY <1>2 DEF AcceptedIn
  <2>2. OneSum(<<>>, s) /\ StatesIn(<<>>, s)[Len(<<>>)] = None
    BY <1>2, SumOfNothing
  <2>3. \A i \in 1..Len(<<>>) : FALSE
    BY <1>2
  <2> QED
    BY <2>1, <2>2, <2>3 DEF RowIs
<1> QED
  BY <1>1, <1>2, <1>3, InitReading DEF Projected

LEMMA StepProjected == Projected /\ [RNext]_allvars => Projected'
<1> SUFFICES ASSUME Projected, [RNext]_allvars PROVE Projected'
  OBVIOUS
<1>1. /\ Reading /\ Reading' /\ log \in Seq(Logged)
      /\ states = [s \in Subjects |-> states[s]]
      /\ watermark = [s \in Subjects |-> watermark[s]]
      /\ queues = [s \in Subjects |-> queues[s]]
      /\ \A s \in Subjects : RowIs(log, s, states[s], watermark[s], queues[s])
  BY StepReading DEF Projected
<1>2. CASE UNCHANGED <<log, states, watermark, queues>>
  BY <1>1, <1>2 DEF Projected
<1>3. CASE Late
  <2>1. /\ log' = Append(log, event) /\ Reached /\ UNCHANGED <<states, watermark, queues>>
        /\ watermark[event.subject] # None /\ event.ts < watermark[event.subject]
    BY <1>3 DEF Late, IsLate, OnSkip, db
  <2>2. event \in Logged
    BY <1>1, <2>1, EventIsLogged
  <2>3. \A s \in Subjects : RowIs(log', s, states[s], watermark[s], queues[s])
    BY <1>1, <2>1, <2>2, OtherRow
  <2>4. log' \in Seq(Logged)
    BY <1>1, <2>1, <2>2
  <2> QED
    BY <1>1, <2>1, <2>3, <2>4 DEF Projected
<1>4. CASE Accept
  <2> DEFINE who == event.subject
  <2>1. /\ log' = Append(log, event) /\ Reached
        /\ states' = [states EXCEPT ![who] = Apply(states[who], event)]
        /\ watermark' = [watermark EXCEPT ![who] = event.ts]
        /\ queues' = [queues EXCEPT ![who] = Memberships(event)]
        /\ ~(watermark[who] # None /\ event.ts < watermark[who])
    BY <1>4 DEF Accept, IsLate, OnEvent, Project, Put
  <2>2. event \in Logged /\ who \in Subjects
    BY <1>1, <2>1, EventIsLogged, LoggedTypes
  <2>3. log' \in Seq(Logged)
    BY <1>1, <2>1, <2>2
  <2>4. watermark[who] # None => event.ts >= watermark[who]
    <3> SUFFICES ASSUME watermark[who] # None PROVE event.ts >= watermark[who]
      OBVIOUS
    <3>1. PICK last \in 1..Len(log) : watermark[who] = log[last].ts
      BY <1>1, <2>2 DEF RowIs, AcceptedIn
    <3>2. log[last] \in Logged
      BY <1>1
    <3> QED
      BY <2>1, <2>2, <3>1, <3>2, LoggedTypes
  <2> HIDE DEF who
  <2>5. RowIs(log', who, Apply(states[who], event), event.ts, Memberships(event))
    BY <1>1, <2>1, <2>2, <2>4, AcceptedRow DEF who
  <2>6. \A s \in Subjects \ {who} : RowIs(log', s, states[s], watermark[s], queues[s])
    BY <1>1, <2>1, <2>2, OtherRow DEF who
  <2>7. /\ states' = [s \in Subjects |-> states'[s]]
        /\ watermark' = [s \in Subjects |-> watermark'[s]]
        /\ queues' = [s \in Subjects |-> queues'[s]]
        /\ states'[who] = Apply(states[who], event)
        /\ watermark'[who] = event.ts /\ queues'[who] = Memberships(event)
        /\ \A s \in Subjects \ {who} :
             states'[s] = states[s] /\ watermark'[s] = watermark[s] /\ queues'[s] = queues[s]
    BY <1>1, <2>1, <2>2
  <2>8. \A s \in Subjects : RowIs(log', s, states'[s], watermark'[s], queues'[s])
    BY <2>5, <2>6, <2>7
  <2> QED
    BY <1>1, <2>3, <2>7, <2>8 DEF Projected
<1>5. CASE Walk \/ Invalid \/ Duplicate \/ EvaluateRule \/ Finished \/ Abort \/ Killed
           \/ Disabling \/ UNCHANGED allvars
  <2>1. UNCHANGED <<log, states>>
    BY <1>5 DEF Walk, Invalid, Duplicate, EvaluateRule, Finished, Abort, Killed, Disabling,
                Restart, allvars, ingest
  <2>2. UNCHANGED <<watermark, queues>>
    BY <1>5 DEF Walk, Invalid, Duplicate, EvaluateRule, Finished, Abort, Killed, Disabling,
                SkipTick, OnTick, OnSkip, Begin, Decide, Discard, Commit, Send, Save, EndRun,
                Die, Crash, DisableRule, allvars, vars, db
  <2> QED
    BY <1>2, <2>1, <2>2
<1> QED
  BY <1>3, <1>4, <1>5 DEF RNext

LEMMA ProjectedHolds == RSpec => []Projected
  BY InitProjected, StepProjected, PTL DEF RSpec

\* The projection loses no event and repeats none, whatever is re-read, late,
\* refused or interrupted, with passes that evaluate or not.
THEOREM ProjectionIsLog == RSpec => []StateIsLog
<1>1. Projected => StateIsLog
  <2> SUFFICES ASSUME Projected, NEW s \in Subjects
               PROVE  /\ states[s] = StateAfter(s)[Len(log)]
                      /\ IF AcceptedAt(s) = {} THEN watermark[s] = None /\ queues[s] = {}
                         ELSE LET last == CHOOSE i \in AcceptedAt(s) :
                                            \A j \in AcceptedAt(s) : j <= i
                              IN  /\ watermark[s] = log[last].ts
                                  /\ queues[s] = Memberships(log[last])
    BY DEF StateIsLog
  <2>1. RowIs(log, s, states[s], watermark[s], queues[s])
    BY DEF Projected
  <2>2. states[s] = StateAfter(s)[Len(log)]
    BY <2>1, StateIsIn DEF RowIs
  <2>3. \A i, j \in AcceptedAt(s) : i <= j /\ j <= i => i = j
    BY DEF AcceptedAt
  <2>4. CASE AcceptedAt(s) = {}
    BY <2>1, <2>2, <2>4, AcceptedIsIn DEF RowIs
  <2>5. CASE AcceptedAt(s) # {}
    <3>1. PICK i \in AcceptedAt(s) :
            /\ \A j \in AcceptedAt(s) : j <= i
            /\ watermark[s] = log[i].ts /\ queues[s] = Memberships(log[i])
      BY <2>1, <2>5, AcceptedIsIn DEF RowIs
    <3> DEFINE last == CHOOSE k \in AcceptedAt(s) : \A j \in AcceptedAt(s) : j <= k
    <3>2. last \in AcceptedAt(s) /\ \A j \in AcceptedAt(s) : j <= last
      BY <3>1
    <3>3. last = i
      BY <2>3, <3>1, <3>2
    <3> QED
      BY <2>2, <2>5, <3>1, <3>3
  <2> QED
    BY <2>4, <2>5
<1> QED
  BY <1>1, ProjectedHolds, PTL

-----------------------------------------------------------------------------
(* A file that has been replayed is not replayed anew.                     *)

LEMMA LatestOf ==
  ASSUME NEW b \in Nat, NEW T \in SUBSET (0..b), T # {}
  PROVE  \E t \in T : \A u \in T : u <= t
<1> DEFINE R == OpToRel(<, Nat)
           U == {b - t : t \in T}
<1>1. IsWellFoundedOn(R, Nat)
  BY NatLessThanWellFounded
<1>2. U \subseteq Nat /\ U # {}
  <2>1. \A t \in T : b - t \in Nat
    OBVIOUS
  <2> QED
    BY <2>1
<1> HIDE DEF R
<1>3. PICK x \in U : \A y \in U : ~(<<y, x>> \in R)
  BY <1>1, <1>2, WFMin
<1>4. PICK t \in T : x = b - t
  BY <1>3
<1>5. ASSUME NEW u \in T PROVE u <= t
  <2>1. ~(<<b - u, b - t>> \in R)
    BY <1>3, <1>4
  <2>2. b - u \in Nat /\ b - t \in Nat /\ t \in 0..b /\ u \in 0..b
    <3>1. t \in 0..b /\ u \in 0..b
      OBVIOUS
    <3> QED
      BY <3>1
  <2>3. ~(b - u < b - t)
    BY <2>1, <2>2 DEF R, OpToRel
  <2> QED
    BY <2>2, <2>3
<1> QED
  BY <1>5

LEMMA LastIsLast ==
  ASSUME Reading, Stamped
  PROVE  /\ LastTs \in Nat
         /\ \A i \in 1..Len(lines) : lines[i].ts \in Nat /\ lines[i].ts <= LastTs
         /\ \E i \in 1..Len(lines) : lines[i].ts = LastTs
<1> DEFINE T == {lines[i].ts : i \in 1..Len(lines)}
<1>1. /\ \A i \in 1..Len(lines) : lines[i].ts \in 0..MaxTime
      /\ Len(lines) \in Nat \ {0}
  BY FilesAreSequences DEF Reading, Stamped, Opt
<1>2. T \in SUBSET (0..MaxTime) /\ T # {} /\ MaxTime \in Nat
  BY <1>1, BoundsAssumption
<1>3. \E t \in T : \A u \in T : u <= t
  BY <1>2, LatestOf
<1>4. LastTs \in T /\ \A u \in T : u <= LastTs
  BY <1>3 DEF LastTs
<1> QED
  BY <1>1, <1>4

HasRead(k) == k <= pos \/ ticked > 0 \/ (~MayCrash /\ runs > 0)

Passed == runs > 0 /\ ticked >= LastTs

Remembered ==
  /\ Reading
  /\ rules = [r \in Rules |-> rules[r]]
  /\ ticked \in Nat /\ clock[Proc] \in Nat /\ ticked <= clock[Proc]
  /\ clock = [w \in Workers |-> clock[w]]
  /\ todo = [w \in Workers |-> todo[w]]
  /\ pc = [w \in Workers |-> pc[w]]
  /\ \A k \in 1..Len(lines) : HasRead(k) /\ lines[k].valid => Stored(lines[k].id) # {}
  /\ Passed => Idle(Proc)

\* What is stored stays stored.
LEMMA StoredGrows ==
  ASSUME NEW id, Projected, log' = log \/ (log' = Append(log, event) /\ Reached)
  PROVE  /\ Stored(id) # {} => Stored(id)' # {}
         /\ log' # log /\ event.id = id => Stored(id)' # {}
<1>1. CASE log' = log
  BY <1>1 DEF Stored
<1>2. CASE log' = Append(log, event) /\ Reached
  <2>1. log \in Seq(Logged) /\ event \in Logged
    BY <1>2, EventIsLogged DEF Projected
  <2>2. /\ Len(log') = Len(log) + 1 /\ Len(log) \in Nat
        /\ \A m \in 1..Len(log) : log'[m] = log[m]
        /\ log'[Len(log) + 1] = event
    BY <1>2, <2>1
  <2> QED
    BY <2>2 DEF Stored
<1> QED
  BY <1>1, <1>2

\* After a replay of the whole file no line is news and no tick is walked.
LEMMA NothingTriggers ==
  ASSUME Stamped, ~MayCrash \/ AfterOrigin, Remembered, Passed
  PROVE  ~Walk /\ ~Late /\ ~Accept /\ ~EvaluateRule
<1>1. /\ Reading /\ LastTs \in Nat /\ Idle(Proc) /\ ticked \in Nat /\ clock[Proc] \in Nat
      /\ LastTs <= ticked /\ ticked <= clock[Proc] /\ TickInterval \in Nat \ {0}
      /\ \A i \in 1..Len(lines) : lines[i].ts \in Nat /\ lines[i].ts <= LastTs
      /\ \E i \in 1..Len(lines) : lines[i].ts = LastTs
  BY LastIsLast, BoundsAssumption DEF Remembered, Passed
<1>2. ticked > 0 \/ (~MayCrash /\ runs > 0)
  <2>1. CASE AfterOrigin
    <3>1. \E i \in 1..Len(lines) : lines[i].ts # 0
      BY <1>1, <2>1, FilesAreSequences DEF AfterOrigin, Reading
    <3> QED
      BY <1>1, <3>1
  <2>2. CASE ~MayCrash
    BY <2>2 DEF Passed
  <2> QED
    BY <2>1, <2>2
<1>3. \A k \in 1..Len(lines) : lines[k].valid => Stored(lines[k].id) # {}
  BY <1>2 DEF Remembered, HasRead
<1>4. ASSUME HasLine PROVE event.ts <= LastTs /\ (Parses => IsDuplicate)
  <2>1. pos + 1 \in 1..Len(lines)
    BY <1>1, <1>4, FilesAreSequences DEF HasLine, Reading
  <2> QED
    BY <1>1, <1>3, <2>1 DEF event, Parses, IsDuplicate
<1>5. ~Walk
  <2> SUFFICES ASSUME Walk PROVE FALSE
    OBVIOUS
  <2>1. HasLine /\ ~(event.ts < clock[Proc] + TickInterval) /\ event.ts \in Nat
    <3>1. HasTs /\ ~Near
      BY DEF Walk
    <3>2. HasLine /\ pos + 1 \in 1..Len(lines)
      BY <1>1, <3>1, FilesAreSequences DEF HasTs, HasLine, Reading
    <3> QED
      BY <1>1, <3>1, <3>2 DEF Near, event
  <2> QED
    BY <1>1, <1>4, <2>1
<1>6. ~Late /\ ~Accept
  BY <1>4 DEF Late, Accept, Reached, Near, HasTs
<1>7. ~EvaluateRule
  <2>1. pc[Proc] = "ready" /\ todo[Proc] = {}
    BY <1>1 DEF Idle
  <2> QED
    BY <2>1 DEF EvaluateRule, Begin, Discard, Commit, Send
<1> QED
  BY <1>5, <1>6, <1>7

LEMMA StepRemembered ==
  ASSUME Stamped, ~MayCrash \/ AfterOrigin, Projected, Remembered, [RNext]_allvars
  PROVE  Remembered'
<1>1. /\ Reading /\ Reading' /\ Len(lines) \in Nat /\ pos \in Nat /\ runs \in Nat
      /\ rules = [r \in Rules |-> rules[r]]
      /\ ticked \in Nat /\ clock[Proc] \in Nat /\ ticked <= clock[Proc]
      /\ clock = [w \in Workers |-> clock[w]]
      /\ todo = [w \in Workers |-> todo[w]]
      /\ pc = [w \in Workers |-> pc[w]]
      /\ \A k \in 1..Len(lines) : HasRead(k) /\ lines[k].valid => Stored(lines[k].id) # {}
      /\ Passed => Idle(Proc)
      /\ Proc \in Workers /\ TickInterval \in Nat /\ FileStarts \subseteq Nat
  BY StepReading, FilesAreSequences, ReplayAssumption, BoundsAssumption
     DEF Remembered, Reading
<1>2. ASSUME HasLine PROVE event.ts \in Nat /\ event.ts # None /\ event = lines[pos + 1]
                                /\ pos + 1 \in 1..Len(lines)
  BY <1>1, <1>2, FilesAreSequences DEF HasLine, event, Stamped, Reading, Opt
<1>3. ASSUME NEW t \in Nat PROVE Later(t, Proc) \in Nat /\ ticked <= Later(t, Proc)
  BY <1>1 DEF Later
<1>4. CASE UNCHANGED allvars
  BY <1>1, <1>4 DEF allvars, vars, ingest, Remembered, HasRead, Passed, Idle, LastTs, Stored
<1>5. CASE Walk
  <2>1. ~Passed
    BY <1>5, NothingTriggers
  <2>2. /\ clock' = [clock EXCEPT ![Proc] = @ + TickInterval]
        /\ UNCHANGED <<rules, ticked, pc, ingest>>
        /\ todo' = [w \in Workers |-> todo'[w]]
    BY <1>1, <1>5 DEF Walk, OnTick, SkipTick, Trigger, db
  <2>3. /\ clock'[Proc] \in Nat /\ ticked <= clock'[Proc]
        /\ clock' = [w \in Workers |-> clock'[w]]
    <3>1. clock'[Proc] = clock[Proc] + TickInterval /\ clock' = [w \in Workers |-> clock'[w]]
      BY <1>1, <2>2
    <3> QED
      BY <1>1, <3>1
  <2>4. ~Passed'
    BY <2>1, <2>2 DEF Passed, LastTs, ingest
  <2> QED
    BY <1>1, <2>2, <2>3, <2>4 DEF Remembered, ingest, HasRead, Stored
<1>6. CASE Invalid \/ Duplicate
  <2>1. /\ HasLine /\ clock' = [clock EXCEPT ![Proc] = Later(event.ts, Proc)]
        /\ UNCHANGED <<rules, ticked, pc, todo, lines, log, runs>> /\ pos' = pos + 1
        /\ lines[pos + 1].valid => Stored(lines[pos + 1].id) # {}
    BY <1>6 DEF Invalid, Duplicate, Reached, Near, HasTs, OnSkip, ReadOn, db, Parses, IsDuplicate,
                event
  <2>2. /\ clock'[Proc] \in Nat /\ ticked <= clock'[Proc]
        /\ clock' = [w \in Workers |-> clock'[w]]
    BY <1>1, <1>2, <1>3, <2>1
  <2>3. \A k \in 1..Len(lines) : HasRead(k)' /\ lines[k].valid => Stored(lines[k].id) # {}
    BY <1>1, <2>1 DEF HasRead
  <2>4. Passed' => Idle(Proc)'
    BY <1>1, <2>1 DEF Passed, LastTs, Idle
  <2> QED
    BY <1>1, <2>1, <2>2, <2>3, <2>4 DEF Remembered, Stored
<1>7. CASE Late \/ Accept
  <2>1. ~Passed
    BY <1>7, NothingTriggers
  <2>2. /\ HasLine /\ Reached /\ clock' = [clock EXCEPT ![Proc] = Later(event.ts, Proc)]
        /\ UNCHANGED <<rules, ticked, pc, lines, runs>> /\ pos' = pos + 1
        /\ log' = Append(log, event)
        /\ todo' = [w \in Workers |-> todo'[w]]
    BY <1>1, <1>7 DEF Late, Accept, Reached, Near, HasTs, OnSkip, OnEvent, Trigger, Project, ReadOn, db
  <2>3. /\ clock'[Proc] \in Nat /\ ticked <= clock'[Proc]
        /\ clock' = [w \in Workers |-> clock'[w]]
    BY <1>1, <1>2, <1>3, <2>2
  <2>4. \A k \in 1..Len(lines) : HasRead(k)' /\ lines[k].valid => Stored(lines[k].id)' # {}
    <3> SUFFICES ASSUME NEW k \in 1..Len(lines), HasRead(k)', lines[k].valid
                 PROVE  Stored(lines[k].id)' # {}
      OBVIOUS
    <3>1. HasRead(k) \/ k = pos + 1
      BY <1>1, <2>2 DEF HasRead
    <3>2. log' # log
      <4>1. Len(log') = Len(log) + 1 /\ Len(log) \in Nat
        BY <2>2, EventIsLogged, <1>1 DEF Projected
      <4> QED
        BY <4>1
    <3>3. CASE HasRead(k)
      BY <1>1, <2>2, <3>3, StoredGrows
    <3>4. CASE k = pos + 1
      BY <1>2, <2>2, <3>2, <3>4, StoredGrows
    <3> QED
      BY <3>1, <3>3, <3>4
  <2>5. ~Passed'
    BY <2>1, <2>2 DEF Passed, LastTs
  <2> QED
    BY <1>1, <2>2, <2>3, <2>4, <2>5 DEF Remembered
<1>8. CASE EvaluateRule
  <2>1. ~Passed
    BY <1>8, NothingTriggers
  <2>2. UNCHANGED <<rules, ticked, clock, ingest>>
    BY <1>8 DEF EvaluateRule, Begin, Decide, Discard, Commit, Send, db
  <2>3. todo' = [w \in Workers |-> todo'[w]] /\ pc' = [w \in Workers |-> pc'[w]]
    BY <1>1, <1>8 DEF EvaluateRule, Begin, Decide, Discard, Commit, Send, db, Goto
  <2>4. ~Passed'
    BY <2>1, <2>2 DEF Passed, LastTs, ingest
  <2> QED
    BY <1>1, <2>2, <2>3, <2>4 DEF Remembered, ingest, HasRead, Stored
<1>9. ASSUME Die(Proc), UNCHANGED lines
      PROVE  /\ clock'[Proc] \in Nat /\ ticked' <= clock'[Proc] /\ Idle(Proc)'
             /\ clock' = [w \in Workers |-> clock'[w]]
             /\ todo' = [w \in Workers |-> todo'[w]]
             /\ pc' = [w \in Workers |-> pc'[w]]
             /\ UNCHANGED <<rules, ticked>>
  <2>1. PICK first \in FileStarts :
          clock' = [clock EXCEPT ![Proc] = IF first >= ticked THEN first ELSE ticked]
    BY <1>9 DEF Die
  <2>2. /\ todo' = [todo EXCEPT ![Proc] = {}] /\ pc' = [pc EXCEPT ![Proc] = "ready"]
        /\ UNCHANGED <<rules, ticked>>
    BY <1>9 DEF Die, Goto, db
  <2>3. first \in Nat
    BY <1>1
  <2> QED
    <3>1. clock'[Proc] = IF first >= ticked THEN first ELSE ticked
      BY <1>1, <2>1
    <3>2. clock'[Proc] \in Nat /\ ticked <= clock'[Proc]
      BY <1>1, <2>3, <3>1
    <3>3. clock' = [w \in Workers |-> clock'[w]]
      BY <1>1, <2>1
    <3>4. /\ todo' = [w \in Workers |-> todo'[w]] /\ pc' = [w \in Workers |-> pc'[w]]
          /\ todo'[Proc] = {} /\ pc'[Proc] = "ready"
      BY <1>1, <2>2
    <3> QED
      BY <2>2, <3>2, <3>3, <3>4 DEF Idle
<1>10. CASE Finished
  <2>1. /\ pos = Len(lines) /\ UNCHANGED <<lines, log>> /\ Idle(Proc)
        /\ EndRun(Proc, lines[1].ts) \/ Die(Proc)
    BY <1>10 DEF Finished, Restart, Save
  <2>2. \A k \in 1..Len(lines) : lines[k].valid => Stored(lines[k].id) # {}
    BY <1>1, <2>1 DEF HasRead
  <2>3. CASE EndRun(Proc, lines[1].ts)
    <3>1. /\ ticked' = clock[Proc] /\ UNCHANGED <<rules, todo, pc>>
          /\ clock' = [clock EXCEPT ![Proc] = Later(lines[1].ts, Proc)]
      BY <2>3 DEF EndRun
    <3>2. lines[1].ts \in Nat
      BY FilesAreSequences, <1>1 DEF Reading
    <3>3. Later(lines[1].ts, Proc) \in Nat /\ clock[Proc] <= Later(lines[1].ts, Proc)
      BY <1>1, <3>2 DEF Later
    <3>4. /\ clock'[Proc] \in Nat /\ ticked' <= clock'[Proc] /\ Idle(Proc)' /\ ticked' \in Nat
          /\ clock' = [w \in Workers |-> clock'[w]]
      BY <1>1, <2>1, <3>1, <3>3 DEF Idle
    <3> QED
      BY <1>1, <2>1, <2>2, <3>1, <3>4 DEF Remembered, Stored
  <2>4. CASE Die(Proc)
    BY <1>1, <1>9, <2>1, <2>2, <2>4 DEF Remembered, Stored
  <2> QED
    BY <2>1, <2>3, <2>4
<1>11. CASE Killed
  <2>1. Die(Proc) /\ MayCrash /\ pos' = 0 /\ UNCHANGED <<lines, log>>
    BY <1>11 DEF Killed, Crash, Restart
  <2>2. \A k \in 1..Len(lines) : HasRead(k)' => HasRead(k)
    BY <1>9, <2>1 DEF HasRead
  <2> QED
    BY <1>1, <1>9, <2>1, <2>2 DEF Remembered, Stored
<1>12. CASE Disabling
  <2>1. PICK r \in Unwanted : DisableRule(r)
    BY <1>12 DEF Disabling
  <2>2. /\ rules' = [rules EXCEPT ![r] = "disabled"]
        /\ UNCHANGED <<ticked, clock, todo, pc, ingest>>
    BY <1>12, <2>1 DEF Disabling, DisableRule
  <2>3. rules' = [x \in Rules |-> rules'[x]]
    BY <1>1, <2>2
  <2> QED
    BY <1>1, <2>2, <2>3 DEF Remembered, ingest, HasRead, Stored, Passed, LastTs, Idle
<1>13. ~Abort
  BY <1>1, NoAbort
<1> QED
  BY <1>4, <1>5, <1>6, <1>7, <1>8, <1>10, <1>11, <1>12, <1>13 DEF RNext

LEMMA RemembersHold ==
  ASSUME Stamped, ~MayCrash \/ AfterOrigin
  PROVE  RSpec => []Remembered
<1>1. RInit => Remembered
  <2> SUFFICES ASSUME RInit PROVE Remembered
    OBVIOUS
  <2>1. /\ Reading /\ pos = 0 /\ runs = 0 /\ rules = [r \in Rules |-> "enabled"]
        /\ ticked = 0 /\ clock = [w \in Workers |-> 0] /\ todo = [w \in Workers |-> {}]
        /\ pc = [w \in Workers |-> "ready"] /\ Proc \in Workers
    BY InitReading, ReplayAssumption DEF RInit, Init
  <2>2. \A k \in 1..Len(lines) : ~HasRead(k)
    BY <2>1 DEF HasRead
  <2>3. clock[Proc] \in Nat /\ ticked <= clock[Proc] /\ ~Passed
    BY <2>1 DEF Passed
  <2> QED
    BY <2>1, <2>2, <2>3 DEF Remembered
<1>2. Projected /\ Remembered /\ [RNext]_allvars => Remembered'
  BY StepRemembered
<1> QED
  BY <1>1, <1>2, ProjectedHolds, PTL DEF RSpec

\* Replaying a file that has been replayed changes no episode, notifies nobody
\* and projects nothing, however often, with passes that evaluate or not, while
\* rules are disabled, and after a kill if the file ends after the origin.
THEOREM RerunsAreQuiet ==
  Stamped /\ (~MayCrash \/ AfterOrigin) => (RSpec => RerunIsQuiet)
<1> SUFFICES ASSUME Stamped, ~MayCrash \/ AfterOrigin PROVE RSpec => RerunIsQuiet
  OBVIOUS
<1> DEFINE Quiet ==
      runs > 0 /\ ticked >= LastTs
        => /\ UNCHANGED <<notifications, states>>
           /\ \A i \in EpisodeIds :
                episodes'[i] # episodes[i] =>
                  episodes[i] # None /\ rules'[episodes[i].pair[1]] = "disabled"
<1>1. Remembered /\ [RNext]_allvars => [Quiet]_allvars
  <2> SUFFICES ASSUME Remembered, [RNext]_allvars, Passed PROVE Quiet
    BY DEF Passed
  <2>1. ~Walk /\ ~Late /\ ~Accept /\ ~EvaluateRule
    BY NothingTriggers
  <2>2. CASE Invalid \/ Duplicate \/ Finished \/ Abort \/ Killed \/ UNCHANGED allvars
    <3>1. UNCHANGED <<notifications, states, episodes>>
      BY <2>2 DEF Invalid, Duplicate, Finished, Abort, Killed, allvars, vars, ingest, OnSkip,
                  Save, EndRun, Die, Crash, Restart, db
    <3> QED
      BY <3>1
  <2>3. CASE Disabling
    <3>1. PICK r \in Rules : DisableRule(r) /\ UNCHANGED ingest
      BY <2>3, ReplayAssumption DEF Disabling
    <3>2. /\ rules' = [rules EXCEPT ![r] = "disabled"]
          /\ episodes' = [i \in EpisodeIds |-> CloseSilently(episodes[i], r)]
          /\ UNCHANGED <<notifications, states>>
      BY <3>1 DEF DisableRule, ingest
    <3>3. rules'[r] = "disabled"
      BY <3>2 DEF Remembered
    <3>4. ASSUME NEW i \in EpisodeIds, episodes'[i] # episodes[i]
          PROVE  episodes[i] # None /\ episodes[i].pair[1] = r
      BY <3>2, <3>4 DEF CloseSilently, IsActive
    <3> QED
      BY <3>2, <3>3, <3>4
  <2> QED
    BY <2>1, <2>2, <2>3 DEF RNext
<1>2. RSpec => []Remembered
  BY RemembersHold
<1> QED
  BY <1>1, <1>2, PTL DEF RSpec, RerunIsQuiet

=============================================================================
