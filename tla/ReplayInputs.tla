---------------------------- MODULE ReplayInputs ----------------------------
(***************************************************************************)
(* Which files, rules and passes a replay may be given: the hypotheses of  *)
(* the theorems about it, each of them about the constants only.           *)
(***************************************************************************)
EXTENDS Replay

-----------------------------------------------------------------------------
(* The passes.                                                             *)

\* No pass runs with no_eval; a line that ends the run early is a crash.
Evaluated == Passes = {TRUE} /\ ~InOrder

\* Every pass starts at the origin or where an evaluating one has ended: no
\* process starts at the first timestamp of a file it has read part of.
SameStart == FileStarts = {0} \/ (~MayCrash /\ Passes = {TRUE})

-----------------------------------------------------------------------------
(* The files.                                                              *)

\* Every line has a timestamp, in UTC.
Stamped == \A f \in Files : \A i \in DOMAIN f : f[i].ts # None /\ f[i].utc

\* A saved progress of 0 is no progress: after a kill it does not tell a file
\* that was replayed from one that was not, unless the file's last event is
\* after the origin.
AfterOrigin == \A f \in Files : \E i \in DOMAIN f : f[i].ts # 0

News(f, j) == f[j].valid /\ \A i \in 1..(j - 1) : f[i].valid => f[i].id # f[j].id

\* Events come in time: a line that is behind an earlier one repeats an event or
\* is behind its own subject, so that it is refused.  A file sorted by ts across
\* its subjects is one.
InTime ==
  \A f \in Files : \A j \in DOMAIN f :
    f[j].valid /\ (\E i \in 1..(j - 1) : f[i].ts > f[j].ts) =>
      \/ ~News(f, j)
      \/ \E i \in 1..(j - 1) :
           News(f, i) /\ f[i].subject = f[j].subject /\ f[i].ts > f[j].ts

\* An event that parses is of one of three types; an adherence check has a
\* verdict, and it may have a time since when.
Parsed ==
  \A f \in Files : \A i \in DOMAIN f :
    f[i].valid =>
      /\ f[i].type \in {"queue_snapshot", "agent_state_change", "adherence_check"}
      /\ f[i].type = "adherence_check" =>
           f[i].in_violation \in BOOLEAN /\ f[i].violation_started_at \in Opt(Int)

-----------------------------------------------------------------------------
(* The rules.                                                              *)

FactNames(type) ==
  IF type = "agent"
  THEN {"current_state", "current_state_duration_sec", "in_adherence_violation",
        "adherence_violation_duration_sec"}
  ELSE {"tickets_waiting", "longest_wait_sec", "sla_target_sec", "agents_available",
        "snapshot_age_sec", "sla_risk_pct"}

\* The conditions read facts that are registered for the rule's subjects, as the
\* rule validator insists.
Registered ==
  \A r \in Rules : \A c \in Conditions[r] :
    c.fact \in FactNames(SubjectType[r]) /\ c.ref \in Opt(FactNames(SubjectType[r]))

\* A rule that compares something with a time-derived fact also has one on a
\* left-hand side: on those alone the scheduler decides whether time matters.
TimedOnTheLeft ==
  \A r \in Rules : (\E c \in Conditions[r] : c.ref \in TimeDerived) => r \in TimeSensitive

\* A duration is compared with a number it grows past, and with nothing else.
Thresholds ==
  \A r \in Rules : \A c \in Conditions[r] :
    /\ c.fact \in TimeDerived => c.ref = None /\ c.op \in {"gt", "gte"} /\ c.value \in Int
    /\ c.ref \notin TimeDerived

=============================================================================
