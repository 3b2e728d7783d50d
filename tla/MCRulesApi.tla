---------------------------- MODULE MCRulesApi ----------------------------
(* Clients, bodies and modes of RulesApi for TLC.                          *)
EXTENDS RulesApi, TLC

Author == [kind |-> "author", target |-> ""]
SubjectAgent == [kind |-> "subject_agent", target |-> ""]
Channel == [kind |-> "channel", target |-> "floor"]
NoChannel == [kind |-> "channel", target |-> ""]

\* A name without conversion or format spec takes a value of any type.
Naming(names) ==
  [parses |-> TRUE, placeholders |-> {Placeholder(n, ValueTypes) : n \in names},
   nested |-> {}]
Template == Naming({"subject_id"})
Unparsed == [parses |-> FALSE, placeholders |-> {}, nested |-> {}]

\* {longest_wait_sec:d} is for numbers, {subject_id:{unit}} needs a unit, and
\* {subject_id:d} is for no string.
ForNumbers == [Naming({}) EXCEPT !.placeholders = {Placeholder("longest_wait_sec", {"number"})}]
Misfit == [parses |-> TRUE, nested |-> {"unit"},
           placeholders |-> {Placeholder("subject_id", {"number", "bool"})}]

Body(type, conditions, recipient, template) ==
  [shape |-> TRUE, enabled |-> TRUE, subject_type |-> type, conditions |-> conditions,
   recipient |-> recipient, template |-> template]

\* Operands of each kind, right and wrong.
Values == {OfType("str"), OfType("bool"), ListOf({"str", "number"}),
           Ref("current_state_duration_sec"), Ref("unheard_of")}
Conditions ==
  {Condition(f, op, v) : f \in {"current_state", "longest_wait_sec"},
                         op \in {"gt", "in_"}, v \in Values}

Simple == {Body(type, {c}, Author, Template) : type \in {"agent", "queue"},
                                               c \in Conditions}
OnCall == Condition("current_state", "eq", OfType("str"))
Breach == Condition("longest_wait_sec", "gt", Ref("sla_target_sec"))

\* Recipients and templates of each kind.
Routed ==
  {Body("agent", {OnCall}, SubjectAgent, t) :
     t \in {Unparsed, Naming({"sla_target_sec"})}}
  \cup
  {Body("queue", {Breach}, to, ForNumbers) :
     to \in {SubjectAgent, Channel, NoChannel}}
  \cup
  {[Body("agent", {OnCall}, SubjectAgent, Misfit)
      EXCEPT !.enabled = FALSE],
   [Body("agent", {OnCall}, Author, Template) EXCEPT !.shape = FALSE],
   Body("agent", {}, Author, Template)}

AllBodies == Simple \cup Routed
OneSeed == {Body("queue", {Breach}, Channel, ForNumbers)}
SomeBodies == OneSeed \cup {Body("agent", {OnCall}, Author, Template)}

OneMode == {{"overlap"}, {"failures"}, {"inside"}}
Overlap == {{"overlap"}}
=============================================================================
