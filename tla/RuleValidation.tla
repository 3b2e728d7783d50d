--------------------------- MODULE RuleValidation ---------------------------
(***************************************************************************)
(* The validator of a rule (app/domain/rules.py) and what a rule meets     *)
(* when it runs: extraction and comparison of facts, its recipient, its    *)
(* template (app/evaluation, app/routing).  A value is its type here, and  *)
(* what is known of a subject is the set of facts that are not missing.    *)
(***************************************************************************)

ValueTypes == {"str", "number", "bool"}
Ordering == {"gt", "gte", "lt", "lte"}
Operators == Ordering \cup {"eq", "neq", "in_"}

AgentFactTypes ==
  [current_state |-> "str", current_state_duration_sec |-> "number",
   in_adherence_violation |-> "bool", adherence_violation_duration_sec |-> "number"]

QueueFactTypes ==
  [tickets_waiting |-> "number", longest_wait_sec |-> "number",
   sla_target_sec |-> "number", agents_available |-> "number",
   agents_on_call |-> "number", volume_last_15m |-> "number",
   volume_forecast_next_15m |-> "number", snapshot_age_sec |-> "number",
   sla_risk_pct |-> "number"]

FactTypes(type) == IF type = "agent" THEN AgentFactTypes ELSE QueueFactTypes
Names(type) == DOMAIN FactTypes(type)

(* The right-hand side of a condition: another fact, a literal of some     *)
(* type, or a list of literals.                                            *)
Ref(fact) == [kind |-> "ref", fact |-> fact]
OfType(type) == [kind |-> "literal", type |-> type]
ListOf(types) == [kind |-> "list", types |-> types]

Condition(fact, op, value) == [fact |-> fact, op |-> op, value |-> value]

(* A placeholder of a template: its name, and the types all of whose       *)
(* values its conversion and format spec accept.  The names that stand     *)
(* inside format specs are the template's nested.                          *)
Placeholder(name, accepts) == [name |-> name, accepts |-> accepts]

(* The facts a rule reads, and so may name in its template.                *)
Refs(body) == {c.value.fact : c \in {d \in body.conditions : d.value.kind = "ref"}}
Declared(body) == {c.fact : c \in body.conditions} \cup Refs(body)

-----------------------------------------------------------------------------
(* Rule._validate_against_registry().  shape stands for the field types    *)
(* and bounds that pydantic checks before it.                              *)

\* Mutant of RefFits: any registered fact will do.
RefFitsUntyped(body, c) == c.op # "in_" /\ c.value.fact \in Names(body.subject_type)

RefFits(body, c) ==
  LET types == FactTypes(body.subject_type)
  IN  /\ c.op # "in_"
      /\ c.value.fact \in DOMAIN types
      /\ types[c.value.fact] = types[c.fact]

LiteralFits(body, c) ==
  LET type == FactTypes(body.subject_type)[c.fact]
  IN  IF c.op = "in_" THEN c.value.kind = "list" /\ c.value.types \subseteq {type}
                      ELSE c.value = OfType(type)

ConditionFits(body, c) ==
  /\ c.fact \in Names(body.subject_type)
  /\ IF c.value.kind = "ref" THEN RefFits(body, c) ELSE LiteralFits(body, c)

RecipientFits(body) ==
  /\ body.recipient.kind = "subject_agent" => body.subject_type = "agent"
  /\ body.recipient.kind = "channel" => body.recipient.target # ""

(* _validate_template(): the parser hands it the names of the placeholders *)
(* and it drops their conversions and format specs, with the names in them.*)
TemplateFits(body) ==
  /\ body.template.parses
  /\ \A p \in body.template.placeholders : p.name \in Declared(body) \cup {"subject_id"}

RecipientKinds == {"author", "subject_agent", "channel"}

Valid(body) ==
  /\ body.shape /\ body.conditions # {}
  /\ body.recipient.kind \in RecipientKinds
  /\ \A c \in body.conditions : ConditionFits(body, c)
  /\ RecipientFits(body)
  /\ TemplateFits(body)

-----------------------------------------------------------------------------
(* A rule at run time, with the facts in known computable.                 *)

OperandKnown(c, known) == c.value.kind = "ref" => c.value.fact \in known
Computes(c, known) == c.fact \in known /\ OperandKnown(c, known)

(* Extraction finds both facts in the registry; Python orders values of    *)
(* one type only, and in asks for a list.                                  *)
Compares(body, c, known) ==
  LET types == FactTypes(body.subject_type)
      right == IF c.value.kind = "ref" THEN OfType(types[c.value.fact]) ELSE c.value
  IN  /\ c.fact \in DOMAIN types
      /\ c.value.kind = "ref" => c.value.fact \in DOMAIN types
      /\ Computes(c, known) =>
           /\ c.op \in Ordering => right = OfType(types[c.fact])
           /\ c.op = "in_" => right.kind = "list"

Evaluates(body, known) == \A c \in body.conditions : Compares(body, c, known)

(* Only a finding with no missing fact can notify.                         *)
MayNotify(body, known) == \A c \in body.conditions : Computes(c, known)

(* What str.format() does with the values render() gives it: the subject's *)
(* id, and the facts of the snapshot, none of which stands for "unknown".  *)
Given(body, known) == (Declared(body) \cap known) \cup {"subject_id"}

TypeOf(body, name) ==
  IF name = "subject_id" THEN "str" ELSE FactTypes(body.subject_type)[name]

\* Every placeholder has a value.
Filled(body, known) ==
  /\ body.template.parses
  /\ \A p \in body.template.placeholders : p.name \in Given(body, known)

\* Every format spec can be read, and is for the type of its value.
SpecsFit(body, known) ==
  /\ body.template.nested \subseteq Given(body, known)
  /\ \A p \in body.template.placeholders : TypeOf(body, p.name) \in p.accepts

Renders(body, known) == Filled(body, known) /\ SpecsFit(body, known)

(* resolve_recipient(): the author, the agent itself, or the named channel.*)
Resolves(body) ==
  \/ body.recipient.kind = "author"
  \/ body.recipient.kind = "subject_agent" /\ body.subject_type = "agent"
  \/ body.recipient.kind = "channel" /\ body.recipient.target # ""

RunsOn(body, known) ==
  /\ Evaluates(body, known)
  /\ MayNotify(body, known) => Renders(body, known) /\ Resolves(body)

\* Whatever is known of a subject, the rule runs without raising.
NeverRaises(body) == \A known \in SUBSET Declared(body) : RunsOn(body, known)

\* Whatever is known of a subject, the rule can raise only over a format spec:
\* its conditions compare, its placeholders have values, its recipient is there.
RaisesInSpecsOnly(body) ==
  \A known \in SUBSET Declared(body) :
    /\ Evaluates(body, known)
    /\ MayNotify(body, known) => Filled(body, known) /\ Resolves(body)

=============================================================================
