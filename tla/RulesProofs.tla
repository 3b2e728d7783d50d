----------------------------- MODULE RulesProofs -----------------------------
(* What holds of the rules a client may store, for any set of clients,     *)
(* rules and subjects, and of requests that overlap and fail as they will. *)
EXTENDS RulesApi, TLAPS

-----------------------------------------------------------------------------
\* A condition the validator lets pass compares values of one type, or asks
\* for membership in a list, and reads facts the registry has.
LEMMA FitsCompares ==
  ASSUME NEW body, NEW c, NEW known, ConditionFits(body, c)
  PROVE  Compares(body, c, known)
<1> DEFINE types == FactTypes(body.subject_type)
<1>1. c.fact \in DOMAIN types
  BY DEF ConditionFits, Names
<1>2. CASE c.value.kind = "ref"
  <2>1. c.op # "in_" /\ c.value.fact \in DOMAIN types /\ types[c.value.fact] = types[c.fact]
    BY <1>2 DEF ConditionFits, RefFits
  <2> QED
    BY <1>1, <1>2, <2>1 DEF Compares
<1>3. CASE c.value.kind # "ref"
  <2>1. LiteralFits(body, c)
    BY <1>3 DEF ConditionFits
  <2>2. c.op = "in_" => c.value.kind = "list"
    BY <2>1 DEF LiteralFits
  <2>3. c.op \in Ordering => c.value = OfType(types[c.fact])
    BY <2>1 DEF LiteralFits, Ordering
  <2> QED
    BY <1>1, <1>3, <2>2, <2>3 DEF Compares
<1> QED
  BY <1>2, <1>3

\* When nothing a rule reads is missing, all it may name is known.
LEMMA NotifiesKnown ==
  ASSUME NEW body, NEW known, MayNotify(body, known)
  PROVE  Declared(body) \subseteq known
<1>1. \A c \in body.conditions : c.fact \in known
  BY DEF MayNotify, Computes
<1>2. Refs(body) \subseteq known
  BY DEF MayNotify, Computes, OperandKnown, Refs
<1> QED
  BY <1>1, <1>2 DEF Declared

\* A rule that passes the validator can raise over the format specs of its
\* template only, when it is evaluated, rendered or routed; and not at all if
\* these fit whenever it may notify.
THEOREM ValidRaisesInSpecsOnly ==
  ASSUME NEW body, Valid(body)
  PROVE  /\ RaisesInSpecsOnly(body)
         /\ (\A known \in SUBSET Declared(body) : MayNotify(body, known) => SpecsFit(body, known))
              => NeverRaises(body)
<1>1. ASSUME NEW known PROVE Evaluates(body, known)
  BY FitsCompares DEF Valid, Evaluates
<1>2. ASSUME NEW known, MayNotify(body, known) PROVE Filled(body, known)
  BY <1>2, NotifiesKnown DEF Valid, TemplateFits, Filled, Given
<1>3. Resolves(body)
  BY DEF Valid, RecipientKinds, RecipientFits, Resolves
<1> QED
  BY <1>1, <1>2, <1>3 DEF RaisesInSpecsOnly, NeverRaises, RunsOn, Renders

-----------------------------------------------------------------------------
\* Writing a valid rule into tables, or taking episodes out of them.
Keeps(new, old) == \A id \in RuleIds : old.rules[id] # None => new.rules[id] # None

LEMMA PutRule ==
  ASSUME NEW tables, TablesOK(tables), NEW id \in RuleIds, NEW record \in Records
  PROVE  /\ TablesOK([tables EXCEPT !.rules[id] = record])
         /\ Keeps([tables EXCEPT !.rules[id] = record], tables)
  BY NoneIsNoRecord DEF TablesOK, Tables, Pairs, Keeps

LEMMA TakeEpisode ==
  ASSUME NEW tables, TablesOK(tables), NEW p
  PROVE  /\ TablesOK([tables EXCEPT !.active = @ \ {p}])
         /\ Keeps([tables EXCEPT !.active = @ \ {p}], tables)
  BY DEF TablesOK, Tables, Pairs, Keeps

LEMMA KeepsTwice ==
  ASSUME NEW a, NEW b, NEW c, Keeps(a, b), Keeps(b, c)
  PROVE  Keeps(a, c)
  BY DEF Keeps

LEMMA DisabledIsRecord ==
  ASSUME NEW record \in Records
  PROVE  Disabled(record) \in Records
<1> DEFINE Accepted == {body \in Bodies : Valid(body)}
<1>1. Records = [body : Accepted, enabled : BOOLEAN, version : Nat]
  BY DEF Records
<1> HIDE DEF Accepted
<1> QED
  BY <1>1 DEF Disabled

\* A handler on its way to a step that needs no record of its own.
LEMMA MovesOn ==
  ASSUME NEW h, HandlerOK(h), h.pc \in Working,
         NEW pc \in {"list", "close", "commit"}, NEW rows \in SUBSET Pairs
  PROVE  HandlerOK([h EXCEPT !.pc = pc, !.rows = rows])
  BY DEF HandlerOK, Handlers, Working

LEMMA ApiInit == AInit => ApiTypeOK
<1> SUFFICES ASSUME AInit PROVE ApiTypeOK
  OBVIOUS
<1>1. PICK seeded \in SUBSET RuleIds, body \in Seeds :
        disk = [rules |-> [id \in RuleIds |->
                             IF id \in seeded
                             THEN [body |-> body, enabled |-> TRUE, version |-> 1] ELSE None],
                active |-> {}]
  BY DEF AInit
<1>2. [body |-> body, enabled |-> TRUE, version |-> 1] \in Records
  BY BodiesAssumption DEF Records
<1>3. TablesOK(disk)
  BY <1>1, <1>2 DEF TablesOK, Tables
<1>4. \A r \in Requests : HandlerOK(request[r]) /\ request[r] \in Handlers
  BY DEF AInit, HandlerOK, Handler, Handlers, Working
<1> QED
  BY <1>3, <1>4 DEF AInit, ApiTypeOK

LEMMA ApiStep == ApiTypeOK /\ [ANext]_avars => ApiTypeOK'
<1> SUFFICES ASSUME ApiTypeOK, [ANext]_avars PROVE ApiTypeOK'
  OBVIOUS
<1>0. /\ TablesOK(disk) /\ TablesOK(view) /\ begun \in BOOLEAN /\ (begun = FALSE => view = disk)
      /\ request \in [Requests -> Handlers] /\ \A r \in Requests : HandlerOK(request[r])
      /\ Keeps(view, disk) /\ Keeps(disk, disk) /\ Keeps(view, view)
      /\ evaluation \in Pairs \cup {None}
      /\ evaluation # None => evaluation[1] \in RuleIds /\ disk.rules[evaluation[1]] # None
  BY DEF ApiTypeOK, Keeps, Pairs
<1>1. ASSUME NEW r \in Requests, NEW h, HandlerOK(h),
             request' = [request EXCEPT ![r] = h],
             TablesOK(disk)', TablesOK(view)', begun' \in BOOLEAN, begun' = FALSE => view' = disk',
             Keeps(view', disk'), Keeps(disk', disk), evaluation' = evaluation
      PROVE  ApiTypeOK'
  <2>1. request' \in [Requests -> Handlers] /\ \A s \in Requests : HandlerOK(request'[s])
    BY <1>0, <1>1 DEF HandlerOK
  <2> QED
    BY <1>0, <1>1, <2>1 DEF ApiTypeOK, Keeps
<1>2. ASSUME NEW r \in Requests, request[r].pc \in Working,
             NEW pc \in {"list", "close", "commit"}, NEW rows \in SUBSET Pairs, GoTo(r, pc, rows),
             TablesOK(disk)', TablesOK(view)', begun' \in BOOLEAN, begun' = FALSE => view' = disk',
             Keeps(view', disk'), Keeps(disk', disk), evaluation' = evaluation
       PROVE  ApiTypeOK'
  <2>1. HandlerOK([request[r] EXCEPT !.pc = pc, !.rows = rows])
    BY <1>0, <1>2, MovesOn
  <2> QED
    BY <1>0, <1>1, <1>2, <2>1 DEF GoTo
<1> USE DEF HandlerOK, Handlers, Handler, Nothing, Working, Answers
<1>3. ASSUME NEW r \in Requests, ReceiveCreate(r) PROVE ApiTypeOK'
  <2>1. PICK body \in Bodies, id \in RuleIds :
          request' = [request EXCEPT ![r] =
            IF Valid(body)
            THEN Handler("insert", "create", id,
                         [body |-> body, enabled |-> body.enabled, version |-> 1], {})
            ELSE Nothing("422")]
    BY <1>3 DEF ReceiveCreate
  <2>2. Valid(body) => [body |-> body, enabled |-> body.enabled, version |-> 1] \in Records
    BY BodiesAssumption DEF Records
  <2> QED
    BY <1>0, <1>1, <1>3, <2>1, <2>2 DEF ReceiveCreate
<1>4. ASSUME NEW r \in Requests, ReceiveDisable(r) PROVE ApiTypeOK'
  <2>1. PICK id \in RuleIds :
          request' = [request EXCEPT ![r] =
            IF view.rules[id] = None THEN Nothing("404")
            ELSE Handler("update", "disable", id, view.rules[id], {})]
    BY <1>4 DEF ReceiveDisable
  <2>2. view.rules[id] \in Records \cup {None}
    BY <1>0 DEF TablesOK, Tables
  <2> QED
    BY <1>0, <1>1, <1>4, <2>1, <2>2 DEF ReceiveDisable
<1>5. ASSUME NEW r \in Requests, Insert(r) PROVE ApiTypeOK'
  <2>1. /\ TablesOK([view EXCEPT !.rules[request[r].id] = request[r].record])
        /\ Keeps([view EXCEPT !.rules[request[r].id] = request[r].record], disk)
    BY <1>0, <1>5, PutRule, KeepsTwice DEF Insert, At
  <2> QED
    BY <1>0, <1>2, <1>5, <2>1 DEF Insert, At, Execute
<1>6. ASSUME NEW r \in Requests, Update(r) PROVE ApiTypeOK'
  <2>1. /\ TablesOK([view EXCEPT !.rules[request[r].id] = Disabled(request[r].record)])
        /\ Keeps([view EXCEPT !.rules[request[r].id] = Disabled(request[r].record)], disk)
    BY <1>0, <1>6, PutRule, KeepsTwice, DisabledIsRecord DEF Update, At
  <2> QED
    BY <1>0, <1>2, <1>6, <2>1 DEF Update, At, Execute
<1>7. ASSUME NEW r \in Requests, ListActive(r) PROVE ApiTypeOK'
  <2>1. Of(view, request[r].id) \subseteq Pairs
    BY <1>0 DEF Of, TablesOK, Tables
  <2> QED
    BY <1>0, <1>2, <1>7, <2>1 DEF ListActive, At
<1>8. ASSUME NEW r \in Requests, CloseOne(r) PROVE ApiTypeOK'
  <2>1. PICK p \in request[r].rows :
          /\ Execute([view EXCEPT !.active = @ \ {p}])
          /\ GoTo(r, "close", request[r].rows \ {p})
    BY <1>8 DEF CloseOne
  <2>2. /\ TablesOK([view EXCEPT !.active = @ \ {p}])
        /\ Keeps([view EXCEPT !.active = @ \ {p}], disk)
    BY <1>0, TakeEpisode, KeepsTwice
  <2>3. request[r].rows \ {p} \in SUBSET Pairs
    BY <1>0
  <2> QED
    BY <1>0, <1>2, <1>8, <2>1, <2>2, <2>3 DEF CloseOne, At, Execute
<1>9. ASSUME NEW r \in Requests, CloseNoMore(r) PROVE ApiTypeOK'
  BY <1>0, <1>2, <1>9 DEF CloseNoMore, At
<1>10. ASSUME NEW r \in Requests, CommitWrites(r) PROVE ApiTypeOK'
  BY <1>0, <1>1, <1>10 DEF CommitWrites, Commit, Answer, At
<1>11. ASSUME NEW r \in Requests, Fail(r) PROVE ApiTypeOK'
  BY <1>0, <1>1, <1>11 DEF Fail, Rollback
<1>12. CASE Crash
  <2>1. request' \in [Requests -> Handlers] /\ \A s \in Requests : HandlerOK(request'[s])
    BY <1>0, <1>12 DEF Crash
  <2> QED
    BY <1>0, <1>12, <2>1 DEF Crash, ApiTypeOK
<1>13. CASE ReadRule
  <2>1. PICK p \in Pairs : disk.rules[p[1]] # None /\ evaluation' = p
    BY <1>13 DEF ReadRule
  <2>2. UNCHANGED <<mode, disk, view, begun, request>>
    BY <1>13 DEF ReadRule
  <2> QED
    BY <1>0, <2>1, <2>2 DEF ApiTypeOK, TablesOK, Keeps
<1>14. CASE WriteRow
  <2>1. PICK active \in {disk.active \cup {evaluation}, disk.active \ {evaluation}} :
          disk' = [disk EXCEPT !.active = active]
    BY <1>14 DEF WriteRow
  <2>2. disk'.rules = disk.rules /\ disk'.active = active /\ disk' \in Tables
    BY <1>0, <1>14, <2>1 DEF WriteRow, TablesOK, Tables
  <2>3. TablesOK(disk)'
    BY <1>0, <1>14, <2>1, <2>2 DEF WriteRow, TablesOK
  <2>4. TablesOK(view)' /\ UNCHANGED <<begun, request>> /\ view' = disk' /\ evaluation' = None
    BY <1>14, <2>3 DEF WriteRow, TablesOK
  <2> QED
    BY <1>0, <2>3, <2>4 DEF ApiTypeOK
<1>15. CASE WriteNothing
  BY <1>0, <1>15 DEF WriteNothing, ApiTypeOK, TablesOK, Keeps
<1>16. CASE UNCHANGED avars
  BY <1>0, <1>16 DEF avars, ApiTypeOK, TablesOK, Keeps
<1> QED
  BY <1>3, <1>4, <1>5, <1>6, <1>7, <1>8, <1>9, <1>10, <1>11, <1>12, <1>13, <1>14, <1>15, <1>16
  DEF ANext, Handle

\* Whatever requests overlap or fail, the tables hold valid rules only, and an
\* idle connection sees what is committed.
THEOREM ApiTypeCorrect == ASpec => []ApiTypeOK
<1>1. AInit => ApiTypeOK
  BY ApiInit
<1>2. ApiTypeOK /\ [ANext]_avars => ApiTypeOK'
  BY ApiStep
<1> QED
  BY <1>1, <1>2, PTL DEF ASpec

\* A rule on disk can raise over a format spec only, whatever is known of a
\* subject and whatever requests have overlapped or failed.
THEOREM StoredRaiseInSpecsOnly == ASpec => []StoredRulesRun
<1>1. ApiTypeOK => StoredRulesRun
  <2> SUFFICES ASSUME ApiTypeOK, NEW id \in RuleIds, disk.rules[id] # None
               PROVE  RaisesInSpecsOnly(disk.rules[id].body)
    BY DEF StoredRulesRun
  <2>1. disk.rules[id] \in Records
    BY DEF ApiTypeOK, TablesOK, Tables
  <2>2. Valid(disk.rules[id].body)
    BY <2>1 DEF Records
  <2> QED
    BY <2>2, ValidRaisesInSpecsOnly
<1> QED
  BY <1>1, ApiTypeCorrect, PTL

-----------------------------------------------------------------------------
\* While R12 keeps the API's writes out of an evaluation, the rule that is
\* evaluated stays enabled: nothing is written between the read and the write.
ServesR12 == "inside" \notin mode

Undisturbed ==
  ServesR12 /\ evaluation # None => ~begun /\ disk.rules[evaluation[1]].enabled

LEMMA UndisturbedHolds == ASpec => []Undisturbed
<1>1. AInit => Undisturbed
  BY DEF AInit, Undisturbed
<1>2. ApiTypeOK /\ Undisturbed /\ [ANext]_avars => Undisturbed'
  <2> SUFFICES ASSUME ApiTypeOK, Undisturbed, [ANext]_avars, ServesR12', evaluation' # None
               PROVE  ~begun' /\ disk'.rules[evaluation'[1]].enabled
    BY DEF Undisturbed
  <2>0. mode' = mode
    BY DEF ANext, Handle, ReceiveCreate, ReceiveDisable, Insert, Update, ListActive, CloseOne,
           CloseNoMore, CommitWrites, Commit, Execute, Fail, Crash, ReadRule, WriteRow,
           WriteNothing, avars
  <2>1. begun = FALSE => view = disk
    BY DEF ApiTypeOK
  <2>2. CASE UNCHANGED <<disk, begun, evaluation>>
    BY <2>0, <2>2 DEF Undisturbed, ServesR12
  <2>3. CASE ReadRule
    BY <2>0, <2>3 DEF ReadRule, ServesR12
  <2>4. CASE WriteRow \/ WriteNothing
    BY <2>4 DEF WriteRow, WriteNothing
  <2>5. ASSUME NEW r \in Requests, CommitWrites(r)
        PROVE  ~begun' /\ disk'.rules[evaluation'[1]].enabled
    <3>1. evaluation' = evaluation /\ begun' = FALSE /\ disk' = view
      BY <2>5 DEF CommitWrites, Commit
    <3>2. ~begun /\ disk.rules[evaluation[1]].enabled
      BY <2>0, <3>1 DEF Undisturbed, ServesR12
    <3>3. view = disk
      BY <2>1, <3>2 DEF ApiTypeOK
    <3> QED
      BY <3>1, <3>2, <3>3
  <2>6. ASSUME NEW r \in Requests, Insert(r) \/ Update(r) \/ CloseOne(r) PROVE FALSE
    <3>1. MayWrite /\ evaluation' = evaluation
      BY <2>6 DEF Insert, Update, CloseOne, Execute
    <3> QED
      BY <2>0, <3>1 DEF MayWrite, ServesR12
  <2>7. ASSUME NEW r \in Requests, Fail(r)
        PROVE  ~begun' /\ disk'.rules[evaluation'[1]].enabled
    BY <2>0, <2>7 DEF Fail, Rollback, Undisturbed, ServesR12
  <2>8. CASE Crash
    BY <2>0, <2>8 DEF Crash, Undisturbed, ServesR12
  <2>9. ASSUME NEW r \in Requests,
               ReceiveCreate(r) \/ ReceiveDisable(r) \/ ListActive(r) \/ CloseNoMore(r)
        PROVE  UNCHANGED <<disk, begun, evaluation>>
    BY <2>9 DEF ReceiveCreate, ReceiveDisable, ListActive, CloseNoMore
  <2> QED
    BY <2>2, <2>3, <2>4, <2>5, <2>6, <2>7, <2>8, <2>9 DEF ANext, Handle, avars
<1> QED
  BY <1>1, <1>2, ApiTypeCorrect, PTL DEF ASpec

-----------------------------------------------------------------------------
(* A transaction of the rules API is one unit of work, for any set of      *)
(* clients, rules and subjects and with failures and restarts at any       *)
(* statement, as long as requests do not overlap.                          *)


(* The connection in the middle of a disable that has rows yet to close.   *)
HalfDone(id, rows) ==
  view = [rules |-> [disk.rules EXCEPT ![id] = Disabled(@)],
          active |-> (disk.active \ Of(disk, id)) \cup rows]

(* The connection and the disk, by what the one request has yet to do.     *)
BeforeInsert(h) == view = disk /\ disk.rules[h.id] = None
BeforeUpdate(h) == view = disk /\ h.record = disk.rules[h.id]
Inserted(h) ==
  disk.rules[h.id] = None /\ view = [disk EXCEPT !.rules[h.id] = h.record]

InProgress(h) ==
  /\ h.pc = "insert" => h.op = "create" /\ BeforeInsert(h)
  /\ h.pc = "update" => h.op = "disable" /\ BeforeUpdate(h)
  /\ h.pc \in {"list", "close"} => h.op = "disable"
  /\ h.pc = "list" => HalfDone(h.id, Of(disk, h.id))
  /\ h.pc = "close" => h.rows \subseteq Of(disk, h.id) /\ HalfDone(h.id, h.rows)
  /\ h.pc = "commit" =>
       \/ h.op = "create" /\ h.record \in Records /\ Inserted(h)
       \/ h.op = "disable" /\ HalfDone(h.id, {})
  /\ h.pc \in {"list", "close", "commit"} => begun

OneAtATime == \A r, s \in Served : r = s

AloneInv ==
  "overlap" \notin mode =>
    /\ OneAtATime
    /\ Served = {} => ~begun
    /\ \A r \in Served : InProgress(request[r])
    /\ ServesR12 => DisabledIsClosed

-----------------------------------------------------------------------------
\* The type facts the steps rest on.
LEMMA ServedTypes ==
  ASSUME ApiTypeOK
  PROVE  /\ disk = [rules |-> disk.rules, active |-> disk.active]
         /\ disk.rules \in [RuleIds -> Records \cup {None}] /\ disk.active \subseteq Pairs
         /\ \A p \in disk.active : p[1] \in RuleIds /\ disk.rules[p[1]] \in Records
         /\ begun \in BOOLEAN /\ (begun = FALSE => view = disk)
         /\ \A r \in Requests : request[r] \in Handlers
         /\ \A r \in Served : r \in Requests /\ request[r].id \in RuleIds
         /\ \A r \in Requests : request[r].pc \in {"insert", "update"} =>
              request[r].record \in Records
  BY DEF ApiTypeOK, TablesOK, Tables, HandlerOK, Served, Pairs

\* Disabling a rule and closing its episodes is a unit of work, and leaves no
\* disabled rule with an active episode.
LEMMA DisableIsUnit ==
  ASSUME ApiTypeOK, NEW id \in RuleIds, HalfDone(id, {}), disk' = view
  PROVE  /\ Unit(id)
         /\ DisabledIsClosed => DisabledIsClosed'
<1>1. /\ disk'.rules = [disk.rules EXCEPT ![id] = Disabled(disk.rules[id])]
      /\ disk'.active = disk.active \ Of(disk, id)
  BY DEF HalfDone
<1>2. disk'.rules[id] = Disabled(disk.rules[id])
  BY <1>1, ServedTypes
<1>3. ~Disabled(disk.rules[id]).enabled
  BY DEF Disabled
<1>4. \A p \in disk'.active : p[1] # id /\ disk'.rules[p[1]] = disk.rules[p[1]]
  BY <1>1, ServedTypes DEF Of
<1> QED
  BY <1>1, <1>2, <1>3, <1>4 DEF Unit, DisabledIsClosed

\* So is creating one: a rule that is not there has no episodes.
LEMMA CreateIsUnit ==
  ASSUME ApiTypeOK, NEW h, h.id \in RuleIds, Inserted(h), disk' = view
  PROVE  /\ Unit(h.id)
         /\ DisabledIsClosed => DisabledIsClosed'
<1>1. /\ disk.rules[h.id] = None
      /\ disk'.rules = [disk.rules EXCEPT ![h.id] = h.record]
      /\ disk'.active = disk.active
  BY ServedTypes DEF Inserted
<1>2. \A p \in disk.active : p[1] # h.id
  BY <1>1, ServedTypes, NoneIsNoRecord
<1>3. Of(disk, h.id) = {}
  BY <1>2 DEF Of
<1>4. \A p \in disk'.active : disk'.rules[p[1]] = disk.rules[p[1]]
  BY <1>1, <1>2, ServedTypes
<1> QED
  BY <1>1, <1>3, <1>4, ServedTypes DEF Unit, DisabledIsClosed

-----------------------------------------------------------------------------
\* The invariant holds after a step of the one request there is.
LEMMA OneMoves ==
  ASSUME ApiTypeOK, "overlap" \notin mode,
         NEW r \in Requests, NEW h, request' = [request EXCEPT ![r] = h], Served \subseteq {r},
         h.pc \in Working => InProgress(request[r])', h.pc \notin Working => ~begun',
         (ServesR12 => DisabledIsClosed)'
  PROVE  AloneInv'
<1>1. \A s \in Requests \ {r} : request'[s] = request[s]
  BY ServedTypes
<1>2. request'[r] = h
  BY DEF ApiTypeOK
<1>3. Served' \subseteq {r}
  BY <1>1 DEF Served
<1>4. r \in Served' <=> h.pc \in Working
  BY <1>2 DEF Served
<1> QED
  BY <1>3, <1>4 DEF AloneInv, OneAtATime

LEMMA AloneInit == AInit => AloneInv
<1> SUFFICES ASSUME AInit PROVE AloneInv
  OBVIOUS
<1>1. Served = {}
  BY DEF AInit, Served, Handler, Working
<1>2. begun = FALSE /\ disk.active = {}
  BY DEF AInit
<1> QED
  BY <1>1, <1>2 DEF AloneInv, OneAtATime, DisabledIsClosed

LEMMA AloneStep == ApiTypeOK /\ Undisturbed /\ AloneInv /\ [ANext]_avars => AloneInv'
<1> SUFFICES ASSUME ApiTypeOK, Undisturbed, AloneInv, [ANext]_avars, "overlap" \notin mode,
                    mode' = mode
             PROVE  AloneInv'
  <2>1. [ANext]_avars => mode' = mode
    BY DEF ANext, Handle, ReceiveCreate, ReceiveDisable, Insert, Update, ListActive, CloseOne,
           CloseNoMore, CommitWrites, Commit, Execute, Fail, Crash, ReadRule, WriteRow,
           WriteNothing, avars
  <2> QED
    BY <2>1 DEF AloneInv
<1>0. /\ OneAtATime /\ (Served = {} => ~begun) /\ (ServesR12 => DisabledIsClosed)
      /\ \A r \in Served : InProgress(request[r])
  BY DEF AloneInv
<1>1. ASSUME NEW r \in Requests, MayReceive(r)
      PROVE  Served = {} /\ ~begun /\ view = disk
  BY <1>0, <1>1, ServedTypes DEF MayReceive
<1>2. ASSUME NEW r \in Requests, request[r].pc \in Working
      PROVE  Served \subseteq {r} /\ InProgress(request[r]) /\ request[r].id \in RuleIds
  BY <1>0, <1>2, ServedTypes DEF Served, OneAtATime
<1> USE DEF Working
<1>3. ASSUME NEW r \in Requests, ReceiveCreate(r) PROVE AloneInv'
  <2>1. PICK body \in Bodies, id \in {x \in RuleIds : view.rules[x] = None} :
          request' = [request EXCEPT ![r] =
            IF Valid(body)
            THEN Handler("insert", "create", id,
                         [body |-> body, enabled |-> body.enabled, version |-> 1], {})
            ELSE Nothing("422")]
    BY <1>3 DEF ReceiveCreate
  <2>2. UNCHANGED <<disk, view, begun>> /\ Served = {} /\ ~begun /\ view = disk
    BY <1>1, <1>3 DEF ReceiveCreate
  <2>3. (ServesR12 => DisabledIsClosed)'
    BY <1>0, <2>2 DEF DisabledIsClosed, ServesR12
  <2>4. CASE Valid(body)
    <3> DEFINE h == Handler("insert", "create", id,
                            [body |-> body, enabled |-> body.enabled, version |-> 1], {})
    <3>1. request' = [request EXCEPT ![r] = h] /\ request'[r] = h
      BY <2>1, <2>4 DEF ApiTypeOK
    <3>2. InProgress(request[r])'
      BY <2>2, <3>1 DEF InProgress, BeforeInsert, Handler
    <3> QED
      BY <2>2, <2>3, <3>1, <3>2, OneMoves DEF Handler
  <2>5. CASE ~Valid(body)
    <3>1. request' = [request EXCEPT ![r] = Nothing("422")] /\ Nothing("422").pc = "422"
      BY <2>1, <2>5 DEF Nothing, Handler
    <3> QED
      BY <2>2, <2>3, <3>1, OneMoves
  <2> QED
    BY <2>4, <2>5
<1>4. ASSUME NEW r \in Requests, ReceiveDisable(r) PROVE AloneInv'
  <2>1. PICK id \in RuleIds :
          request' = [request EXCEPT ![r] =
            IF view.rules[id] = None THEN Nothing("404")
            ELSE Handler("update", "disable", id, view.rules[id], {})]
    BY <1>4 DEF ReceiveDisable
  <2>2. UNCHANGED <<disk, view, begun>> /\ Served = {} /\ ~begun /\ view = disk
    BY <1>1, <1>4 DEF ReceiveDisable
  <2>3. (ServesR12 => DisabledIsClosed)'
    BY <1>0, <2>2 DEF DisabledIsClosed, ServesR12
  <2>4. CASE view.rules[id] # None
    <3> DEFINE h == Handler("update", "disable", id, view.rules[id], {})
    <3>1. request' = [request EXCEPT ![r] = h] /\ request'[r] = h
      BY <2>1, <2>4 DEF ApiTypeOK
    <3>2. InProgress(request[r])'
      BY <2>2, <3>1 DEF InProgress, BeforeUpdate, Handler
    <3> QED
      BY <2>2, <2>3, <3>1, <3>2, OneMoves DEF Handler
  <2>5. CASE view.rules[id] = None
    <3>1. request' = [request EXCEPT ![r] = Nothing("404")] /\ Nothing("404").pc = "404"
      BY <2>1, <2>5 DEF Nothing, Handler
    <3> QED
      BY <2>2, <2>3, <3>1, OneMoves
  <2> QED
    BY <2>4, <2>5
\* A step inside a handler that leaves the disk alone.
<1>5. ASSUME NEW r \in Requests, request[r].pc \in Working,
             NEW pc \in {"list", "close", "commit"}, NEW rows, GoTo(r, pc, rows),
             UNCHANGED disk, InProgress(request[r])'
      PROVE  AloneInv'
  <2>1. (ServesR12 => DisabledIsClosed)'
    BY <1>0, <1>5 DEF DisabledIsClosed, ServesR12
  <2>2. request[r] \in Handlers
    BY ServedTypes
  <2>3. [request[r] EXCEPT !.pc = pc, !.rows = rows].pc \in Working
    BY <2>2 DEF Handlers
  <2> QED
    BY <1>2, <1>5, <2>1, <2>3, OneMoves DEF GoTo
<1>6. ASSUME NEW r \in Requests, request[r].pc \in Working, NEW pc, NEW rows, GoTo(r, pc, rows)
      PROVE  /\ request'[r].pc = pc /\ request'[r].rows = rows
             /\ request'[r].id = request[r].id /\ request'[r].op = request[r].op
             /\ request'[r].record = request[r].record
  BY <1>6, ServedTypes DEF GoTo, ApiTypeOK, Handlers
<1>7. ASSUME NEW r \in Requests, Insert(r) PROVE AloneInv'
  <2>1. /\ request[r].pc = "insert" /\ request[r].op = "create" /\ BeforeInsert(request[r])
        /\ request[r].record \in Records
    BY <1>2, <1>7, ServedTypes DEF Insert, At, InProgress
  <2>2. /\ request'[r].pc = "commit" /\ request'[r].op = "create"
        /\ request'[r].id = request[r].id /\ request'[r].record = request[r].record
    BY <1>6, <1>7, <2>1 DEF Insert
  <2>3. InProgress(request[r])'
    BY <1>7, <2>1, <2>2 DEF Insert, Execute, InProgress, Inserted, BeforeInsert
  <2> QED
    BY <1>5, <1>7, <2>1, <2>3 DEF Insert, Execute
<1>8. ASSUME NEW r \in Requests, Update(r) PROVE AloneInv'
  <2>1. /\ request[r].pc = "update" /\ request[r].op = "disable" /\ BeforeUpdate(request[r])
    BY <1>2, <1>8 DEF Update, At, InProgress
  <2>2. /\ request'[r].pc = "list" /\ request'[r].op = "disable" /\ request'[r].id = request[r].id
    BY <1>6, <1>8, <2>1 DEF Update
  <2>3. HalfDone(request[r].id, Of(disk, request[r].id))'
    <3>1. view' = [disk EXCEPT !.rules[request[r].id] = Disabled(disk.rules[request[r].id])]
      BY <1>8, <2>1 DEF Update, Execute, BeforeUpdate
    <3>2. view' = [rules |-> [disk.rules EXCEPT ![request[r].id] = Disabled(@)],
                   active |-> disk.active]
      BY <3>1, ServedTypes
    <3>3. disk.active = (disk.active \ Of(disk, request[r].id)) \cup Of(disk, request[r].id)
      BY DEF Of
    <3> QED
      BY <1>8, <2>2, <3>2, <3>3 DEF HalfDone, Of, Update, Execute
  <2>4. InProgress(request[r])'
    BY <1>8, <2>2, <2>3 DEF Update, Execute, InProgress
  <2> QED
    BY <1>5, <1>8, <2>1, <2>4 DEF Update, Execute
<1>9. ASSUME NEW r \in Requests, ListActive(r) PROVE AloneInv'
  <2>1. /\ request[r].pc = "list" /\ request[r].op = "disable" /\ begun
        /\ HalfDone(request[r].id, Of(disk, request[r].id))
    BY <1>2, <1>9 DEF ListActive, At, InProgress
  <2>2. Of(view, request[r].id) = Of(disk, request[r].id)
    BY <2>1 DEF HalfDone, Of
  <2>3. /\ request'[r].pc = "close" /\ request'[r].op = "disable" /\ request'[r].id = request[r].id
        /\ request'[r].rows = Of(disk, request[r].id)
    BY <1>6, <1>9, <2>1, <2>2 DEF ListActive
  <2>4. InProgress(request[r])'
    BY <1>9, <2>1, <2>3 DEF ListActive, InProgress, HalfDone, Of
  <2> QED
    BY <1>5, <1>9, <2>1, <2>4 DEF ListActive
<1>10. ASSUME NEW r \in Requests, CloseOne(r) PROVE AloneInv'
  <2>1. PICK p \in request[r].rows :
          /\ Execute([view EXCEPT !.active = @ \ {p}])
          /\ GoTo(r, "close", request[r].rows \ {p})
    BY <1>10 DEF CloseOne
  <2>2. /\ request[r].pc = "close" /\ request[r].op = "disable"
        /\ request[r].rows \subseteq Of(disk, request[r].id)
        /\ HalfDone(request[r].id, request[r].rows)
    BY <1>2, <1>10 DEF CloseOne, At, InProgress
  <2>3. /\ request'[r].pc = "close" /\ request'[r].op = "disable" /\ request'[r].id = request[r].id
        /\ request'[r].rows = request[r].rows \ {p}
    BY <1>6, <2>1, <2>2
  <2>4. HalfDone(request[r].id, request[r].rows)'
    <3>1. (disk.active \ Of(disk, request[r].id)) \cup (request[r].rows \ {p})
            = ((disk.active \ Of(disk, request[r].id)) \cup request[r].rows) \ {p}
      BY <2>1, <2>2
    <3> QED
      BY <2>1, <2>2, <2>3, <3>1 DEF HalfDone, Execute, Of
  <2>5. InProgress(request[r])'
    BY <2>1, <2>2, <2>3, <2>4 DEF Execute, InProgress, Of
  <2> QED
    BY <1>5, <2>1, <2>2, <2>5 DEF Execute
<1>11. ASSUME NEW r \in Requests, CloseNoMore(r) PROVE AloneInv'
  <2>1. /\ request[r].pc = "close" /\ request[r].op = "disable" /\ begun
        /\ HalfDone(request[r].id, {})
    BY <1>2, <1>11 DEF CloseNoMore, At, InProgress
  <2>2. /\ request'[r].pc = "commit" /\ request'[r].op = "disable" /\ request'[r].id = request[r].id
    BY <1>6, <1>11, <2>1 DEF CloseNoMore
  <2>3. InProgress(request[r])'
    BY <1>11, <2>1, <2>2 DEF CloseNoMore, InProgress, HalfDone, Of
  <2> QED
    BY <1>5, <1>11, <2>1, <2>3 DEF CloseNoMore
<1>12. ASSUME NEW r \in Requests, CommitWrites(r) PROVE AloneInv'
  <2>1. /\ request[r].pc = "commit" /\ request[r].id \in RuleIds /\ Served \subseteq {r}
        /\ \/ request[r].op = "create" /\ Inserted(request[r])
           \/ request[r].op = "disable" /\ HalfDone(request[r].id, {})
    BY <1>2, <1>12 DEF CommitWrites, At, InProgress
  <2>2. disk' = view /\ begun' = FALSE
    BY <1>12 DEF CommitWrites, Commit
  <2>3. PICK code \in {"200", "201"} : Answer(r, code)
    BY <1>12 DEF CommitWrites, Commit
  <2>4. (ServesR12 => DisabledIsClosed)'
    BY <1>0, <2>1, <2>2, CreateIsUnit, DisableIsUnit DEF ServesR12
  <2> QED
    BY <2>1, <2>2, <2>3, <2>4, OneMoves DEF Answer, Handler
<1>13. ASSUME NEW r \in Requests, Fail(r) PROVE AloneInv'
  <2>1. Served \subseteq {r} /\ UNCHANGED disk /\ begun' = FALSE
    BY <1>2, <1>13 DEF Fail, Served, Rollback
  <2>2. (ServesR12 => DisabledIsClosed)'
    BY <1>0, <2>1 DEF DisabledIsClosed, ServesR12
  <2> QED
    BY <1>13, <2>1, <2>2, OneMoves DEF Fail, Nothing, Handler
<1>14. CASE Crash
  <2>1. Served' = {} /\ begun' = FALSE /\ UNCHANGED disk
    BY <1>14 DEF Crash, Served, Nothing, Handler
  <2> QED
    BY <1>0, <2>1 DEF AloneInv, OneAtATime, DisabledIsClosed, ServesR12
<1>15. CASE WriteRow
  <2>1. PICK active \in {disk.active \cup {evaluation}, disk.active \ {evaluation}} :
          disk' = [disk EXCEPT !.active = active]
    BY <1>15 DEF WriteRow
  <2>2. disk'.rules = disk.rules /\ disk'.active \subseteq disk.active \cup {evaluation}
    BY <2>1, ServedTypes
  <2>3. ~begun /\ evaluation # None /\ view' = disk' /\ UNCHANGED <<begun, request>>
    BY <1>15 DEF WriteRow
  <2>4. (ServesR12 => DisabledIsClosed)'
    BY <1>0, <2>2, <2>3 DEF DisabledIsClosed, ServesR12, Undisturbed
  <2>5. Served' = Served /\ OneAtATime'
    BY <1>0, <2>3 DEF Served, OneAtATime
  <2>6. \A r \in Served : request[r].pc \in {"insert", "update"}
    BY <1>0, <2>3 DEF InProgress, Served
  <2>7. \A r \in Served : InProgress(request[r])'
    BY <1>0, <2>2, <2>3, <2>6 DEF InProgress, BeforeInsert, BeforeUpdate
  <2> QED
    BY <1>0, <2>3, <2>4, <2>5, <2>7 DEF AloneInv
<1>16. CASE UNCHANGED <<disk, view, begun, request>>
  BY <1>0, <1>16 DEF AloneInv, OneAtATime, Served, DisabledIsClosed, InProgress, Inserted,
                     BeforeInsert, BeforeUpdate, HalfDone, Of, ServesR12
<1> QED
  BY <1>3, <1>4, <1>7, <1>8, <1>9, <1>10, <1>11, <1>12, <1>13, <1>14, <1>15, <1>16
  DEF ANext, Handle, ReadRule, WriteNothing, avars

\* While requests do not overlap the invariant holds throughout.
LEMMA AloneHolds == ASpec => []AloneInv
<1>1. AInit => AloneInv
  BY AloneInit
<1>2. ApiTypeOK /\ Undisturbed /\ AloneInv /\ [ANext]_avars => AloneInv'
  BY AloneStep
<1> QED
  BY <1>1, <1>2, ApiTypeCorrect, UndisturbedHolds, PTL DEF ASpec

-----------------------------------------------------------------------------
\* What a commit brings to disk is one new rule, or one rule disabled together
\* with all its episodes, through failures and restarts, as long as requests
\* do not overlap.
THEOREM TransactionsAreUnits == ASpec => AtomicAlone
<1>1. ASSUME ApiTypeOK, AloneInv, [ANext]_avars
      PROVE  [\/ "overlap" \in mode
              \/ UNCHANGED disk
              \/ WriteRow
              \/ \E id \in RuleIds : Unit(id)]_avars
  <2> SUFFICES ASSUME "overlap" \notin mode, ~UNCHANGED disk, ~WriteRow
               PROVE  \E id \in RuleIds : Unit(id)
    OBVIOUS
  <2>1. PICK r \in Requests : CommitWrites(r)
    BY <1>1 DEF ANext, Handle, ReceiveCreate, ReceiveDisable, Insert, Update, ListActive, CloseOne,
                CloseNoMore, Execute, Fail, Rollback, Crash, ReadRule, WriteNothing, avars
  <2>2. r \in Served
    BY <2>1 DEF CommitWrites, At, Served, Working
  <2>3. /\ disk' = view /\ request[r].id \in RuleIds
        /\ \/ Inserted(request[r])
           \/ HalfDone(request[r].id, {})
    BY <1>1, <2>1, <2>2, ServedTypes DEF CommitWrites, Commit, At, AloneInv, InProgress
  <2> QED
    BY <1>1, <2>3, CreateIsUnit, DisableIsUnit
<1> QED
  BY <1>1, ApiTypeCorrect, AloneHolds, PTL DEF ASpec, AtomicAlone

\* As long as requests overlap neither one another nor an evaluation, no rule on
\* disk is disabled with its episodes still active, at rest or not.
THEOREM DisabledAreClosed ==
  ASpec => []("overlap" \notin mode /\ "inside" \notin mode => DisabledIsClosed)
<1>1. AloneInv => ("overlap" \notin mode /\ "inside" \notin mode => DisabledIsClosed)
  BY DEF AloneInv, ServesR12
<1> QED
  BY <1>1, AloneHolds, PTL

-----------------------------------------------------------------------------
(* Requests that overlap and statements that fail do harm together, as a   *)
(* rollback undoes what another handler has executed; and a disable inside *)
(* an evaluation does harm alone.  With R12, overlaps and failures apart do*)
(* none: what a client was told stays so, no disable is left half done.    *)
Apart == ~({"overlap", "failures"} \subseteq mode) /\ ServesR12

Off(tables, id) == tables.rules[id] # None /\ ~tables.rules[id].enabled
Quiet(tables, id) == Off(tables, id) /\ Of(tables, id) = {}

\* Rules are not taken away, and a rule that is disabled stays disabled and
\* gets no new episode.
Follows(new, old) ==
  \A id \in RuleIds :
    /\ old.rules[id] # None => new.rules[id] # None
    /\ Off(old, id) => Off(new, id) /\ Of(new, id) \subseteq Of(old, id)

\* What the connection holds of the statements a handler has executed, with
\* the statements of others in between.
Executed(h, tables) ==
  /\ h.pc = "insert" => h.op = "create" /\ tables.rules[h.id] = None
  /\ h.pc = "update" => h.op = "disable" /\ tables.rules[h.id] # None
  /\ h.pc \in {"list", "close"} => h.op = "disable" /\ Off(tables, h.id)
  /\ h.pc = "close" => Of(tables, h.id) \subseteq h.rows
  /\ h.pc = "commit" => IF h.op = "create" THEN tables.rules[h.id] # None
                                           ELSE Quiet(tables, h.id)

Told(h, tables) ==
  /\ h.pc = "201" => h.id \in RuleIds /\ tables.rules[h.id] # None
  /\ h.pc = "200" => h.id \in RuleIds /\ Quiet(tables, h.id)

\* A handler is about to close what is left of the episodes of p's rule.
Closing(h, p) == h.id = p[1] /\ h.pc \in {"list", "close"}
Attended(p) == \E r \in Requests : Closing(request[r], p)

SharedInv ==
  Apart =>
    /\ Follows(view, disk)
    /\ \A r \in Requests : Executed(request[r], view) /\ Told(request[r], disk)
    /\ \A r, s \in Creating : r = s
    /\ begun => Served # {}
    /\ \A p \in view.active : ~view.rules[p[1]].enabled => Attended(p)

LEMMA FollowsTwice ==
  ASSUME NEW a, NEW b, NEW c, Follows(a, b), Follows(b, c)
  PROVE  Follows(a, c)
  BY DEF Follows

LEMMA FollowsItself == ASSUME NEW tables PROVE Follows(tables, tables)
  BY DEF Follows

\* A handler that does not move keeps what it has executed and been told, as
\* long as the tables follow what they were.
LEMMA StaysTrue ==
  ASSUME NEW h, HandlerOK(h), NEW old, NEW new, Follows(new, old)
  PROVE  /\ Executed(h, old) /\ (h.pc = "insert" => new.rules[h.id] = None) => Executed(h, new)
         /\ Told(h, old) => Told(h, new)
<1>1. h.pc \in {"update", "list", "close", "commit"} => h.id \in RuleIds
  BY DEF HandlerOK, Working
<1>2. \A id \in RuleIds : Quiet(old, id) => Quiet(new, id)
  BY DEF Follows, Quiet
<1> QED
  BY <1>1, <1>2 DEF Executed, Told, Follows

\* The invariant holds after a step of one of the requests.
LEMMA SharedMoves ==
  ASSUME ApiTypeOK, SharedInv, Apart, mode' = mode,
         NEW r \in Requests, NEW h, request' = [request EXCEPT ![r] = h],
         Follows(view', disk'), Follows(disk', disk), Follows(view', view),
         view'.active \subseteq view.active,
         r \in Creating \/ \A id \in RuleIds : view.rules[id] = None => view'.rules[id] = None,
         h.pc \in Working /\ h.op = "create" => r \in Creating \/ Creating = {},
         begun' = FALSE \/ h.pc \in Working \/ (begun = TRUE /\ r \notin Served),
         Executed(h, view'), Told(h, disk'),
         \A p \in view'.active :
           \/ view'.rules[p[1]].enabled
           \/ Closing(h, p)
           \/ ~view.rules[p[1]].enabled /\ ~Closing(request[r], p)
  PROVE  SharedInv'
<1>1. /\ \A s \in Requests : Executed(request[s], view) /\ Told(request[s], disk)
      /\ \A s, t \in Creating : s = t
      /\ begun => Served # {}
      /\ \A p \in view.active : ~view.rules[p[1]].enabled => Attended(p)
  BY DEF SharedInv
<1>2. /\ request'[r] = h
      /\ \A s \in Requests \ {r} : request'[s] = request[s]
      /\ \A s \in Requests : HandlerOK(request[s])
  BY DEF ApiTypeOK
<1>3. \A s \in Requests : Executed(request'[s], view') /\ Told(request'[s], disk')
  <2> SUFFICES ASSUME NEW s \in Requests \ {r} PROVE Executed(request'[s], view') /\ Told(request'[s], disk')
    BY <1>2
  <2>1. HandlerOK(request[s]) /\ Executed(request[s], view) /\ Told(request[s], disk) /\ request'[s] = request[s]
    BY <1>1, <1>2
  <2>2. ASSUME request[s].pc = "insert" PROVE view'.rules[request[s].id] = None
    <3>1. s \in Creating
      BY <2>1, <2>2 DEF Creating, Served, Executed, Working
    <3>2. r \notin Creating
      BY <1>1, <3>1
    <3>3. request[s].id \in RuleIds /\ view.rules[request[s].id] = None
      BY <2>1, <2>2 DEF HandlerOK, Executed, Working
    <3> QED
      BY <3>2, <3>3
  <2> HIDE DEF HandlerOK, Follows
  <2> QED
    BY <2>1, <2>2, StaysTrue
<1>4. \A s \in Requests \ {r} : (s \in Served' <=> s \in Served) /\ (s \in Creating' <=> s \in Creating)
  BY <1>2 DEF Served, Creating
<1>5. r \in Served' <=> h.pc \in Working
  BY <1>2 DEF Served
<1>6. \A s, t \in Creating' : s = t
  <2>1. r \in Creating' => h.pc \in Working /\ h.op = "create"
    BY <1>2 DEF Creating, Served
  <2>2. Creating \subseteq Requests /\ Creating' \subseteq Requests
    BY DEF Creating, Served
  <2> QED
    BY <1>1, <1>4, <2>1, <2>2
<1>7. begun' => Served' # {}
  <2>1. Served \subseteq Requests
    BY DEF Served
  <2> QED
    BY <1>1, <1>4, <1>5, <2>1
<1>8. ASSUME NEW p \in view'.active, ~view'.rules[p[1]].enabled PROVE Attended(p)'
  <2>1. CASE Closing(h, p)
    BY <1>2, <2>1 DEF Attended
  <2>2. CASE ~view.rules[p[1]].enabled /\ ~Closing(request[r], p)
    <3>1. PICK s \in Requests : Closing(request[s], p)
      BY <1>1, <1>8, <2>2 DEF Attended
    <3>2. Closing(request'[s], p)
      BY <1>2, <2>2, <3>1
    <3> QED
      BY <3>2 DEF Attended
  <2> QED
    BY <1>8, <2>1, <2>2
<1>9. \A p \in view'.active : ~view'.rules[p[1]].enabled => Attended(p)'
  BY <1>8
<1> QED
  BY <1>3, <1>6, <1>7, <1>9 DEF SharedInv

\* A step of a request that writes nothing: only its own place changes.
LEMMA SharedReads ==
  ASSUME ApiTypeOK, SharedInv, Apart, UNCHANGED <<mode, disk, view, begun>>,
         NEW r \in Requests, NEW h, request' = [request EXCEPT ![r] = h],
         h.pc \in Working /\ h.op = "create" => r \in Creating \/ Creating = {},
         h.pc \in Working \/ r \notin Served,
         Executed(h, view'), Told(h, disk'),
         \A p \in view.active : Closing(request[r], p) => Closing(h, p)
  PROVE  SharedInv'
<1>1. mode' = mode /\ disk' = disk /\ view' = view /\ begun' = begun
  OBVIOUS
<1>2. Follows(view, disk) /\ Follows(disk, disk) /\ Follows(view, view)
  BY FollowsItself DEF SharedInv
<1>3. Follows(view', disk') /\ Follows(disk', disk) /\ Follows(view', view)
  BY <1>1, <1>2
<1>4. \A p \in view'.active :
        \/ view'.rules[p[1]].enabled
        \/ Closing(h, p)
        \/ ~view.rules[p[1]].enabled /\ ~Closing(request[r], p)
  BY <1>1
<1>5. view'.active \subseteq view.active
      /\ \A id \in RuleIds : view.rules[id] = None => view'.rules[id] = None
  BY <1>1
<1>6. begun' = FALSE \/ h.pc \in Working \/ (begun = TRUE /\ r \notin Served)
  BY <1>1 DEF ApiTypeOK
<1> QED
  BY <1>1, <1>3, <1>4, <1>5, <1>6, SharedMoves

\* A statement: the connection's tables follow what they were, the disk stays.
LEMMA SharedWrites ==
  ASSUME ApiTypeOK, SharedInv, Apart, UNCHANGED <<mode, disk>>,
         NEW r \in Requests, NEW h, request' = [request EXCEPT ![r] = h],
         h.pc \in Working, Follows(view', view), view'.active \subseteq view.active,
         r \in Creating \/ \A id \in RuleIds : view.rules[id] = None => view'.rules[id] = None,
         h.op = "create" => r \in Creating,
         Executed(h, view'), h.pc \notin {"200", "201"},
         \A p \in view'.active :
           \/ view'.rules[p[1]].enabled
           \/ Closing(h, p)
           \/ ~view.rules[p[1]].enabled /\ ~Closing(request[r], p)
  PROVE  SharedInv'
<1>1. Follows(view, disk)
  BY DEF SharedInv
<1>2. Follows(view', disk') /\ Follows(disk', disk)
  BY <1>1, FollowsTwice, FollowsItself
<1>3. Told(h, disk')
  BY DEF Told
<1> QED
  BY <1>2, <1>3, SharedMoves

\* A handler that has finished, otherwise than well, has executed nothing and
\* been told nothing.
LEMMA EndedSaysNothing ==
  ASSUME NEW h, h.pc \in {"new", "404", "422", "500", "lost"}, NEW tables
  PROVE  Executed(h, tables) /\ Told(h, tables) /\ h.pc \notin Working /\ \A p : ~Closing(h, p)
  BY DEF Executed, Told, Working, Closing

LEMMA SharedInit == AInit => SharedInv
<1> SUFFICES ASSUME AInit PROVE SharedInv
  OBVIOUS
<1>1. \A r \in Requests : request[r].pc = "new"
  BY DEF AInit, Handler
<1>2. Served = {} /\ Creating = {}
  BY <1>1 DEF Served, Creating, Working
<1>3. \A r \in Requests : Executed(request[r], view) /\ Told(request[r], disk)
  BY <1>1, EndedSaysNothing
<1>4. begun = FALSE /\ view = disk /\ view.active = {}
  BY DEF AInit
<1> QED
  BY <1>2, <1>3, <1>4, FollowsItself DEF SharedInv

\* Without overlap a rollback finds no other handler at work, and no rule
\* disabled with its episodes still active on the disk it goes back to.
LEMMA SharedRollback ==
  ASSUME ApiTypeOK, AloneInv, SharedInv, Apart, UNCHANGED <<mode, disk>>, "overlap" \notin mode,
         view' = disk, begun' = FALSE, Served' = {},
         \A r \in Requests : \/ request'[r] = request[r]
                             \/ request'[r].pc \in {"500", "lost"}
  PROVE  SharedInv'
<1>1. \A p \in view'.active : view'.rules[p[1]].enabled
  BY DEF AloneInv, DisabledIsClosed, Apart
<1>2. \A r \in Requests : Executed(request'[r], view') /\ Told(request'[r], disk')
  <2> SUFFICES ASSUME NEW r \in Requests
               PROVE  Executed(request'[r], view') /\ Told(request'[r], disk')
    OBVIOUS
  <2>1. CASE request'[r].pc \in {"500", "lost"}
    BY <2>1, EndedSaysNothing
  <2>2. CASE request'[r] = request[r]
    <3>1. request'[r].pc \notin Working
      BY DEF Served
    <3>2. Executed(request'[r], view')
      BY <3>1 DEF Executed, Working
    <3>3. Told(request'[r], disk')
      BY <2>2 DEF SharedInv
    <3> QED
      BY <3>2, <3>3
  <2> QED
    BY <2>1, <2>2
<1>3. Creating' = {}
  BY DEF Creating
<1>4. Follows(view', disk')
  BY FollowsItself
<1> QED
  BY <1>1, <1>2, <1>3, <1>4 DEF SharedInv

LEMMA SharedStep == ApiTypeOK /\ Undisturbed /\ AloneInv /\ SharedInv /\ [ANext]_avars => SharedInv'
<1> SUFFICES ASSUME ApiTypeOK, Undisturbed, AloneInv, SharedInv, [ANext]_avars, Apart
             PROVE  SharedInv'
  <2>1. [ANext]_avars => mode' = mode
    BY DEF ANext, Handle, ReceiveCreate, ReceiveDisable, Insert, Update, ListActive, CloseOne,
           CloseNoMore, CommitWrites, Commit, Execute, Fail, Crash, ReadRule, WriteRow,
           WriteNothing, avars
  <2> QED
    BY <2>1 DEF SharedInv, Apart, ServesR12
<1>0. /\ \A r \in Requests : Executed(request[r], view) /\ Told(request[r], disk)
      /\ Follows(view, disk)
      /\ \A r, s \in Creating : r = s
  BY DEF SharedInv
<1>1. /\ \A r \in Requests : request[r] \in Handlers /\ HandlerOK(request[r])
      /\ view = [rules |-> view.rules, active |-> view.active]
      /\ view.rules \in [RuleIds -> Records \cup {None}]
      /\ \A r \in Requests : request[r].pc \in Working => request[r].id \in RuleIds
  BY DEF ApiTypeOK, TablesOK, Tables, HandlerOK
<1>2. ASSUME NEW r \in Requests, NEW pc, NEW rows, GoTo(r, pc, rows)
      PROVE  /\ request' = [request EXCEPT ![r] = request'[r]]
             /\ request'[r].pc = pc /\ request'[r].rows = rows
             /\ request'[r].id = request[r].id /\ request'[r].op = request[r].op
             /\ request'[r].record = request[r].record
  BY <1>1, <1>2 DEF GoTo, ApiTypeOK, Handlers
<1>3. ASSUME NEW r \in Requests, ReceiveCreate(r) PROVE SharedInv'
  <2>1. PICK body \in Bodies, id \in {x \in RuleIds : view.rules[x] = None} :
          request' = [request EXCEPT ![r] =
            IF Valid(body)
            THEN Handler("insert", "create", id,
                         [body |-> body, enabled |-> body.enabled, version |-> 1], {})
            ELSE Nothing("422")]
    BY <1>3 DEF ReceiveCreate
  <2>2. /\ UNCHANGED <<mode, disk, view, begun>> /\ Creating = {}
        /\ request[r].pc = "new" /\ r \notin Served
    BY <1>3 DEF ReceiveCreate, MayReceive, Served, Working
  <2>3. \A p \in view.active : ~Closing(request[r], p)
    BY <2>2, EndedSaysNothing
  <2>4. CASE Valid(body)
    <3> DEFINE h == Handler("insert", "create", id,
                            [body |-> body, enabled |-> body.enabled, version |-> 1], {})
    <3>1. request' = [request EXCEPT ![r] = h]
      BY <2>1, <2>4
    <3>2. h.pc = "insert" /\ h.op = "create" /\ h.id = id
      BY DEF Handler
    <3>3. Executed(h, view') /\ Told(h, disk')
      BY <2>2, <3>2 DEF Executed, Told
    <3> HIDE DEF h
    <3> QED
      BY <2>2, <2>3, <3>1, <3>3, SharedReads
  <2>5. CASE ~Valid(body)
    <3> DEFINE h == Nothing("422")
    <3>1. request' = [request EXCEPT ![r] = h] /\ h.pc = "422"
      BY <2>1, <2>5 DEF Nothing, Handler
    <3> HIDE DEF h
    <3>2. Executed(h, view') /\ Told(h, disk') /\ h.pc \notin Working
      BY <3>1, EndedSaysNothing
    <3> QED
      BY <2>2, <2>3, <3>1, <3>2, SharedReads
  <2> QED
    BY <2>4, <2>5
<1>4. ASSUME NEW r \in Requests, ReceiveDisable(r) PROVE SharedInv'
  <2>1. PICK id \in RuleIds :
          request' = [request EXCEPT ![r] =
            IF view.rules[id] = None THEN Nothing("404")
            ELSE Handler("update", "disable", id, view.rules[id], {})]
    BY <1>4 DEF ReceiveDisable
  <2>2. /\ UNCHANGED <<mode, disk, view, begun>>
        /\ request[r].pc = "new" /\ r \notin Served
    BY <1>4 DEF ReceiveDisable, MayReceive, Served, Working
  <2>3. \A p \in view.active : ~Closing(request[r], p)
    BY <2>2, EndedSaysNothing
  <2>4. CASE view.rules[id] # None
    <3> DEFINE h == Handler("update", "disable", id, view.rules[id], {})
    <3>1. request' = [request EXCEPT ![r] = h]
      BY <2>1, <2>4
    <3>2. h.pc = "update" /\ h.op = "disable" /\ h.id = id
      BY DEF Handler
    <3>3. Executed(h, view') /\ Told(h, disk')
      BY <2>2, <2>4, <3>2 DEF Executed, Told
    <3> HIDE DEF h
    <3> QED
      BY <2>2, <2>3, <3>1, <3>2, <3>3, SharedReads
  <2>5. CASE view.rules[id] = None
    <3> DEFINE h == Nothing("404")
    <3>1. request' = [request EXCEPT ![r] = h] /\ h.pc = "404"
      BY <2>1, <2>5 DEF Nothing, Handler
    <3> HIDE DEF h
    <3>2. Executed(h, view') /\ Told(h, disk') /\ h.pc \notin Working
      BY <3>1, EndedSaysNothing
    <3> QED
      BY <2>2, <2>3, <3>1, <3>2, SharedReads
  <2> QED
    BY <2>4, <2>5
<1>5. ASSUME NEW r \in Requests, Insert(r) PROVE SharedInv'
  <2> DEFINE id == request[r].id
  <2>1. /\ request[r].pc = "insert" /\ request[r].op = "create" /\ id \in RuleIds
        /\ view.rules[id] = None /\ request[r].record \in Records
    BY <1>0, <1>1, <1>5, ServedTypes DEF Insert, At, Executed, Working
  <2>2. r \in Creating
    BY <2>1 DEF Creating, Served, Working
  <2>3. /\ view'.rules = [view.rules EXCEPT ![id] = request[r].record]
        /\ view'.active = view.active /\ UNCHANGED <<mode, disk>>
    BY <1>1, <1>5 DEF Insert, Execute
  <2>4. /\ request' = [request EXCEPT ![r] = request'[r]]
        /\ request'[r].pc = "commit" /\ request'[r].id = id /\ request'[r].op = "create"
    BY <1>2, <1>5, <2>1 DEF Insert
  <2>5. view'.rules[id] = request[r].record /\ request[r].record # None
    BY <1>1, <2>1, <2>3, NoneIsNoRecord
  <2>6. \A x \in RuleIds \ {id} : view'.rules[x] = view.rules[x]
    BY <1>1, <2>3
  <2>7. Follows(view', view)
    BY <2>1, <2>3, <2>5, <2>6 DEF Follows, Off, Of
  <2>8. Executed(request'[r], view') /\ request'[r].pc \in Working /\ ~Closing(request[r], id)
    BY <2>1, <2>4, <2>5 DEF Executed, Closing, Working
  <2>9. \A p \in view.active : view.rules[p[1]] # None
    BY DEF ApiTypeOK, TablesOK
  <2>10. \A p \in view'.active :
           view'.rules[p[1]].enabled \/ (~view.rules[p[1]].enabled /\ ~Closing(request[r], p))
    <3>1. \A p \in view'.active : p[1] \in RuleIds
      BY <2>3 DEF ApiTypeOK, TablesOK, Tables, Pairs
    <3> QED
      BY <2>1, <2>3, <2>6, <2>9, <3>1 DEF Closing
  <2> QED
    BY <2>2, <2>3, <2>4, <2>7, <2>8, <2>10, SharedWrites
<1>6. ASSUME NEW r \in Requests, Update(r) PROVE SharedInv'
  <2> DEFINE id == request[r].id
  <2>1. /\ request[r].pc = "update" /\ request[r].op = "disable" /\ id \in RuleIds
        /\ request[r].record \in Records
    BY <1>0, <1>1, <1>6, ServedTypes DEF Update, At, Executed, Working
  <2>2. /\ view'.rules = [view.rules EXCEPT ![id] = Disabled(request[r].record)]
        /\ view'.active = view.active /\ UNCHANGED <<mode, disk>>
    BY <1>1, <1>6 DEF Update, Execute
  <2>3. /\ request' = [request EXCEPT ![r] = request'[r]]
        /\ request'[r].pc = "list" /\ request'[r].id = id /\ request'[r].op = "disable"
    BY <1>2, <1>6, <2>1 DEF Update
  <2>4. Off(view', id)
    <3>1. Disabled(request[r].record) \in Records
      BY <2>1, DisabledIsRecord
    <3>2. view'.rules[id] = Disabled(request[r].record)
      BY <1>1, <2>1, <2>2
    <3>3. ~view'.rules[id].enabled
      BY <3>2 DEF Disabled
    <3> QED
      BY <3>1, <3>2, <3>3, NoneIsNoRecord DEF Off
  <2>5. \A x \in RuleIds \ {id} : view'.rules[x] = view.rules[x]
    BY <1>1, <2>2
  <2>6. Follows(view', view)
    BY <2>2, <2>4, <2>5 DEF Follows, Off, Of
  <2>7. \A x \in RuleIds : view.rules[x] = None => view'.rules[x] = None
    <3>1. view.rules[id] # None
      BY <1>0, <2>1 DEF Executed
    <3> QED
      BY <2>5, <3>1
  <2>8. Executed(request'[r], view') /\ request'[r].pc \in Working
    BY <2>3, <2>4 DEF Executed, Closing, Working
  <2>9. \A p \in view'.active :
          \/ view'.rules[p[1]].enabled
          \/ Closing(request'[r], p)
          \/ ~view.rules[p[1]].enabled /\ ~Closing(request[r], p)
    <3> SUFFICES ASSUME NEW p \in view'.active, p[1] # id
                 PROVE  view'.rules[p[1]].enabled
                        \/ (~view.rules[p[1]].enabled /\ ~Closing(request[r], p))
      BY <2>3 DEF Closing
    <3>1. p[1] \in RuleIds
      BY <2>2 DEF ApiTypeOK, TablesOK, Tables, Pairs
    <3> QED
      BY <2>5, <3>1 DEF Closing
  <2> QED
    BY <2>2, <2>3, <2>6, <2>7, <2>8, <2>9, SharedWrites
<1>7. ASSUME NEW r \in Requests, ListActive(r) PROVE SharedInv'
  <2> DEFINE id == request[r].id
  <2>1. /\ request[r].pc = "list" /\ request[r].op = "disable" /\ Off(view, id)
    BY <1>0, <1>7 DEF ListActive, At, Executed
  <2>2. /\ request' = [request EXCEPT ![r] = request'[r]] /\ UNCHANGED <<mode, disk, view, begun>>
        /\ request'[r].pc = "close" /\ request'[r].id = id /\ request'[r].op = "disable"
        /\ request'[r].rows = Of(view, id)
    BY <1>2, <1>7, <2>1 DEF ListActive
  <2>3. /\ Executed(request'[r], view') /\ Told(request'[r], disk') /\ request'[r].pc \in Working
        /\ \A p : Closing(request[r], p) => Closing(request'[r], p)
    BY <2>1, <2>2 DEF Executed, Told, Closing, Working
  <2> QED
    BY <2>2, <2>3, SharedReads
<1>8. ASSUME NEW r \in Requests, CloseOne(r) PROVE SharedInv'
  <2> DEFINE id == request[r].id
  <2>1. PICK q \in request[r].rows :
          /\ Execute([view EXCEPT !.active = @ \ {q}])
          /\ GoTo(r, "close", request[r].rows \ {q})
    BY <1>8 DEF CloseOne
  <2>2. /\ request[r].pc = "close" /\ request[r].op = "disable" /\ Off(view, id)
        /\ Of(view, id) \subseteq request[r].rows
    BY <1>0, <1>8 DEF CloseOne, At, Executed
  <2>3. /\ view'.rules = view.rules /\ view'.active = view.active \ {q}
        /\ UNCHANGED <<mode, disk>>
    BY <1>1, <2>1 DEF Execute
  <2>4. /\ request' = [request EXCEPT ![r] = request'[r]]
        /\ request'[r].pc = "close" /\ request'[r].id = id /\ request'[r].op = "disable"
        /\ request'[r].rows = request[r].rows \ {q}
    BY <1>2, <2>1, <2>2
  <2>5. Follows(view', view)
    BY <2>3 DEF Follows, Off, Of
  <2>6. /\ Executed(request'[r], view') /\ request'[r].pc \in Working
        /\ \A p : Closing(request[r], p) => Closing(request'[r], p)
    BY <2>2, <2>3, <2>4 DEF Executed, Closing, Working, Off, Of
  <2> QED
    BY <2>3, <2>4, <2>5, <2>6, SharedWrites
<1>9. ASSUME NEW r \in Requests, CloseNoMore(r) PROVE SharedInv'
  <2> DEFINE id == request[r].id
  <2>1. /\ request[r].pc = "close" /\ request[r].op = "disable" /\ Quiet(view, id)
    BY <1>0, <1>9 DEF CloseNoMore, At, Executed, Quiet
  <2>2. /\ request' = [request EXCEPT ![r] = request'[r]] /\ UNCHANGED <<mode, disk, view, begun>>
        /\ request'[r].pc = "commit" /\ request'[r].id = id /\ request'[r].op = "disable"
    BY <1>2, <1>9, <2>1 DEF CloseNoMore
  <2>3. /\ Executed(request'[r], view') /\ Told(request'[r], disk') /\ request'[r].pc \in Working
    BY <2>1, <2>2 DEF Executed, Told, Working
  <2>4. \A p \in view.active : ~Closing(request[r], p)
    BY <2>1 DEF Closing, Quiet, Of
  <2> QED
    BY <2>2, <2>3, <2>4, SharedReads
<1>10. ASSUME NEW r \in Requests, CommitWrites(r) PROVE SharedInv'
  <2> DEFINE id == request[r].id
             code == IF request[r].op = "create" THEN "201" ELSE "200"
             h == Handler(code, request[r].op, id, None, {})
  <2>1. /\ request[r].pc = "commit" /\ id \in RuleIds
        /\ IF request[r].op = "create" THEN view.rules[id] # None ELSE Quiet(view, id)
    BY <1>0, <1>1, <1>10 DEF CommitWrites, At, Executed, Working
  <2>2. /\ disk' = view /\ begun' = FALSE /\ UNCHANGED <<mode, view>>
        /\ request' = [request EXCEPT ![r] = h]
    BY <1>10 DEF CommitWrites, Commit, Answer
  <2>3. h.pc = code /\ h.id = id /\ code \in {"200", "201"}
        /\ (request[r].op = "create" <=> code = "201")
    BY DEF Handler
  <2> HIDE DEF h, code
  <2>4. /\ Executed(h, view') /\ Told(h, disk') /\ h.pc \notin Working
    BY <2>1, <2>2, <2>3 DEF Executed, Told, Working
  <2>5. Follows(view', disk') /\ Follows(disk', disk) /\ Follows(view', view)
    BY <1>0, <2>2, FollowsItself
  <2>6. \A p : ~Closing(request[r], p)
    BY <2>1 DEF Closing
  <2> QED
    BY <2>2, <2>4, <2>5, <2>6, SharedMoves
<1>11. ASSUME NEW r \in Requests, Fail(r) PROVE SharedInv'
  <2>1. /\ "overlap" \notin mode /\ r \in Served /\ UNCHANGED <<mode, disk>>
        /\ view' = disk /\ begun' = FALSE
        /\ request' = [request EXCEPT ![r] = Nothing("500")]
    BY <1>11 DEF Fail, Rollback, Apart
  <2>2. Served \subseteq {r}
    BY <2>1 DEF AloneInv, OneAtATime
  <2>3. /\ request'[r].pc = "500" /\ \A s \in Requests \ {r} : request'[s] = request[s]
    BY <1>11, <2>1 DEF ApiTypeOK, Nothing, Handler
  <2>4. Served' = {}
    BY <2>2, <2>3 DEF Served, Working
  <2> QED
    BY <2>1, <2>3, <2>4, SharedRollback
<1>12. CASE Crash
  <2>1. /\ "overlap" \notin mode /\ UNCHANGED <<mode, disk>> /\ view' = disk /\ begun' = FALSE
        /\ request' = [r \in Requests |-> IF r \in Served THEN Nothing("lost") ELSE request[r]]
    BY <1>12 DEF Crash, Apart
  <2>2. Nothing("lost").pc = "lost"
    BY DEF Nothing, Handler
  <2>3. \A r \in Requests : request'[r] = IF r \in Served THEN Nothing("lost") ELSE request[r]
    BY <2>1
  <2>4. Served' = {}
    BY <2>2, <2>3 DEF Served, Working
  <2> QED
    BY <2>1, <2>2, <2>3, <2>4, SharedRollback
<1>13. CASE WriteRow
  <2> DEFINE p == evaluation
  <2>1. PICK active \in {disk.active \cup {p}, disk.active \ {p}} :
          disk' = [disk EXCEPT !.active = active]
    BY <1>13 DEF WriteRow
  <2>2. disk'.rules = disk.rules /\ disk'.active \subseteq disk.active \cup {p}
    BY <2>1, ServedTypes
  <2>0. disk.rules[p[1]].enabled
    BY <1>13 DEF WriteRow, Undisturbed, Apart
  <2>3. view = disk /\ view' = disk' /\ UNCHANGED <<mode, begun, request>>
    BY <1>13, ServedTypes DEF WriteRow
  <2>4. Follows(disk', disk)
    BY <2>0, <2>2 DEF Follows, Off, Of
  <2>5. \A r \in Requests : Executed(request'[r], view') /\ Told(request'[r], disk')
    <3> SUFFICES ASSUME NEW r \in Requests
                 PROVE  Executed(request[r], view') /\ Told(request[r], disk')
      BY <2>3
    <3>1. request[r].pc = "insert" => view'.rules[request[r].id] = None
      BY <1>0, <2>2, <2>3 DEF Executed
    <3> QED
      BY <1>0, <1>1, <2>3, <2>4, <3>1, StaysTrue
  <2>6. \A q \in view'.active : ~view'.rules[q[1]].enabled => Attended(q)
    BY <2>0, <2>2, <2>3 DEF SharedInv
  <2>7. Follows(view', disk') /\ Served' = Served /\ Creating' = Creating
    BY <2>3, FollowsItself DEF Served, Creating
  <2>8. (\A q \in view'.active : ~view'.rules[q[1]].enabled => Attended(q)')
    BY <2>3, <2>6 DEF Attended
  <2> QED
    BY <1>0, <2>3, <2>5, <2>7, <2>8 DEF SharedInv
<1>14. CASE UNCHANGED <<mode, disk, view, begun, request>>
  <2>1. Served' = Served /\ Creating' = Creating
    BY <1>14 DEF Served, Creating
  <2> QED
    BY <1>14, <2>1 DEF SharedInv, Apart, ServesR12, Attended
<1> QED
  BY <1>3, <1>4, <1>5, <1>6, <1>7, <1>8, <1>9, <1>10, <1>11, <1>12, <1>13, <1>14
  DEF ANext, Handle, ReadRule, WriteNothing, avars

\* While requests do not overlap, or nothing fails, it holds throughout.
LEMMA SharedHolds == ASpec => []SharedInv
<1>1. AInit => SharedInv
  BY SharedInit
<1>2. ApiTypeOK /\ Undisturbed /\ AloneInv /\ SharedInv /\ [ANext]_avars => SharedInv'
  BY SharedStep
<1> QED
  BY <1>1, <1>2, ApiTypeCorrect, UndisturbedHolds, AloneHolds, PTL DEF ASpec

\* What a client was told of a rule is so on disk and stays so, with requests
\* that overlap or with statements that fail, as long as R12 is kept.
THEOREM AnswersLast == ASpec => [](Apart => AnsweredIsDurable)
<1>1. SharedInv => (Apart => AnsweredIsDurable)
  BY DEF SharedInv, Told, AnsweredIsDurable, At, Quiet, Off
<1> QED
  BY <1>1, SharedHolds, PTL

\* No disable is left half done: with no request under way every disabled rule
\* is without active episodes, with requests that overlap or statements that
\* fail, as long as R12 is kept.
THEOREM AtRestQuiet == ASpec => [](Apart => QuietAtRest)
<1>1. ApiTypeOK /\ SharedInv => (Apart => QuietAtRest)
  <2> SUFFICES ASSUME ApiTypeOK, SharedInv, Apart, Served = {}, NEW p \in disk.active,
                      ~disk.rules[p[1]].enabled
               PROVE  FALSE
    BY DEF QuietAtRest
  <2>1. view = disk
    BY DEF SharedInv, ApiTypeOK
  <2>2. PICK r \in Requests : Closing(request[r], p)
    BY <2>1 DEF SharedInv, Attended
  <2> QED
    BY <2>2 DEF Closing, Served, Working
<1> QED
  BY <1>1, ApiTypeCorrect, SharedHolds, PTL


=============================================================================
