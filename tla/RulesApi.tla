------------------------------ MODULE RulesApi ------------------------------
(***************************************************************************)
(* The writing requests of the rules API (app/api/routes_rules.py), served *)
(* by a pool of threads over one connection, beside the replay process.    *)
(*                                                                         *)
(* disk is what is committed.  view is what the connection sees: disk, and *)
(* the statements of whatever requests since its last commit or rollback.  *)
(* A transaction has begun with the first such statement, and keeps the    *)
(* replay process from writing until it ends.                              *)
(*                                                                         *)
(* The replay process reads a rule and its episode in one place of an      *)
(* evaluation and writes the episode in a later one, in a transaction of   *)
(* its own.  R12 keeps the API's writes out of an evaluation; they come    *)
(* inside one as well in the mode of that name.                            *)
(***************************************************************************)
EXTENDS RuleValidation, Naturals

CONSTANTS
  Requests,
  RuleIds,
  Subjects,
  Bodies,           \* what a client may post
  Seeds,            \* rules that may be there from the start
  Modes,            \* do requests overlap, do statements fail, do they come
                    \* inside an evaluation?
  None              \* SQL NULL

Pairs == RuleIds \X Subjects
Records == [body : {body \in Bodies : Valid(body)}, enabled : BOOLEAN, version : Nat]
Tables == [rules : [RuleIds -> Records \cup {None}], active : SUBSET Pairs]

ASSUME ModesAssumption == Modes \subseteq SUBSET {"overlap", "failures", "inside"}
ASSUME BodiesAssumption ==
  /\ \A body \in Bodies : body.enabled \in BOOLEAN
  /\ Seeds \subseteq {body \in Bodies : Valid(body)}
ASSUME NoneIsNoRecord == None \notin Records \cup Pairs

VARIABLES
  mode,             \* which of the modes
  disk,             \* committed rules and active episodes
  view,             \* the same as the connection sees them
  begun,            \* has the connection an open transaction?
  request,          \* the handler of each request
  evaluation        \* the pair the replay process has read a rule for, or None

avars == <<mode, disk, view, begun, request, evaluation>>

Working == {"update", "list", "close", "insert", "commit"}
Answers == {"200", "201", "404", "422", "500", "lost"}
Handlers ==
  [pc : Working \cup Answers \cup {"new"}, op : {"none", "create", "disable"},
   id : RuleIds \cup {None}, record : Records \cup {None}, rows : SUBSET Pairs]

Of(tables, id) == {p \in tables.active : p[1] = id}

(* The locals of a handler; rows are the episodes it has yet to close.     *)
Handler(pc, op, id, record, rows) ==
  [pc |-> pc, op |-> op, id |-> id, record |-> record, rows |-> rows]

AInit ==
  /\ mode \in Modes
  /\ \E seeded \in SUBSET RuleIds, body \in Seeds :
       disk = [rules |-> [id \in RuleIds |->
                            IF id \in seeded
                            THEN [body |-> body, enabled |-> TRUE, version |-> 1] ELSE None],
               active |-> {}]
  /\ view = disk
  /\ begun = FALSE
  /\ request = [r \in Requests |-> Handler("new", "none", None, None, {})]
  /\ evaluation = None

-----------------------------------------------------------------------------
Served == {r \in Requests : request[r].pc \in Working}
MayReceive(r) ==
  /\ request[r].pc = "new"
  /\ "overlap" \in mode \/ Served = {}

\* What is left of a request, and of one that came to nothing.
Answer(r, code) ==
  request' = [request EXCEPT ![r] = Handler(code, @.op, @.id, None, {})]
Nothing(code) == Handler(code, "none", None, None, {})

GoTo(r, pc, rows) ==
  request' = [request EXCEPT ![r] = [@ EXCEPT !.pc = pc, !.rows = rows]]

At(r, pc) == request[r].pc = pc

\* R12: no statement of the API while an evaluation is between its read and
\* its write.
MayWrite == "inside" \in mode \/ evaluation = None

\* Mutant of Execute: every statement commits itself.
ExecuteAndCommit(tables) ==
  MayWrite /\ view' = tables /\ disk' = tables /\ UNCHANGED <<mode, begun, evaluation>>

\* A statement of a handler, which may be the first of a transaction.
Execute(tables) ==
  MayWrite /\ view' = tables /\ begun' = TRUE /\ UNCHANGED <<mode, disk, evaluation>>

\* Mutant of Commit: the commit is left to the next request.
CommitLater(r, code) ==
  /\ Answer(r, code)
  /\ UNCHANGED <<mode, disk, view, begun, evaluation>>

\* conn.commit() takes along what any other handler has executed.
Commit(r, code) ==
  /\ disk' = view /\ begun' = FALSE
  /\ Answer(r, code)
  /\ UNCHANGED <<mode, view, evaluation>>

-----------------------------------------------------------------------------
(* POST /rules.  The handler is a coroutine that awaits nothing once it    *)
(* has the body: there is one at a time.                                   *)

Creating == {r \in Served : request[r].op = "create"}

\* Mutant of ReceiveCreate: the body is stored as it comes.
ReceiveCreateUnchecked(r) ==
  /\ MayReceive(r) /\ Creating = {}
  /\ \E body \in Bodies, id \in {x \in RuleIds : view.rules[x] = None} :
       request' = [request EXCEPT ![r] =
         Handler("insert", "create", id,
                 [body |-> body, enabled |-> body.enabled, version |-> 1], {})]
  /\ UNCHANGED <<mode, disk, view, begun, evaluation>>

ReceiveCreate(r) ==
  /\ MayReceive(r) /\ Creating = {}
  /\ \E body \in Bodies, id \in {x \in RuleIds : view.rules[x] = None} :
       request' = [request EXCEPT ![r] =
         IF Valid(body)
         THEN Handler("insert", "create", id,
                      [body |-> body, enabled |-> body.enabled, version |-> 1], {})
         ELSE Nothing("422")]
  /\ UNCHANGED <<mode, disk, view, begun, evaluation>>

Insert(r) ==
  /\ At(r, "insert")
  /\ Execute([view EXCEPT !.rules[request[r].id] = request[r].record])
  /\ GoTo(r, "commit", {})

-----------------------------------------------------------------------------
(* POST /rules/{id}/disable.                                               *)

\* The record is read before the transaction.
ReceiveDisable(r) ==
  /\ MayReceive(r)
  /\ \E id \in RuleIds :
       request' = [request EXCEPT ![r] =
         IF view.rules[id] = None THEN Nothing("404")
         ELSE Handler("update", "disable", id, view.rules[id], {})]
  /\ UNCHANGED <<mode, disk, view, begun, evaluation>>

Disabled(record) ==
  [body |-> record.body, enabled |-> FALSE, version |-> record.version + 1]

Update(r) ==
  /\ At(r, "update")
  /\ Execute([view EXCEPT !.rules[request[r].id] = Disabled(request[r].record)])
  /\ GoTo(r, "list", {})

ListActive(r) ==
  /\ At(r, "list")
  /\ GoTo(r, "close", Of(view, request[r].id))
  /\ UNCHANGED <<mode, disk, view, begun, evaluation>>

CloseOne(r) ==
  /\ At(r, "close")
  /\ \E p \in request[r].rows :
       /\ Execute([view EXCEPT !.active = @ \ {p}])
       /\ GoTo(r, "close", request[r].rows \ {p})

CloseNoMore(r) ==
  /\ At(r, "close") /\ request[r].rows = {}
  /\ GoTo(r, "commit", {})
  /\ UNCHANGED <<mode, disk, view, begun, evaluation>>

CommitWrites(r) ==
  /\ At(r, "commit")
  /\ Commit(r, IF request[r].op = "create" THEN "201" ELSE "200")

-----------------------------------------------------------------------------
\* Mutant of Rollback: the exception goes up without one.
RollbackNothing == UNCHANGED <<disk, view, begun>>

\* conn.rollback() undoes what any other handler has executed.
Rollback == view' = disk /\ begun' = FALSE /\ UNCHANGED disk

\* A statement or the commit raises: a lock not obtained in time, a full disk.
Fail(r) ==
  /\ "failures" \in mode /\ r \in Served
  /\ Rollback
  /\ request' = [request EXCEPT ![r] = Nothing("500")]
  /\ UNCHANGED <<mode, evaluation>>

\* The server is killed and started again.
Crash ==
  /\ "failures" \in mode
  /\ view' = disk /\ begun' = FALSE
  /\ request' = [r \in Requests |-> IF r \in Served THEN Nothing("lost") ELSE request[r]]
  /\ UNCHANGED <<mode, disk, evaluation>>

-----------------------------------------------------------------------------
(* evaluate_rule() in the replay process, as the rules tables see it.      *)

\* It reads the rule, and the episode there may be: what it will write over.
ReadRule ==
  /\ evaluation = None
  /\ "inside" \in mode \/ ~begun
  /\ \E p \in Pairs :
       /\ disk.rules[p[1]] # None /\ disk.rules[p[1]].enabled
       /\ evaluation' = p
  /\ UNCHANGED <<mode, disk, view, begun, request>>

\* It writes the episode, begun, continued or cleared, whatever became of the
\* rule since.
WriteRow ==
  /\ evaluation # None /\ ~begun
  /\ \E active \in {disk.active \cup {evaluation}, disk.active \ {evaluation}} :
       disk' = [disk EXCEPT !.active = active]
  /\ view' = disk'
  /\ evaluation' = None
  /\ UNCHANGED <<mode, begun, request>>

\* It has nothing to store; or the lock is not obtained in time, or the
\* process is killed.
WriteNothing ==
  /\ evaluation # None
  /\ evaluation' = None
  /\ UNCHANGED <<mode, disk, view, begun, request>>

Handle(r) ==
  \/ Insert(r)
  \/ Update(r) \/ ListActive(r) \/ CloseOne(r) \/ CloseNoMore(r)
  \/ CommitWrites(r)

ANext ==
  \/ \E r \in Requests : ReceiveCreate(r) \/ ReceiveDisable(r) \/ Handle(r) \/ Fail(r)
  \/ Crash
  \/ ReadRule \/ WriteRow \/ WriteNothing

ASpec == AInit /\ [][ANext]_avars

\* A handler is straight-line code on a thread of its own.
AFairSpec == ASpec /\ \A r \in Requests : WF_avars(Handle(r))

-----------------------------------------------------------------------------
\* The tables hold valid rules and episodes of rules that are there; without
\* an open transaction the connection sees what is committed.
TablesOK(tables) ==
  /\ tables \in Tables
  /\ \A p \in tables.active : tables.rules[p[1]] # None

HandlerOK(h) ==
  /\ h \in Handlers
  /\ h.pc \in Working => h.id \in RuleIds
  /\ h.pc \in {"insert", "update"} => h.record \in Records

ApiTypeOK ==
  /\ TablesOK(disk) /\ TablesOK(view)
  /\ begun \in BOOLEAN /\ (begun = FALSE => view = disk)
  /\ request \in [Requests -> Handlers]
  /\ \A r \in Requests : HandlerOK(request[r])
  /\ \A id \in RuleIds : disk.rules[id] # None => view.rules[id] # None
  /\ evaluation \in Pairs \cup {None}
  /\ evaluation # None => disk.rules[evaluation[1]] # None

\* What a client was told is so on disk, and stays so: a created rule is
\* there, a disabled one is disabled; and it has no active episode, as long as
\* R12 keeps the disable out of an evaluation (the zombie run is without).
AnsweredIsDurable ==
  \A r \in Requests :
    LET id == request[r].id
    IN  /\ At(r, "201") => disk.rules[id] # None
        /\ At(r, "200") => /\ ~disk.rules[id].enabled
                           /\ "inside" \notin mode => Of(disk, id) = {}

\* With no request under way, however the last ones ended, a disabled rule
\* has no active episode, again as long as R12 keeps requests out of an
\* evaluation: no disable is left half done.
QuietAtRest ==
  "inside" \notin mode /\ Served = {} => \A p \in disk.active : disk.rules[p[1]].enabled

\* A rule on disk has a format spec to blame if it raises when it runs: with
\* what is known of a subject all its conditions compare, its template's names
\* have values, its recipient can be resolved.
StoredRulesRun ==
  \A id \in RuleIds : disk.rules[id] # None => RaisesInSpecsOnly(disk.rules[id].body)

\* An open transaction ends: the replay process is not locked out for good.
LockReleased == begun ~> ~begun

\* A transaction is one unit of work, through failures and restarts, as long
\* as requests do not overlap: what a commit brings to disk is one new rule,
\* or one rule disabled together with all its episodes, and nothing else.
Unit(id) ==
  /\ disk'.rules = [disk.rules EXCEPT ![id] = disk'.rules[id]]
  /\ disk'.active = disk.active \ Of(disk, id)
  /\ disk'.rules[id].enabled => disk.rules[id] = None

AtomicAlone ==
  [][\/ "overlap" \in mode
     \/ UNCHANGED disk
     \/ WriteRow
     \/ \E id \in RuleIds : Unit(id)]_avars

-----------------------------------------------------------------------------
(* Claims of the repository that the code does not keep.                   *)

\* db.py: repository calls are grouped "into a single atomic unit of work":
\* on disk a rule is never disabled with its episodes still active.
DisabledIsClosed == \A p \in disk.active : disk.rules[p[1]].enabled

=============================================================================
