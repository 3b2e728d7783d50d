--------------------------- MODULE AlertContract ---------------------------
(***************************************************************************)
(* What a rule's author is promised, for each (rule, subject) pair: one    *)
(* alert at a time, raised only once the condition has been seen holding   *)
(* for the rule's for-duration, repeated no faster than its cooldown,      *)
(* ended by one resolution - or withdrawn in silence with its rule.        *)
(* Nothing here of tables, ids, transactions or evaluations.               *)
(***************************************************************************)
EXTENDS Integers

CONSTANTS
  Pairs,
  Owner,    \* [Pairs -> rules]
  Hold,     \* [Pairs -> Nat]  the rule's for-duration
  Quiet,    \* [Pairs -> Nat]  the rule's cooldown
  Time, None

VARIABLES
  watch,    \* pair -> the time the condition was first seen to hold, or None
  alert,    \* pair -> [last, count] of the alert that is up, or None
  issued    \* pair -> how many of each notification were issued

Kinds == {"opened", "reminder", "resolved"}
Nothing == [k \in Kinds |-> 0]

Init ==
  /\ watch = [p \in Pairs |-> None]
  /\ alert = [p \in Pairs |-> None]
  /\ issued = [p \in Pairs |-> Nothing]

Issue(p, kind) == issued' = [issued EXCEPT ![p][kind] = @ + 1]

\* The condition is seen, and then not seen, while no alert is up.
Watch(p, t) ==
  /\ alert[p] = None /\ watch[p] = None
  /\ watch' = [watch EXCEPT ![p] = t]
  /\ UNCHANGED <<alert, issued>>

Unwatch(p) ==
  /\ alert[p] = None /\ watch[p] # None
  /\ watch' = [watch EXCEPT ![p] = None]
  /\ UNCHANGED <<alert, issued>>

Raise(p, t) ==
  /\ alert[p] = None
  /\ IF watch[p] = None THEN Hold[p] = 0 ELSE t - watch[p] >= Hold[p]
  /\ alert' = [alert EXCEPT ![p] = [last |-> t, count |-> 0]]
  /\ watch' = [watch EXCEPT ![p] = None]
  /\ Issue(p, "opened")

Repeat(p, t) ==
  /\ alert[p] # None
  /\ Quiet[p] > 0 /\ t - alert[p].last >= Quiet[p]
  /\ alert' = [alert EXCEPT ![p] = [last |-> t, count |-> @.count + 1]]
  /\ UNCHANGED watch
  /\ Issue(p, "reminder")

Resolve(p) ==
  /\ alert[p] # None
  /\ alert' = [alert EXCEPT ![p] = None]
  /\ UNCHANGED watch
  /\ Issue(p, "resolved")

\* A rule goes away: whatever it was watching or alerting about is dropped.
Withdraw(r) ==
  LET drop(f) == [p \in Pairs |-> IF Owner[p] = r THEN None ELSE f[p]]
  IN  /\ alert' = drop(alert)
      /\ watch' = drop(watch)
      /\ UNCHANGED issued

Next ==
  \/ \E p \in Pairs : \/ \E t \in Time : Watch(p, t) \/ Raise(p, t) \/ Repeat(p, t)
                      \/ Unwatch(p)
                      \/ Resolve(p)
  \/ \E r \in {Owner[p] : p \in Pairs} : Withdraw(r)

vars == <<watch, alert, issued>>

Spec == Init /\ [][Next]_vars
=============================================================================
