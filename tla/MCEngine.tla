------------------------------ MODULE MCEngine ------------------------------
(* Constants of Engine for TLC: one rule over one or two subjects.     *)
EXTENDS EngineProperties, TLC

CONSTANTS r1, s1, s2, e1, e2, e3, w1, w2, k

OneRule == {r1}
OneSubject == {s1}
TwoSubjects == {s1, s2}
OneWorker == {w1}
TwoWorkers == {w1, w2}
TwoIds == {e1, e2}
ThreeIds == {e1, e2, e3}

\* Every rule waits one second and reminds every second.
Brisk == [r \in Rules |-> 1]
AtOnce == [r \in Rules |-> 0]

AllAgents == [x \in Rules \cup Subjects |-> "agent"]

SelectAll == [r \in Rules |-> [kind |-> "all"]]
\* The rules list their subjects by id, or name a queue.
SelectIds == [r \in Rules |-> [kind |-> "ids", ids |-> {s1}]]
SelectMembers == [r \in Rules |-> [kind |-> "queue_membership", queue_ids |-> {k}]]

NoQueues == {}
OneQueue == {k}

\* Every file starts at the origin; or there is a later one as well.
FromZero == {0}
TwoFiles == {0, 2}

IdSymmetry == Permutations(EpisodeIds)
IdWorkerSymmetry == Permutations(EpisodeIds) \cup Permutations(Workers)
=============================================================================
