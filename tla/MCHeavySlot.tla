----------------------------- MODULE MCHeavySlot -----------------------------
(* HeavySlot on small instances. *)
EXTENDS HeavySlot, TLC

CONSTANTS p, s, o   \* a job, a step of its command, and another job

NoParents == [j \in Jobs |-> None]
StepOfP   == [j \in Jobs |-> IF j = s THEN p ELSE None]

OneEach   == [j \in Jobs |-> 1]
TwoEach   == [j \in Jobs |-> 2]
TwoForP   == [j \in Jobs |-> IF j = p THEN 2 ELSE 1]

Symmetry == Permutations(Jobs)

\* The longest waits: a command takes all that was reserved for it before anything else
\* happens, and keeps it until it ends.
Steady ==
  /\ \A j \in Using : use'[j] = Gb[j] \/ pc'[j] = "done"
  /\ \A j \in Jobs : use'[j] < use[j] => pc'[j] = "done"
SteadySpec == Init /\ [][Next /\ Steady]_vars /\ Fairness

\* What a job has no more use for does not distinguish two states, nor do the names of
\* those that have left the queue, nor a holder file whose owner is gone.
While(f, states, v) == [j \in Jobs |-> IF pc[j] \in states THEN f[j] ELSE v]
Among(f, states) == [j \in Jobs |-> {k \in f[j] : pc[k] \in states}]

View ==
  <<pc, tickets, LiveHolders, use, reading, {j \in grown : pc[j] = "running"},
    While(Among(before, Waiting \cup {"named", "admitted"}), Waiting \cup {"named"}, {}),
    While(Among(ahead, Waiting), Waiting \cup {"named", "admitted", "running"}, {}),
    While(waited, Waiting, 0),
    While(since, {"admitted", "running"}, 0),
    {j \in Jobs : pc[j] \in {"admitted", "running"} /\ late[j] /\ since[j] < Bound}>>
=============================================================================
