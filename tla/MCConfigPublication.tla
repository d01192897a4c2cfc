-------------------------- MODULE MCConfigPublication --------------------------
(* Small instances of ConfigPublication for TLC. *)
EXTENDS ConfigPublication, TLC

CONSTANTS x, y, op1, op2, admin, scheduler

OneService == [e \in Experiments |-> 1]
TwoServices == [e \in Experiments |-> IF e = x THEN 1 ELSE 2]

WithoutComplete == {"send_to_queue", "start", "request_decision"}

\* Experiments of one service, and operators, are interchangeable.
Symmetric == Permutations(Experiments) \cup Permutations(Operators)

==============================================================================
