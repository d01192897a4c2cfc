------------------------------- MODULE MCEndUsers -------------------------------
(* Small instances of EndUsers for TLC. *)
EXTENDS EndUsers

CONSTANTS d1, d2, x1, absent, r1, r2, r3, v1

FirstRequest == [v \in Events |-> r1]

\* Clients that wait for each other's answers: no two calls overlap.
OneAtATime == Cardinality({c \in Calls : tx[c] # {}}) <= 1

SequentialSpec == Init /\ [][Next /\ OneAtATime']_vars

================================================================================
