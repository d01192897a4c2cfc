-------------------------- MODULE MCExperimentCreation --------------------------
(* Small instances of ExperimentCreation for TLC. *)
EXTENDS ExperimentCreation, TLC

CONSTANTS c1, c2, d1, d2, ann, bob, p, checkout, search, color, size

Split(percent, first, second) ==
    [percent |-> percent,
     variants |-> <<[key |-> "A", flags |-> first], [key |-> "B", flags |-> second]>>]

\* Two that share a layer, two that share a name, one with a second flag, and one
\* that takes more traffic than there is.
Bodies ==
    {[name |-> color, layer |-> checkout] @@ Split(50, <<1>>, <<1>>),
     [name |-> size, layer |-> checkout] @@ Split(20, <<1>>, <<1>>),
     [name |-> color, layer |-> search] @@ Split(20, <<1>>, <<1>>),
     [name |-> size, layer |-> search] @@ Split(20, <<1>>, <<2, 1>>),
     [name |-> size, layer |-> search] @@ Split(60, <<1>>, <<1>>)}

================================================================================
