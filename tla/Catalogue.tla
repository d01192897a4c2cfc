-------------------------------- MODULE Catalogue --------------------------------
(***************************************************************************)
(* What the experiments of all services are to whoever lists them: a set of   *)
(* whole designs, each added in one step, complete and fit to be assigned,    *)
(* under a name that its service has not used, and never changed.            *)
(***************************************************************************)
EXTENDS Naturals, FiniteSets

CONSTANTS
    ServiceIds,
    Designs    \* what a client may ask for: a name, a layer, variants and their percent

VARIABLES
    catalogue

\* What Assignment assumes of an experiment: two variants or more, which
\* together take some traffic and no more than there is.
Assignable(d) ==
    /\ Cardinality(d.variants) >= 2
    /\ d.percent > 0
    /\ Cardinality(d.variants) * d.percent <= 100
    /\ \A v \in d.variants : v.flags # {} /\ \A w \in d.variants : v.key = w.key => v = w

CatalogueInit == catalogue = {}

AddDesign(service, d) ==
    /\ Assignable(d)
    /\ \A e \in catalogue : <<e.service, e.design.name>> # <<service, d.name>>
    /\ catalogue' = catalogue \cup {[service |-> service, design |-> d]}

CatalogueNext == \E service \in ServiceIds, d \in Designs : AddDesign(service, d)

CatalogueSpec == CatalogueInit /\ [][CatalogueNext]_catalogue

================================================================================
