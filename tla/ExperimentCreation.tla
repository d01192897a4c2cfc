--------------------------- MODULE ExperimentCreation ---------------------------
(***************************************************************************)
(* How flags and experiments come to be (experiment_service.cpp), by the      *)
(* users of Access: a session with the role ADMIN is what it takes, and its   *)
(* service and user are what the rows are made of.                           *)
(*                                                                         *)
(* CreateExperiment is one transaction: a layer is looked up by name and      *)
(* inserted if it is not there, then the experiment, then each variant with   *)
(* its flags.  The SELECTs see what is committed; an INSERT waits for an      *)
(* open transaction that has inserted the same unique key, and fails if the   *)
(* key is there.  Listings are autocommit statements, one for the             *)
(* experiments and more for each of them.                                    *)
(***************************************************************************)
EXTENDS Access

CONSTANTS
    Clients,          \* requests for experiments that can be under way
    FlagKeys,
    Inputs,           \* bodies of POST /experiments
    MaxFlags,         \* bound on flags
    MaxRows,          \* bound on users and experiments taken together
    MaxUnderWay       \* bound on requests under way at once, of both kinds

ASSUME InputAssumption ==
    \A input \in Inputs :
        /\ input.percent \in Nat
        /\ input.variants \in Seq([key : STRING, flags : Seq(Nat)])

ASSUME CreationBoundAssumption == MaxFlags \in Nat /\ MaxRows \in Nat /\ MaxUnderWay \in Nat

VARIABLES
    flags,         \* abtest.Flag, by id
    layers,        \* abtest.ExperimentLayer
    experiments,   \* abtest.Experiment
    variants,      \* abtest.ExperimentVariant with abtest.VariantFlag
    creation,      \* per request, its open transaction of CreateExperiment
    listing        \* per request, the loop of a listing

designs == <<layers, experiments, variants>>
creationVars == <<flags, layers, experiments, variants, creation, listing>>
vars == <<accessVars, creationVars>>

------------------------------------------------------------------------------
(* Rows                                                                    *)

Values(seq) == {seq[i] : i \in DOMAIN seq}

Unique(seq) == \A i, j \in DOMAIN seq : seq[i] = seq[j] => i = j

\* Percents are whole: the tolerance of 1e-6 is for their rounding.
ValidateExperimentInput(input) ==
    /\ input.percent > 0
    /\ Len(input.variants) >= 2
    /\ Len(input.variants) * input.percent <= 100
    /\ Unique([i \in DOMAIN input.variants |-> input.variants[i].key])
    /\ \A i \in DOMAIN input.variants :
         input.variants[i].flags # <<>> /\ Unique(input.variants[i].flags)

VariantOf(v) == [key |-> v.key, flags |-> Values(v.flags)]

\* What a client asks for with input.
DesignOf(input) ==
    [name |-> input.name, layer |-> input.layer, percent |-> input.percent,
     variants |-> {VariantOf(v) : v \in Values(input.variants)}]

ExperimentRow(t) ==
    [service |-> t.session.service, name |-> t.input.name, layer |-> t.input.layer,
     percent |-> t.input.percent, created_by_user |-> t.session.email]

LayerRow(t) == [service |-> t.session.service, name |-> t.input.layer]

\* The variants of e as a SELECT finds them.
VariantsOf(e) ==
    {v.variant : v \in {w \in variants : w.service = e.service /\ w.name = e.name}}

ViewOf(e) == [name |-> e.name, layer |-> e.layer, percent |-> e.percent, variants |-> VariantsOf(e)]

\* The transaction of CreateExperiment, by its next statement, with how many
\* variants it has inserted; and the loop of a listing, with the experiments it
\* has still to complete and the views that are complete.
Creation == [next : {"layer", "experiment", "variants"}, session : SessionData,
             input : Inputs, newLayer : BOOLEAN, inserted : Nat]

CreationInit ==
    /\ flags = <<>>
    /\ layers = {}
    /\ experiments = {}
    /\ variants = {}
    /\ creation = [c \in Clients |-> {}]
    /\ listing = [c \in Clients |-> {}]

Init == AccessInit /\ CreationInit

Busy(c) == creation[c] # {} \/ listing[c] # {}

Continue(c, t) ==
    /\ creation' = [creation EXCEPT ![c] = {t}]
    /\ UNCHANGED <<accessVars, flags, designs, listing>>

\* An exception leaves the transaction, which is rolled back.
Rollback(c) ==
    /\ creation' = [creation EXCEPT ![c] = {}]
    /\ UNCHANGED <<accessVars, flags, designs, listing>>

------------------------------------------------------------------------------
(* Flags                                                                   *)

\* POST /flags, a statement.
CreateFlag(s, key) ==
    /\ HasRole(s, "ADMIN")
    /\ Len(flags) < MaxFlags
    /\ [service |-> s.service, key |-> key] \notin Values(flags)
    /\ flags' = Append(flags, [service |-> s.service, key |-> key])
    /\ UNCHANGED <<accessVars, designs, creation, listing>>

BugFlagExists(service, id) == id \in DOMAIN flags

EnsureFlagBelongsToService(service, id) == id \in DOMAIN flags /\ flags[id].service = service

------------------------------------------------------------------------------
(* CreateExperiment                                                        *)

\* BEGIN, and the look-up of the layer.
Begin(c, s, input) ==
    LET row == [service |-> s.service, name |-> input.layer]
    IN Continue(c, [next |-> IF row \in layers THEN "experiment" ELSE "layer",
                    session |-> s, input |-> input,
                    newLayer |-> row \notin layers, inserted |-> 0])

\* POST /experiments: the role, the check of the body, and what begins the
\* transaction.
CreateExperiment(c, s, input) ==
    /\ ~ Busy(c)
    /\ HasRole(s, "ADMIN")
    /\ ValidateExperimentInput(input)
    /\ Begin(c, s, input)

LayerInsertedByOther(c, row) ==
    \E d \in Clients \ {c} : \E t \in creation[d] :
        t.newLayer /\ t.next # "layer" /\ LayerRow(t) = row

BugInsertLayerOutside(c) ==
    \E t \in creation[c] :
        /\ t.next = "layer"
        /\ LayerRow(t) \notin layers
        /\ layers' = layers \cup {LayerRow(t)}
        /\ creation' = [creation EXCEPT ![c] = {[t EXCEPT !.next = "experiment", !.newLayer = FALSE]}]
        /\ UNCHANGED <<accessVars, flags, experiments, variants, listing>>

InsertLayer(c) ==
    \E t \in creation[c] :
        /\ t.next = "layer"
        /\ ~ LayerInsertedByOther(c, LayerRow(t))
        /\ LayerRow(t) \notin layers
        /\ Continue(c, [t EXCEPT !.next = "experiment"])

SameName(e, d) == e.service = d.service /\ e.name = d.name

NameInsertedByOther(c, row) ==
    \E d \in Clients \ {c} : \E t \in creation[d] :
        t.next = "variants" /\ SameName(ExperimentRow(t), row)

BugInsertUnchecked(c) ==
    \E t \in creation[c] :
        /\ t.next = "experiment"
        /\ \A e \in experiments : ~ SameName(e, ExperimentRow(t))
        /\ Continue(c, [t EXCEPT !.next = "variants"])

InsertExperiment(c) ==
    \E t \in creation[c] :
        /\ t.next = "experiment"
        /\ ~ NameInsertedByOther(c, ExperimentRow(t))
        /\ \A e \in experiments : ~ SameName(e, ExperimentRow(t))
        /\ Continue(c, [t EXCEPT !.next = "variants"])

\* A layer or a name that was committed since, or has been there.
DuplicateKey(c) ==
    /\ \E t \in creation[c] :
         \/ t.next = "layer" /\ LayerRow(t) \in layers
         \/ t.next = "experiment" /\ \E e \in experiments : SameName(e, ExperimentRow(t))
    /\ Rollback(c)

NextVariant(t) == t.input.variants[t.inserted + 1]

FlagsExist(t) ==
    \A id \in Values(NextVariant(t).flags) : EnsureFlagBelongsToService(t.session.service, id)

\* A variant and its flags.
InsertVariant(c) ==
    \E t \in creation[c] :
        /\ t.next = "variants"
        /\ t.inserted < Len(t.input.variants)
        /\ FlagsExist(t)
        /\ Continue(c, [t EXCEPT !.inserted = @ + 1])

BugKeepOpen(c) ==
    /\ \E t \in creation[c] :
         /\ t.next = "variants"
         /\ t.inserted < Len(t.input.variants)
         /\ ~ FlagsExist(t)
    /\ UNCHANGED vars

\* "Flag with the given id does not exist in this service"
MissingFlag(c) ==
    /\ \E t \in creation[c] :
         /\ t.next = "variants"
         /\ t.inserted < Len(t.input.variants)
         /\ ~ FlagsExist(t)
    /\ Rollback(c)

VariantRows(t) ==
    {[service |-> t.session.service, name |-> t.input.name, variant |-> VariantOf(t.input.variants[i])] :
        i \in 1 .. t.inserted}

BugCommitEarly(c) ==
    \E t \in creation[c] :
        /\ t.next = "variants"
        /\ layers' = layers \cup {l \in {LayerRow(t)} : t.newLayer}
        /\ experiments' = experiments \cup {ExperimentRow(t)}
        /\ variants' = variants \cup VariantRows(t)
        /\ IF t.inserted = Len(t.input.variants)
           THEN /\ creation' = [creation EXCEPT ![c] = {}]
                /\ listing' = [listing EXCEPT ![c] = {[todo |-> {ExperimentRow(t)}, views |-> {}]}]
           ELSE UNCHANGED <<creation, listing>>
        /\ UNCHANGED <<accessVars, flags>>

\* COMMIT; the experiment is then read again for the answer (GetExperimentById).
CommitExperiment(c) ==
    \E t \in creation[c] :
        /\ t.next = "variants"
        /\ t.inserted = Len(t.input.variants)
        /\ layers' = layers \cup {l \in {LayerRow(t)} : t.newLayer}
        /\ experiments' = experiments \cup {ExperimentRow(t)}
        /\ variants' = variants \cup VariantRows(t)
        /\ creation' = [creation EXCEPT ![c] = {}]
        /\ listing' = [listing EXCEPT ![c] = {[todo |-> {ExperimentRow(t)}, views |-> {}]}]
        /\ UNCHANGED <<accessVars, flags>>

------------------------------------------------------------------------------
(* Listings                                                                *)

\* GET /experiments, for any role: the SELECT of the experiments.
ListExperiments(c, s) ==
    /\ ~ Busy(c)
    /\ listing' = [listing EXCEPT ![c] =
         {[todo |-> {e \in experiments : e.service = s.service}, views |-> {}]}]
    /\ UNCHANGED <<accessVars, flags, designs, creation>>

\* The variants of one of them, with their flags.
ReadVariants(c) ==
    \E a \in listing[c] : \E e \in a.todo :
        /\ listing' = [listing EXCEPT ![c] =
             {[todo |-> a.todo \ {e}, views |-> a.views \cup {ViewOf(e)}]}]
        /\ UNCHANGED <<accessVars, flags, designs, creation>>

AnswerListing(c) ==
    /\ \E a \in listing[c] : a.todo = {}
    /\ listing' = [listing EXCEPT ![c] = {}]
    /\ UNCHANGED <<accessVars, flags, designs, creation>>

------------------------------------------------------------------------------

\* A statement fails.
RequestFails(c) ==
    /\ Busy(c)
    /\ creation' = [creation EXCEPT ![c] = {}]
    /\ listing' = [listing EXCEPT ![c] = {}]
    /\ UNCHANGED <<accessVars, flags, designs>>

Restart ==
    /\ AccessRestart
    /\ creation' = [c \in Clients |-> {}]
    /\ listing' = [c \in Clients |-> {}]
    /\ UNCHANGED <<flags, designs>>

\* What a request does by itself once it is under way.
RequestStep(c) ==
    \/ InsertLayer(c)
    \/ InsertExperiment(c)
    \/ DuplicateKey(c)
    \/ InsertVariant(c)
    \/ MissingFlag(c)
    \/ CommitExperiment(c)
    \/ ReadVariants(c)
    \/ AnswerListing(c)

Opened == {c \in Clients : creation[c] # {}}
Inserting == {c \in Calls : \E a \in call[c] : a.op = "inserted"}

\* The users and experiments there are and those under way, and the requests:
\* neither bound ever stops what has begun.
Rows ==
    Cardinality(users) + Cardinality(Inserting) + Cardinality(experiments) + Cardinality(Opened)

UnderWay == Cardinality({c \in Calls : call[c] # {}}) + Cardinality({c \in Clients : Busy(c)})

Bounded == Rows <= MaxRows /\ UnderWay <= MaxUnderWay

Next ==
    \/ AccessNext /\ UNCHANGED creationVars /\ Bounded'
    \/ \E s \in sessions, key \in FlagKeys : CreateFlag(s, key) /\ Bounded'
    \/ \E c \in Clients, s \in sessions :
         \/ \E input \in Inputs : CreateExperiment(c, s, input) /\ Bounded'
         \/ ListExperiments(c, s) /\ Bounded'
    \/ \E c \in Clients : RequestStep(c) \/ RequestFails(c)
    \/ Restart

Spec == Init /\ [][Next]_vars

\* A request that is under way goes on.  An INSERT that waits is woken each time
\* the transaction it waits for ends, before a request that is only beginning
\* can have come as far: hence the strong fairness.
Fairness ==
    /\ \A c \in Calls : WF_vars(AccessStep(c) /\ UNCHANGED creationVars)
    /\ \A c \in Clients : SF_vars(RequestStep(c))

FairSpec == Spec /\ Fairness

------------------------------------------------------------------------------
(* Properties                                                              *)

Names == {input.name : input \in Inputs}
LayerNames == {input.layer : input \in Inputs}
VariantValues == UNION {DesignOf(input).variants : input \in Inputs}

ExperimentRows == [service : Nat \ {0}, name : Names, layer : LayerNames,
                   percent : Nat, created_by_user : Emails]
View == [name : Names, layer : LayerNames, percent : Nat, variants : SUBSET VariantValues]
Listing == [todo : SUBSET ExperimentRows, views : SUBSET View]

\* Every variable stays in its type.
TypeOK ==
    /\ AccessTypeOK
    /\ flags \in Seq([service : Nat \ {0}, key : FlagKeys])
    /\ layers \in SUBSET [service : Nat \ {0}, name : LayerNames]
    /\ experiments \in SUBSET ExperimentRows
    /\ variants \in SUBSET [service : Nat \ {0}, name : Names, variant : VariantValues]
    /\ creation \in [Clients -> SUBSET Creation]
    /\ listing \in [Clients -> SUBSET Listing]

\* A layer comes with its first experiment: one that was refused or cut off
\* leaves no layer behind, and one that lost the race for a new layer finds it.
NoEmptyLayer == \A l \in layers : \E e \in experiments : e.service = l.service /\ e.layer = l.name

\* What an experiment consists of belongs to its service, and its creator is an
\* admin of it; the tables have no constraint that says so.
OneServiceThroughout ==
    /\ \A e \in experiments :
         /\ [service |-> e.service, name |-> e.layer] \in layers
         /\ \E u \in users : /\ u.service = e.service
                             /\ u.email = e.created_by_user
                             /\ HasRole(u, "ADMIN")
    /\ \A v \in variants : \A id \in v.variant.flags :
         id \in DOMAIN flags /\ flags[id].service = v.service

\* A listing, of several statements, shows each experiment as a client asked for
\* it, with all variants and flags, whatever is created while it goes on.
ListedIsComplete ==
    \A c \in Clients : \A a \in listing[c] : \A view \in a.views :
        \E input \in Inputs : ValidateExperimentInput(input) /\ view = DesignOf(input)

\* What has been created for service n, and which of its keys are revoked.  The
\* status of an experiment is not among it: any role may PATCH it, and the
\* scheduler does without a session (ConfigPublication).
CreatedFor(n) ==
    <<{u \in users : u.service = n}, {id \in DOMAIN keys : keys[id].service = n},
      {id \in Revoked : keys[id].service = n}, {id \in DOMAIN flags : flags[id].service = n},
      {l \in layers : l.service = n}, {e \in experiments : e.service = n},
      {v \in variants : v.service = n}>>

\* After its registration, a service gets users, keys, flags, layers and
\* experiments, and loses keys, only while one of its admins is logged in, and
\* an experiment while the admin who is said to have created it is: the requests
\* of another service's admin never reach its rows, nor does any role but ADMIN
\* create, nor a transaction outlive the session that began it.
AdminsCreateTheirOwn ==
    [][/\ \A n \in Services : CreatedFor(n)' # CreatedFor(n) => \E s \in Admins : s.service = n
       /\ \A e \in experiments' \ experiments :
            \E s \in Admins : s.service = e.service /\ s.email = e.created_by_user]_vars

\* See Catalogue.
ExperimentCatalogue ==
    INSTANCE Catalogue WITH
        catalogue <- {[service |-> e.service, design |-> ViewOf(e)] : e \in experiments},
        Designs <- {DesignOf(input) : input \in Inputs},
        ServiceIds <- 1 .. MaxServices

ImplementsCatalogue == ExperimentCatalogue!CatalogueSpec

\* Every request that begins comes to an end: two that create the same layer and
\* the same experiment wait for each other in one order only.
RequestsEnd == \A c \in Clients : Busy(c) ~> ~ Busy(c)

================================================================================
