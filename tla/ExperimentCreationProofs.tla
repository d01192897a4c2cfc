------------------------ MODULE ExperimentCreationProofs ------------------------
(***************************************************************************)
(* The invariants of ExperimentCreation, that only the admins of a service    *)
(* change what is of it, and that its experiments are a Catalogue, for any     *)
(* number of services, requests, flags and bodies.  Those of Access hold here  *)
(* too: nothing that this module adds changes what they are about.            *)
(***************************************************************************)
EXTENDS ExperimentCreation, AccessProofs, FiniteSetTheorems

\* What a transaction knows is still so when it goes on: its user is an admin,
\* its layer is there or is its own, its name is nobody else's, and the flags of
\* what it has inserted are those of its service.
CreationOK(c, t) ==
    /\ t.session \in Admins
    /\ ValidateExperimentInput(t.input)
    /\ t.inserted <= Len(t.input.variants)
    /\ t.newLayer \/ LayerRow(t) \in layers
    /\ t.next = "variants" =>
         /\ \A e \in experiments : ~ SameName(e, ExperimentRow(t))
         /\ ~ NameInsertedByOther(c, ExperimentRow(t))
    /\ \A i \in 1 .. t.inserted : \A id \in Values(t.input.variants[i].flags) :
         EnsureFlagBelongsToService(t.session.service, id)

\* A view is what a client asked for.
Asked(view) == \E input \in Inputs : ValidateExperimentInput(input) /\ view = DesignOf(input)

ListingOK(a) == a.todo \subseteq experiments /\ \A view \in a.views : Asked(view)

RequestsInv ==
    /\ \A c \in Clients : \A t \in creation[c] : CreationOK(c, t)
    /\ \A c \in Clients : \A a \in listing[c] : ListingOK(a)

\* A user that is being inserted is inserted by an admin of the service.
InsertsInv ==
    \A c \in Calls : \A a \in call[c] :
        a.op = "inserted" => \E s \in Admins : s.service = a.service

\* Experiments are as they were asked for, and variants are those of experiments.
DesignsInv ==
    /\ \A e \in experiments : Asked(ViewOf(e))
    /\ \A v \in variants : \E e \in experiments : SameName(e, v)

CreationInv ==
    /\ AccessInv
    /\ TypeOK
    /\ services <= MaxServices
    /\ InsertsInv
    /\ NoEmptyLayer
    /\ OneServiceThroughout
    /\ DesignsInv
    /\ RequestsInv

------------------------------------------------------------------------------

LEMMA CreationInitInv == Init => CreationInv
<1> SUFFICES ASSUME Init PROVE CreationInv
  OBVIOUS
<1>1. AccessInv
  BY AccessInitInv DEF Init
<1>2. TypeOK
  BY <1>1 DEF Init, CreationInit, TypeOK, AccessInv
<1>3. services <= MaxServices
  BY AccountBoundAssumption DEF Init, AccessInit
<1> QED
  BY <1>1, <1>2, <1>3 DEF Init, AccessInit, CreationInit, CreationInv, InsertsInv, NoEmptyLayer,
     OneServiceThroughout, DesignsInv, RequestsInv

\* An admin that is logged in is a user of a service that there is.
LEMMA AdminIsUser ==
    ASSUME AccessInv, NEW s \in Admins
    PROVE  /\ s \in SessionData
           /\ s.service \in Services
           /\ \E u \in users : u.service = s.service /\ u.email = s.email /\ HasRole(u, "ADMIN")
  BY DEF AccessInv, AccessTypeOK, SessionsOfUsers, UsersInv, Admins, HasRole

\* A request that has come further changes nothing for the others, but for the
\* name that it may have inserted.
LEMMA RequestInv ==
    ASSUME CreationInv, NEW c \in Clients,
           NEW S \in SUBSET Creation, \A t \in S : CreationOK(c, t),
           NEW L \in SUBSET Listing, \A a \in L : ListingOK(a),
           creation' = [creation EXCEPT ![c] = S],
           listing' = [listing EXCEPT ![c] = L],
           UNCHANGED <<accessVars, flags, designs>>
    PROVE  CreationInv'
<1> USE DEF designs
<1>1. AccessInv' /\ AccessTypeOK'
  BY AccessUnchanged DEF CreationInv, AccessInv
<1>2. /\ creation \in [Clients -> SUBSET Creation]
      /\ listing \in [Clients -> SUBSET Listing]
  BY DEF CreationInv, TypeOK
<1>3. TypeOK'
  BY <1>1, <1>2 DEF CreationInv, TypeOK
<1>4. services' <= MaxServices /\ InsertsInv' /\ NoEmptyLayer' /\ OneServiceThroughout'
  BY DEF CreationInv, InsertsInv, NoEmptyLayer, OneServiceThroughout, Admins, HasRole, accessVars
<1>5. DesignsInv'
  BY DEF CreationInv, DesignsInv, Asked, ViewOf, VariantsOf
<1>6. ASSUME NEW d \in Clients, NEW a \in listing'[d] PROVE ListingOK(a)'
  BY <1>2, <1>6 DEF CreationInv, RequestsInv, ListingOK
<1>7. ASSUME NEW d \in Clients, NEW t \in creation'[d] PROVE CreationOK(d, t)'
  <2>1. CreationOK(d, t)
    BY <1>2, <1>7 DEF CreationInv, RequestsInv
  <2>2. ASSUME t.next = "variants", NameInsertedByOther(d, ExperimentRow(t))' PROVE FALSE
    <3>1. PICK e \in Clients \ {d} : \E b \in creation'[e] :
            b.next = "variants" /\ SameName(ExperimentRow(b), ExperimentRow(t))
      BY <2>2 DEF NameInsertedByOther
    <3>2. PICK b \in creation'[e] :
            b.next = "variants" /\ SameName(ExperimentRow(b), ExperimentRow(t))
      BY <3>1
    <3>3. CASE e # c
      <4>1. b \in creation[e]
        BY <1>2, <3>3
      <4> QED
        BY <2>1, <2>2, <3>1, <3>2, <4>1 DEF CreationOK, NameInsertedByOther
    <3>4. CASE e = c
      <4>1. b \in S /\ t \in creation[d]
        BY <1>2, <1>7, <3>1, <3>4
      <4>2. ~ NameInsertedByOther(c, ExperimentRow(b))
        BY <3>2, <4>1 DEF CreationOK
      <4> QED
        BY <2>2, <3>1, <3>2, <3>4, <4>1, <4>2 DEF NameInsertedByOther, SameName
    <3> QED
      BY <3>3, <3>4
  <2> QED
    BY <2>1, <2>2 DEF CreationOK, Admins, HasRole, accessVars, EnsureFlagBelongsToService
<1> QED
  BY <1>1, <1>3, <1>4, <1>5, <1>6, <1>7 DEF CreationInv, RequestsInv

LEMMA ContinueInv ==
    ASSUME CreationInv, NEW c \in Clients, NEW t \in Creation, CreationOK(c, t), Continue(c, t)
    PROVE  CreationInv'
<1> DEFINE S == {t}
           L == listing[c]
<1>1. S \in SUBSET Creation /\ \A u \in S : CreationOK(c, u)
  OBVIOUS
<1>2. L \in SUBSET Listing /\ \A a \in L : ListingOK(a)
  BY DEF CreationInv, TypeOK, RequestsInv
<1>3. /\ creation' = [creation EXCEPT ![c] = S]
      /\ listing' = [listing EXCEPT ![c] = L]
      /\ UNCHANGED <<accessVars, flags, designs>>
  BY DEF Continue, CreationInv, TypeOK
<1> HIDE DEF S, L
<1> QED
  BY <1>1, <1>2, <1>3, RequestInv

LEMMA ListingInv ==
    ASSUME CreationInv, NEW c \in Clients,
           NEW L \in SUBSET Listing, \A a \in L : ListingOK(a),
           listing' = [listing EXCEPT ![c] = L],
           UNCHANGED <<accessVars, flags, designs, creation>>
    PROVE  CreationInv'
<1> DEFINE S == creation[c]
<1>1. S \in SUBSET Creation /\ \A t \in S : CreationOK(c, t)
  BY DEF CreationInv, TypeOK, RequestsInv
<1>2. creation' = [creation EXCEPT ![c] = S] /\ UNCHANGED <<accessVars, flags, designs>>
  BY DEF CreationInv, TypeOK
<1> HIDE DEF S
<1> QED
  BY <1>1, <1>2, RequestInv

LEMMA RollbackInv ==
    ASSUME CreationInv, NEW c \in Clients, Rollback(c) \/ RequestFails(c)
    PROVE  CreationInv'
<1> DEFINE S == {}
           L == IF Rollback(c) THEN listing[c] ELSE {}
<1>1. S \in SUBSET Creation /\ \A t \in S : CreationOK(c, t)
  OBVIOUS
<1>2. L \in SUBSET Listing /\ \A a \in L : ListingOK(a)
  BY DEF CreationInv, TypeOK, RequestsInv
<1>3. /\ creation' = [creation EXCEPT ![c] = S]
      /\ listing' = [listing EXCEPT ![c] = L]
      /\ UNCHANGED <<accessVars, flags, designs>>
  BY DEF Rollback, RequestFails, CreationInv, TypeOK
<1> HIDE DEF S, L
<1> QED
  BY <1>1, <1>2, <1>3, RequestInv

\* A transaction, with its fields.
LEMMA CreationFields ==
    ASSUME CreationInv, NEW c \in Clients, NEW t \in creation[c]
    PROVE  /\ t \in Creation /\ CreationOK(c, t)
           /\ t.input \in Inputs
           /\ t.input.percent \in Nat
           /\ t.input.variants \in Seq([key : STRING, flags : Seq(Nat)])
           /\ Len(t.input.variants) \in Nat
           /\ t.session \in SessionData
<1>1. t \in Creation /\ CreationOK(c, t)
  BY DEF CreationInv, TypeOK, RequestsInv
<1>2. t.input \in Inputs /\ t.session \in SessionData
  BY <1>1 DEF Creation
<1>3. t.input.variants \in Seq([key : STRING, flags : Seq(Nat)]) /\ t.input.percent \in Nat
  BY <1>2, InputAssumption
<1> QED
  BY <1>1, <1>2, <1>3

------------------------------------------------------------------------------
(* The actions                                                             *)

LEMMA CreateExperimentInv ==
    ASSUME CreationInv, NEW c \in Clients, NEW s \in sessions, NEW input \in Inputs,
           CreateExperiment(c, s, input)
    PROVE  CreationInv'
<1> DEFINE row == [service |-> s.service, name |-> input.layer]
           t == [next |-> IF row \in layers THEN "experiment" ELSE "layer",
                 session |-> s, input |-> input,
                 newLayer |-> row \notin layers, inserted |-> 0]
<1>1. s \in SessionData /\ s \in Admins
  BY DEF CreationInv, AccessInv, AccessTypeOK, CreateExperiment, Admins
<1>2. t \in Creation
  BY <1>1 DEF Creation
<1>3. Len(input.variants) \in Nat /\ ValidateExperimentInput(input)
  BY InputAssumption DEF CreateExperiment
<1>4. CreationOK(c, t)
  <2>1. t.session = s /\ t.input = input /\ t.next # "variants" /\ t.inserted = 0
    OBVIOUS
  <2>2. t.newLayer \/ LayerRow(t) \in layers
    BY DEF LayerRow
  <2> HIDE DEF t
  <2>3. t.inserted <= Len(t.input.variants) /\ 1 .. t.inserted = {}
    BY <1>3, <2>1
  <2> QED
    BY <1>1, <1>3, <2>1, <2>2, <2>3 DEF CreationOK
<1>5. Continue(c, t)
  BY DEF CreateExperiment, Begin
<1> HIDE DEF t
<1> QED
  BY <1>2, <1>4, <1>5, ContinueInv

LEMMA InsertLayerInv ==
    ASSUME CreationInv, NEW c \in Clients, InsertLayer(c)
    PROVE  CreationInv'
<1>1. PICK t \in creation[c] : t.next = "layer" /\ Continue(c, [t EXCEPT !.next = "experiment"])
  BY DEF InsertLayer
<1> DEFINE u == [t EXCEPT !.next = "experiment"]
<1>2. t \in Creation /\ CreationOK(c, t)
  BY CreationFields
<1>3. /\ u \in Creation /\ u.next = "experiment" /\ u.session = t.session /\ u.input = t.input
      /\ u.newLayer = t.newLayer /\ u.inserted = t.inserted
  BY <1>2 DEF Creation
<1>4. Continue(c, u)
  BY <1>1
<1> HIDE DEF u
<1>5. CreationOK(c, u)
  BY <1>2, <1>3 DEF CreationOK, LayerRow
<1> QED
  BY <1>3, <1>4, <1>5, ContinueInv

LEMMA InsertExperimentInv ==
    ASSUME CreationInv, NEW c \in Clients, InsertExperiment(c)
    PROVE  CreationInv'
<1>1. PICK t \in creation[c] :
        /\ ~ NameInsertedByOther(c, ExperimentRow(t))
        /\ \A e \in experiments : ~ SameName(e, ExperimentRow(t))
        /\ Continue(c, [t EXCEPT !.next = "variants"])
  BY DEF InsertExperiment
<1> DEFINE u == [t EXCEPT !.next = "variants"]
<1>2. t \in Creation /\ CreationOK(c, t)
  BY CreationFields
<1>3. /\ u \in Creation /\ u.session = t.session /\ u.input = t.input
      /\ u.newLayer = t.newLayer /\ u.inserted = t.inserted
  BY <1>2 DEF Creation
<1>4. Continue(c, u)
  BY <1>1
<1> HIDE DEF u
<1>5. ExperimentRow(u) = ExperimentRow(t) /\ LayerRow(u) = LayerRow(t)
  BY <1>3 DEF ExperimentRow, LayerRow
<1>6. CreationOK(c, u)
  BY <1>1, <1>2, <1>3, <1>5 DEF CreationOK
<1> QED
  BY <1>3, <1>4, <1>6, ContinueInv

LEMMA InsertVariantInv ==
    ASSUME CreationInv, NEW c \in Clients, InsertVariant(c)
    PROVE  CreationInv'
<1>1. PICK t \in creation[c] :
        /\ t.next = "variants"
        /\ t.inserted < Len(t.input.variants)
        /\ FlagsExist(t)
        /\ Continue(c, [t EXCEPT !.inserted = @ + 1])
  BY DEF InsertVariant
<1> DEFINE u == [t EXCEPT !.inserted = @ + 1]
<1>2. t \in Creation /\ CreationOK(c, t) /\ t.inserted \in Nat /\ Len(t.input.variants) \in Nat
  BY CreationFields DEF Creation
<1>3. /\ u \in Creation /\ u.session = t.session /\ u.input = t.input
      /\ u.newLayer = t.newLayer /\ u.inserted = t.inserted + 1 /\ u.next = t.next
  BY <1>2 DEF Creation
<1>4. Continue(c, u)
  BY <1>1
<1> HIDE DEF u
<1>5. ExperimentRow(u) = ExperimentRow(t) /\ LayerRow(u) = LayerRow(t)
  BY <1>3 DEF ExperimentRow, LayerRow
<1>6. \A i \in 1 .. u.inserted : \A id \in Values(u.input.variants[i].flags) :
        EnsureFlagBelongsToService(u.session.service, id)
  <2> SUFFICES ASSUME NEW i \in 1 .. u.inserted, NEW id \in Values(u.input.variants[i].flags)
               PROVE  EnsureFlagBelongsToService(u.session.service, id)
    OBVIOUS
  <2>1. i \in 1 .. t.inserted \/ i = t.inserted + 1
    BY <1>2, <1>3
  <2> QED
    BY <1>1, <1>2, <1>3, <2>1 DEF CreationOK, FlagsExist, NextVariant
<1>7. CreationOK(c, u)
  BY <1>1, <1>2, <1>3, <1>5, <1>6 DEF CreationOK
<1> QED
  BY <1>3, <1>4, <1>7, ContinueInv

\* A commit shows the new experiment as it was asked for, and the others as before.
LEMMA CommittedViews ==
    ASSUME CreationInv, NEW t, \A e \in experiments : ~ SameName(e, ExperimentRow(t)),
           t.input.variants \in Seq([key : STRING, flags : Seq(Nat)]),
           t.inserted = Len(t.input.variants),
           experiments' = experiments \cup {ExperimentRow(t)},
           variants' = variants \cup VariantRows(t)
    PROVE  /\ \A e \in experiments : ViewOf(e)' = ViewOf(e)
           /\ ViewOf(ExperimentRow(t))' = DesignOf(t.input)
<1> DEFINE new == ExperimentRow(t)
<1>1. /\ new.service = t.session.service /\ new.name = t.input.name /\ new.layer = t.input.layer
      /\ new.percent = t.input.percent
  BY DEF ExperimentRow
<1>2. \A v \in VariantRows(t) : v.service = new.service /\ v.name = new.name
  BY <1>1 DEF VariantRows
<1>3. \A e \in experiments : ViewOf(e)' = ViewOf(e)
  <2> SUFFICES ASSUME NEW e \in experiments PROVE VariantsOf(e)' = VariantsOf(e)
    BY DEF ViewOf
  <2>1. \A v \in VariantRows(t) : ~ (v.service = e.service /\ v.name = e.name)
    BY <1>2 DEF SameName
  <2> QED
    BY <2>1 DEF VariantsOf
<1>4. VariantsOf(new)' = {VariantOf(v) : v \in Values(t.input.variants)}
  <2>1. \A v \in variants : ~ (v.service = new.service /\ v.name = new.name)
    BY DEF CreationInv, DesignsInv, SameName
  <2>2. VariantsOf(new)' = {v.variant : v \in VariantRows(t)}
    BY <1>2, <2>1 DEF VariantsOf
  <2>3. {v.variant : v \in VariantRows(t)} = {VariantOf(t.input.variants[i]) : i \in 1 .. t.inserted}
    <3> DEFINE Row(i) == [service |-> t.session.service, name |-> t.input.name,
                          variant |-> VariantOf(t.input.variants[i])]
    <3>1. VariantRows(t) = {Row(i) : i \in 1 .. t.inserted}
      BY DEF VariantRows
    <3>2. \A i : Row(i).variant = VariantOf(t.input.variants[i])
      OBVIOUS
    <3> HIDE DEF Row
    <3>3. {v.variant : v \in VariantRows(t)} = {Row(i).variant : i \in 1 .. t.inserted}
      BY <3>1
    <3> QED
      BY <3>2, <3>3
  <2>4. DOMAIN t.input.variants = 1 .. t.inserted
    OBVIOUS
  <2> QED
    BY <2>2, <2>3, <2>4 DEF Values
<1> QED
  BY <1>1, <1>3, <1>4 DEF ViewOf, DesignOf

LEMMA CommitExperimentInv ==
    ASSUME CreationInv, NEW c \in Clients, CommitExperiment(c)
    PROVE  CreationInv'
<1>1. PICK t \in creation[c] :
        /\ t.next = "variants"
        /\ t.inserted = Len(t.input.variants)
        /\ layers' = layers \cup {l \in {LayerRow(t)} : t.newLayer}
        /\ experiments' = experiments \cup {ExperimentRow(t)}
        /\ variants' = variants \cup VariantRows(t)
        /\ creation' = [creation EXCEPT ![c] = {}]
        /\ listing' = [listing EXCEPT ![c] = {[todo |-> {ExperimentRow(t)}, views |-> {}]}]
        /\ UNCHANGED <<accessVars, flags>>
  BY DEF CommitExperiment
<1> DEFINE new == ExperimentRow(t)
<1>2. /\ t \in Creation /\ CreationOK(c, t) /\ t.input \in Inputs /\ t.input.percent \in Nat
      /\ t.input.variants \in Seq([key : STRING, flags : Seq(Nat)])
      /\ Len(t.input.variants) \in Nat
      /\ t.session \in SessionData /\ t.session \in Admins
  BY CreationFields DEF CreationOK
<1>3. /\ new.service = t.session.service /\ new.name = t.input.name /\ new.layer = t.input.layer
      /\ new.percent = t.input.percent /\ new.created_by_user = t.session.email
  BY DEF ExperimentRow
<1>4. new \in ExperimentRows
  BY <1>2 DEF ExperimentRow, ExperimentRows, SessionData, Names, LayerNames
<1>5. \A e \in experiments : ~ SameName(e, new)
  BY <1>1, <1>2 DEF CreationOK
<1>6. LayerRow(t) \in layers'
  BY <1>1, <1>2 DEF CreationOK
<1>7. \A v \in VariantRows(t) : v.service = new.service /\ v.name = new.name
  BY <1>3 DEF VariantRows
<1>8. (\A e \in experiments : ViewOf(e)' = ViewOf(e)) /\ ViewOf(new)' = DesignOf(t.input)
  BY <1>1, <1>2, <1>5, CommittedViews
<1>9. Asked(ViewOf(new)')
  BY <1>2, <1>8 DEF Asked, CreationOK
<1>11. TypeOK'
  <2>1. AccessTypeOK'
    BY <1>1, AccessUnchanged DEF CreationInv, AccessInv
  <2>2. LayerRow(t) \in [service : Nat \ {0}, name : LayerNames]
    BY <1>2 DEF LayerRow, SessionData, LayerNames
  <2>3. VariantRows(t) \subseteq [service : Nat \ {0}, name : Names, variant : VariantValues]
    <3> SUFFICES ASSUME NEW i \in 1 .. t.inserted
                 PROVE  /\ t.session.service \in Nat \ {0} /\ t.input.name \in Names
                        /\ VariantOf(t.input.variants[i]) \in VariantValues
      BY DEF VariantRows
    <3>1. t.input.variants[i] \in Values(t.input.variants)
      BY <1>1, <1>2 DEF Values
    <3>2. VariantOf(t.input.variants[i]) \in DesignOf(t.input).variants
      BY <3>1 DEF DesignOf
    <3>3. VariantOf(t.input.variants[i]) \in VariantValues
      BY <1>2, <3>2 DEF VariantValues
    <3> QED
      BY <1>2, <3>3 DEF SessionData, Names
  <2>4. [todo |-> {new}, views |-> {}] \in Listing
    BY <1>4 DEF Listing
  <2> QED
    BY <1>1, <1>4, <2>1, <2>2, <2>3, <2>4 DEF CreationInv, TypeOK
<1>12. AccessInv' /\ services' <= MaxServices /\ InsertsInv'
  BY <1>1, AccessUnchanged DEF CreationInv, InsertsInv, Admins, HasRole, accessVars
<1>13. NoEmptyLayer'
  BY <1>1, <1>3 DEF CreationInv, NoEmptyLayer, LayerRow
<1>14. OneServiceThroughout'
  <2>1. [service |-> new.service, name |-> new.layer] \in layers'
    BY <1>3, <1>6 DEF LayerRow
  <2>2. \E u \in users : u.service = new.service /\ u.email = new.created_by_user /\ HasRole(u, "ADMIN")
    BY <1>2, <1>3, AdminIsUser DEF CreationInv
  <2>3. ASSUME NEW v \in VariantRows(t), NEW id \in v.variant.flags
        PROVE  id \in DOMAIN flags /\ flags[id].service = v.service
    <3>1. PICK i \in 1 .. t.inserted :
            v = [service |-> t.session.service, name |-> t.input.name,
                 variant |-> VariantOf(t.input.variants[i])]
      BY DEF VariantRows
    <3>2. id \in Values(t.input.variants[i].flags)
      BY <2>3, <3>1 DEF VariantOf
    <3> QED
      BY <1>2, <3>1, <3>2 DEF CreationOK, EnsureFlagBelongsToService
  <2> QED
    BY <1>1, <2>1, <2>2, <2>3 DEF CreationInv, OneServiceThroughout, HasRole, accessVars
<1>15. DesignsInv'
  <2>1. ASSUME NEW e \in experiments' PROVE Asked(ViewOf(e)')
    BY <1>1, <1>8, <1>9 DEF CreationInv, DesignsInv
  <2>2. ASSUME NEW v \in variants' PROVE \E e \in experiments' : SameName(e, v)
    BY <1>1, <1>7 DEF CreationInv, DesignsInv, SameName
  <2> QED
    BY <2>1, <2>2 DEF DesignsInv, Asked
<1>16. RequestsInv'
  <2>1. /\ creation \in [Clients -> SUBSET Creation]
        /\ listing \in [Clients -> SUBSET Listing]
    BY DEF CreationInv, TypeOK
  <2>2. ASSUME NEW d \in Clients, NEW a \in listing'[d] PROVE ListingOK(a)'
    BY <1>1, <2>1, <2>2 DEF CreationInv, RequestsInv, ListingOK
  <2>3. ASSUME NEW d \in Clients, NEW u \in creation'[d] PROVE CreationOK(d, u)'
    <3>1. d # c /\ u \in creation[d] /\ CreationOK(d, u)
      BY <1>1, <2>1, <2>3 DEF CreationInv, RequestsInv
    <3>2. u.next = "variants" => ~ SameName(new, ExperimentRow(u))
      BY <1>1, <1>2, <3>1 DEF CreationOK, NameInsertedByOther, SameName
    <3>3. u.next = "variants" => ~ NameInsertedByOther(d, ExperimentRow(u))'
      BY <1>1, <2>1, <3>1 DEF CreationOK, NameInsertedByOther
    <3> QED
      BY <1>1, <3>1, <3>2, <3>3 DEF CreationOK, Admins, HasRole, accessVars, EnsureFlagBelongsToService
  <2> QED
    BY <2>2, <2>3 DEF RequestsInv
<1> QED
  BY <1>11, <1>12, <1>13, <1>14, <1>15, <1>16 DEF CreationInv

LEMMA ListExperimentsInv ==
    ASSUME CreationInv, NEW c \in Clients, NEW s, ListExperiments(c, s)
    PROVE  CreationInv'
<1> DEFINE L == {[todo |-> {e \in experiments : e.service = s.service}, views |-> {}]}
<1>1. L \in SUBSET Listing /\ \A a \in L : ListingOK(a)
  BY DEF CreationInv, TypeOK, Listing, ListingOK
<1>2. listing' = [listing EXCEPT ![c] = L] /\ UNCHANGED <<accessVars, flags, designs, creation>>
  BY DEF ListExperiments
<1> HIDE DEF L
<1> QED
  BY <1>1, <1>2, ListingInv

LEMMA ReadVariantsInv ==
    ASSUME CreationInv, NEW c \in Clients, ReadVariants(c)
    PROVE  CreationInv'
<1>1. PICK a \in listing[c] : \E e \in a.todo :
        listing' = [listing EXCEPT ![c] = {[todo |-> a.todo \ {e}, views |-> a.views \cup {ViewOf(e)}]}]
  BY DEF ReadVariants
<1>2. PICK e \in a.todo :
        listing' = [listing EXCEPT ![c] = {[todo |-> a.todo \ {e}, views |-> a.views \cup {ViewOf(e)}]}]
  BY <1>1
<1> DEFINE L == {[todo |-> a.todo \ {e}, views |-> a.views \cup {ViewOf(e)}]}
<1>3. a \in Listing /\ ListingOK(a) /\ e \in experiments
  BY DEF CreationInv, TypeOK, RequestsInv, ListingOK
<1>4. e \in ExperimentRows /\ Asked(ViewOf(e))
  BY <1>3 DEF CreationInv, TypeOK, DesignsInv
<1>5. ViewOf(e) \in View
  BY <1>4 DEF CreationInv, TypeOK, ViewOf, View, VariantsOf, ExperimentRows
<1>6. L \in SUBSET Listing
  BY <1>3, <1>5 DEF Listing
<1>7. \A b \in L : ListingOK(b)
  BY <1>3, <1>4 DEF ListingOK
<1>8. listing' = [listing EXCEPT ![c] = L] /\ UNCHANGED <<accessVars, flags, designs, creation>>
  BY <1>2 DEF ReadVariants
<1> HIDE DEF L
<1> QED
  BY <1>6, <1>7, <1>8, ListingInv

LEMMA AnswerListingInv ==
    ASSUME CreationInv, NEW c \in Clients, AnswerListing(c)
    PROVE  CreationInv'
<1> DEFINE L == {}
<1>1. L \in SUBSET Listing /\ \A a \in L : ListingOK(a)
  OBVIOUS
<1>2. listing' = [listing EXCEPT ![c] = L] /\ UNCHANGED <<accessVars, flags, designs, creation>>
  BY DEF AnswerListing
<1> HIDE DEF L
<1> QED
  BY <1>1, <1>2, ListingInv

LEMMA CreateFlagInv ==
    ASSUME CreationInv, NEW s \in sessions, NEW key \in FlagKeys, CreateFlag(s, key)
    PROVE  CreationInv'
<1> DEFINE flag == [service |-> s.service, key |-> key]
<1>1. flag \in [service : Nat \ {0}, key : FlagKeys]
  BY DEF CreationInv, AccessInv, AccessTypeOK, SessionData
<1>2. flags \in Seq([service : Nat \ {0}, key : FlagKeys])
  BY DEF CreationInv, TypeOK
<1>3. flags' = Append(flags, flag) /\ UNCHANGED <<accessVars, designs, creation, listing>>
  BY DEF CreateFlag
<1> HIDE DEF flag
<1>4. flags' \in Seq([service : Nat \ {0}, key : FlagKeys])
  BY <1>1, <1>2, <1>3
<1>5. \A id \in DOMAIN flags : id \in DOMAIN flags' /\ flags'[id] = flags[id]
  BY <1>2, <1>3
<1>6. AccessInv' /\ AccessTypeOK'
  BY <1>3, AccessUnchanged DEF CreationInv, AccessInv
<1>7. TypeOK'
  BY <1>3, <1>4, <1>6 DEF CreationInv, TypeOK, designs
<1>8. services' <= MaxServices /\ InsertsInv' /\ NoEmptyLayer'
  BY <1>3 DEF CreationInv, InsertsInv, NoEmptyLayer, Admins, HasRole, accessVars, designs
<1>9. OneServiceThroughout'
  BY <1>3, <1>5 DEF CreationInv, OneServiceThroughout, HasRole, accessVars, designs
<1>10. DesignsInv'
  BY <1>3 DEF CreationInv, DesignsInv, Asked, ViewOf, VariantsOf, designs
<1>11. RequestsInv'
  <2>1. \A c \in Clients : \A a \in listing'[c] : ListingOK(a)'
    BY <1>3 DEF CreationInv, RequestsInv, ListingOK, designs
  <2>2. ASSUME NEW c \in Clients, NEW t \in creation[c] PROVE CreationOK(c, t)'
    BY <1>3, <1>5 DEF CreationInv, RequestsInv, CreationOK, NameInsertedByOther, Admins, HasRole,
       accessVars, designs, EnsureFlagBelongsToService
  <2> QED
    BY <1>3, <2>1, <2>2 DEF RequestsInv
<1> QED
  BY <1>6, <1>7, <1>8, <1>9, <1>10, <1>11 DEF CreationInv

\* What a step of Access never takes away: users, sessions, and the admins of
\* what is being inserted.
LEMMA AccessGrows ==
    ASSUME AccessInv, AccessNext, services <= MaxServices, InsertsInv
    PROVE  /\ users \subseteq users' /\ sessions \subseteq sessions'
           /\ services' <= MaxServices
           /\ InsertsInv'
<1>1. services \in Nat /\ MaxServices \in Nat /\ call \in [Calls -> SUBSET Call]
  BY AccountBoundAssumption DEF AccessInv, AccessTypeOK, Call
<1>2. /\ users \subseteq users' /\ sessions \subseteq sessions'
      /\ services' = services \/ (services < MaxServices /\ services' = services + 1)
  BY DEF AccessNext, AccessStep, RegisterService, Login, CreatePlatformUser, CreateApiKey,
     RevokeApiKey, ReceiveCall, CreateAuthResponse, CreateSessionToken, CommitUser, RollbackUser,
     AuthenticateApiKey, ServeCall, CallFails, accounts
<1>3. services' <= MaxServices
  BY <1>1, <1>2
<1>4. ASSUME NEW c \in Calls, NEW a \in call'[c], a.op = "inserted"
      PROVE  \E s \in Admins : s.service = a.service
  <2>1. CASE a \in call[c]
    BY <1>4, <2>1 DEF InsertsInv
  <2>2. CASE a \notin call[c]
    <3>1. PICK d \in Calls, s \in sessions, email \in Emails, password \in Passwords,
               role \in RoleCodes : CreatePlatformUser(d, s, email, password, role)
      <4>1. ASSUME NEW d \in Calls, NEW b, b.op # "inserted", CallContinues(d, b)
            PROVE  FALSE
        BY <1>1, <1>4, <2>2, <4>1 DEF CallContinues
      <4>2. ASSUME NEW d \in Calls, CallEnds(d) PROVE FALSE
        BY <1>1, <2>2, <4>2, <1>4 DEF CallEnds
      <4>3. call' # call
        BY <1>4, <2>2
      <4>4. ASSUME NEW d \in Calls, NEW email, NEW password, RegisterService(d, email, password)
            PROVE  FALSE
        BY <4>1, <4>4 DEF RegisterService
      <4>5. ASSUME NEW d \in Calls, NEW email, NEW password, NEW service,
                   Login(d, email, password, service)
            PROVE  FALSE
        BY <4>1, <4>5 DEF Login
      <4>6. ASSUME NEW d \in Calls, NEW id, ReceiveCall(d, id) PROVE FALSE
        BY <4>1, <4>6 DEF ReceiveCall
      <4>7. ASSUME NEW d \in Calls, AccessStep(d) PROVE FALSE
        BY <4>1, <4>2, <4>7 DEF AccessStep, CreateAuthResponse, CommitUser, RollbackUser,
           AuthenticateApiKey, ServeCall
      <4>8. ASSUME NEW d \in Calls, CallFails(d) PROVE FALSE
        BY <4>2, <4>8 DEF CallFails
      <4> QED
        BY <4>3, <4>4, <4>5, <4>6, <4>7, <4>8 DEF AccessNext, CreateApiKey, RevokeApiKey
    <3>2. a.service = s.service
      BY <1>1, <2>2, <3>1 DEF CreatePlatformUser, CallContinues
    <3> QED
      BY <3>1, <3>2 DEF CreatePlatformUser, Admins
  <2> QED
    BY <2>1, <2>2
<1>5. InsertsInv'
  BY <1>2, <1>4 DEF InsertsInv, Admins, HasRole
<1> QED
  BY <1>2, <1>3, <1>5

LEMMA AccessPart ==
    ASSUME CreationInv, AccessNext, UNCHANGED creationVars
    PROVE  CreationInv'
<1>1. /\ users \subseteq users' /\ sessions \subseteq sessions'
      /\ services' <= MaxServices /\ InsertsInv'
  BY AccessGrows DEF CreationInv
<1>2. AccessInv' /\ AccessTypeOK'
  BY AccessNextInv DEF CreationInv, AccessInv
<1>3. UNCHANGED <<flags, layers, experiments, variants, creation, listing>>
  BY DEF creationVars
<1>4. TypeOK'
  BY <1>2, <1>3 DEF CreationInv, TypeOK
<1>5. NoEmptyLayer' /\ OneServiceThroughout'
  BY <1>1, <1>3 DEF CreationInv, NoEmptyLayer, OneServiceThroughout, HasRole
<1>6. DesignsInv'
  BY <1>3 DEF CreationInv, DesignsInv, Asked, ViewOf, VariantsOf
<1>7. \A c \in Clients : \A a \in listing'[c] : ListingOK(a)'
  BY <1>3 DEF CreationInv, RequestsInv, ListingOK
<1>8. ASSUME NEW c \in Clients, NEW t \in creation[c] PROVE CreationOK(c, t)'
  <2>1. CreationOK(c, t)
    BY DEF CreationInv, RequestsInv
  <2> QED
    BY <1>1, <1>3, <2>1 DEF CreationOK, NameInsertedByOther, Admins, HasRole,
       EnsureFlagBelongsToService
<1>9. RequestsInv'
  BY <1>3, <1>7, <1>8 DEF RequestsInv
<1> QED
  BY <1>1, <1>2, <1>4, <1>5, <1>6, <1>9 DEF CreationInv

LEMMA RestartInv ==
    ASSUME CreationInv, Restart
    PROVE  CreationInv'
<1>1. /\ AccessRestart
      /\ creation' = [c \in Clients |-> {}] /\ listing' = [c \in Clients |-> {}]
      /\ UNCHANGED <<flags, layers, experiments, variants, services, users, keys>>
      /\ call' = [c \in Calls |-> {}]
  BY DEF Restart, AccessRestart, designs, accounts
<1>2. AccessInv' /\ AccessTypeOK'
  BY <1>1, AccessRestartInv DEF CreationInv, AccessInv
<1>3. TypeOK'
  BY <1>1, <1>2 DEF CreationInv, TypeOK
<1>4. services' <= MaxServices /\ InsertsInv' /\ NoEmptyLayer' /\ OneServiceThroughout'
  BY <1>1 DEF CreationInv, InsertsInv, NoEmptyLayer, OneServiceThroughout, HasRole
<1>5. DesignsInv'
  BY <1>1 DEF CreationInv, DesignsInv, Asked, ViewOf, VariantsOf
<1>6. RequestsInv'
  BY <1>1 DEF RequestsInv
<1> QED
  BY <1>2, <1>3, <1>4, <1>5, <1>6 DEF CreationInv

LEMMA CreationUnchanged ==
    ASSUME CreationInv, UNCHANGED vars
    PROVE  CreationInv'
<1> USE DEF vars, accessVars, creationVars
<1>1. AccessInv' /\ AccessTypeOK'
  BY AccessUnchanged DEF CreationInv, AccessInv
<1>2. TypeOK'
  BY <1>1 DEF CreationInv, TypeOK
<1>3. services' <= MaxServices /\ InsertsInv' /\ NoEmptyLayer' /\ OneServiceThroughout'
  BY DEF CreationInv, InsertsInv, NoEmptyLayer, OneServiceThroughout, Admins, HasRole
<1>4. DesignsInv'
  BY DEF CreationInv, DesignsInv, Asked, ViewOf, VariantsOf
<1>5. \A c \in Clients : \A a \in listing[c] : ListingOK(a)'
  BY DEF CreationInv, RequestsInv, ListingOK
<1>6. ASSUME NEW c \in Clients, NEW t \in creation[c] PROVE CreationOK(c, t)'
  <2>1. CreationOK(c, t)
    BY DEF CreationInv, RequestsInv
  <2> QED
    BY <2>1 DEF CreationOK, NameInsertedByOther, Admins, HasRole, EnsureFlagBelongsToService
<1> QED
  BY <1>1, <1>2, <1>3, <1>4, <1>5, <1>6 DEF CreationInv, RequestsInv

LEMMA RequestStepInv ==
    ASSUME CreationInv, NEW c \in Clients, RequestStep(c)
    PROVE  CreationInv'
<1>1. CASE InsertLayer(c)
  BY <1>1, InsertLayerInv
<1>2. CASE InsertExperiment(c)
  BY <1>2, InsertExperimentInv
<1>3. CASE DuplicateKey(c) \/ MissingFlag(c)
  BY <1>3, RollbackInv DEF DuplicateKey, MissingFlag
<1>4. CASE InsertVariant(c)
  BY <1>4, InsertVariantInv
<1>5. CASE CommitExperiment(c)
  BY <1>5, CommitExperimentInv
<1>6. CASE ReadVariants(c)
  BY <1>6, ReadVariantsInv
<1>7. CASE AnswerListing(c)
  BY <1>7, AnswerListingInv
<1> QED
  BY <1>1, <1>2, <1>3, <1>4, <1>5, <1>6, <1>7 DEF RequestStep

LEMMA CreationNextInv == CreationInv /\ [Next]_vars => CreationInv'
<1> SUFFICES ASSUME CreationInv, [Next]_vars PROVE CreationInv'
  OBVIOUS
<1>1. CASE AccessNext /\ UNCHANGED creationVars
  BY <1>1, AccessPart
<1>2. ASSUME NEW s \in sessions, NEW key \in FlagKeys, CreateFlag(s, key) PROVE CreationInv'
  BY <1>2, CreateFlagInv
<1>3. ASSUME NEW c \in Clients, NEW s \in sessions, NEW input \in Inputs,
             CreateExperiment(c, s, input)
      PROVE  CreationInv'
  BY <1>3, CreateExperimentInv
<1>4. ASSUME NEW c \in Clients, NEW s \in sessions, ListExperiments(c, s) PROVE CreationInv'
  BY <1>4, ListExperimentsInv
<1>5. ASSUME NEW c \in Clients, RequestStep(c) PROVE CreationInv'
  BY <1>5, RequestStepInv
<1>6. ASSUME NEW c \in Clients, RequestFails(c) PROVE CreationInv'
  BY <1>6, RollbackInv
<1>7. CASE Restart
  BY <1>7, RestartInv
<1>8. CASE UNCHANGED vars
  BY <1>8, CreationUnchanged
<1> QED
  BY <1>1, <1>2, <1>3, <1>4, <1>5, <1>6, <1>7, <1>8 DEF Next

LEMMA CreationInvAlways == Spec => []CreationInv
  BY CreationInitInv, CreationNextInv, PTL DEF Spec

------------------------------------------------------------------------------
(* Who creates                                                             *)

LEMMA UsersChange ==
    ASSUME CreationInv, AccessNext, NEW n \in Services, \A s \in Admins : s.service # n
    PROVE  {u \in users : u.service = n}' = {u \in users : u.service = n}
<1>1. services \in Nat /\ users \in SUBSET User
  BY DEF CreationInv, AccessInv, AccessTypeOK
<1>2. ASSUME NEW c \in Calls, NEW email, NEW password, RegisterService(c, email, password)
      PROVE  \A u \in users' : u.service = n => u \in users
  BY <1>1, <1>2 DEF RegisterService, Services
<1>3. ASSUME NEW c \in Calls, CommitUser(c)
      PROVE  \A u \in users' : u.service = n => u \in users
  BY <1>3 DEF CommitUser, CreationInv, InsertsInv
<1>4. \A u \in users' : u.service = n => u \in users
  BY <1>2, <1>3 DEF AccessNext, AccessStep, Login, CreatePlatformUser, CreateApiKey,
     RevokeApiKey, ReceiveCall, CreateAuthResponse, RollbackUser, AuthenticateApiKey,
     ServeCall, CallFails, accounts
<1>5. users \subseteq users'
  BY AccessGrows DEF CreationInv
<1> QED
  BY <1>4, <1>5

LEMMA KeysChange ==
    ASSUME CreationInv, AccessNext, NEW n \in Services, \A s \in Admins : s.service # n
    PROVE  /\ {id \in DOMAIN keys : keys[id].service = n}' = {id \in DOMAIN keys : keys[id].service = n}
           /\ {id \in Revoked : keys[id].service = n}' = {id \in Revoked : keys[id].service = n}
<1>1. keys \in Seq(ApiKey)
  BY DEF CreationInv, AccessInv, AccessTypeOK
<1>2. CASE UNCHANGED keys
  BY <1>2 DEF Revoked
<1>3. ASSUME NEW s \in sessions, CreateApiKey(s)
      PROVE  /\ DOMAIN keys \subseteq DOMAIN keys'
             /\ \A id \in DOMAIN keys : keys'[id] = keys[id]
             /\ \A id \in DOMAIN keys' : keys'[id].service = n => id \in DOMAIN keys
  BY <1>1, <1>3 DEF CreateApiKey, Admins
<1>4. ASSUME NEW s \in sessions, NEW i \in DOMAIN keys, RevokeApiKey(s, i)
      PROVE  /\ DOMAIN keys' = DOMAIN keys /\ keys[i].service # n
             /\ \A id \in DOMAIN keys : id # i => keys'[id] = keys[id]
             /\ keys'[i].service = keys[i].service
  <2>1. s \in Admins /\ keys[i].service = s.service /\ keys' = [keys EXCEPT ![i].status = "REVOKED"]
    BY <1>4 DEF RevokeApiKey, Admins
  <2>2. DOMAIN keys' = DOMAIN keys /\ \A id \in DOMAIN keys : id # i => keys'[id] = keys[id]
    BY <1>1, <2>1
  <2>3. keys'[i] = [keys[i] EXCEPT !.status = "REVOKED"] /\ keys[i] \in ApiKey
    BY <1>1, <1>4, <2>1
  <2>4. keys'[i].service = keys[i].service
    BY <2>3 DEF ApiKey
  <2> QED
    BY <2>1, <2>2, <2>4
<1>5. ASSUME NEW s \in sessions, CreateApiKey(s)
      PROVE  /\ {id \in DOMAIN keys : keys[id].service = n}' = {id \in DOMAIN keys : keys[id].service = n}
             /\ {id \in Revoked : keys[id].service = n}' = {id \in Revoked : keys[id].service = n}
  BY <1>3, <1>5 DEF Revoked
<1>6. ASSUME NEW s \in sessions, NEW i \in DOMAIN keys, RevokeApiKey(s, i)
      PROVE  /\ {id \in DOMAIN keys : keys[id].service = n}' = {id \in DOMAIN keys : keys[id].service = n}
             /\ {id \in Revoked : keys[id].service = n}' = {id \in Revoked : keys[id].service = n}
  <2>1. /\ DOMAIN keys' = DOMAIN keys /\ keys[i].service # n
        /\ \A id \in DOMAIN keys : id # i => keys'[id] = keys[id]
        /\ keys'[i].service = keys[i].service
    BY <1>4, <1>6
  <2> QED
    BY <2>1 DEF Revoked
<1> QED
  BY <1>2, <1>5, <1>6 DEF AccessNext, AccessStep, RegisterService, Login, CreatePlatformUser,
     ReceiveCall, CreateAuthResponse, CommitUser, RollbackUser, AuthenticateApiKey, ServeCall,
     CallFails, accounts

\* A new flag is of the service of the admin who creates it.
LEMMA FlagsChange ==
    ASSUME CreationInv, NEW s \in sessions, NEW key \in FlagKeys, CreateFlag(s, key),
           NEW n \in Services, \A r \in Admins : r.service # n
    PROVE  {id \in DOMAIN flags : flags[id].service = n}' = {id \in DOMAIN flags : flags[id].service = n}
<1>1. flags \in Seq([service : Nat \ {0}, key : FlagKeys])
  BY DEF CreationInv, TypeOK
<1>2. flags' = Append(flags, [service |-> s.service, key |-> key]) /\ s.service # n
  BY DEF CreateFlag, Admins
<1>3. /\ DOMAIN flags \subseteq DOMAIN flags'
      /\ \A id \in DOMAIN flags : flags'[id] = flags[id]
      /\ \A id \in DOMAIN flags' : flags'[id].service = n => id \in DOMAIN flags
  BY <1>1, <1>2
<1> QED
  BY <1>3

\* What a creation commits is of the service of its session, and names it.
LEMMA DesignsChange ==
    ASSUME CreationInv, NEW c \in Clients, CommitExperiment(c)
    PROVE  /\ \A n \in Services : (\A s \in Admins : s.service # n) =>
                /\ {l \in layers : l.service = n}' = {l \in layers : l.service = n}
                /\ {e \in experiments : e.service = n}' = {e \in experiments : e.service = n}
                /\ {v \in variants : v.service = n}' = {v \in variants : v.service = n}
           /\ \A e \in experiments' \ experiments :
                \E s \in Admins : s.service = e.service /\ s.email = e.created_by_user
<1>1. PICK t \in creation[c] :
        /\ layers' = layers \cup {l \in {LayerRow(t)} : t.newLayer}
        /\ experiments' = experiments \cup {ExperimentRow(t)}
        /\ variants' = variants \cup VariantRows(t)
  BY DEF CommitExperiment
<1>2. t.session \in Admins
  BY CreationFields DEF CreationOK
<1>3. /\ LayerRow(t).service = t.session.service
      /\ ExperimentRow(t).service = t.session.service
      /\ ExperimentRow(t).created_by_user = t.session.email
      /\ \A v \in VariantRows(t) : v.service = t.session.service
  BY DEF LayerRow, ExperimentRow, VariantRows
<1>4. ASSUME NEW n \in Services, \A s \in Admins : s.service # n
      PROVE  /\ {l \in layers : l.service = n}' = {l \in layers : l.service = n}
             /\ {e \in experiments : e.service = n}' = {e \in experiments : e.service = n}
             /\ {v \in variants : v.service = n}' = {v \in variants : v.service = n}
  <2>1. t.session.service # n
    BY <1>2, <1>4
  <2> QED
    BY <1>1, <1>3, <2>1
<1> QED
  BY <1>1, <1>2, <1>3, <1>4

\* The steps that create nothing.
LEMMA OthersCreateNothing ==
    ASSUME \/ \E c \in Clients, s \in sessions :
                \/ \E input \in Inputs : CreateExperiment(c, s, input)
                \/ ListExperiments(c, s)
           \/ \E c \in Clients : RequestFails(c) \/ (RequestStep(c) /\ ~ CommitExperiment(c))
           \/ Restart
           \/ UNCHANGED vars
    PROVE  UNCHANGED <<users, keys, flags, designs>>
<1>1. ASSUME NEW c \in Clients, NEW s \in sessions,
             (\E input \in Inputs : CreateExperiment(c, s, input)) \/ ListExperiments(c, s)
      PROVE  UNCHANGED <<users, keys, flags, designs>>
  BY <1>1 DEF CreateExperiment, Begin, ListExperiments, Continue, accessVars
<1>2. ASSUME NEW c \in Clients, RequestFails(c) \/ (RequestStep(c) /\ ~ CommitExperiment(c))
      PROVE  UNCHANGED <<users, keys, flags, designs>>
  BY <1>2 DEF RequestFails, RequestStep, InsertLayer, InsertExperiment, DuplicateKey,
     InsertVariant, MissingFlag, ReadVariants, AnswerListing, Continue, Rollback, accessVars
<1>3. Restart \/ UNCHANGED vars => UNCHANGED <<users, keys, flags, designs>>
  BY DEF Restart, AccessRestart, accounts, vars, accessVars, creationVars, designs
<1> QED
  BY <1>1, <1>2, <1>3

\* A step of Next creates nothing for a service without one of its admins.
LEMMA OwnChanges ==
    ASSUME CreationInv, [Next]_vars, NEW n \in Services, \A s \in Admins : s.service # n
    PROVE  CreatedFor(n)' = CreatedFor(n)
<1>1. CASE AccessNext /\ UNCHANGED creationVars
  BY <1>1, UsersChange, KeysChange DEF CreatedFor, creationVars
<1>2. ASSUME NEW s \in sessions, NEW key \in FlagKeys, CreateFlag(s, key)
      PROVE  CreatedFor(n)' = CreatedFor(n)
  <2>1. UNCHANGED <<users, keys, designs>>
    BY <1>2 DEF CreateFlag, accessVars
  <2> QED
    BY <1>2, <2>1, FlagsChange DEF CreatedFor, Revoked, designs
<1>3. ASSUME NEW c \in Clients, CommitExperiment(c)
      PROVE  CreatedFor(n)' = CreatedFor(n)
  <2>1. UNCHANGED <<users, keys, flags>>
    BY <1>3 DEF CommitExperiment, accessVars
  <2> QED
    BY <1>3, <2>1, DesignsChange DEF CreatedFor, Revoked
<1>4. CASE UNCHANGED <<users, keys, flags, designs>>
  BY <1>4 DEF CreatedFor, Revoked, designs
<1> QED
  BY <1>1, <1>2, <1>3, <1>4, OthersCreateNothing DEF Next

\* Nor is an experiment created but by an admin who is logged in.
LEMMA CreatorsAreAdmins ==
    ASSUME CreationInv, [Next]_vars, NEW e \in experiments' \ experiments
    PROVE  \E s \in Admins : s.service = e.service /\ s.email = e.created_by_user
<1>1. PICK c \in Clients : CommitExperiment(c)
  BY OthersCreateNothing DEF Next, CreateFlag, creationVars, designs
<1> QED
  BY <1>1, DesignsChange

\* After its registration, a service is given users, keys, flags, layers and
\* experiments, and loses keys, only while an admin of it is logged in, an
\* experiment while its creator is, whatever the others do and whatever is cut
\* off.  (What becomes of an experiment afterwards is ConfigPublication's.)
THEOREM AdminsAlwaysCreateTheirOwn == Spec => AdminsCreateTheirOwn
<1>1. CreationInv /\ [Next]_vars =>
        [/\ \A n \in Services : CreatedFor(n)' # CreatedFor(n) => \E s \in Admins : s.service = n
         /\ \A e \in experiments' \ experiments :
              \E s \in Admins : s.service = e.service /\ s.email = e.created_by_user]_vars
  BY OwnChanges, CreatorsAreAdmins
<1> QED
  BY <1>1, CreationInvAlways, PTL DEF Spec, AdminsCreateTheirOwn

------------------------------------------------------------------------------
(* The invariants                                                          *)

\* Every variable stays in its type.
THEOREM TypeCorrect == Spec => []TypeOK
<1>1. CreationInv => TypeOK
  BY DEF CreationInv
<1> QED
  BY <1>1, CreationInvAlways, PTL

\* No request, refused or cut off, leaves a layer without an experiment.
THEOREM NoLayerEmpty == Spec => []NoEmptyLayer
<1>1. CreationInv => NoEmptyLayer
  BY DEF CreationInv
<1> QED
  BY <1>1, CreationInvAlways, PTL

\* The layer, the creator and the flags of an experiment are of its service.
THEOREM OneServiceAlways == Spec => []OneServiceThroughout
<1>1. CreationInv => OneServiceThroughout
  BY DEF CreationInv
<1> QED
  BY <1>1, CreationInvAlways, PTL

\* A listing shows whole experiments, as they were asked for.
THEOREM ListingsAreComplete == Spec => []ListedIsComplete
<1>1. CreationInv => ListedIsComplete
  BY DEF CreationInv, RequestsInv, ListingOK, Asked, ListedIsComplete
<1> QED
  BY <1>1, CreationInvAlways, PTL

\* A login finds one account, however many users are created at once.
THEOREM LoginMeetsOneAlways == Spec => []LoginMeetsOneAccount
<1>1. CreationInv => LoginMeetsOneAccount
  BY OneAccountMet DEF CreationInv
<1> QED
  BY <1>1, CreationInvAlways, PTL

\* Every service has an admin, and every user a role, whatever is cut off.
THEOREM AccountsStayComplete == Spec => []AccountsComplete
<1>1. CreationInv => AccountsComplete
  BY DEF CreationInv, AccessInv
<1> QED
  BY <1>1, CreationInvAlways, PTL

\* A session is that of a user, with the roles of the user.
THEOREM SessionsStayOfUsers == Spec => []SessionsOfUsers
<1>1. CreationInv => SessionsOfUsers
  BY DEF CreationInv, AccessInv
<1> QED
  BY <1>1, CreationInvAlways, PTL

\* A key that was revoked before a request came does not serve it.
THEOREM RevokedStayRefused == Spec => []RevokedIsRefused
<1>1. CreationInv => RevokedIsRefused
  BY RevokedRefused DEF CreationInv
<1> QED
  BY <1>1, CreationInvAlways, PTL

------------------------------------------------------------------------------
(* The catalogue                                                           *)

LEMMA SameCatalogueCardinality == \A S : ExperimentCatalogue!Cardinality(S) = Cardinality(S)
BY DEF ExperimentCatalogue!Cardinality, Cardinality, ExperimentCatalogue!IsFiniteSet, IsFiniteSet

\* The variants of a body that is accepted are as many as it lists, since no two
\* of them have one key.
LEMMA VariantsCount ==
    ASSUME NEW input \in Inputs, ValidateExperimentInput(input)
    PROVE  Cardinality(DesignOf(input).variants) = Len(input.variants)
<1> DEFINE seq == input.variants
           n == Len(seq)
           f == [i \in 1 .. n |-> VariantOf(seq[i])]
           T == {VariantOf(v) : v \in Values(seq)}
<1>1. seq \in Seq([key : STRING, flags : Seq(Nat)]) /\ n \in Nat /\ DOMAIN seq = 1 .. n
  BY InputAssumption
<1>2. \A i, j \in 1 .. n : seq[i].key = seq[j].key => i = j
  BY <1>1 DEF ValidateExperimentInput, Unique
<1>3. \A i, j \in 1 .. n : f[i] = f[j] => i = j
  BY <1>2 DEF VariantOf
<1>4. f \in [1 .. n -> T] /\ \A y \in T : \E i \in 1 .. n : f[i] = y
  BY <1>1 DEF Values
<1>5. ExistsBijection(1 .. n, T)
  <2> HIDE DEF f, T, n
  <2> QED
    BY <1>3, <1>4 DEF ExistsBijection, Bijection, Injection, Surjection, IsInjective
<1>6. Cardinality(T) = n
  <2> HIDE DEF f, T, n
  <2> QED
    BY <1>1, <1>5, FS_CountingElements
<1> QED
  BY <1>6 DEF DesignOf

LEMMA DesignAssignable ==
    ASSUME NEW input \in Inputs, ValidateExperimentInput(input)
    PROVE  ExperimentCatalogue!Assignable(DesignOf(input))
<1> DEFINE d == DesignOf(input)
           seq == input.variants
<1>1. /\ d.percent = input.percent /\ d.variants = {VariantOf(v) : v \in Values(seq)}
      /\ input.variants \in Seq([key : STRING, flags : Seq(Nat)])
  BY InputAssumption DEF DesignOf
<1>2. ExperimentCatalogue!Cardinality(d.variants) = Len(input.variants)
  BY VariantsCount, SameCatalogueCardinality
<1>3. \A v \in d.variants : v.flags # {}
  <2> SUFFICES ASSUME NEW v \in d.variants PROVE v.flags # {}
    OBVIOUS
  <2>1. PICK i \in DOMAIN seq : v = VariantOf(seq[i])
    BY <1>1 DEF Values
  <2>2. v.flags = Values(seq[i].flags)
    BY <2>1 DEF VariantOf
  <2>3. seq[i].flags \in Seq(Nat) /\ seq[i].flags # <<>>
    <3> DEFINE Row == [key : STRING, flags : Seq(Nat)]
               q == input.variants
    <3>1. q[i] \in Row
      <4>1. q \in Seq(Row) /\ i \in DOMAIN q
        BY <1>1
      <4> HIDE DEF q, Row
      <4> QED
        BY <4>1
    <3>2. seq[i].flags # <<>>
      BY DEF ValidateExperimentInput
    <3> QED
      BY <3>1, <3>2
  <2>4. 1 \in DOMAIN seq[i].flags
    BY <2>3
  <2> QED
    BY <2>2, <2>4 DEF Values
<1>4. ASSUME NEW v \in d.variants, NEW w \in d.variants, v.key = w.key PROVE v = w
  <2>1. PICK i \in DOMAIN seq : v = VariantOf(seq[i])
    BY <1>1 DEF Values
  <2>2. PICK j \in DOMAIN seq : w = VariantOf(seq[j])
    BY <1>1 DEF Values
  <2>3. seq[i].key = seq[j].key
    BY <1>4, <2>1, <2>2 DEF VariantOf
  <2>4. \A k, m \in DOMAIN seq : seq[k].key = seq[m].key => k = m
    BY DEF ValidateExperimentInput, Unique
  <2>5. i = j
    BY <2>3, <2>4
  <2> QED
    BY <2>1, <2>2, <2>5
<1> QED
  BY <1>1, <1>2, <1>3, <1>4 DEF ExperimentCatalogue!Assignable, ValidateExperimentInput

Shown == {[service |-> e.service, design |-> ViewOf(e)] : e \in experiments}

\* A step that leaves experiments and variants leaves what they are to a client.
LEMMA ShownUnchanged ==
    ASSUME UNCHANGED <<experiments, variants>>
    PROVE  Shown' = Shown
  BY DEF Shown, ViewOf, VariantsOf

\* COMMIT is what adds an experiment.
LEMMA CommitAddsDesign ==
    ASSUME CreationInv, NEW c \in Clients, CommitExperiment(c)
    PROVE  ExperimentCatalogue!CatalogueNext
<1>1. PICK t \in creation[c] :
        /\ t.next = "variants"
        /\ t.inserted = Len(t.input.variants)
        /\ experiments' = experiments \cup {ExperimentRow(t)}
        /\ variants' = variants \cup VariantRows(t)
  BY DEF CommitExperiment
<1> DEFINE new == ExperimentRow(t)
           d == DesignOf(t.input)
<1>2. /\ CreationOK(c, t) /\ t.input \in Inputs /\ t.session \in Admins
      /\ t.input.variants \in Seq([key : STRING, flags : Seq(Nat)])
      /\ ValidateExperimentInput(t.input)
  BY CreationFields DEF CreationOK
<1>3. /\ new.service = t.session.service /\ new.name = t.input.name /\ new.layer = t.input.layer
      /\ new.percent = t.input.percent
  BY DEF ExperimentRow
<1>4. new.service \in 1 .. MaxServices
  BY <1>2, <1>3, AdminIsUser, AccountBoundAssumption DEF CreationInv, AccessInv, AccessTypeOK, Services
<1>5. \A e \in experiments : ~ SameName(e, new)
  BY <1>1, <1>2 DEF CreationOK
<1>6. \A e \in experiments : ViewOf(e)' = ViewOf(e)
  BY <1>1, <1>2, <1>5, CommittedViews
<1>7. ViewOf(new)' = d
  BY <1>1, <1>2, <1>5, CommittedViews
<1>8. Shown' = Shown \cup {[service |-> new.service, design |-> d]}
  <2> SUFFICES ASSUME NEW x
               PROVE  x \in Shown' <=> x \in Shown \/ x = [service |-> new.service, design |-> d]
    OBVIOUS
  <2>1. x \in Shown' <=>
          \E e \in experiments' : x = [service |-> e.service, design |-> ViewOf(e)']
    BY DEF Shown
  <2>2. x \in Shown <=>
          \E e \in experiments : x = [service |-> e.service, design |-> ViewOf(e)]
    BY DEF Shown
  <2> HIDE DEF new, d
  <2>3. \A e \in experiments' : e \in experiments \/ e = new
    BY <1>1 DEF new
  <2>4. ASSUME NEW e \in experiments', x = [service |-> e.service, design |-> ViewOf(e)']
        PROVE  x \in Shown \/ x = [service |-> new.service, design |-> d]
    BY <1>6, <1>7, <2>2, <2>3, <2>4
  <2>5. ASSUME NEW e \in experiments, x = [service |-> e.service, design |-> ViewOf(e)]
        PROVE  x \in Shown'
    BY <1>1, <1>6, <2>1, <2>5
  <2>6. x = [service |-> new.service, design |-> d] => x \in Shown'
    BY <1>1, <1>7, <2>1 DEF new
  <2> QED
    BY <2>1, <2>2, <2>4, <2>5, <2>6
<1>9. \A x \in Shown : <<x.service, x.design.name>> # <<new.service, d.name>>
  BY <1>3, <1>5 DEF Shown, ViewOf, DesignOf, SameName
<1>10. ExperimentCatalogue!AddDesign(new.service, d)
  BY <1>2, <1>8, <1>9, DesignAssignable DEF ExperimentCatalogue!AddDesign, Shown
<1> QED
  BY <1>2, <1>4, <1>10 DEF ExperimentCatalogue!CatalogueNext

\* Creation implements a Catalogue: whatever is shown of one holds of the
\* experiments there are.
THEOREM CreationImplementsCatalogue == Spec => ImplementsCatalogue
<1>1. Init => ExperimentCatalogue!CatalogueInit
  BY DEF Init, CreationInit, ExperimentCatalogue!CatalogueInit
<1>2. CreationInv /\ [Next]_vars => [ExperimentCatalogue!CatalogueNext]_Shown
  <2> SUFFICES ASSUME CreationInv, [Next]_vars
               PROVE  ExperimentCatalogue!CatalogueNext \/ Shown' = Shown
    OBVIOUS
  <2>1. ASSUME NEW c \in Clients, CommitExperiment(c)
        PROVE  ExperimentCatalogue!CatalogueNext
    BY <2>1, CommitAddsDesign
  <2>2. ASSUME NEW c \in Clients,
               \/ \E s \in sessions : \/ \E input \in Inputs : CreateExperiment(c, s, input)
                                      \/ ListExperiments(c, s)
               \/ RequestFails(c)
               \/ RequestStep(c) /\ ~ CommitExperiment(c)
        PROVE  UNCHANGED <<experiments, variants>>
    BY <2>2 DEF CreateExperiment, Begin, ListExperiments, RequestFails, RequestStep, InsertLayer,
       InsertExperiment, DuplicateKey, InsertVariant, MissingFlag, ReadVariants, AnswerListing,
       Continue, Rollback, designs
  <2>3. (AccessNext /\ UNCHANGED creationVars) \/ UNCHANGED vars \/ Restart
          => UNCHANGED <<experiments, variants>>
    BY DEF vars, creationVars, Restart, designs
  <2>4. ASSUME NEW s \in sessions, NEW key \in FlagKeys, CreateFlag(s, key)
        PROVE  UNCHANGED <<experiments, variants>>
    BY <2>4 DEF CreateFlag, designs
  <2> QED
    BY <2>1, <2>2, <2>3, <2>4, ShownUnchanged DEF Next
<1> QED
  BY <1>1, <1>2, CreationInvAlways, PTL
     DEF Spec, ImplementsCatalogue, ExperimentCatalogue!CatalogueSpec, Shown

================================================================================
