----------------------- MODULE MetricRecalculationProofs -----------------------
(***************************************************************************)
(* What the dirty marks guarantee, for any experiments, requests, events    *)
(* and calculators: type correctness, CleanIsFresh with the invariant it   *)
(* rests on, ResultsStay, OneResultPerBucket without analysts, and that     *)
(* what recalculations publish is what MetricReports allows.               *)
(***************************************************************************)
EXTENDS MetricRecalculation, TLAPS

\* A calculator has at most one transaction.
Single == \A c \in Calculators : \A q, r \in calc[c] : q = r

\* A recalculation that is alone has its experiment to itself: no call that
\* can change its results is open, and no other recalculation of it.
AloneInv ==
    \A c \in Calculators : \A r \in calc[c] :
        c \in alone =>
          /\ \A s \in Sources : Relevant(s, r.experiment) => source[s] = {}
          /\ \A d \in Calculators \ {c} : \A q \in calc[d] : q.experiment # r.experiment

\* What a recalculation has done so far; if it is alone, what it has read is
\* still what there is to read, and it has found all the old results.
WorkInv ==
    \A c \in Calculators : \A r \in calc[c] :
        /\ r.attached # {}
        /\ r.phase = "marked" => /\ r.todo = {}
                                 /\ \A m \in r.attached : \E x \in r.rows : x.metric = m
        /\ c \in alone =>
             /\ r.attached = Attached(r.experiment)
             /\ r.rows \subseteq Current(r.experiment)
             /\ r.phase # "begun" =>
                  \A d \in Calculators :
                     results[r.experiment][d] # {} => d \in r.todo \cup r.deleted

\* An open call has found all the experiments it has to mark.  An event misses
\* those whose assignment it did not see, but these are not clean, unless a
\* recalculation raced with it.
MarkInv ==
    \A s \in Sources : \A x \in source[s] : \A e \in Experiments :
        /\ s \in Attachments /\ s[1] = e => e \in x.todo \cup x.marked
        /\ s \in Requests /\ e \in Plan[s] => e \in x.todo \cup x.marked
        /\ s \in Events /\ RequestOf[s] \in Requests \cap log /\ e \in Plan[RequestOf[s]] =>
             e \in x.todo \cup x.marked \/ state[e] # "clean" \/ e \in raced

FreshInv ==
    /\ TypeOK
    /\ Single
    /\ AloneInv
    /\ WorkInv
    /\ MarkInv
    /\ CleanIsFresh

------------------------------------------------------------------------------
(* Types                                                                   *)

LEMMA SampleType == \A e : Sample(e) \in SUBSET (Requests \cup Events)
BY DEF Sample

LEMMA ContinueType ==
    ASSUME TypeOK, NEW c \in Calculators, NEW r \in Recalculation, Continue(c, r)
    PROVE  TypeOK'
BY DEF TypeOK, Continue, logs, tables

LEMMA BeginSourceType ==
    ASSUME TypeOK, NEW s \in Sources, NEW todo \in SUBSET Experiments, BeginSource(s, todo)
    PROVE  TypeOK'
BY DEF BeginSource, TypeOK, Marks, tables

LEMMA BeginRecalculationType ==
    ASSUME TypeOK, NEW c \in Calculators, NEW e \in Experiments, BeginRecalculation(c, e)
    PROVE  calc' \in [Calculators -> SUBSET Recalculation] /\ alone' \in SUBSET Calculators
<1>1. Attached(e) \in SUBSET Metrics
  BY DEF Attached
<1>2. [experiment |-> e, phase |-> "begun", attached |-> Attached(e),
       todo |-> {}, deleted |-> {}, rows |-> {}] \in Recalculation
  BY <1>1 DEF Recalculation
<1> QED
  BY <1>2 DEF BeginRecalculation, TypeOK

\* A commit leaves the others as they are, but for the rows they wait for.
LEMMA CommitCalc ==
    ASSUME TypeOK, NEW c \in Calculators, NEW r \in calc[c],
           calc' = [d \in Calculators |->
                      {[q EXCEPT !.todo = IF q.experiment = r.experiment THEN @ \ r.deleted ELSE @] :
                         q \in calc[d] \ {x \in {r} : d = c}}],
           NEW d \in Calculators, NEW p \in calc'[d]
    PROVE  \E q \in calc[d] : /\ p = [q EXCEPT !.todo = p.todo]
                              /\ p.todo \in SUBSET q.todo
                              /\ d = c => q # r
                              /\ q.experiment # r.experiment => p = q
<1>1. PICK q \in calc[d] \ {x \in {r} : d = c} :
        p = [q EXCEPT !.todo = IF q.experiment = r.experiment THEN @ \ r.deleted ELSE @]
  OBVIOUS
<1>2. q \in Recalculation
  BY DEF TypeOK
<1> QED
  BY <1>1, <1>2 DEF Recalculation

LEMMA TypeStep == TypeOK /\ [Next]_vars => TypeOK'
<1> SUFFICES ASSUME TypeOK, [Next]_vars PROVE TypeOK'
  OBVIOUS
<1>1. ASSUME NEW e \in Experiments, Publish(e) PROVE TypeOK'
  BY <1>1 DEF Publish, TypeOK, tables
<1>2. ASSUME NEW r \in Requests, ResolveFlags(r) PROVE TypeOK'
  <2>1. r \in Sources /\ Plan[r] \in SUBSET Experiments
    BY PlanAssumption DEF Sources
  <2> QED
    BY <1>2, <2>1, BeginSourceType DEF ResolveFlags
<1>3. ASSUME NEW v \in Events, IngestEvent(v) PROVE TypeOK'
  BY <1>3, BeginSourceType DEF IngestEvent, DirtyByRequest, Sources
<1>4. ASSUME NEW e \in Experiments, NEW m \in Metrics, AttachMetric(e, m) PROVE TypeOK'
  <2>1. <<e, m>> \in Sources
    BY DEF Sources, Attachments
  <2> QED
    BY <1>4, <2>1, BeginSourceType DEF AttachMetric
<1>5. ASSUME NEW s \in Sources, SourceStep(s) PROVE TypeOK'
  <2>1. CASE MarkDirty(s)
    BY <2>1 DEF MarkDirty, TypeOK, Marks, logs, tables
  <2>2. CASE CommitSource(s)
    BY <2>2 DEF CommitSource, TypeOK
  <2>3. CASE DeadlockVictim(s)
    BY <2>3 DEF DeadlockVictim, AbortSource, TypeOK, logs, tables
  <2> QED
    BY <1>5, <2>1, <2>2, <2>3 DEF SourceStep
<1>6. ASSUME NEW s \in Sources, SourceFails(s) PROVE TypeOK'
  BY <1>6 DEF SourceFails, Fault, AbortSource, TypeOK, logs, tables
<1>7. ASSUME NEW c \in Calculators, NEW e \in Experiments, PostRecalculation(c, e)
      PROVE  TypeOK'
  BY <1>7, BeginRecalculationType DEF PostRecalculation, TypeOK, logs, tables
<1>8. ASSUME NEW e \in Experiments, ScheduledRecalculation(e) PROVE TypeOK'
  BY <1>8, BeginRecalculationType DEF ScheduledRecalculation, TypeOK, logs, tables, Calculators
<1>9. ASSUME NEW c \in Calculators, RecalculationStep(c) PROVE TypeOK'
  <2>1. CASE ScanResults(c)
    <3>1. PICK r \in calc[c] :
            Continue(c, [r EXCEPT !.phase = "replacing",
                                  !.todo = {d \in Calculators : results[r.experiment][d] # {}}])
      BY <2>1 DEF ScanResults
    <3>2. r \in Recalculation
      BY DEF TypeOK
    <3>3. [r EXCEPT !.phase = "replacing",
                    !.todo = {d \in Calculators : results[r.experiment][d] # {}}] \in Recalculation
      BY <3>2 DEF Recalculation
    <3> QED
      BY <3>1, <3>3, ContinueType
  <2>2. CASE DeleteResults(c)
    <3>1. PICK r \in calc[c] : \E d \in r.todo :
            Continue(c, [r EXCEPT !.todo = @ \ {d}, !.deleted = @ \cup {d}])
      BY <2>2 DEF DeleteResults
    <3>2. PICK d \in r.todo : Continue(c, [r EXCEPT !.todo = @ \ {d}, !.deleted = @ \cup {d}])
      BY <3>1
    <3>3. r \in Recalculation
      BY DEF TypeOK
    <3>4. [r EXCEPT !.todo = @ \ {d}, !.deleted = @ \cup {d}] \in Recalculation
      BY <3>3 DEF Recalculation
    <3> QED
      BY <3>2, <3>4, ContinueType
  <2>3. CASE QueryVariantAggregates(c)
    <3>1. PICK r \in calc[c] : \E m \in r.attached :
            Continue(c, [r EXCEPT !.rows = @ \cup {[metric |-> m, sample |-> Sample(r.experiment)]}])
      BY <2>3 DEF QueryVariantAggregates
    <3>2. PICK m \in r.attached :
            Continue(c, [r EXCEPT !.rows = @ \cup {[metric |-> m, sample |-> Sample(r.experiment)]}])
      BY <3>1
    <3>3. r \in Recalculation
      BY DEF TypeOK
    <3>4. [metric |-> m, sample |-> Sample(r.experiment)] \in Row
      BY <3>3, SampleType DEF Row, Recalculation
    <3>5. [r EXCEPT !.rows = @ \cup {[metric |-> m, sample |-> Sample(r.experiment)]}]
            \in Recalculation
      BY <3>3, <3>4 DEF Recalculation
    <3> QED
      BY <3>2, <3>5, ContinueType
  <2>4. CASE MarkClean(c)
    <3>1. PICK r \in calc[c] : Continue(c, [r EXCEPT !.phase = "marked"])
      BY <2>4 DEF MarkClean
    <3>2. r \in Recalculation
      BY DEF TypeOK
    <3>3. [r EXCEPT !.phase = "marked"] \in Recalculation
      BY <3>2 DEF Recalculation
    <3> QED
      BY <3>1, <3>3, ContinueType
  <2>5. CASE CommitRecalculation(c)
    <3>1. PICK r \in calc[c] :
            /\ state' = CleanState(r)
            /\ results' = [results EXCEPT ![r.experiment] =
                 [d \in Calculators |->
                    IF d = c THEN (IF d \in r.deleted THEN {} ELSE results[r.experiment][d]) \cup r.rows
                    ELSE IF d \in r.deleted THEN {} ELSE results[r.experiment][d]]]
            /\ raced' = IF c \in alone THEN raced \ {r.experiment} ELSE raced \cup {r.experiment}
            /\ alone' = alone \ {c}
            /\ calc' = [d \in Calculators |->
                 {[q EXCEPT !.todo = IF q.experiment = r.experiment THEN @ \ r.deleted ELSE @] :
                    q \in calc[d] \ {x \in {r} : d = c}}]
            /\ UNCHANGED <<logs, source, agenda, budget>>
      BY <2>5 DEF CommitRecalculation
    <3>2. r \in Recalculation
      BY DEF TypeOK
    <3>3. calc' \in [Calculators -> SUBSET Recalculation]
      <4>1. ASSUME NEW d \in Calculators, NEW p \in calc'[d] PROVE p \in Recalculation
        <5>1. PICK q \in calc[d] : p = [q EXCEPT !.todo = p.todo] /\ p.todo \in SUBSET q.todo
          BY <3>1, <4>1, CommitCalc
        <5>2. q \in Recalculation
          BY DEF TypeOK
        <5> QED
          BY <5>1, <5>2 DEF Recalculation
      <4> QED
        BY <3>1, <4>1
    <3>4. state' \in [Experiments -> {"none", "dirty", "clean"}]
      BY <3>1, <3>2 DEF CleanState, TypeOK, Recalculation
    <3>5. results' \in [Experiments -> [Calculators -> SUBSET Row]]
      BY <3>1, <3>2 DEF TypeOK, Recalculation
    <3>6. raced' \in SUBSET Experiments /\ alone' \in SUBSET Calculators
      BY <3>1, <3>2 DEF TypeOK, Recalculation
    <3> QED
      BY <3>1, <3>3, <3>4, <3>5, <3>6 DEF TypeOK, logs
  <2>6. CASE RecalculationVictim(c)
    BY <2>6 DEF RecalculationVictim, AbortRecalculation, TypeOK, logs, tables
  <2> QED
    BY <1>9, <2>1, <2>2, <2>3, <2>4, <2>5, <2>6 DEF RecalculationStep
<1>10. ASSUME NEW c \in Calculators, RecalculationFails(c) PROVE TypeOK'
  BY <1>10 DEF RecalculationFails, Fault, AbortRecalculation, TypeOK, logs, tables
<1>11. CASE ScanPending
  BY <1>11 DEF ScanPending, TypeOK, logs, tables
<1>12. CASE Restart
  BY <1>12 DEF Restart, Fault, TypeOK, logs, tables
<1>13. CASE UNCHANGED vars
  BY <1>13 DEF vars, TypeOK
<1> QED
  BY <1>1, <1>2, <1>3, <1>4, <1>5, <1>6, <1>7, <1>8, <1>9, <1>10, <1>11, <1>12, <1>13 DEF Next

\* Type correctness.
THEOREM TypeCorrect == Spec => []TypeOK
<1>1. Init => TypeOK
  BY BoundAssumption DEF Init, TypeOK
<1> QED
  BY <1>1, TypeStep, PTL DEF Spec

------------------------------------------------------------------------------
(* Clean is fresh                                                          *)

LEMMA SameLog ==
    ASSUME log' = log
    PROVE  \A e : /\ Attached(e)' = Attached(e)
                 /\ Sample(e)' = Sample(e)
                 /\ Current(e)' = Current(e)
BY DEF Attached, Sample, Current

LEMMA SameFreshOf ==
    ASSUME NEW e \in Experiments, results'[e] = results[e], Current(e)' = Current(e), Fresh(e)
    PROVE  Fresh(e)'
<1>1. PICK c \in Calculators : results[e] = [d \in Calculators |-> IF d = c THEN Current(e) ELSE {}]
  BY DEF Fresh
<1>2. results'[e] = [d \in Calculators |-> IF d = c THEN Current(e)' ELSE {}]
  BY <1>1
<1> QED
  BY <1>2 DEF Fresh

LEMMA SameFresh ==
    ASSUME log' = log, UNCHANGED tables, CleanIsFresh
    PROVE  CleanIsFresh'
<1>1. ASSUME NEW e \in Experiments, Fresh(e) PROVE Fresh(e)'
  BY <1>1, SameLog, SameFreshOf DEF tables
<1> QED
  BY <1>1 DEF CleanIsFresh, tables

\* Steps that end transactions without a trace, or have nothing to do with
\* them.
LEMMA FewerFresh ==
    ASSUME FreshInv, TypeOK', log' = log, UNCHANGED tables,
           \A c \in Calculators : calc'[c] \subseteq calc[c],
           \A s \in Sources : source'[s] \subseteq source[s],
           alone' \subseteq alone
    PROVE  FreshInv'
<1>1. Single'
  BY DEF FreshInv, Single
<1>2. AloneInv'
  BY DEF FreshInv, AloneInv
<1>3. WorkInv'
  BY SameLog DEF FreshInv, WorkInv, tables
<1>4. MarkInv'
  BY DEF FreshInv, MarkInv, tables
<1>5. CleanIsFresh'
  BY SameFresh DEF FreshInv
<1> QED
  BY <1>1, <1>2, <1>3, <1>4, <1>5 DEF FreshInv

\* What WorkInv asks of the recalculation r of c.
Works(c, r) ==
    /\ r.attached # {}
    /\ r.phase = "marked" => /\ r.todo = {}
                             /\ \A m \in r.attached : \E x \in r.rows : x.metric = m
    /\ c \in alone =>
         /\ r.attached = Attached(r.experiment)
         /\ r.rows \subseteq Current(r.experiment)
         /\ r.phase # "begun" =>
              \A d \in Calculators :
                 results[r.experiment][d] # {} => d \in r.todo \cup r.deleted

\* A recalculation that goes on.
LEMMA ContinueFresh ==
    ASSUME FreshInv, NEW c \in Calculators, NEW r \in calc[c], NEW q \in Recalculation,
           Continue(c, q), q.experiment = r.experiment, Works(c, q)
    PROVE  FreshInv'
<1>1. TypeOK'
  BY ContinueType DEF FreshInv
<1>2. /\ \A d \in Calculators : calc'[d] = IF d = c THEN {q} ELSE calc[d]
      /\ log' = log
      /\ UNCHANGED <<tables, source, alone>>
  BY DEF Continue, FreshInv, TypeOK, logs
<1>3. Single'
  BY <1>2 DEF FreshInv, Single
<1>4. AloneInv'
  BY <1>2 DEF FreshInv, AloneInv
<1>5. WorkInv'
  BY <1>2, SameLog DEF FreshInv, WorkInv, Works, tables
<1>6. MarkInv'
  BY <1>2 DEF FreshInv, MarkInv, tables
<1>7. CleanIsFresh'
  BY <1>2, SameFresh DEF FreshInv
<1> QED
  BY <1>1, <1>3, <1>4, <1>5, <1>6, <1>7 DEF FreshInv

\* What MarkInv asks of the call s with todo and marked experiments in x.
Marked(s, x) ==
    \A e \in Experiments :
        /\ s \in Attachments /\ s[1] = e => e \in x.todo \cup x.marked
        /\ s \in Requests /\ e \in Plan[s] => e \in x.todo \cup x.marked
        /\ s \in Events /\ RequestOf[s] \in Requests \cap log /\ e \in Plan[RequestOf[s]] =>
             e \in x.todo \cup x.marked \/ state[e] # "clean" \/ e \in raced

\* A call that begins.
LEMMA BeginSourceFresh ==
    ASSUME FreshInv, NEW s \in Sources, NEW todo \in SUBSET Experiments, BeginSource(s, todo),
           Marked(s, [todo |-> todo, marked |-> {}])
    PROVE  FreshInv'
<1>1. TypeOK'
  BY BeginSourceType DEF FreshInv
<1>2. /\ \A t \in Sources : source'[t] = IF t = s THEN {[todo |-> todo, marked |-> {}]} ELSE source[t]
      /\ alone' = {c \in alone : \A r \in calc[c] : ~ Relevant(s, r.experiment)}
      /\ log' = log
      /\ UNCHANGED <<tables, calc>>
  BY DEF BeginSource, FreshInv, TypeOK
<1>3. Single'
  BY <1>2 DEF FreshInv, Single
<1>4. AloneInv'
  BY <1>2 DEF FreshInv, AloneInv
<1>5. WorkInv'
  BY <1>2, SameLog DEF FreshInv, WorkInv, tables
<1>6. MarkInv'
  BY <1>2 DEF FreshInv, MarkInv, Marked, tables
<1>7. CleanIsFresh'
  BY <1>2, SameFresh DEF FreshInv
<1> QED
  BY <1>1, <1>3, <1>4, <1>5, <1>6, <1>7 DEF FreshInv

LEMMA MarkDirtyFresh ==
    ASSUME FreshInv, NEW s \in Sources, MarkDirty(s), TypeOK'
    PROVE  FreshInv'
<1>0. PICK x \in source[s] : \E e \in x.todo :
        /\ source' = [source EXCEPT ![s] = {[todo |-> x.todo \ {e}, marked |-> x.marked \cup {e}]}]
        /\ UNCHANGED <<logs, tables, calc, agenda, alone, budget>>
  BY DEF MarkDirty
<1>1. PICK e \in x.todo :
        /\ source' = [source EXCEPT ![s] = {[todo |-> x.todo \ {e}, marked |-> x.marked \cup {e}]}]
        /\ UNCHANGED <<logs, tables, calc, agenda, alone, budget>>
  BY <1>0
<1>2. /\ \A t \in Sources : source'[t] = IF t = s THEN {[todo |-> x.todo \ {e}, marked |-> x.marked \cup {e}]}
                                       ELSE source[t]
      /\ log' = log
      /\ UNCHANGED <<tables, calc, alone>>
  BY <1>1 DEF logs, FreshInv, TypeOK
<1>3. Single'
  BY <1>2 DEF FreshInv, Single
<1>4. AloneInv'
  BY <1>2 DEF FreshInv, AloneInv
<1>5. WorkInv'
  BY <1>2, SameLog DEF FreshInv, WorkInv, tables
<1>6. MarkInv'
  BY <1>2 DEF FreshInv, MarkInv, tables
<1>7. CleanIsFresh'
  BY <1>2, SameFresh DEF FreshInv
<1> QED
  BY <1>3, <1>4, <1>5, <1>6, <1>7 DEF FreshInv

\* What the commit of the call s leaves as it is: everything but the results
\* of the experiments that s attaches to, is assigned to or finds assigned.
LEMMA OtherLog ==
    ASSUME NEW s \in Sources, NEW e \in Experiments, log' = log \cup {s},
           ~ (s \in Attachments /\ s[1] = e),
           ~ (s \in Requests /\ e \in Plan[s]),
           ~ (s \in Events /\ RequestOf[s] \in Requests \cap log /\ e \in Plan[RequestOf[s]])
    PROVE  /\ Attached(e)' = Attached(e)
           /\ Sample(e)' = Sample(e)
           /\ Current(e)' = Current(e)
<1>1. Attached(e)' = Attached(e)
  <2>1. ASSUME NEW m \in Metrics PROVE <<e, m>> \in log' <=> <<e, m>> \in log
    BY DEF Attachments
  <2> QED
    BY <2>1 DEF Attached
<1>2. {r \in Requests \cap log' : e \in Plan[r]} = {r \in Requests \cap log : e \in Plan[r]}
  OBVIOUS
<1>3. \A v \in Events : RequestOf[v] \in {r \in Requests \cap log : e \in Plan[r]} =>
                          (v \in log' <=> v \in log)
  OBVIOUS
<1>4. Sample(e)' = Sample(e)
  BY <1>2, <1>3 DEF Sample
<1> QED
  BY <1>1, <1>4 DEF Current

LEMMA CommitSourceFresh ==
    ASSUME FreshInv, NEW s \in Sources, CommitSource(s), TypeOK'
    PROVE  FreshInv'
<1>1. PICK x \in source[s] :
        /\ x.todo = {}
        /\ state' = [e \in Experiments |-> IF e \in x.marked THEN "dirty" ELSE state[e]]
  BY DEF CommitSource
<1>2. /\ \A t \in Sources : source'[t] = IF t = s THEN {} ELSE source[t]
      /\ log' = log \cup {s}
      /\ UNCHANGED <<results, raced, calc, alone>>
  BY DEF CommitSource, FreshInv, TypeOK
<1>3. Single'
  BY <1>2 DEF FreshInv, Single
<1>4. AloneInv'
  BY <1>2 DEF FreshInv, AloneInv
<1>5. WorkInv'
  <2>1. ASSUME NEW c \in Calculators, NEW r \in calc[c], c \in alone
        PROVE  /\ Attached(r.experiment)' = Attached(r.experiment)
               /\ Current(r.experiment)' = Current(r.experiment)
    <3>1. r.experiment \in Experiments
      BY DEF FreshInv, TypeOK, Recalculation
    <3>2. ~ Relevant(s, r.experiment)
      BY <1>1, <2>1 DEF FreshInv, AloneInv
    <3> QED
      BY <1>2, <3>1, <3>2, OtherLog DEF Relevant
  <2> QED
    BY <1>2, <2>1 DEF FreshInv, WorkInv
<1>6. MarkInv'
  <2>1. \A e \in Experiments : state'[e] = "clean" => state[e] = "clean" /\ e \notin x.marked
    BY <1>1 DEF FreshInv, TypeOK
  <2>2. ASSUME NEW t \in Sources, NEW y \in source'[t], NEW e \in Experiments,
               t \in Events, RequestOf[t] \in Requests \cap log', e \in Plan[RequestOf[t]]
        PROVE  e \in y.todo \cup y.marked \/ state'[e] # "clean" \/ e \in raced'
    <3>1. t # s /\ y \in source[t]
      BY <1>2
    <3>2. CASE RequestOf[t] \in log
      BY <1>2, <2>1, <2>2, <3>1, <3>2 DEF FreshInv, MarkInv
    <3>3. CASE RequestOf[t] = s
      BY <1>1, <2>1, <2>2, <3>3 DEF FreshInv, MarkInv
    <3> QED
      BY <1>2, <2>2, <3>2, <3>3
  <2> QED
    BY <1>2, <2>2 DEF FreshInv, MarkInv
<1>7. CleanIsFresh'
  <2>1. SUFFICES ASSUME NEW e \in Experiments, state'[e] = "clean", e \notin raced'
                 PROVE  Fresh(e)'
    BY DEF CleanIsFresh
  <2>2. state[e] = "clean" /\ e \notin x.marked /\ e \notin raced
    BY <1>1, <1>2, <2>1 DEF FreshInv, TypeOK
  <2>3. Fresh(e)
    BY <2>2 DEF FreshInv, CleanIsFresh
  <2>4. Current(e)' = Current(e)
    BY <1>1, <1>2, <2>2, OtherLog DEF FreshInv, MarkInv
  <2> QED
    BY <1>2, <2>3, <2>4, SameFreshOf
<1> QED
  BY <1>3, <1>4, <1>5, <1>6, <1>7 DEF FreshInv

\* A recalculation that begins.
LEMMA BeginRecalculationFresh ==
    ASSUME FreshInv, NEW c \in Calculators, NEW e \in Experiments, BeginRecalculation(c, e),
           UNCHANGED <<logs, tables, source>>, TypeOK'
    PROVE  FreshInv'
<1> DEFINE others == {d \in Calculators \ {c} : \E r \in calc[d] : r.experiment = e}
           open == {s \in Sources : source[s] # {} /\ Relevant(s, e)}
           new == [experiment |-> e, phase |-> "begun", attached |-> Attached(e),
                   todo |-> {}, deleted |-> {}, rows |-> {}]
<1>1. /\ \A d \in Calculators : calc'[d] = IF d = c THEN {new} ELSE calc[d]
      /\ alone' = IF others = {} /\ open = {} THEN alone \cup {c} ELSE alone \ ({c} \cup others)
      /\ Attached(e) # {}
      /\ log' = log
      /\ UNCHANGED <<tables, source>>
  BY DEF BeginRecalculation, FreshInv, TypeOK, logs
<1>2. Single'
  BY <1>1 DEF FreshInv, Single
<1>3. AloneInv'
  BY <1>1 DEF FreshInv, AloneInv, Relevant
<1>4. WorkInv'
  BY <1>1, SameLog DEF FreshInv, WorkInv, tables
<1>5. MarkInv'
  BY <1>1 DEF FreshInv, MarkInv, tables
<1>6. CleanIsFresh'
  BY <1>1, SameFresh DEF FreshInv
<1> QED
  BY <1>2, <1>3, <1>4, <1>5, <1>6 DEF FreshInv

\* A recalculation that commits: alone, it leaves what the logs call for.
LEMMA CommitRecalculationFresh ==
    ASSUME FreshInv, NEW c \in Calculators, CommitRecalculation(c), TypeOK'
    PROVE  FreshInv'
<1>1. PICK r \in calc[c] :
        /\ r.phase = "marked"
        /\ state' = CleanState(r)
        /\ results' = [results EXCEPT ![r.experiment] =
             [d \in Calculators |->
                IF d = c THEN (IF d \in r.deleted THEN {} ELSE results[r.experiment][d]) \cup r.rows
                ELSE IF d \in r.deleted THEN {} ELSE results[r.experiment][d]]]
        /\ raced' = IF c \in alone THEN raced \ {r.experiment} ELSE raced \cup {r.experiment}
        /\ alone' = alone \ {c}
        /\ calc' = [d \in Calculators |->
             {[q EXCEPT !.todo = IF q.experiment = r.experiment THEN @ \ r.deleted ELSE @] :
                q \in calc[d] \ {x \in {r} : d = c}}]
        /\ UNCHANGED <<logs, source, agenda, budget>>
  BY DEF CommitRecalculation
<1> DEFINE e == r.experiment
<1>2. r \in Recalculation /\ e \in Experiments
  BY DEF FreshInv, TypeOK, Recalculation
<1>3. log' = log /\ source' = source
  BY <1>1 DEF logs
<1>4. \A f \in Experiments \ {e} : /\ state'[f] = state[f]
                                   /\ results'[f] = results[f]
                                   /\ f \in raced' <=> f \in raced
  BY <1>1, <1>2 DEF CleanState, FreshInv, TypeOK
<1>5. ASSUME NEW d \in Calculators, NEW p \in calc'[d]
      PROVE  d # c /\ \E q \in calc[d] : /\ p = [q EXCEPT !.todo = p.todo]
                                         /\ p.todo \in SUBSET q.todo
                                         /\ q.experiment # e => p = q
  <2>1. PICK q \in calc[d] \ {x \in {r} : d = c} :
          p = [q EXCEPT !.todo = IF q.experiment = r.experiment THEN @ \ r.deleted ELSE @]
    BY <1>1
  <2>2. q \in Recalculation
    BY DEF FreshInv, TypeOK
  <2>3. d # c
    BY <2>1 DEF FreshInv, Single
  <2>4. p.todo \in SUBSET q.todo /\ p = [q EXCEPT !.todo = p.todo]
    BY <2>1, <2>2 DEF Recalculation
  <2>5. q.experiment # e => p = q
    BY <2>1, <2>2 DEF Recalculation
  <2> QED
    BY <2>3, <2>4, <2>5
<1>6. Single'
  <2>1. SUFFICES ASSUME NEW d \in Calculators, NEW p1 \in calc'[d], NEW p2 \in calc'[d]
                 PROVE  p1 = p2
    BY DEF Single
  <2>2. PICK q1 \in calc[d] :
          p1 = [q1 EXCEPT !.todo = IF q1.experiment = r.experiment THEN @ \ r.deleted ELSE @]
    BY <1>1
  <2>3. PICK q2 \in calc[d] :
          p2 = [q2 EXCEPT !.todo = IF q2.experiment = r.experiment THEN @ \ r.deleted ELSE @]
    BY <1>1
  <2>4. q1 = q2
    BY DEF FreshInv, Single
  <2> QED
    BY <2>2, <2>3, <2>4
<1>7. AloneInv'
  <2>1. SUFFICES ASSUME NEW d \in Calculators, NEW p \in calc'[d], d \in alone'
                 PROVE  /\ \A s \in Sources : Relevant(s, p.experiment) => source'[s] = {}
                        /\ \A b \in Calculators \ {d} : \A q \in calc'[b] : q.experiment # p.experiment
    BY DEF AloneInv, Relevant
  <2>2. PICK q \in calc[d] : p = [q EXCEPT !.todo = p.todo]
    BY <1>5
  <2>3. p.experiment = q.experiment
    <3>1. q \in Recalculation
      BY DEF FreshInv, TypeOK
    <3> QED
      BY <2>2, <3>1 DEF Recalculation
  <2>4. \A s \in Sources : Relevant(s, p.experiment) => source'[s] = {}
    BY <1>1, <1>3, <2>1, <2>3 DEF FreshInv, AloneInv
  <2>5. ASSUME NEW b \in Calculators \ {d}, NEW o \in calc'[b] PROVE o.experiment # p.experiment
    <3>1. PICK u \in calc[b] : o = [u EXCEPT !.todo = o.todo]
      BY <1>5
    <3>2. u \in Recalculation
      BY DEF FreshInv, TypeOK
    <3>3. o.experiment = u.experiment
      BY <3>1, <3>2 DEF Recalculation
    <3> QED
      BY <1>1, <2>1, <2>3, <3>3 DEF FreshInv, AloneInv
  <2> QED
    BY <2>4, <2>5
<1>8. WorkInv'
  <2>1. SUFFICES ASSUME NEW d \in Calculators, NEW p \in calc'[d]
                 PROVE  /\ p.attached # {}
                        /\ p.phase = "marked" =>
                             p.todo = {} /\ \A m \in p.attached : \E x \in p.rows : x.metric = m
                        /\ d \in alone' =>
                             /\ p.attached = Attached(p.experiment)'
                             /\ p.rows \subseteq Current(p.experiment)'
                             /\ p.phase # "begun" =>
                                  \A b \in Calculators :
                                     results'[p.experiment][b] # {} => b \in p.todo \cup p.deleted
    BY DEF WorkInv
  <2>2. PICK q \in calc[d] : /\ p = [q EXCEPT !.todo = p.todo]
                             /\ p.todo \in SUBSET q.todo
                             /\ q.experiment # e => p = q
    BY <1>5
  <2>3. q \in Recalculation
    BY DEF FreshInv, TypeOK
  <2>4. /\ p.attached = q.attached
        /\ p.phase = q.phase
        /\ p.rows = q.rows
    BY <2>2, <2>3 DEF Recalculation
  <2>5. CASE d \in alone'
    <3>1. d # c /\ d \in alone
      BY <1>1, <1>5, <2>5
    <3>2. q.experiment # e
      BY <3>1 DEF FreshInv, AloneInv
    <3>3. p = q /\ q.experiment \in Experiments \ {e}
      BY <2>2, <2>3, <3>2 DEF Recalculation
    <3> QED
      BY <1>3, <1>4, <3>1, <3>3, SameLog DEF FreshInv, WorkInv
  <2>6. CASE d \notin alone'
    BY <2>2, <2>4, <2>6 DEF FreshInv, WorkInv
  <2> QED
    BY <2>5, <2>6
<1>9. MarkInv'
  <2>1. ASSUME NEW s \in Sources, NEW x \in source[s],
               s \in Events, RequestOf[s] \in Requests \cap log, e \in Plan[RequestOf[s]]
        PROVE  e \in raced'
    <3>1. Relevant(s, e)
      BY <2>1 DEF Relevant
    <3>2. c \notin alone
      BY <2>1, <3>1 DEF FreshInv, AloneInv
    <3> QED
      BY <1>1, <3>2
  <2>2. ASSUME NEW s \in Sources, NEW x \in source[s], NEW f \in Experiments,
               s \in Events, RequestOf[s] \in Requests \cap log, f \in Plan[RequestOf[s]]
        PROVE  f \in x.todo \cup x.marked \/ state'[f] # "clean" \/ f \in raced'
    BY <1>4, <2>1, <2>2 DEF FreshInv, MarkInv
  <2> QED
    BY <1>3, <2>2 DEF FreshInv, MarkInv
<1>10. CleanIsFresh'
  <2>1. SUFFICES ASSUME NEW f \in Experiments, state'[f] = "clean", f \notin raced'
                 PROVE  Fresh(f)'
    BY DEF CleanIsFresh
  <2>2. CASE f # e
    <3>1. Fresh(f)
      BY <1>4, <2>1, <2>2 DEF FreshInv, CleanIsFresh
    <3> QED
      BY <1>3, <1>4, <2>2, <3>1, SameLog, SameFreshOf
  <2>3. CASE f = e
    <3>1. c \in alone
      BY <1>1, <2>1, <2>3
    <3>2. /\ r.attached = Attached(e)
          /\ r.rows \subseteq Current(e)
          /\ \A d \in Calculators : results[e][d] # {} => d \in r.deleted
          /\ \A m \in r.attached : \E x \in r.rows : x.metric = m
      BY <1>1, <3>1 DEF FreshInv, WorkInv
    <3>3. r.rows = Current(e)
      <4>1. ASSUME NEW x \in Current(e) PROVE x \in r.rows
        <5>1. PICK m \in Attached(e) : x = [metric |-> m, sample |-> Sample(e)]
          BY <4>1 DEF Current
        <5>2. PICK y \in r.rows : y.metric = m
          BY <3>2, <5>1
        <5>3. PICK n \in Attached(e) : y = [metric |-> n, sample |-> Sample(e)]
          BY <3>2, <5>2 DEF Current
        <5> QED
          BY <5>1, <5>2, <5>3
      <4> QED
        BY <3>2, <4>1
    <3>4. results'[e] = [d \in Calculators |->
             IF d = c THEN (IF d \in r.deleted THEN {} ELSE results[e][d]) \cup r.rows
             ELSE IF d \in r.deleted THEN {} ELSE results[e][d]]
      BY <1>1, <1>2 DEF FreshInv, TypeOK
    <3>5. \A d \in Calculators \ r.deleted : results[e][d] = {}
      BY <3>2
    <3>6. results'[e] = [d \in Calculators |-> IF d = c THEN Current(e) ELSE {}]
      BY <3>3, <3>4, <3>5
    <3>7. Current(e)' = Current(e)
      BY <1>3, SameLog
    <3> QED
      BY <2>3, <3>6, <3>7 DEF Fresh
  <2> QED
    BY <2>2, <2>3
<1> QED
  BY <1>6, <1>7, <1>8, <1>9, <1>10 DEF FreshInv

LEMMA RecalculationStepFresh ==
    ASSUME FreshInv, NEW c \in Calculators, RecalculationStep(c), TypeOK'
    PROVE  FreshInv'
<1> USE DEF FreshInv
<1>1. ASSUME NEW r \in calc[c] PROVE r \in Recalculation
  BY DEF TypeOK
<1>2. CASE ScanResults(c)
  <2> DEFINE found(r) == [r EXCEPT !.phase = "replacing",
                                   !.todo = {d \in Calculators : results[r.experiment][d] # {}}]
  <2>1. PICK r \in calc[c] : Continue(c, found(r))
    BY <1>2 DEF ScanResults
  <2>2. found(r) \in Recalculation /\ found(r).experiment = r.experiment
    BY <1>1 DEF Recalculation
  <2>3. Works(c, found(r))
    BY <1>1 DEF WorkInv, Works, Recalculation
  <2> QED
    BY <2>1, <2>2, <2>3, ContinueFresh
<1>3. CASE DeleteResults(c)
  <2> DEFINE taken(r, d) == [r EXCEPT !.todo = @ \ {d}, !.deleted = @ \cup {d}]
  <2>1. PICK r \in calc[c] : \E d \in r.todo : Continue(c, taken(r, d))
    BY <1>3 DEF DeleteResults
  <2>2. PICK d \in r.todo : Continue(c, taken(r, d))
    BY <2>1
  <2>3. taken(r, d) \in Recalculation /\ taken(r, d).experiment = r.experiment
    BY <1>1 DEF Recalculation
  <2>4. Works(c, taken(r, d))
    BY <1>1 DEF WorkInv, Works, Recalculation
  <2> QED
    BY <2>2, <2>3, <2>4, ContinueFresh
<1>4. CASE QueryVariantAggregates(c)
  <2> DEFINE row(r, m) == [metric |-> m, sample |-> Sample(r.experiment)]
             more(r, m) == [r EXCEPT !.rows = @ \cup {row(r, m)}]
  <2>1. PICK r \in calc[c] : \E m \in r.attached : r.phase = "replacing" /\ Continue(c, more(r, m))
    BY <1>4 DEF QueryVariantAggregates
  <2>2. PICK m \in r.attached : r.phase = "replacing" /\ Continue(c, more(r, m))
    BY <2>1
  <2>3. row(r, m) \in Row
    BY <1>1, SampleType DEF Row, Recalculation
  <2>4. more(r, m) \in Recalculation /\ more(r, m).experiment = r.experiment
    BY <1>1, <2>3 DEF Recalculation
  <2>5. c \in alone => row(r, m) \in Current(r.experiment)
    BY DEF WorkInv, Current
  <2>6. /\ more(r, m).attached = r.attached
        /\ more(r, m).phase = r.phase
        /\ more(r, m).todo = r.todo
        /\ more(r, m).deleted = r.deleted
        /\ more(r, m).rows = r.rows \cup {row(r, m)}
    BY <1>1 DEF Recalculation
  <2> HIDE DEF row, more
  <2>7. Works(c, more(r, m))
    BY <2>2, <2>4, <2>5, <2>6 DEF WorkInv, Works
  <2> QED
    BY <2>2, <2>4, <2>7, ContinueFresh
<1>5. CASE MarkClean(c)
  <2> DEFINE done(r) == [r EXCEPT !.phase = "marked"]
  <2>1. PICK r \in calc[c] : /\ r.phase = "replacing"
                             /\ r.todo = {}
                             /\ \A m \in r.attached : \E x \in r.rows : x.metric = m
                             /\ Continue(c, done(r))
    BY <1>5 DEF MarkClean
  <2>2. done(r) \in Recalculation /\ done(r).experiment = r.experiment
    BY <1>1 DEF Recalculation
  <2>3. Works(c, done(r))
    BY <1>1, <2>1 DEF WorkInv, Works, Recalculation
  <2> QED
    BY <2>1, <2>2, <2>3, ContinueFresh
<1>6. CASE CommitRecalculation(c)
  BY <1>6, CommitRecalculationFresh
<1>7. CASE RecalculationVictim(c)
  BY <1>7, FewerFresh DEF RecalculationVictim, AbortRecalculation, logs, TypeOK
<1> QED
  BY <1>2, <1>3, <1>4, <1>5, <1>6, <1>7 DEF RecalculationStep

LEMMA FreshStep == FreshInv /\ [Next]_vars => FreshInv'
<1> SUFFICES ASSUME FreshInv, [Next]_vars PROVE FreshInv'
  OBVIOUS
<1>0. TypeOK /\ TypeOK'
  BY TypeStep DEF FreshInv
<1>1. ASSUME NEW e \in Experiments, Publish(e) PROVE FreshInv'
  BY <1>0, <1>1, FewerFresh DEF Publish
<1>2. ASSUME NEW r \in Requests, ResolveFlags(r) PROVE FreshInv'
  <2>1. r \in Sources /\ Plan[r] \in SUBSET Experiments
    BY PlanAssumption DEF Sources
  <2>2. Marked(r, [todo |-> Plan[r], marked |-> {}])
    BY SourceAssumption DEF Marked
  <2> QED
    BY <1>2, <2>1, <2>2, BeginSourceFresh DEF ResolveFlags
<1>3. ASSUME NEW v \in Events, IngestEvent(v) PROVE FreshInv'
  <2>1. v \in Sources /\ DirtyByRequest(v) \in SUBSET Experiments
    BY DEF Sources, DirtyByRequest
  <2>2. Marked(v, [todo |-> DirtyByRequest(v), marked |-> {}])
    BY SourceAssumption DEF Marked, DirtyByRequest
  <2> QED
    BY <1>3, <2>1, <2>2, BeginSourceFresh DEF IngestEvent
<1>4. ASSUME NEW e \in Experiments, NEW m \in Metrics, AttachMetric(e, m) PROVE FreshInv'
  <2>1. <<e, m>> \in Sources /\ <<e, m>> \in Attachments
    BY DEF Sources, Attachments
  <2>2. Marked(<<e, m>>, [todo |-> {e}, marked |-> {}])
    BY <2>1, SourceAssumption DEF Marked
  <2> QED
    BY <1>4, <2>1, <2>2, BeginSourceFresh DEF AttachMetric
<1>5. ASSUME NEW s \in Sources, SourceStep(s) PROVE FreshInv'
  <2>1. CASE MarkDirty(s)
    BY <1>0, <2>1, MarkDirtyFresh
  <2>2. CASE CommitSource(s)
    BY <1>0, <2>2, CommitSourceFresh
  <2>3. CASE DeadlockVictim(s)
    BY <1>0, <2>3, FewerFresh DEF DeadlockVictim, AbortSource, logs, TypeOK
  <2> QED
    BY <1>5, <2>1, <2>2, <2>3 DEF SourceStep
<1>6. ASSUME NEW s \in Sources, SourceFails(s) PROVE FreshInv'
  BY <1>0, <1>6, FewerFresh DEF SourceFails, AbortSource, logs, TypeOK
<1>7. ASSUME NEW c \in Calculators, NEW e \in Experiments, PostRecalculation(c, e)
      PROVE  FreshInv'
  BY <1>0, <1>7, BeginRecalculationFresh DEF PostRecalculation
<1>8. ASSUME NEW e \in Experiments, ScheduledRecalculation(e) PROVE FreshInv'
  BY <1>0, <1>8, BeginRecalculationFresh DEF ScheduledRecalculation, Calculators
<1>9. ASSUME NEW c \in Calculators, RecalculationStep(c) PROVE FreshInv'
  BY <1>0, <1>9, RecalculationStepFresh
<1>10. ASSUME NEW c \in Calculators, RecalculationFails(c) PROVE FreshInv'
  BY <1>0, <1>10, FewerFresh DEF RecalculationFails, AbortRecalculation, logs, TypeOK
<1>11. CASE ScanPending
  BY <1>0, <1>11, FewerFresh DEF ScanPending, logs
<1>12. CASE Restart
  BY <1>0, <1>12, FewerFresh DEF Restart, logs
<1>13. CASE UNCHANGED vars
  BY <1>0, <1>13, FewerFresh DEF vars, tables
<1> QED
  BY <1>1, <1>2, <1>3, <1>4, <1>5, <1>6, <1>7, <1>8, <1>9, <1>10, <1>11, <1>12, <1>13 DEF Next

LEMMA FreshAlways == Spec => []FreshInv
<1>1. Init => TypeOK
  BY BoundAssumption DEF Init, TypeOK
<1>2. Init => Single /\ AloneInv /\ WorkInv /\ MarkInv /\ CleanIsFresh
  BY DEF Init, Single, AloneInv, WorkInv, MarkInv, CleanIsFresh
<1>3. Init => FreshInv
  BY <1>1, <1>2 DEF FreshInv
<1> QED
  BY <1>3, FreshStep, PTL DEF Spec

\* An experiment that is marked clean has the results its logs call for, if
\* its last recalculation was alone.
THEOREM CleanIsAlwaysFresh == Spec => []CleanIsFresh
<1>1. FreshInv => CleanIsFresh
  BY DEF FreshInv
<1> QED
  BY <1>1, FreshAlways, PTL

\* Only a commit writes results.
LEMMA OthersLeaveResults ==
    ASSUME [Next]_vars, \A c \in Calculators : ~ CommitRecalculation(c)
    PROVE  results' = results
BY DEF Next, vars, tables, Publish, ResolveFlags, IngestEvent, AttachMetric, BeginSource,
       SourceStep, MarkDirty, CommitSource, DeadlockVictim, AbortSource, SourceFails,
       PostRecalculation, ScheduledRecalculation, RecalculationStep, ScanResults, DeleteResults,
       QueryVariantAggregates, MarkClean, Continue, RecalculationVictim, RecalculationFails,
       AbortRecalculation,
       ScanPending, Restart

\* Who lists the results of an experiment that has some always finds some.
THEOREM ResultsAlwaysStay == Spec => ResultsStay
<1> DEFINE Stay == \A e \in Experiments : HasResults(e) => HasResults(e)'
<1>1. FreshInv /\ [Next]_vars => Stay
  <2> SUFFICES ASSUME FreshInv, [Next]_vars, NEW e \in Experiments, HasResults(e)
               PROVE  HasResults(e)'
    OBVIOUS
  <2>1. CASE \A c \in Calculators : ~ CommitRecalculation(c)
    BY <2>1, OthersLeaveResults DEF HasResults
  <2>2. ASSUME NEW c \in Calculators, CommitRecalculation(c) PROVE HasResults(e)'
    <3>1. PICK r \in calc[c] :
            /\ r.phase = "marked"
            /\ results' = [results EXCEPT ![r.experiment] =
                 [d \in Calculators |->
                    IF d = c THEN (IF d \in r.deleted THEN {} ELSE results[r.experiment][d]) \cup r.rows
                    ELSE IF d \in r.deleted THEN {} ELSE results[r.experiment][d]]]
      BY <2>2 DEF CommitRecalculation
    <3>2. r.rows # {}
      BY <3>1 DEF FreshInv, WorkInv
    <3>3. CASE e = r.experiment
      <4>1. r.rows \subseteq results'[e][c]
        BY <3>1, <3>3 DEF FreshInv, TypeOK
      <4> QED
        BY <3>2, <4>1 DEF HasResults
    <3>4. CASE e # r.experiment
      BY <3>1, <3>4 DEF FreshInv, TypeOK, HasResults
    <3> QED
      BY <3>3, <3>4
  <2> QED
    BY <2>1, <2>2
<1>2. Stay => Stay \/ UNCHANGED vars
  OBVIOUS
<1> QED
  BY <1>1, <1>2, FreshAlways, PTL DEF Spec, ResultsStay

------------------------------------------------------------------------------
(* One result in each bucket                                               *)

\* The rows of a recalculation are of different metrics, and it has found the
\* old ones.
Distinct(r) ==
    /\ \A x, y \in r.rows : x.metric = y.metric => x = y
    /\ r.phase # "begun" /\ results[r.experiment][Scheduler] # {} =>
         Scheduler \in r.todo \cup r.deleted

BucketInv ==
    /\ FreshInv
    /\ \A r \in calc[Scheduler] : Distinct(r)
    /\ OneResultPerBucket

\* Steps of the scheduler's recalculation.
LEMMA RecalculationStepBucket ==
    ASSUME Analysts = {}, BucketInv, RecalculationStep(Scheduler), FreshInv'
    PROVE  BucketInv'
<1> USE DEF FreshInv
<1>0. Calculators = {Scheduler}
  BY DEF Calculators
<1>1. ASSUME NEW r \in calc[Scheduler] PROVE r \in Recalculation /\ Distinct(r)
  BY <1>0 DEF TypeOK, BucketInv
<1>2. ASSUME NEW q \in Recalculation, Continue(Scheduler, q), Distinct(q) PROVE BucketInv'
  <2>1. calc'[Scheduler] = {q} /\ results' = results
    BY <1>0, <1>2 DEF Continue, tables, TypeOK
  <2> QED
    BY <1>2, <2>1 DEF BucketInv, Distinct, OneResultPerBucket
<1>3. CASE ScanResults(Scheduler)
  <2> DEFINE found(r) == [r EXCEPT !.phase = "replacing",
                                   !.todo = {d \in Calculators : results[r.experiment][d] # {}}]
  <2>1. PICK r \in calc[Scheduler] : Continue(Scheduler, found(r))
    BY <1>3 DEF ScanResults
  <2>2. found(r) \in Recalculation /\ Distinct(found(r))
    BY <1>0, <1>1 DEF Recalculation, Distinct
  <2> QED
    BY <1>2, <2>1, <2>2
<1>4. CASE DeleteResults(Scheduler)
  <2> DEFINE taken(r, d) == [r EXCEPT !.todo = @ \ {d}, !.deleted = @ \cup {d}]
  <2>1. PICK r \in calc[Scheduler] : \E d \in r.todo : Continue(Scheduler, taken(r, d))
    BY <1>4 DEF DeleteResults
  <2>2. PICK d \in r.todo : Continue(Scheduler, taken(r, d))
    BY <2>1
  <2>3. taken(r, d) \in Recalculation /\ Distinct(taken(r, d))
    BY <1>1 DEF Recalculation, Distinct
  <2> QED
    BY <1>2, <2>2, <2>3
<1>5. CASE QueryVariantAggregates(Scheduler)
  <2> DEFINE row(r, m) == [metric |-> m, sample |-> Sample(r.experiment)]
             more(r, m) == [r EXCEPT !.rows = @ \cup {row(r, m)}]
  <2>1. PICK r \in calc[Scheduler] : \E m \in r.attached :
          (\A x \in r.rows : x.metric # m) /\ Continue(Scheduler, more(r, m))
    BY <1>5 DEF QueryVariantAggregates
  <2>2. PICK m \in r.attached :
          (\A x \in r.rows : x.metric # m) /\ Continue(Scheduler, more(r, m))
    BY <2>1
  <2>3. row(r, m) \in Row /\ row(r, m).metric = m
    BY <1>1, SampleType DEF Row, Recalculation
  <2>4. /\ more(r, m) \in Recalculation
        /\ more(r, m).experiment = r.experiment
        /\ more(r, m).phase = r.phase
        /\ more(r, m).todo = r.todo
        /\ more(r, m).deleted = r.deleted
        /\ more(r, m).rows = r.rows \cup {row(r, m)}
    BY <1>1, <2>3 DEF Recalculation
  <2> HIDE DEF row, more
  <2>5. Distinct(more(r, m))
    BY <1>1, <2>2, <2>3, <2>4 DEF Distinct
  <2> QED
    BY <1>2, <2>2, <2>4, <2>5
<1>6. CASE MarkClean(Scheduler)
  <2> DEFINE done(r) == [r EXCEPT !.phase = "marked"]
  <2>1. PICK r \in calc[Scheduler] : r.phase = "replacing" /\ Continue(Scheduler, done(r))
    BY <1>6 DEF MarkClean
  <2>2. done(r) \in Recalculation /\ Distinct(done(r))
    BY <1>1, <2>1 DEF Recalculation, Distinct
  <2> QED
    BY <1>2, <2>1, <2>2
<1>7. CASE CommitRecalculation(Scheduler)
  <2>1. PICK r \in calc[Scheduler] :
          /\ r.phase = "marked"
          /\ results' = [results EXCEPT ![r.experiment] =
               [d \in Calculators |->
                  IF d = Scheduler
                  THEN (IF d \in r.deleted THEN {} ELSE results[r.experiment][d]) \cup r.rows
                  ELSE IF d \in r.deleted THEN {} ELSE results[r.experiment][d]]]
          /\ calc' = [d \in Calculators |->
               {[q EXCEPT !.todo = IF q.experiment = r.experiment THEN @ \ r.deleted ELSE @] :
                  q \in calc[d] \ {x \in {r} : d = Scheduler}}]
    BY <1>7 DEF CommitRecalculation
  <2>2. calc'[Scheduler] = {}
    BY <1>0, <2>1 DEF BucketInv, Single
  <2>3. r.todo = {}
    BY <1>0, <2>1 DEF BucketInv, WorkInv
  <2>4. results'[r.experiment][Scheduler] = r.rows
    BY <1>0, <1>1, <2>1, <2>3 DEF BucketInv, TypeOK, Distinct, Recalculation
  <2>5. \A e \in Experiments \ {r.experiment} : results'[e] = results[e]
    BY <2>1 DEF TypeOK
  <2>6. OneResultPerBucket'
    BY <1>0, <1>1, <2>4, <2>5 DEF BucketInv, OneResultPerBucket, Distinct
  <2> QED
    BY <2>2, <2>6 DEF BucketInv
<1>8. CASE RecalculationVictim(Scheduler)
  BY <1>0, <1>8 DEF RecalculationVictim, AbortRecalculation, tables, TypeOK, BucketInv, Distinct,
                    OneResultPerBucket
<1> QED
  BY <1>3, <1>4, <1>5, <1>6, <1>7, <1>8 DEF RecalculationStep

LEMMA BucketStep ==
    ASSUME Analysts = {}, BucketInv, [Next]_vars
    PROVE  BucketInv'
<1>0. Calculators = {Scheduler}
  BY DEF Calculators
<1>1. FreshInv'
  BY FreshStep DEF BucketInv
<1>2. CASE \E c \in Calculators : RecalculationStep(c)
  BY <1>0, <1>1, <1>2, RecalculationStepBucket
<1>3. CASE \E e \in Experiments : BeginRecalculation(Scheduler, e) /\ results' = results
  <2>1. PICK e \in Experiments : BeginRecalculation(Scheduler, e) /\ results' = results
    BY <1>3
  <2>2. calc'[Scheduler] = {[experiment |-> e, phase |-> "begun", attached |-> Attached(e),
                             todo |-> {}, deleted |-> {}, rows |-> {}]}
    BY <1>0, <2>1 DEF BeginRecalculation, BucketInv, FreshInv, TypeOK
  <2> QED
    BY <1>1, <2>1, <2>2 DEF BucketInv, Distinct, OneResultPerBucket
<1>4. CASE results' = results /\ calc'[Scheduler] \subseteq calc[Scheduler]
  BY <1>1, <1>4 DEF BucketInv, Distinct, OneResultPerBucket
<1> QED
  <2>1. ASSUME NEW c \in Calculators, NEW e \in Experiments, PostRecalculation(c, e) PROVE FALSE
    BY <2>1 DEF PostRecalculation
  <2>2. \A e \in Experiments : ScheduledRecalculation(e) =>
          BeginRecalculation(Scheduler, e) /\ results' = results
    BY DEF ScheduledRecalculation, tables
  <2>3. \A c \in Calculators : RecalculationFails(c) =>
          results' = results /\ calc'[Scheduler] \subseteq calc[Scheduler]
    BY DEF RecalculationFails, AbortRecalculation, tables, BucketInv, FreshInv, TypeOK
  <2>4. Restart => results' = results /\ calc'[Scheduler] \subseteq calc[Scheduler]
    BY <1>0 DEF Restart, tables
  <2> QED
    BY <1>2, <1>3, <1>4, <2>1, <2>2, <2>3, <2>4
    DEF Next, vars, tables, Publish, ResolveFlags, IngestEvent, AttachMetric, BeginSource,
        SourceStep, MarkDirty, CommitSource, DeadlockVictim, AbortSource, SourceFails, ScanPending

\* If only the scheduler recalculates, each metric of an experiment has one
\* result.
THEOREM SchedulerKeepsOneResult ==
    ASSUME Analysts = {}
    PROVE  Spec => []OneResultPerBucket
<1>1. Init => BucketInv
  <2>1. Init => TypeOK
    BY BoundAssumption DEF Init, TypeOK
  <2>2. Init => Single /\ AloneInv /\ WorkInv /\ MarkInv /\ CleanIsFresh
    BY DEF Init, Single, AloneInv, WorkInv, MarkInv, CleanIsFresh
  <2>3. Init => OneResultPerBucket /\ \A r \in calc[Scheduler] : Distinct(r)
    BY DEF Init, OneResultPerBucket, Calculators
  <2> QED
    BY <2>1, <2>2, <2>3 DEF BucketInv, FreshInv
<1>2. BucketInv /\ [Next]_vars => BucketInv'
  BY BucketStep
<1>3. BucketInv => OneResultPerBucket
  BY DEF BucketInv
<1> QED
  BY <1>1, <1>2, <1>3, PTL DEF Spec

------------------------------------------------------------------------------
(* Reports are published whole                                             *)

\* What r, the recalculation of c, has to report so far, and what it replaces:
\* it has found its own last report, and reports that know no more than it does.
Reporting(c, r) ==
    /\ r.attached \subseteq Attached(r.experiment)
    /\ \A x, y \in r.rows : /\ x.metric = y.metric => x = y
                            /\ x.sample \subseteq y.sample \/ y.sample \subseteq x.sample
    /\ \A x \in r.rows : /\ x.metric \in r.attached
                         /\ \E past \in SUBSET log : x.sample = Reports!Counted(r.experiment, past)
    /\ \A x \in results[r.experiment][c] : x.metric \in r.attached
    /\ r.phase = "begun" => r.rows = {}
    /\ r.phase # "begun" /\ results[r.experiment][c] # {} => c \in r.todo \cup r.deleted
    /\ \A d \in r.todo \cup r.deleted :
          /\ results[r.experiment][d] # {}
          /\ \A x \in results[r.experiment][d], y \in r.rows : x.sample \subseteq y.sample

\* Two recalculations have not deleted the same report.
Apart(q, r) == q.experiment = r.experiment => q.deleted \cap r.deleted = {}

\* What is reported is still in the logs.
Reported(e) ==
    \A c \in Calculators : \A x \in results[e][c] :
        x.metric \in Attached(e) /\ x.sample \subseteq Sample(e)

ReportInv ==
    /\ \A c \in Calculators : \A r \in calc[c] : Reporting(c, r)
    /\ \A c, d \in Calculators : \A q \in calc[c], r \in calc[d] : c # d => Apart(q, r)
    /\ \A e \in Experiments : Reported(e)

LEMMA CountedIsSample == \A e : Sample(e) = Reports!Counted(e, log)
BY DEF Sample, Reports!Counted

LEMMA CountedGrows ==
    ASSUME NEW e, NEW past, NEW now, past \subseteq now
    PROVE  Reports!Counted(e, past) \subseteq Reports!Counted(e, now)
BY DEF Reports!Counted

\* What is in the logs stays there.
LEMMA LogGrows ==
    ASSUME log \subseteq log'
    PROVE  \A e : Attached(e) \subseteq Attached(e)' /\ Sample(e) \subseteq Sample(e)'
<1>1. \A e : Attached(e) \subseteq Attached(e)'
  BY DEF Attached
<1>2. \A e : Sample(e) \subseteq Sample(e)'
  BY DEF Sample
<1> QED
  BY <1>1, <1>2

LEMMA StillReporting ==
    ASSUME log \subseteq log', results' = results,
           NEW c \in Calculators, NEW r, Reporting(c, r)
    PROVE  Reporting(c, r)'
<1>1. r.attached \subseteq Attached(r.experiment)'
  BY LogGrows DEF Reporting
<1>2. \A x \in r.rows : \E past \in SUBSET log' : x.sample = Reports!Counted(r.experiment, past)
  BY DEF Reporting
<1> QED
  BY <1>1, <1>2 DEF Reporting, Reports!Counted

LEMMA StillReported ==
    ASSUME log \subseteq log', results' = results, \A e \in Experiments : Reported(e)
    PROVE  \A e \in Experiments : Reported(e)'
BY LogGrows DEF Reported

\* Steps of sources, and those that end recalculations.
LEMMA FewerReport ==
    ASSUME ReportInv, log \subseteq log', results' = results,
           \A c \in Calculators : calc'[c] \subseteq calc[c]
    PROVE  ReportInv'
<1>1. \A c \in Calculators : \A r \in calc'[c] : Reporting(c, r)'
  BY StillReporting DEF ReportInv
<1>2. \A c, d \in Calculators : \A q \in calc'[c], r \in calc'[d] : c # d => Apart(q, r)
  BY DEF ReportInv
<1>3. \A e \in Experiments : Reported(e)'
  BY StillReported DEF ReportInv
<1> QED
  BY <1>1, <1>2, <1>3 DEF ReportInv, Apart

\* A recalculation that begins or goes on.
LEMMA ContinueReport ==
    ASSUME ReportInv, TypeOK, NEW c \in Calculators, NEW q,
           calc' = [calc EXCEPT ![c] = {q}], log' = log, results' = results,
           Reporting(c, q),
           \A d \in Calculators \ {c} : \A r \in calc[d] : Apart(q, r)
    PROVE  ReportInv'
<1>1. \A d \in Calculators : calc'[d] = IF d = c THEN {q} ELSE calc[d]
  BY DEF TypeOK
<1>2. \A d \in Calculators : \A r \in calc'[d] : Reporting(d, r)'
  BY <1>1, StillReporting DEF ReportInv
<1>3. \A a, d \in Calculators : \A p \in calc'[a], r \in calc'[d] : a # d => Apart(p, r)
  <2>1. \A p, r : Apart(p, r) => Apart(r, p)
    BY DEF Apart
  <2> QED
    BY <1>1, <2>1 DEF ReportInv
<1>4. \A e \in Experiments : Reported(e)'
  BY StillReported DEF ReportInv
<1> QED
  BY <1>2, <1>3, <1>4 DEF ReportInv, Apart

\* What the rows of a recalculation count is in the logs.
LEMMA RowsInLog ==
    ASSUME NEW c, NEW r, Reporting(c, r), NEW x \in r.rows
    PROVE  x.sample \subseteq Sample(r.experiment)
BY CountedGrows, CountedIsSample DEF Reporting

LEMMA BeginReport ==
    ASSUME FreshInv, ReportInv, NEW c \in Calculators, NEW e \in Experiments,
           BeginRecalculation(c, e), log' = log, results' = results
    PROVE  ReportInv'
<1> DEFINE new == [experiment |-> e, phase |-> "begun", attached |-> Attached(e),
                   todo |-> {}, deleted |-> {}, rows |-> {}]
<1>1. Reporting(c, new)
  BY DEF Reporting, ReportInv, Reported
<1>2. \A d \in Calculators \ {c} : \A r \in calc[d] : Apart(new, r)
  BY DEF Apart
<1>3. calc' = [calc EXCEPT ![c] = {new}]
  BY DEF BeginRecalculation
<1> HIDE DEF new
<1> QED
  BY <1>1, <1>2, <1>3, ContinueReport DEF FreshInv

\* What a commit of the recalculation r of c leaves in the tables.
LEMMA CommitResults ==
    ASSUME FreshInv, ReportInv, NEW c \in Calculators, NEW r \in calc[c], r.phase = "marked",
           results' = [results EXCEPT ![r.experiment] =
             [d \in Calculators |->
                IF d = c THEN (IF d \in r.deleted THEN {} ELSE results[r.experiment][d]) \cup r.rows
                ELSE IF d \in r.deleted THEN {} ELSE results[r.experiment][d]]]
    PROVE  /\ r \in Recalculation
           /\ Reporting(c, r)
           /\ results[r.experiment][c] # {} => c \in r.deleted
           /\ results' = [results EXCEPT ![r.experiment] =
                [d \in Calculators |-> IF d = c THEN r.rows
                                       ELSE IF d \in r.deleted \cup {c} THEN {}
                                       ELSE results[r.experiment][d]]]
<1>1. r \in Recalculation /\ Reporting(c, r) /\ r.todo = {}
  BY DEF FreshInv, TypeOK, ReportInv, WorkInv
<1>2. results[r.experiment][c] # {} => c \in r.deleted
  BY <1>1 DEF Reporting
<1>3. (IF c \in r.deleted THEN {} ELSE results[r.experiment][c]) \cup r.rows = r.rows
  BY <1>2
<1>4. [d \in Calculators |->
         IF d = c THEN (IF d \in r.deleted THEN {} ELSE results[r.experiment][d]) \cup r.rows
         ELSE IF d \in r.deleted THEN {} ELSE results[r.experiment][d]]
      = [d \in Calculators |-> IF d = c THEN r.rows
                               ELSE IF d \in r.deleted \cup {c} THEN {}
                               ELSE results[r.experiment][d]]
  BY <1>3
<1> QED
  BY <1>1, <1>2, <1>4

LEMMA CommitRecalculationReport ==
    ASSUME FreshInv, ReportInv, NEW c \in Calculators, CommitRecalculation(c)
    PROVE  ReportInv'
<1>1. PICK r \in calc[c] :
        /\ r.phase = "marked"
        /\ results' = [results EXCEPT ![r.experiment] =
             [d \in Calculators |->
                IF d = c THEN (IF d \in r.deleted THEN {} ELSE results[r.experiment][d]) \cup r.rows
                ELSE IF d \in r.deleted THEN {} ELSE results[r.experiment][d]]]
        /\ calc' = [d \in Calculators |->
             {[q EXCEPT !.todo = IF q.experiment = r.experiment THEN @ \ r.deleted ELSE @] :
                q \in calc[d] \ {x \in {r} : d = c}}]
        /\ log' = log
  BY DEF CommitRecalculation, logs
<1> DEFINE e == r.experiment
<1>2. /\ r \in Recalculation
      /\ Reporting(c, r)
      /\ results[e][c] # {} => c \in r.deleted
  BY <1>1, CommitResults
<1>3. results' = [results EXCEPT ![e] =
           [d \in Calculators |-> IF d = c THEN r.rows
                                  ELSE IF d \in r.deleted \cup {c} THEN {} ELSE results[e][d]]]
  BY <1>1, CommitResults
<1>4. e \in Experiments
  BY <1>2 DEF Recalculation
<1>5. /\ \A f \in Experiments \ {e} : results'[f] = results[f]
      /\ results'[e][c] = r.rows
      /\ \A d \in Calculators \ {c} : results'[e][d] = IF d \in r.deleted THEN {} ELSE results[e][d]
  BY <1>3, <1>4 DEF FreshInv, TypeOK
<1>6. ASSUME NEW d \in Calculators, NEW p \in calc'[d]
      PROVE  /\ d # c
             /\ \E q \in calc[d] : /\ q \in Recalculation
                                   /\ p = [q EXCEPT !.todo = IF q.experiment = e THEN @ \ r.deleted ELSE @]
  <2>1. PICK q \in calc[d] \ {x \in {r} : d = c} :
          p = [q EXCEPT !.todo = IF q.experiment = e THEN @ \ r.deleted ELSE @]
    BY <1>1
  <2>2. q \in Recalculation
    BY DEF FreshInv, TypeOK
  <2>3. d # c
    BY <2>1 DEF FreshInv, Single
  <2> QED
    BY <2>1, <2>2, <2>3
<1>7. ASSUME NEW d \in Calculators, NEW p \in calc'[d] PROVE Reporting(d, p)'
  <2>1. PICK q \in calc[d] :
          /\ q \in Recalculation
          /\ p = [q EXCEPT !.todo = IF q.experiment = e THEN @ \ r.deleted ELSE @]
    BY <1>6
  <2>2. /\ p.experiment = q.experiment /\ p.phase = q.phase /\ p.attached = q.attached
        /\ p.rows = q.rows /\ p.deleted = q.deleted
        /\ p.todo = IF q.experiment = e THEN q.todo \ r.deleted ELSE q.todo
    BY <2>1 DEF Recalculation
  <2>3. Reporting(d, q) /\ d # c
    BY <1>6 DEF ReportInv
  <2>4. q.experiment = e => q.deleted \cap r.deleted = {}
    BY <2>3 DEF ReportInv, Apart
  <2>5. \/ results'[q.experiment][d] = results[q.experiment][d]
        \/ q.experiment = e /\ d \in r.deleted /\ results'[q.experiment][d] = {}
    <3>1. q.experiment \in Experiments
      BY <2>1 DEF Recalculation
    <3> QED
      BY <1>5, <2>3, <3>1
  <2>6. ASSUME NEW b \in p.todo \cup p.deleted
        PROVE  results'[q.experiment][b] = results[q.experiment][b] /\ b \in q.todo \cup q.deleted
    <3>1. b \in q.todo \cup q.deleted /\ b \in Calculators
      BY <2>1, <2>2 DEF Recalculation
    <3>2. results[q.experiment][b] # {}
      BY <2>3, <3>1 DEF Reporting
    <3>3. q.experiment = e => b \notin r.deleted
      BY <2>2, <2>4
    <3>4. q.experiment = e => b # c
      BY <1>2, <3>2, <3>3
    <3> QED
      BY <1>5, <2>1, <3>1, <3>3, <3>4 DEF Recalculation
  <2>7. /\ p.attached \subseteq Attached(p.experiment)'
        /\ \A x, y \in p.rows : /\ x.metric = y.metric => x = y
                                /\ x.sample \subseteq y.sample \/ y.sample \subseteq x.sample
    BY <1>1, <2>2, <2>3, SameLog DEF Reporting
  <2>8. \A x \in p.rows : /\ x.metric \in p.attached
                          /\ \E past \in SUBSET log' :
                               x.sample = Reports!Counted(p.experiment, past)
    BY <1>1, <2>2, <2>3 DEF Reporting
  <2>9. /\ \A x \in results'[p.experiment][d] : x.metric \in p.attached
        /\ p.phase = "begun" => p.rows = {}
    BY <2>2, <2>3, <2>5 DEF Reporting
  <2>10. p.phase # "begun" /\ results'[p.experiment][d] # {} => d \in p.todo \cup p.deleted
    <3>1. SUFFICES ASSUME p.phase # "begun", results'[p.experiment][d] # {}
                   PROVE  d \in p.todo \cup p.deleted
      OBVIOUS
    <3>2. d \in q.todo \cup q.deleted
      BY <2>2, <2>3, <2>5, <3>1 DEF Reporting
    <3>3. q.experiment = e => d \notin r.deleted
      BY <1>5, <2>2, <2>3, <3>1
    <3> QED
      BY <2>2, <3>2, <3>3
  <2>11. \A b \in p.todo \cup p.deleted :
           /\ results'[p.experiment][b] # {}
           /\ \A x \in results'[p.experiment][b], y \in p.rows : x.sample \subseteq y.sample
    BY <2>2, <2>3, <2>6 DEF Reporting
  <2> QED
    BY <2>7, <2>8, <2>9, <2>10, <2>11 DEF Reporting, Reports!Counted
<1>8. ASSUME NEW a \in Calculators, NEW d \in Calculators, NEW o \in calc'[a], NEW p \in calc'[d],
             a # d
      PROVE  Apart(o, p)
  <2>1. PICK q \in calc[a] :
          /\ q \in Recalculation
          /\ o = [q EXCEPT !.todo = IF q.experiment = e THEN @ \ r.deleted ELSE @]
    BY <1>6
  <2>2. PICK u \in calc[d] :
          /\ u \in Recalculation
          /\ p = [u EXCEPT !.todo = IF u.experiment = e THEN @ \ r.deleted ELSE @]
    BY <1>6
  <2>3. /\ o.experiment = q.experiment /\ o.deleted = q.deleted
        /\ p.experiment = u.experiment /\ p.deleted = u.deleted
    BY <2>1, <2>2 DEF Recalculation
  <2>4. Apart(q, u)
    BY <1>8 DEF ReportInv
  <2> QED
    BY <2>3, <2>4 DEF Apart
<1>9. ASSUME NEW f \in Experiments PROVE Reported(f)'
  <2>1. Reported(f)
    BY DEF ReportInv
  <2>2. ASSUME NEW x \in r.rows PROVE x.metric \in Attached(e) /\ x.sample \subseteq Sample(e)
    BY <1>2, RowsInLog DEF Reporting
  <2> QED
    BY <1>1, <1>5, <2>1, <2>2, SameLog DEF Reported
<1> QED
  BY <1>7, <1>8, <1>9 DEF ReportInv, Apart

LEMMA RecalculationStepReport ==
    ASSUME FreshInv, ReportInv, NEW c \in Calculators, RecalculationStep(c)
    PROVE  ReportInv'
<1>1. ASSUME NEW r \in calc[c] PROVE r \in Recalculation /\ Reporting(c, r)
  BY DEF FreshInv, TypeOK, ReportInv
<1>2. ASSUME NEW r \in calc[c], NEW q, Continue(c, q), Reporting(c, q), q.experiment = r.experiment,
             \A d \in Calculators \ {c} : \A o \in calc[d] :
                o.experiment = r.experiment => (q.deleted \ r.deleted) \cap o.deleted = {}
      PROVE  ReportInv'
  <2>1. \A d \in Calculators \ {c} : \A o \in calc[d] : Apart(q, o)
    BY <1>2 DEF ReportInv, Apart
  <2> QED
    BY <1>2, <2>1, ContinueReport DEF Continue, logs, tables, FreshInv
<1>3. CASE ScanResults(c)
  <2> DEFINE found(r) == [r EXCEPT !.phase = "replacing",
                                   !.todo = {d \in Calculators : results[r.experiment][d] # {}}]
  <2>1. PICK r \in calc[c] : r.phase = "begun" /\ Continue(c, found(r))
    BY <1>3 DEF ScanResults
  <2>2. /\ found(r).experiment = r.experiment
        /\ found(r).attached = r.attached
        /\ found(r).rows = r.rows
        /\ found(r).deleted = r.deleted
        /\ found(r).todo = {d \in Calculators : results[r.experiment][d] # {}}
    BY <1>1 DEF Recalculation
  <2> HIDE DEF found
  <2>3. Reporting(c, found(r))
    BY <1>1, <2>1, <2>2 DEF Reporting
  <2> QED
    BY <1>2, <2>1, <2>2, <2>3
<1>4. CASE DeleteResults(c)
  <2> DEFINE taken(r, d) == [r EXCEPT !.todo = @ \ {d}, !.deleted = @ \cup {d}]
  <2>1. PICK r \in calc[c] : \E d \in r.todo : ~ ResultsHeld(c, r.experiment, d) /\ Continue(c, taken(r, d))
    BY <1>4 DEF DeleteResults
  <2>2. PICK d \in r.todo : ~ ResultsHeld(c, r.experiment, d) /\ Continue(c, taken(r, d))
    BY <2>1
  <2>3. /\ taken(r, d).experiment = r.experiment
        /\ taken(r, d).phase = r.phase
        /\ taken(r, d).attached = r.attached
        /\ taken(r, d).rows = r.rows
        /\ taken(r, d).deleted = r.deleted \cup {d}
        /\ taken(r, d).todo = r.todo \ {d}
    BY <1>1 DEF Recalculation
  <2> HIDE DEF taken
  <2>4. Reporting(c, taken(r, d))
    BY <1>1, <2>2, <2>3 DEF Reporting
  <2>5. \A b \in Calculators \ {c} : \A o \in calc[b] :
          o.experiment = r.experiment => (taken(r, d).deleted \ r.deleted) \cap o.deleted = {}
    BY <2>2, <2>3 DEF ResultsHeld
  <2> QED
    BY <1>2, <2>2, <2>3, <2>4, <2>5
<1>5. CASE QueryVariantAggregates(c)
  <2> DEFINE row(r, m) == [metric |-> m, sample |-> Sample(r.experiment)]
             more(r, m) == [r EXCEPT !.rows = @ \cup {row(r, m)}]
  <2>1. PICK r \in calc[c] : \E m \in r.attached :
          r.phase = "replacing" /\ (\A x \in r.rows : x.metric # m) /\ Continue(c, more(r, m))
    BY <1>5 DEF QueryVariantAggregates
  <2>2. PICK m \in r.attached :
          r.phase = "replacing" /\ (\A x \in r.rows : x.metric # m) /\ Continue(c, more(r, m))
    BY <2>1
  <2>3. row(r, m).metric = m /\ row(r, m).sample = Sample(r.experiment)
    OBVIOUS
  <2>4. /\ more(r, m).experiment = r.experiment
        /\ more(r, m).phase = r.phase
        /\ more(r, m).attached = r.attached
        /\ more(r, m).rows = r.rows \cup {row(r, m)}
        /\ more(r, m).deleted = r.deleted
        /\ more(r, m).todo = r.todo
    BY <1>1 DEF Recalculation
  <2>5. \A x \in r.rows : x.sample \subseteq Sample(r.experiment)
    BY <1>1, RowsInLog
  <2>6. \A d \in Calculators : \A x \in results[r.experiment][d] : x.sample \subseteq Sample(r.experiment)
    BY <1>1 DEF ReportInv, Reported, Recalculation
  <2>7. r.todo \cup r.deleted \subseteq Calculators
    BY <1>1 DEF Recalculation
  <2> HIDE DEF row, more
  <2>8. \E past \in SUBSET log : row(r, m).sample = Reports!Counted(r.experiment, past)
    BY <2>3, CountedIsSample
  <2>9. /\ \A x, y \in more(r, m).rows : /\ x.metric = y.metric => x = y
                                         /\ x.sample \subseteq y.sample \/ y.sample \subseteq x.sample
        /\ \A x \in more(r, m).rows :
             /\ x.metric \in r.attached
             /\ \E past \in SUBSET log : x.sample = Reports!Counted(r.experiment, past)
    BY <1>1, <2>2, <2>3, <2>4, <2>5, <2>8 DEF Reporting
  <2>10. \A d \in r.todo \cup r.deleted :
           \A x \in results[r.experiment][d], y \in more(r, m).rows : x.sample \subseteq y.sample
    BY <1>1, <2>3, <2>4, <2>6, <2>7 DEF Reporting
  <2>11. Reporting(c, more(r, m))
    BY <1>1, <2>2, <2>4, <2>9, <2>10 DEF Reporting
  <2> QED
    BY <1>2, <2>2, <2>4, <2>11
<1>6. CASE MarkClean(c)
  <2> DEFINE done(r) == [r EXCEPT !.phase = "marked"]
  <2>1. PICK r \in calc[c] : r.phase = "replacing" /\ Continue(c, done(r))
    BY <1>6 DEF MarkClean
  <2>2. /\ done(r).experiment = r.experiment
        /\ done(r).phase = "marked"
        /\ done(r).attached = r.attached
        /\ done(r).rows = r.rows
        /\ done(r).deleted = r.deleted
        /\ done(r).todo = r.todo
    BY <1>1 DEF Recalculation
  <2> HIDE DEF done
  <2>3. Reporting(c, done(r))
    BY <1>1, <2>1, <2>2 DEF Reporting
  <2> QED
    BY <1>2, <2>1, <2>2, <2>3
<1>7. CASE CommitRecalculation(c)
  BY <1>7, CommitRecalculationReport
<1>8. CASE RecalculationVictim(c)
  BY <1>8, FewerReport DEF RecalculationVictim, AbortRecalculation, logs, tables, FreshInv, TypeOK
<1> QED
  BY <1>3, <1>4, <1>5, <1>6, <1>7, <1>8 DEF RecalculationStep

LEMMA ReportStep == FreshInv /\ ReportInv /\ [Next]_vars => ReportInv'
<1> SUFFICES ASSUME FreshInv, ReportInv, [Next]_vars PROVE ReportInv'
  OBVIOUS
<1> USE DEF FreshInv
<1>1. CASE \E c \in Calculators : RecalculationStep(c)
  BY <1>1, RecalculationStepReport
<1>2. CASE \E c \in Calculators, e \in Experiments :
             BeginRecalculation(c, e) /\ log' = log /\ results' = results
  BY <1>2, BeginReport
<1>3. CASE /\ log \subseteq log'
           /\ results' = results
           /\ \A c \in Calculators : calc'[c] \subseteq calc[c]
  BY <1>3, FewerReport
<1>4. ASSUME NEW c \in Calculators, RecalculationFails(c) PROVE ReportInv'
  BY <1>4, FewerReport DEF RecalculationFails, AbortRecalculation, logs, tables, TypeOK
<1>5. CASE Restart
  BY <1>5, FewerReport DEF Restart, logs, tables
<1>6. \A c \in Calculators, e \in Experiments : PostRecalculation(c, e) =>
        BeginRecalculation(c, e) /\ log' = log /\ results' = results
  BY DEF PostRecalculation, logs, tables
<1>7. \A e \in Experiments : ScheduledRecalculation(e) =>
        BeginRecalculation(Scheduler, e) /\ log' = log /\ results' = results
  BY DEF ScheduledRecalculation, logs, tables
<1> QED
  BY <1>1, <1>2, <1>3, <1>4, <1>5, <1>6, <1>7
  DEF Next, vars, logs, tables, Publish, ResolveFlags, IngestEvent, AttachMetric, BeginSource,
      SourceStep, MarkDirty, CommitSource, DeadlockVictim, AbortSource, SourceFails, ScanPending,
      Calculators

\* Only the commits of sources and recalculations can be seen.
LEMMA OthersStutter ==
    ASSUME [Next]_vars, \A s \in Sources : ~ CommitSource(s),
           \A c \in Calculators : ~ CommitRecalculation(c)
    PROVE  UNCHANGED Reports!reportVars
BY DEF Reports!reportVars, Next, vars, logs, tables, Publish, ResolveFlags, IngestEvent, AttachMetric,
       BeginSource, SourceStep, MarkDirty, DeadlockVictim, AbortSource, SourceFails,
       PostRecalculation, ScheduledRecalculation, RecalculationStep, ScanResults, DeleteResults,
       QueryVariantAggregates, MarkClean, Continue, RecalculationVictim, RecalculationFails,
       AbortRecalculation, ScanPending, Restart

LEMMA CommitPublishes ==
    ASSUME FreshInv, ReportInv, NEW c \in Calculators, CommitRecalculation(c)
    PROVE  \E e \in Experiments : Reports!PublishReport(c, e)
<1>1. PICK r \in calc[c] :
        /\ r.phase = "marked"
        /\ results' = [results EXCEPT ![r.experiment] =
             [d \in Calculators |->
                IF d = c THEN (IF d \in r.deleted THEN {} ELSE results[r.experiment][d]) \cup r.rows
                ELSE IF d \in r.deleted THEN {} ELSE results[r.experiment][d]]]
        /\ log' = log
  BY DEF CommitRecalculation, logs
<1> DEFINE e == r.experiment
<1>2. r \in Recalculation /\ Reporting(c, r) /\ (results[e][c] # {} => c \in r.deleted)
  BY <1>1, CommitResults
<1> DEFINE replaced == r.deleted \cup {c}
<1>3. results' = [results EXCEPT ![e] =
           [d \in Calculators |-> IF d = c THEN r.rows
                                  ELSE IF d \in replaced THEN {} ELSE results[e][d]]]
  BY <1>1, CommitResults
<1>4. r.attached # {} /\ \A m \in r.attached : \E x \in r.rows : x.metric = m
  BY <1>1 DEF FreshInv, WorkInv
<1>5. r.rows \in SUBSET Reports!ReportRow /\ e \in Experiments
  BY <1>2 DEF Recalculation, Row, Reports!ReportRow
<1>6. replaced \in SUBSET Calculators /\ c \in replaced
  BY <1>2 DEF Recalculation
<1>7. Reports!Report(e, r.rows)
  BY <1>2, <1>4 DEF Reporting, Reports!Report, Attached
<1>8. \A d \in replaced : \A x \in results[e][d], y \in r.rows : x.sample \subseteq y.sample
  BY <1>2 DEF Reporting
<1>9. \A x \in results[e][c] : \E y \in r.rows : y.metric = x.metric
  BY <1>2, <1>4 DEF Reporting
<1> HIDE DEF e, replaced
<1>10. Reports!PublishReport(c, e)
  BY <1>1, <1>3, <1>5, <1>6, <1>7, <1>8, <1>9, Zenon DEF Reports!PublishReport
<1> QED
  BY <1>5, <1>10

\* Whatever overlaps, fails or restarts, what readers of the results see is
\* one whole report after the other, as MetricReports says.
THEOREM ImplementsMetricReports == Spec => ImplementsReports
<1>1. Init => ReportInv /\ Reports!ReportsInit
  BY DEF Init, ReportInv, Reported, Reports!ReportsInit
<1>2. FreshInv /\ ReportInv /\ [Next]_vars => [Reports!ReportsNext]_Reports!reportVars
  <2> SUFFICES ASSUME FreshInv, ReportInv, [Next]_vars
               PROVE  Reports!ReportsNext \/ UNCHANGED Reports!reportVars
    OBVIOUS
  <2>1. ASSUME NEW s \in Sources, CommitSource(s) PROVE Reports!ReportsNext
    BY <2>1 DEF CommitSource, Sources, Attachments, Reports!ReportsNext, Reports!Record
  <2>2. ASSUME NEW c \in Calculators, CommitRecalculation(c) PROVE Reports!ReportsNext
    BY <2>2, CommitPublishes DEF Reports!ReportsNext
  <2> QED
    BY <2>1, <2>2, OthersStutter
<1> QED
  BY <1>1, <1>2, ReportStep, FreshAlways, PTL DEF Spec, ImplementsReports, Reports!ReportsSpec
==============================================================================
