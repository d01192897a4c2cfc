------------------------------ MODULE MetricReports ------------------------------
(***************************************************************************)
(* What recalculation promises to whoever reads results, with no mark,       *)
(* transaction, lock or process: a report is published in one step, whole,    *)
(* and replaces reports that know no more than it does.  Each of its rows     *)
(* counts what was in the logs at one moment; the moments need not be the     *)
(* same.  Nothing is promised of reports by others that it does not replace.  *)
(***************************************************************************)

CONSTANTS Experiments, Metrics, Requests, Plan, Events, RequestOf, Calculators

VARIABLES
    log,       \* what is committed: attachments, requests and events
    results    \* per experiment and calculator, the rows of its report

reportVars == <<log, results>>

ReportsInit ==
    /\ log = {}
    /\ results = [e \in Experiments |-> [c \in Calculators |-> {}]]

\* What counts for e when past is in the logs: requests that are assigned to
\* it, and the events that name one of them.
Counted(e, past) ==
    LET assigned == {r \in Requests \cap past : e \in Plan[r]}
    IN  assigned \cup {v \in Events \cap past : RequestOf[v] \in assigned}

ReportRow == [metric : Metrics, sample : SUBSET (Requests \cup Events)]

\* One row for each of some metrics that are attached, of nested samples.
Report(e, rows) ==
    /\ rows # {}
    /\ \A x, y \in rows : /\ x.metric = y.metric => x = y
                          /\ x.sample \subseteq y.sample \/ y.sample \subseteq x.sample
    /\ \A x \in rows : /\ <<e, x.metric>> \in log
                       /\ \E past \in SUBSET log : x.sample = Counted(e, past)

Record(s) ==
    /\ log' = log \cup {s}
    /\ UNCHANGED results

\* The report of c takes the place of its last one, metric by metric, and may
\* take that of others.
PublishReport(c, e) ==
    \E rows \in SUBSET ReportRow, replaced \in SUBSET Calculators :
        /\ Report(e, rows)
        /\ c \in replaced
        /\ \A d \in replaced : \A x \in results[e][d], y \in rows : x.sample \subseteq y.sample
        /\ \A x \in results[e][c] : \E y \in rows : y.metric = x.metric
        /\ results' = [results EXCEPT ![e] =
                         [d \in Calculators |-> IF d = c THEN rows
                                                ELSE IF d \in replaced THEN {} ELSE results[e][d]]]
        /\ UNCHANGED log

ReportsNext ==
    \/ \E s \in (Experiments \X Metrics) \cup Requests \cup Events : Record(s)
    \/ \E c \in Calculators, e \in Experiments : PublishReport(c, e)

ReportsSpec == ReportsInit /\ [][ReportsNext]_reportVars

================================================================================
