--------------------------- MODULE PublicationHistory ---------------------------
(***************************************************************************)
(* What config publication promises, with no transaction, lock or process: *)
(* a build is one atomic step that moves every experiment it takes, gives  *)
(* the config the next version number, puts the moved experiments into it, *)
(* keeps the expired ones out, and records the same numbers in the audit   *)
(* log.  An operator's PATCH is one atomic write.  ConfigPublication, where *)
(* both are several statements that interleave, implements this module.    *)
(***************************************************************************)
EXTENDS Lifecycle, Naturals, Sequences, FiniteSets

CONSTANTS Experiments, Services, ServiceOf

VARIABLES
    status,    \* the status of every experiment
    configs,   \* per service, the published configs in order of publication
    audit      \* per service, the BUILD rows of the audit log

historyVars == <<status, configs, audit>>

HistoryInit ==
    /\ status = [e \in Experiments |-> "NONE"]
    /\ configs = [s \in Services |-> <<>>]
    /\ audit = [s \in Services |-> <<>>]

CreateDraft(e) ==
    /\ status[e] = "NONE"
    /\ status' = [status EXCEPT ![e] = "DRAFT"]
    /\ UNCHANGED <<configs, audit>>

\* A PATCH writes the target of some transition; it cannot create an
\* experiment or turn one back into a draft.
Move(e) ==
    /\ status[e] # "NONE"
    /\ \E t \in kTransitions : status' = [status EXCEPT ![e] = t.to]
    /\ UNCHANGED <<configs, audit>>

\* One build of service s: queued leave the queue, expired are completed, and
\* the new config holds all of queued, none of expired, and others of the
\* service that are past the draft stage.
Publish(s) ==
    \E queued, expired, others \in SUBSET {e \in Experiments : ServiceOf[e] = s} :
        /\ \A e \in queued : status[e] = "IN_QUEUE"
        /\ \A e \in expired : status[e] = "RUNNING"
        /\ \A e \in others : status[e] \notin {"NONE", "DRAFT"}
        /\ others \cap expired = {}
        /\ status' = [e \in Experiments |->
                        CASE e \in queued  -> "ADDED_IN_CONFIG"
                          [] e \in expired -> "COMPLETED"
                          [] OTHER         -> status[e]]
        /\ configs' = [configs EXCEPT ![s] =
                        Append(@, [version |-> Len(@) + 1,
                                   experiments |-> queued \cup others])]
        /\ audit' = [audit EXCEPT ![s] =
                        Append(@, [config |-> Len(configs[s]) + 1,
                                   queued_added_count |-> Cardinality(queued),
                                   completed_removed_count |-> Cardinality(expired)])]

HistoryNext ==
    \/ \E e \in Experiments : CreateDraft(e) \/ Move(e)
    \/ \E s \in Services : Publish(s)

HistorySpec == HistoryInit /\ [][HistoryNext]_historyVars

==============================================================================
