------------------------------ MODULE Lifecycle ------------------------------
(***************************************************************************)
(* The lifecycle of an experiment: the statuses of abtest.Experiment and   *)
(* the transition table the PATCH handler consults.  The table is data;    *)
(* who reads it, when, and what is written afterwards is the business of   *)
(* ConfigPublication.                                                      *)
(***************************************************************************)

\* The status column.  "NONE" stands for a row that does not exist yet.
Status == {"NONE", "DRAFT", "IN_QUEUE", "ADDED_IN_CONFIG", "RUNNING",
           "COMPLETED", "PENDING_DECISION", "CLOSED"}

LifecycleAction == {"send_to_queue", "add_to_config", "start", "complete",
                    "request_decision", "close"}

kTransitions ==
    { [action |-> "send_to_queue",    from |-> "DRAFT",            to |-> "IN_QUEUE"],
      [action |-> "add_to_config",    from |-> "IN_QUEUE",         to |-> "ADDED_IN_CONFIG"],
      [action |-> "start",            from |-> "ADDED_IN_CONFIG",  to |-> "RUNNING"],
      [action |-> "complete",         from |-> "RUNNING",          to |-> "COMPLETED"],
      [action |-> "request_decision", from |-> "COMPLETED",        to |-> "PENDING_DECISION"],
      [action |-> "close",            from |-> "PENDING_DECISION", to |-> "CLOSED"] }

\* The transitions FindTransition can return: none (a null pointer) or one.
FindTransition(current, action) ==
    {t \in kTransitions : t.from = current /\ t.action = action}

\* Statuses an experiment can only have after somebody started it.
StartedStatus == {"RUNNING", "COMPLETED", "PENDING_DECISION", "CLOSED"}

\* Statuses whose experiments a build puts into the runtime config.
ServedStatus == {"ADDED_IN_CONFIG", "RUNNING"}

==============================================================================
