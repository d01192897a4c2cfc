------------------------------- MODULE ConfigFeed -------------------------------
(***************************************************************************)
(* Config publication as a request sees it: a service has a sequence of       *)
(* configs, version by version, each with some of its experiments, and        *)
(* nothing ever happens to it but that one more is appended.                 *)
(* PublicationHistory implements this module (ConfigFeedProofs).              *)
(***************************************************************************)
EXTENDS Naturals, Sequences

CONSTANTS
    Experiments    \* of the service

VARIABLES
    feed    \* the experiments of each version

FeedInit == feed = <<>>

PublishConfig == \E config \in SUBSET Experiments : feed' = Append(feed, config)

FeedSpec == FeedInit /\ [][PublishConfig]_feed

================================================================================
