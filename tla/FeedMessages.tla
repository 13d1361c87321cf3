---------------------------- MODULE FeedMessages ----------------------------
(***************************************************************************)
(* The two kinds of message a host monitor hands to its PUB socket.  A     *)
(* domain is named by the id the hypervisor gave it; Uuid gives the        *)
(* instance behind the id (a rebooted instance comes back under a new id   *)
(* with the same UUID).  Timestamps, host names and the measured values    *)
(* are left out: no property of the feed is about them.                    *)
(***************************************************************************)

CONSTANTS
  DomainID,   \* ids the hypervisor hands out; each names one boot of an instance
  Instance,   \* instances, named by their UUID
  Uuid        \* the instance each domain id is a boot of

ASSUME UuidAssumption == Uuid \in [DomainID -> Instance]

\* The socket has not been given a message yet.
NoMessage == [key |-> "none"]

\* One AggregateDomainStats: an entry (domain_id, domain_uuid, ...) per domain of D.
StatsMessage(D) == [key |-> "monitor.servers", domains |-> D]

\* The notice that instance u has terminated.
TermMessage(u) == [key |-> "monitor.term_instance", instance |-> u]

Messages ==
  {NoMessage} \union {StatsMessage(D) : D \in SUBSET DomainID}
              \union {TermMessage(u) : u \in Instance}

=============================================================================
