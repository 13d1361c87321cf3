----------------------------- MODULE DomainFeed -----------------------------
(***************************************************************************)
(* What a host monitor promises its subscribers, without polling, handlers *)
(* or hypervisor calls.  While the monitor is up it follows a set of       *)
(* domains.  A domain joins silently, leaves only with a term_instance     *)
(* notice for its instance, and a report lists exactly the domains         *)
(* followed.  The set is lost, with no notice, when the monitor stops.     *)
(***************************************************************************)
EXTENDS FeedMessages

VARIABLES
  up,        \* the monitor process is alive
  followed,  \* domains the subscribers have been told of and not told off
  wire,      \* the message sent last
  parity     \* flips with every report, so that two equal reports are two steps

feedVars == <<up, followed, wire, parity>>

Follow(d) ==
  /\ up
  /\ d \notin followed
  \* One domain per instance: a report never names an instance twice.
  /\ \A e \in followed : Uuid[e] # Uuid[d]
  /\ followed' = followed \union {d}
  /\ UNCHANGED <<up, wire, parity>>

Unfollow(d) ==
  /\ up
  /\ d \in followed
  /\ followed' = followed \ {d}
  /\ wire' = TermMessage(Uuid[d])
  /\ UNCHANGED <<up, parity>>

Report ==
  /\ up
  /\ wire' = StatsMessage(followed)
  /\ parity' = ~parity
  /\ UNCHANGED <<up, followed>>

Stop ==
  /\ up
  /\ up' = FALSE
  /\ UNCHANGED <<followed, wire, parity>>

Start ==
  /\ ~up
  /\ up' = TRUE
  /\ followed' = {}
  /\ UNCHANGED <<wire, parity>>

FeedInit ==
  /\ up = TRUE
  /\ followed = {}
  /\ wire = NoMessage
  /\ parity = FALSE

FeedNext ==
  \/ \E d \in DomainID : Follow(d) \/ Unfollow(d)
  \/ Report
  \/ Stop
  \/ Start

\* The safety of the feed.
FeedSpec == FeedInit /\ [][FeedNext]_feedVars

\* A monitor that stays up always gets round to the next report, whether or not
\* there is anything new to say: Report flips parity, so the fairness asks for one
\* after the other.
FairFeedSpec == FeedSpec /\ WF_feedVars(Report)

=============================================================================
