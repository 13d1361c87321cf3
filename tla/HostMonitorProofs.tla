-------------------------- MODULE HostMonitorProofs -------------------------
(***************************************************************************)
(* Proofs about HostMonitor, for every set of domains and instances: its   *)
(* invariants, and that it implements DomainFeed.                          *)
(*                                                                         *)
(* TrackersFollowWatcher is not inductive alone: the loops of poll() and   *)
(* update() need to know what todo may still hold (LoopsVisit), and the    *)
(* uniqueness of tracked instances has to be carried from the hypervisor   *)
(* through the listing and m_active to m_trackers (InstancesUnique).       *)
(***************************************************************************)
EXTENDS HostMonitor, FiniteSetTheorems, TLAPS

\* What the loop under way may still visit.
LoopsVisit ==
  /\ pc = "remove" => todo \subseteq m_active \ domains_this_update
  /\ pc = "add" => todo \subseteq domains_this_update \ m_active
  /\ pc = "update" => todo \subseteq m_trackers

\* No instance appears twice in any set on the way from the hypervisor to a report.
InstancesUnique ==
  /\ OnePerInstance(running)
  /\ OnePerInstance(domains_this_update)
  /\ OnePerInstance(m_active)
  /\ OneTrackerPerInstance

\* After a complete listing, whatever the listing lacks has stopped for good.
ListingExact ==
  pc = "remove" /\ ~shortListing => (m_active \ domains_this_update) \intersect running = {}

MonitorInv ==
  /\ TypeOK
  /\ TrackersFollowWatcher
  /\ LoopsVisit
  /\ InstancesUnique
  /\ ListingExact

-----------------------------------------------------------------------------
(* Lemmas on the helpers *)

\* A part of a set without duplicate instances has none either.
LEMMA OnePerInstanceSubset ==
  ASSUME NEW D, NEW E \in SUBSET D, OnePerInstance(D)
  PROVE  OnePerInstance(E)
BY DEF OnePerInstance

\* virConnectListDomains invents no domain.
LEMMA ListingsRun ==
  ASSUME NEW listed \in Listings
  PROVE  listed \subseteq running
BY DEF Listings

\* What removeStatTracker and addStatTracker hand to the socket is a message.
LEMMA TermIsMessage ==
  ASSUME NEW d \in DomainID
  PROVE  TermMessage(Uuid[d]) \in Messages
BY UuidAssumption DEF Messages

LEMMA StatsIsMessage ==
  ASSUME NEW D \in SUBSET DomainID
  PROVE  StatsMessage(D) \in Messages
BY DEF Messages

\* The count poll() works with is a number of domains.
LEMMA CountIsNat ==
  ASSUME TypeOK
  PROVE  Cardinality(running) \in Nat
<1>1. IsFiniteSet(running)
  BY DomainAssumption, FS_Subset DEF TypeOK
<1> QED
  BY <1>1, FS_CardinalityType

-----------------------------------------------------------------------------
(* The invariant *)

LEMMA InitInv == Init => MonitorInv
<1> SUFFICES ASSUME Init
             PROVE  MonitorInv
  OBVIOUS
<1>1. TypeOK
  BY DEF Init, TypeOK, Messages
<1>2. TrackersFollowWatcher /\ LoopsVisit /\ ListingExact
  BY DEF Init, TrackersFollowWatcher, LoopsVisit, ListingExact
<1>3. InstancesUnique
  BY DEF Init, InstancesUnique, OneTrackerPerInstance, OnePerInstance
<1> QED
  BY <1>1, <1>2, <1>3 DEF MonitorInv

\* A step that leaves the daemon alone, or only raises a flag or kills it.
LEMMA BootInv ==
  ASSUME MonitorInv, NEW d \in DomainID, Boot(d)
  PROVE  MonitorInv'
<1> USE DEF Boot, listingVars, trackingVars, sentVars
<1>1. TypeOK'
  BY DEF MonitorInv, TypeOK
<1>2. TrackersFollowWatcher' /\ LoopsVisit'
  BY DEF MonitorInv, TrackersFollowWatcher, LoopsVisit
<1>3. InstancesUnique'
  BY DEF MonitorInv, InstancesUnique, OneTrackerPerInstance, OnePerInstance
<1>4. ListingExact'
  \* The new id is in no set the daemon holds: it was never handed out before.
  BY DEF MonitorInv, ListingExact, TypeOK
<1> QED
  BY <1>1, <1>2, <1>3, <1>4 DEF MonitorInv

LEMMA DestroyInv ==
  ASSUME MonitorInv, NEW d \in DomainID, Destroy(d)
  PROVE  MonitorInv'
<1> USE DEF Destroy, listingVars, trackingVars, sentVars
<1>1. TypeOK'
  BY DEF MonitorInv, TypeOK
<1>2. TrackersFollowWatcher' /\ LoopsVisit' /\ ListingExact'
  BY DEF MonitorInv, TrackersFollowWatcher, LoopsVisit, ListingExact
<1>3. InstancesUnique'
  BY DEF MonitorInv, InstancesUnique, OneTrackerPerInstance, OnePerInstance
<1> QED
  BY <1>1, <1>2, <1>3 DEF MonitorInv

LEMMA CrashInv ==
  ASSUME MonitorInv, Crash
  PROVE  MonitorInv'
<1> USE DEF Crash, hypervisorVars, listingVars, trackingVars, sentVars
<1>1. TypeOK'
  BY DEF MonitorInv, TypeOK
<1>2. TrackersFollowWatcher' /\ LoopsVisit' /\ ListingExact'
  BY DEF TrackersFollowWatcher, LoopsVisit, ListingExact
<1>3. InstancesUnique'
  BY DEF MonitorInv, InstancesUnique, OneTrackerPerInstance, OnePerInstance
<1> QED
  BY <1>1, <1>2, <1>3 DEF MonitorInv

\* The main loop: the flag, the loop test and a restart.
LEMMA LoopInv ==
  ASSUME MonitorInv, HandleInterrupt \/ LoopTest \/ Restart
  PROVE  MonitorInv'
<1> USE DEF hypervisorVars, listingVars, trackingVars, sentVars
<1>1. CASE HandleInterrupt
  <2> USE <1>1 DEF HandleInterrupt
  <2>1. TypeOK'
    BY DEF MonitorInv, TypeOK
  <2>2. TrackersFollowWatcher' /\ LoopsVisit' /\ ListingExact'
    BY DEF MonitorInv, TrackersFollowWatcher, LoopsVisit, ListingExact
  <2>3. InstancesUnique'
    BY DEF MonitorInv, InstancesUnique, OneTrackerPerInstance, OnePerInstance
  <2> QED
    BY <2>1, <2>2, <2>3 DEF MonitorInv
<1>2. CASE LoopTest
  <2> USE <1>2 DEF LoopTest
  <2>1. pc = "test" /\ pc' \in {"exited", "count"}
    OBVIOUS
  <2>2. TypeOK'
    BY <2>1 DEF MonitorInv, TypeOK
  <2>3. TrackersFollowWatcher' /\ LoopsVisit' /\ ListingExact'
    BY <2>1 DEF MonitorInv, TrackersFollowWatcher, LoopsVisit, ListingExact
  <2>4. InstancesUnique'
    BY DEF MonitorInv, InstancesUnique, OneTrackerPerInstance, OnePerInstance
  <2> QED
    BY <2>2, <2>3, <2>4 DEF MonitorInv
<1>3. CASE Restart
  <2> USE <1>3 DEF Restart
  <2>1. TypeOK'
    BY DEF MonitorInv, TypeOK
  <2>2. TrackersFollowWatcher' /\ LoopsVisit' /\ ListingExact'
    BY DEF TrackersFollowWatcher, LoopsVisit, ListingExact
  <2>3. InstancesUnique'
    BY DEF MonitorInv, InstancesUnique, OneTrackerPerInstance, OnePerInstance
  <2> QED
    BY <2>1, <2>2, <2>3 DEF MonitorInv
<1> QED
  BY <1>1, <1>2, <1>3

LEMMA CountInv ==
  ASSUME MonitorInv, CountDomains
  PROVE  MonitorInv'
<1>1. CASE Crash
  BY <1>1, CrashInv
<1>2. CASE ~Crash
  <2> USE <1>2 DEF CountDomains, hypervisorVars, trackingVars, sentVars
  <2>1. Cardinality(running) \in Nat
    BY CountIsNat DEF MonitorInv
  <2>2. TypeOK'
    BY <2>1 DEF MonitorInv, TypeOK
  <2>3. TrackersFollowWatcher' /\ LoopsVisit' /\ ListingExact'
    BY DEF MonitorInv, TrackersFollowWatcher, LoopsVisit, ListingExact
  <2>4. InstancesUnique'
    BY DEF MonitorInv, InstancesUnique, OneTrackerPerInstance, OnePerInstance
  <2> QED
    BY <2>2, <2>3, <2>4 DEF MonitorInv
<1> QED
  BY <1>1, <1>2

LEMMA ListInv ==
  ASSUME MonitorInv, ListDomains
  PROVE  MonitorInv'
<1> USE DEF ListDomains, Disappeared, hypervisorVars, sentVars
<1>1. PICK listed \in Listings :
        /\ domains_this_update' = listed
        /\ shortListing' = (listed # running)
        /\ todo' = Disappeared(listed)
  OBVIOUS
<1>2. listed \subseteq running
  BY ListingsRun
<1>3. TypeOK'
  BY <1>1, <1>2 DEF MonitorInv, TypeOK
<1>4. TrackersFollowWatcher' /\ LoopsVisit'
  BY <1>1 DEF MonitorInv, TrackersFollowWatcher, LoopsVisit
<1>5. ListingExact'
  BY <1>1 DEF ListingExact
<1>6. InstancesUnique'
  BY <1>1, <1>2 DEF MonitorInv, InstancesUnique, OneTrackerPerInstance, OnePerInstance
<1> QED
  BY <1>3, <1>4, <1>5, <1>6 DEF MonitorInv

LEMMA RemoveInv ==
  ASSUME MonitorInv, NEW d \in DomainID, RemoveDomain(d)
  PROVE  MonitorInv'
<1> USE DEF RemoveDomain, RemoveStatTracker, IsNext, hypervisorVars, listingVars, sentVars
<1>1. TypeOK'
  BY TermIsMessage DEF MonitorInv, TypeOK
<1>2. TrackersFollowWatcher' /\ LoopsVisit' /\ ListingExact'
  BY DEF MonitorInv, TrackersFollowWatcher, LoopsVisit, ListingExact
<1>3. InstancesUnique'
  BY DEF MonitorInv, InstancesUnique, OneTrackerPerInstance, OnePerInstance
<1> QED
  BY <1>1, <1>2, <1>3 DEF MonitorInv

LEMMA BeginAddingInv ==
  ASSUME MonitorInv, BeginAdding
  PROVE  MonitorInv'
<1> USE DEF BeginAdding, Appeared, hypervisorVars, listingVars, sentVars
<1>1. TypeOK'
  BY DEF MonitorInv, TypeOK
<1>2. TrackersFollowWatcher' /\ LoopsVisit' /\ ListingExact'
  BY DEF MonitorInv, TrackersFollowWatcher, LoopsVisit, ListingExact
<1>3. InstancesUnique'
  BY DEF MonitorInv, InstancesUnique, OneTrackerPerInstance, OnePerInstance
<1> QED
  BY <1>1, <1>2, <1>3 DEF MonitorInv

LEMMA AddInv ==
  ASSUME MonitorInv, NEW d \in DomainID, AddDomain(d)
  PROVE  MonitorInv'
<1>1. CASE Crash
  BY <1>1, CrashInv
<1>2. CASE ~Crash
  <2> USE <1>2 DEF AddDomain, IsNext, hypervisorVars, listingVars, sentVars
  <2>1. TypeOK'
    BY DEF MonitorInv, TypeOK
  <2>2. TrackersFollowWatcher' /\ LoopsVisit' /\ ListingExact'
    BY DEF MonitorInv, TrackersFollowWatcher, LoopsVisit, ListingExact
  <2>3. m_trackers' \subseteq domains_this_update
    BY DEF MonitorInv, TrackersFollowWatcher, LoopsVisit
  <2>4. InstancesUnique'
    BY <2>3 DEF MonitorInv, InstancesUnique, OneTrackerPerInstance, OnePerInstance
  <2> QED
    BY <2>1, <2>2, <2>4 DEF MonitorInv
<1> QED
  BY <1>1, <1>2

LEMMA FinishPollInv ==
  ASSUME MonitorInv, FinishPoll
  PROVE  MonitorInv'
<1> USE DEF FinishPoll, hypervisorVars, sentVars
<1>1. TypeOK'
  BY DEF MonitorInv, TypeOK
<1>2. TrackersFollowWatcher' /\ LoopsVisit' /\ ListingExact'
  BY DEF MonitorInv, TrackersFollowWatcher, LoopsVisit, ListingExact
<1>3. InstancesUnique'
  BY DEF MonitorInv, InstancesUnique, OneTrackerPerInstance, OnePerInstance
<1> QED
  BY <1>1, <1>2, <1>3 DEF MonitorInv

LEMMA UpdateInv ==
  ASSUME MonitorInv, NEW d \in DomainID, UpdateTracker(d)
  PROVE  MonitorInv'
<1>1. CASE Crash
  BY <1>1, CrashInv
<1>2. CASE ~Crash
  <2> USE <1>2 DEF UpdateTracker, IsNext, hypervisorVars, listingVars, sentVars
  <2>1. TypeOK'
    BY DEF MonitorInv, TypeOK
  <2>2. TrackersFollowWatcher' /\ LoopsVisit' /\ ListingExact'
    BY DEF MonitorInv, TrackersFollowWatcher, LoopsVisit, ListingExact
  <2>3. domain_stats' \subseteq m_trackers
    BY DEF MonitorInv, TrackersFollowWatcher, LoopsVisit
  <2>4. InstancesUnique'
    BY <2>3 DEF MonitorInv, InstancesUnique, OneTrackerPerInstance, OnePerInstance
  <2> QED
    BY <2>1, <2>2, <2>4 DEF MonitorInv
<1> QED
  BY <1>1, <1>2

LEMMA PublishInv ==
  ASSUME MonitorInv, Publish
  PROVE  MonitorInv'
<1> USE DEF Publish, hypervisorVars, listingVars, trackingVars, sentVars
<1>1. StatsMessage(domain_stats) \in Messages
  BY StatsIsMessage DEF MonitorInv, TypeOK
<1>2. TypeOK'
  BY <1>1 DEF MonitorInv, TypeOK
<1>3. TrackersFollowWatcher' /\ LoopsVisit' /\ ListingExact'
  BY DEF MonitorInv, TrackersFollowWatcher, LoopsVisit, ListingExact
<1>4. InstancesUnique'
  BY DEF MonitorInv, InstancesUnique, OneTrackerPerInstance, OnePerInstance
<1> QED
  BY <1>2, <1>3, <1>4 DEF MonitorInv

LEMMA NextInv == MonitorInv /\ [Next]_vars => MonitorInv'
<1> SUFFICES ASSUME MonitorInv, [Next]_vars
             PROVE  MonitorInv'
  OBVIOUS
<1>1. ASSUME NEW d \in DomainID, Boot(d) \/ Destroy(d)
      PROVE  MonitorInv'
  BY <1>1, BootInv, DestroyInv
<1>2. CASE HandleInterrupt \/ LoopTest \/ Restart
  BY <1>2, LoopInv
<1>3. CASE CountDomains \/ ListDomains \/ BeginAdding \/ FinishPoll \/ Publish
  BY <1>3, CountInv, ListInv, BeginAddingInv, FinishPollInv, PublishInv
<1>4. ASSUME NEW d \in DomainID, RemoveDomain(d) \/ AddDomain(d) \/ UpdateTracker(d)
      PROVE  MonitorInv'
  BY <1>4, RemoveInv, AddInv, UpdateInv
<1>5. CASE UNCHANGED vars
  BY <1>5 DEF vars, hypervisorVars, listingVars, trackingVars, sentVars, MonitorInv, TypeOK,
     TrackersFollowWatcher, LoopsVisit, InstancesUnique, OneTrackerPerInstance,
     OnePerInstance, ListingExact
<1> QED
  BY <1>1, <1>2, <1>3, <1>4, <1>5 DEF Next, Daemon

\* MonitorInv holds in every reachable state.
THEOREM MonitorInvariant == Spec => []MonitorInv
<1>1. Init => MonitorInv
  BY InitInv
<1>2. MonitorInv /\ [Next]_vars => MonitorInv'
  BY NextInv
<1> QED
  BY <1>1, <1>2, PTL DEF Spec

-----------------------------------------------------------------------------
(* What the invariant gives *)

\* Type correctness, for every set of domains and instances.
THEOREM TypeCorrect == Spec => []TypeOK
<1>1. MonitorInv => TypeOK
  BY DEF MonitorInv
<1> QED
  BY <1>1, MonitorInvariant, PTL

\* m_trackers and m_active never drift apart (watcher and publisher, poll()).
THEOREM TrackersCorrect == Spec => []TrackersFollowWatcher
<1>1. MonitorInv => TrackersFollowWatcher
  BY DEF MonitorInv
<1> QED
  BY <1>1, MonitorInvariant, PTL

\* No instance is tracked or reported twice, reboots between two polls included.
THEOREM TrackersUnique == Spec => []OneTrackerPerInstance
<1>1. MonitorInv => OneTrackerPerInstance
  BY DEF MonitorInv, InstancesUnique
<1> QED
  BY <1>1, MonitorInvariant, PTL

\* A notice for a live domain can only follow a listing that fell short.
THEOREM FalseNoticeCause == Spec => []FalseNoticeNeedsShortListing
<1>1. MonitorInv => FalseNoticeNeedsShortListing
  BY DEF MonitorInv, LoopsVisit, ListingExact, FalseNoticeNeedsShortListing
<1> QED
  BY <1>1, MonitorInvariant, PTL

-----------------------------------------------------------------------------
(* The step properties *)

\* The only steps that give the socket a message.
LEMMA SendingSteps ==
  ASSUME MonitorInv, [Next]_vars, wire' # wire
  PROVE  \/ Publish
         \/ \E d \in DomainID : RemoveDomain(d)
<1> USE DEF Next, Daemon, vars, Boot, Destroy, HandleInterrupt, LoopTest, Restart,
        CountDomains, ListDomains, BeginAdding, AddDomain, FinishPoll,
        UpdateTracker, Crash, sentVars
<1> QED
  OBVIOUS

\* Every report lists the domains of its own round's listing.
THEOREM ReportsCurrent == Spec => ReportsCurrentListing
<1> DEFINE Current == wire' # wire /\ wire'.key = "monitor.servers"
                         => wire'.domains = m_active
<1>1. MonitorInv /\ [Next]_vars => [Current]_vars
  <2> SUFFICES ASSUME MonitorInv, [Next]_vars, wire' # wire,
                      wire'.key = "monitor.servers"
               PROVE  wire'.domains = m_active
    OBVIOUS
  <2>1. ASSUME NEW d \in DomainID, RemoveDomain(d)
        PROVE  FALSE
    BY <2>1 DEF RemoveDomain, RemoveStatTracker, TermMessage
  <2>2. Publish
    BY <2>1, SendingSteps
  <2>3. domain_stats = m_active
    BY <2>2 DEF Publish, MonitorInv, TrackersFollowWatcher
  <2> QED
    BY <2>2, <2>3 DEF Publish, StatsMessage
<1> QED
  BY <1>1, MonitorInvariant, PTL DEF Spec, ReportsCurrentListing

-----------------------------------------------------------------------------
(* HostMonitor implements DomainFeed *)

LEMMA InitFeed == Init => Feed!FeedInit
BY DEF Init, Feed!FeedInit, Up, NoMessage, Feed!NoMessage

LEMMA StepFeed ==
  ASSUME MonitorInv, MonitorInv', [Next]_vars
  PROVE  [Feed!FeedNext]_(Feed!feedVars)
<1> USE DEF Feed!feedVars, Up, hypervisorVars, listingVars, trackingVars, sentVars
<1>1. CASE UNCHANGED vars
  BY <1>1 DEF vars
<1>2. ASSUME NEW d \in DomainID, Boot(d) \/ Destroy(d)
      PROVE  UNCHANGED Feed!feedVars
  BY <1>2 DEF Boot, Destroy
<1>3. ASSUME HandleInterrupt \/ ListDomains \/ BeginAdding \/ FinishPoll
      PROVE  UNCHANGED Feed!feedVars
  BY <1>3 DEF HandleInterrupt, ListDomains, BeginAdding, FinishPoll
<1>4. ASSUME Crash, Up
      PROVE  Feed!Stop
  BY <1>4 DEF Crash, Feed!Stop
<1>5. CASE LoopTest
  BY <1>5 DEF LoopTest, Feed!FeedNext, Feed!Stop
<1>6. CASE Restart
  BY <1>6 DEF Restart, Feed!FeedNext, Feed!Start
<1>7. CASE CountDomains
  BY <1>4, <1>7 DEF CountDomains, Feed!FeedNext
<1>8. ASSUME NEW d \in DomainID, RemoveDomain(d)
      PROVE  Feed!Unfollow(d)
  BY <1>8 DEF RemoveDomain, RemoveStatTracker, IsNext, MonitorInv, LoopsVisit,
     TrackersFollowWatcher, Feed!Unfollow, TermMessage, Feed!TermMessage
<1>9. ASSUME NEW d \in DomainID, AddDomain(d)
      PROVE  Feed!Follow(d) \/ Feed!Stop
  <2>1. CASE Crash
    BY <1>4, <1>9, <2>1 DEF AddDomain
  <2>2. CASE ~Crash
    <3>1. d \notin m_trackers /\ m_trackers' = m_trackers \union {d}
      BY <1>9, <2>2 DEF AddDomain, IsNext, MonitorInv, LoopsVisit, TrackersFollowWatcher
    <3>2. \A e \in m_trackers : Uuid[e] # Uuid[d]
      BY <3>1 DEF MonitorInv, InstancesUnique, OneTrackerPerInstance, OnePerInstance
    <3> QED
      BY <1>9, <2>2, <3>1, <3>2 DEF AddDomain, Feed!Follow
  <2> QED
    BY <2>1, <2>2
<1>10. ASSUME NEW d \in DomainID, UpdateTracker(d)
       PROVE  UNCHANGED Feed!feedVars \/ Feed!Stop
  BY <1>4, <1>10 DEF UpdateTracker
<1>11. CASE Publish
  BY <1>11 DEF Publish, MonitorInv, TrackersFollowWatcher, Feed!FeedNext,
     Feed!Report, StatsMessage, Feed!StatsMessage
<1>12. ASSUME NEW d \in DomainID, Feed!Follow(d) \/ Feed!Unfollow(d) \/ Feed!Stop
       PROVE  Feed!FeedNext
  BY <1>12 DEF Feed!FeedNext
<1>13. CASE Daemon
  BY <1>3, <1>5, <1>7, <1>8, <1>9, <1>10, <1>11, <1>12, <1>13 DEF Daemon
<1> QED
  BY <1>1, <1>2, <1>3, <1>6, <1>13 DEF Next

\* The daemon's sends, trackers and life are a behaviour of the feed.
THEOREM MonitorImplementsFeed == Spec => ImplementsFeed
<1>1. Init => Feed!FeedInit
  BY InitFeed
<1>2. MonitorInv /\ MonitorInv' /\ [Next]_vars => [Feed!FeedNext]_(Feed!feedVars)
  BY StepFeed
<1> QED
  BY <1>1, <1>2, MonitorInvariant, PTL DEF Spec, ImplementsFeed, Feed!FeedSpec

=============================================================================
