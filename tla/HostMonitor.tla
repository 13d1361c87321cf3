---------------------------- MODULE HostMonitor -----------------------------
(***************************************************************************)
(* The monitor daemon of one host (basic_monitor): its main loop, the      *)
(* ActiveDomainWatcher that polls the hypervisor, and the                  *)
(* LibvirtDomainStatPublisher that keeps one DomainStatTracker per domain  *)
(* and publishes the aggregated statistics.                                *)
(*                                                                         *)
(* The daemon is one thread.  What makes it hard is the hypervisor, which  *)
(* boots and destroys domains between any two libvirt calls: between the   *)
(* call that counts the domains and the one that lists them, between the   *)
(* listing and the lookup of a new domain, and between the listing and the *)
(* sampling of a tracked one.  Each libvirt call is therefore a step.      *)
(*                                                                         *)
(* A definition named X_<Bug> is X with a plausible bug; it is used only   *)
(* to confirm that the properties notice the bug.                          *)
(***************************************************************************)
EXTENDS FeedMessages, Integers, FiniteSets

CONSTANT
  CallsMayFail  \* whether the two libvirt calls of poll() may return -1

\* Ids are non-negative C ints, so there are finitely many.
ASSUME DomainAssumption == DomainID \subseteq Nat /\ IsFiniteSet(DomainID)
ASSUME CallsAssumption == CallsMayFail \in BOOLEAN

VARIABLES
  \* The hypervisor.
  running,       \* ids of the active domains
  booted,        \* ids handed out so far; an id is never handed out again
  \* The daemon.
  pc,            \* the statement the daemon executes next, see TypeOK
  g_done,        \* set by the SIGINT handler, read by the main loop
  num_domains,   \* poll(): what virConnectNumOfDomains answered
  domains_this_update,  \* poll(): what virConnectListDomains answered
  m_active,      \* ActiveDomainWatcher::m_active
  m_trackers,    \* the keys of LibvirtDomainStatPublisher::m_trackers
  domain_stats,  \* the domains with an entry in m_aggStats.domain_stats
  todo,          \* domains the std::set or std::map loop under way has left
  wire,          \* the message m_publisher was given last
  \* History.
  shortListing,  \* did the listing under way miss a domain that was running?
  parity         \* of the number of reports published so far

hypervisorVars == <<running, booted>>
listingVars == <<num_domains, domains_this_update, shortListing>>
trackingVars == <<m_active, m_trackers, domain_stats, todo>>
sentVars == <<wire, parity>>
vars == <<hypervisorVars, pc, g_done, listingVars, trackingVars, sentVars>>

Dom0 == 0

\* The process is alive.
Up == pc \notin {"exited", "crashed"}

\* The element a loop over a std::set or a std::map visits next.
IsNext(d) == d \in todo /\ \A e \in todo : d <= e

\* No two domains of D are boots of one instance.
OnePerInstance(D) == \A d, e \in D : Uuid[d] = Uuid[e] => d = e

-----------------------------------------------------------------------------
(* The hypervisor, between any two steps of the daemon. *)

Boot(d) ==
  /\ d \notin booted
  /\ OnePerInstance(running \union {d})
  /\ running' = running \union {d}
  /\ booted' = booted \union {d}
  /\ UNCHANGED <<pc, g_done, listingVars, trackingVars, sentVars>>

Destroy(d) ==
  /\ d \in running \ {Dom0}
  /\ running' = running \ {d}
  /\ UNCHANGED <<booted, pc, g_done, listingVars, trackingVars, sentVars>>

-----------------------------------------------------------------------------
(* The process and its main loop. *)

\* SIGINT: the handler only sets the flag.
HandleInterrupt ==
  /\ Up
  /\ ~g_done
  /\ g_done' = TRUE
  /\ UNCHANGED <<hypervisorVars, pc, listingVars, trackingVars, sentVars>>

\* An exception nobody catches, or a null pointer given to mxml: the process dies.
Crash ==
  /\ pc' = "crashed"
  /\ UNCHANGED <<hypervisorVars, g_done, listingVars, trackingVars, sentVars>>

LoopTest_FlagIgnored ==
  /\ pc = "test"
  /\ pc' = "count"
  /\ UNCHANGED <<hypervisorVars, g_done, listingVars, trackingVars, sentVars>>

\* while(!g_done).  On exit the destructors close the socket without linger and
\* delete the trackers; no term_instance message is sent for any of them.
LoopTest ==
  /\ pc = "test"
  /\ pc' = IF g_done THEN "exited" ELSE "count"
  /\ UNCHANGED <<hypervisorVars, g_done, listingVars, trackingVars, sentVars>>

\* The daemon is started again, by sm_ctl or by hand, remembering nothing.
Restart ==
  /\ ~Up
  /\ pc' = "test"
  /\ g_done' = FALSE
  /\ num_domains' = 0
  /\ domains_this_update' = {}
  /\ shortListing' = FALSE
  /\ m_active' = {}
  /\ m_trackers' = {}
  /\ domain_stats' = {}
  /\ todo' = {}
  /\ UNCHANGED <<hypervisorVars, sentVars>>

-----------------------------------------------------------------------------
(* ActiveDomainWatcher::poll() with the two handlers it calls. *)

\* virConnectNumOfDomains, then new int[num_domains]: with the -1 of a failed
\* call the allocation throws, and nothing catches it.
CountDomains ==
  /\ pc = "count"
  /\ \/ /\ num_domains' = Cardinality(running)
        /\ pc' = "list"
        /\ UNCHANGED <<hypervisorVars, g_done, domains_this_update, shortListing,
                       trackingVars, sentVars>>
     \/ CallsMayFail /\ Crash

\* The answers of virConnectListDomains: at most num_domains of the running
\* domains, in an order the hypervisor chooses; -1 enters nothing into the set.
Listings ==
  LET fits(S) == \/ S = running /\ Cardinality(S) <= num_domains
                 \/ Cardinality(S) = num_domains
  IN  {S \in SUBSET running : fits(S)} \union (IF CallsMayFail THEN {{}} ELSE {})

Disappeared_EveryActive(listed) == m_active

\* The domains of the current set that the update does not list.
Disappeared(listed) == m_active \ listed

Appeared_OnlyAtStart(listed) == IF m_active = {} THEN listed ELSE {}

\* The domains the update lists that are not in the current set.
Appeared(listed) == listed \ m_active

ListDomains ==
  /\ pc = "list"
  /\ \E listed \in Listings :
       /\ domains_this_update' = listed
       /\ shortListing' = (listed # running)
       /\ todo' = Disappeared(listed)
  /\ num_domains' = 0
  /\ pc' = "remove"
  /\ UNCHANGED <<hypervisorVars, g_done, m_active, m_trackers, domain_stats,
                 sentVars>>

RemoveStatTracker_NoticeById(d) ==
  /\ wire' = IF d \in m_trackers THEN TermMessage(d) ELSE wire
  /\ m_trackers' = m_trackers \ {d}

RemoveStatTracker_NoNotice(d) ==
  /\ m_trackers' = m_trackers \ {d}
  /\ UNCHANGED wire

RemoveStatTracker_KeepsTracker(d) ==
  /\ wire' = IF d \in m_trackers THEN TermMessage(Uuid[d]) ELSE wire
  /\ UNCHANGED m_trackers

\* removeStatTracker(domID): ignores an unknown id, otherwise sends the notice
\* for the UUID the tracker remembers and then deletes the tracker.
RemoveStatTracker(d) ==
  /\ wire' = IF d \in m_trackers THEN TermMessage(Uuid[d]) ELSE wire
  /\ m_trackers' = m_trackers \ {d}

\* One turn of the loop that calls the remove handler.
RemoveDomain(d) ==
  /\ pc = "remove"
  /\ IsNext(d)
  /\ RemoveStatTracker(d)
  /\ todo' = todo \ {d}
  /\ UNCHANGED <<hypervisorVars, pc, g_done, listingVars, m_active, domain_stats,
                 parity>>

BeginAdding ==
  /\ pc = "remove"
  /\ todo = {}
  /\ pc' = "add"
  /\ todo' = Appeared(domains_this_update)
  /\ UNCHANGED <<hypervisorVars, g_done, listingVars, m_active, m_trackers,
                 domain_stats, sentVars>>

\* One turn of the loop that calls the add handler: addStatTracker(domID) makes
\* a tracker, whose constructor throws when the lookup finds no such domain.
AddDomain(d) ==
  /\ pc = "add"
  /\ IsNext(d)
  /\ \/ /\ d \in running
        /\ m_trackers' = m_trackers \union {d}
        /\ todo' = todo \ {d}
        /\ UNCHANGED <<hypervisorVars, pc, g_done, listingVars, m_active,
                       domain_stats, sentVars>>
     \/ d \notin running /\ Crash

FinishPoll_StatsKept ==
  /\ pc = "add"
  /\ todo = {}
  /\ m_active' = domains_this_update
  /\ domains_this_update' = {}
  /\ shortListing' = FALSE
  /\ todo' = m_trackers
  /\ pc' = "update"
  /\ UNCHANGED <<hypervisorVars, g_done, num_domains, m_trackers, domain_stats,
                 sentVars>>

FinishPoll_ActiveKept ==
  /\ pc = "add"
  /\ todo = {}
  /\ m_active' = m_active \union domains_this_update
  /\ domain_stats' = {}
  /\ domains_this_update' = {}
  /\ shortListing' = FALSE
  /\ todo' = m_trackers
  /\ pc' = "update"
  /\ UNCHANGED <<hypervisorVars, g_done, num_domains, m_trackers, sentVars>>

\* m_active = domains_this_update; back in update(), the entries are cleared.
FinishPoll ==
  /\ pc = "add"
  /\ todo = {}
  /\ m_active' = domains_this_update
  /\ domain_stats' = {}
  /\ domains_this_update' = {}
  /\ shortListing' = FALSE
  /\ todo' = m_trackers
  /\ pc' = "update"
  /\ UNCHANGED <<hypervisorVars, g_done, num_domains, m_trackers, sentVars>>

-----------------------------------------------------------------------------
(* LibvirtDomainStatPublisher::update() after the poll. *)

UpdateTracker_StaysPut(d) ==
  /\ pc = "update"
  /\ IsNext(d)
  /\ domain_stats' = domain_stats \union {d}
  /\ UNCHANGED <<hypervisorVars, pc, g_done, listingVars, m_active, m_trackers,
                 todo, sentVars>>

\* One turn of the loop over m_trackers.  The tracker of domain 0 asks libvirt
\* nothing; for any other, virDomainGetXMLDesc answers NULL once the domain is
\* gone, and mxmlLoadString dereferences it.
UpdateTracker(d) ==
  /\ pc = "update"
  /\ IsNext(d)
  /\ \/ /\ d = Dom0 \/ d \in running
        /\ domain_stats' = domain_stats \union {d}
        /\ todo' = todo \ {d}
        /\ UNCHANGED <<hypervisorVars, pc, g_done, listingVars, m_active,
                       m_trackers, sentVars>>
     \/ d # Dom0 /\ d \notin running /\ Crash

\* The aggregate is packed and sent; main() sleeps and tests g_done again.
Publish ==
  /\ pc = "update"
  /\ todo = {}
  /\ wire' = StatsMessage(domain_stats)
  /\ parity' = ~parity
  /\ pc' = "test"
  /\ UNCHANGED <<hypervisorVars, g_done, listingVars, trackingVars>>

-----------------------------------------------------------------------------
Init ==
  /\ running \in {R \in SUBSET DomainID : OnePerInstance(R)}
  /\ booted = running
  /\ pc = "test"
  /\ g_done = FALSE
  /\ num_domains = 0
  /\ domains_this_update = {}
  /\ shortListing = FALSE
  /\ m_active = {}
  /\ m_trackers = {}
  /\ domain_stats = {}
  /\ todo = {}
  /\ wire = NoMessage
  /\ parity = FALSE

\* The daemon's own steps, in program order.
Daemon ==
  \/ LoopTest
  \/ CountDomains
  \/ ListDomains
  \/ \E d \in DomainID : RemoveDomain(d)
  \/ BeginAdding
  \/ \E d \in DomainID : AddDomain(d)
  \/ FinishPoll
  \/ \E d \in DomainID : UpdateTracker(d)
  \/ Publish

Next ==
  \/ \E d \in DomainID : Boot(d) \/ Destroy(d)
  \/ HandleInterrupt
  \/ Restart
  \/ Daemon

Spec == Init /\ [][Next]_vars

\* The daemon never waits for anything: libvirt calls return, sending on a PUB
\* socket does not block, sleep() is bounded.  Nothing obliges the hypervisor,
\* the operator or the signal to act.
FairSpec == Spec /\ WF_vars(Daemon)

-----------------------------------------------------------------------------
(* Type invariant *)

\* Every variable of the hypervisor and of the daemon has the type it is declared
\* with; only ids that were handed out are listed, tracked or visited.
TypeOK ==
  /\ running \subseteq booted
  /\ booted \subseteq DomainID
  /\ pc \in {"test", "count", "list", "remove", "add", "update", "exited", "crashed"}
  /\ g_done \in BOOLEAN
  /\ num_domains \in Nat
  /\ shortListing \in BOOLEAN
  /\ domains_this_update \subseteq booted
  /\ m_active \subseteq booted
  /\ m_trackers \subseteq booted
  /\ domain_stats \subseteq booted
  /\ todo \subseteq booted
  /\ wire \in Messages
  /\ parity \in BOOLEAN

-----------------------------------------------------------------------------
(* Safety *)

\* The publisher's map and the watcher's set stay in step: at any point of the
\* poll, m_trackers is the set the handlers called so far should have made of
\* m_active.  Two objects keep the same fact, and each is written by its own
\* loop (ActiveDomainWatcher::poll, addStatTracker, removeStatTracker).
TrackersFollowWatcher ==
  /\ pc \in {"test", "count", "list"} => m_trackers = m_active
  /\ pc = "remove" => m_trackers = (m_active \intersect domains_this_update) \union todo
  /\ pc = "add" => m_trackers = domains_this_update \ todo
  /\ pc = "update" => /\ m_trackers = m_active
                      /\ domain_stats = m_trackers \ todo

\* An instance that reboots changes its id between two polls.  The old tracker
\* is gone before the new one is made, so no instance is tracked, or reported,
\* twice (poll() calls every remove handler before the first add handler).
OneTrackerPerInstance == OnePerInstance(m_trackers) /\ OnePerInstance(domain_stats)

\* poll() declares gone only domains that are gone, unless the listing missed a
\* running domain: the call failed, or a domain booted after the count.
FalseNoticeNeedsShortListing ==
  pc = "remove" /\ ~shortListing => todo \intersect running = {}

\* What the comments of poll() promise outright, "remove_domain_handler for those
\* that have disappeared": no domain the handler is about to remove is running.
OnlyDisappearedAreRemoved == pc = "remove" => todo \intersect running = {}

\* A report lists the domains of the listing of its own round, all of them and
\* nothing left from an earlier one (domain_stats.clear() in update()).
ReportsCurrentListing ==
  [][wire' # wire /\ wire'.key = "monitor.servers" => wire'.domains = m_active]_vars

-----------------------------------------------------------------------------
(* The daemon implements the feed *)

Feed == INSTANCE DomainFeed WITH up <- Up, followed <- m_trackers

\* Every send of the daemon is a step of the feed: a tracker never goes without
\* its notice while the daemon is up, a notice is never sent for a domain not
\* followed, and a report lists exactly the domains followed.
ImplementsFeed == Feed!FeedSpec

\* A daemon that stays up publishes one report after the other, also when nothing
\* changes between them (main() calls update() in every turn of its loop).
KeepsReporting == Feed!FairFeedSpec

-----------------------------------------------------------------------------
(* Liveness, under FairSpec *)

\* A daemon that was interrupted stops, whatever the hypervisor does meanwhile:
\* no loop within update() keeps it from the test of g_done.
FlagIsHonoured == g_done ~> ~Up

\* A tracked domain that vanishes is removed, and so its notice is sent, unless
\* the daemon stops first: vanishing at the wrong moment crashes it.
VanishedIsRemovedOrStops ==
  \A d \in DomainID : (d \in m_active \ running) ~> (d \notin m_active \/ ~Up)

\* The same without the excuse of the crash: what the comments of poll() say of
\* a domain that disappears, as long as nobody interrupts the daemon.
VanishedIsRemoved ==
  \A d \in DomainID : (d \in m_active \ running) ~> (d \notin m_active \/ g_done)

\* Once the hypervisor lists what is running, a domain that keeps running shows up
\* in a report, whatever the failed listings before made of it, unless the daemon
\* stops.
RunningIsReported ==
  <>[]~shortListing =>
  \A d \in DomainID :
    (Up /\ d \in running) ~> \/ wire.key = "monitor.servers" /\ d \in wire.domains
                            \/ d \notin running
                            \/ ~Up

=============================================================================
