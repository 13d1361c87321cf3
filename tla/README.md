# Cloudmon: a verification development

Cloudmon collects CPU, memory, disk and network statistics of Xen guests.  A
*monitor* daemon on every host samples the domains through libvirt and publishes
the results over ZeroMQ; a *collector* daemon stores them in whisper files with
the help of a Python child; a *dashboard* (an OpenStack Horizon panel) reads the
files; a script starts and stops the daemons.  This directory holds TLA+ modules
that model the program, the TLC configurations that check them, and proofs for
TLAPS.  File names below are relative to `src/src/`.

## 1. Inventory

| component | state | operations | who it talks to |
|---|---|---|---|
| Domain watcher (`ActiveDomainWatcher.hh`) | `m_active` | `poll()` | asks libvirt; calls the publisher's two handlers |
| Publisher (`DomainStatPublisher.hh`) | `m_trackers`, `m_aggStats` | `update()`, `addStatTracker()`, `removeStatTracker()` | owns watcher and trackers; sends on a PUB socket |
| Tracker (`DomainStatTracker.cc`, `AggregateDomainStats.hh`) | the last reading of each structure, `m_last_tov` | constructor, `update()` | asks libvirt and the clock |
| Time arithmetic (`timespec_utils.cc`) | none | `ts_diff`, `to_double` | used by tracker and publisher |
| Monitor main loop (`basic_monitor.cc`) | `g_done` | loop, SIGINT handler, shutdown | drives the publisher |
| Collector main thread (`basic_receiver.cc`, `Message.hh`) | sockets | receive, republish, shutdown | monitors, proxy thread |
| Whisper proxy (`WhisperUpdater.hh`, `common.cc`) | `m_shutdown`, the stdio buffer of `m_updater` | `run`, `run_proxy_loop`, `update_immediate`, `terminate` | subscribes to the main thread's PUB socket; writes a pipe |
| Whisper updater (`whisper_updater.py`) | the whisper files | `process_cmd`, `update`, `terminate_instance` | reads the pipe |
| Service control (`sm_ctl`) | pid files | `start`, `stop` | forks and signals the daemons |
| Intermediate receiver (`intermediate_receiver.cc`) | `g_done`, sockets | receive, republish, print, SIGINT handler, shutdown | between monitors and a collector |
| Dashboard queries (`horizon_monitor/.../utils.py`, `tables.py`, `views.py`) | none | file filters, averages, snapshots | reads the whisper files while children write them |
| Local host publisher, tools, packaging | | | never instantiated, or outside the daemons |

What is hard about it:

* the hypervisor boots and destroys domains between any two libvirt calls, and
  any of them may fail;
* watcher and publisher keep one fact in two objects;
* a tracker samples at several moments what it reports as one interval, from
  buffers that may be stale or uninitialised;
* between the monitors and the files there are two sockets, two threads, a stdio
  buffer, a pipe and a child, each of which can be full, slow or dead;
* the shutdown of the collector has to unwind all of these, and what is still in
  them when a loop ends is lost;
* a write to a dead child kills the collector or is ignored, by what the process
  has inherited for SIGPIPE;
* a signal may come at any point of the relay's loop, and its shutdown has to
  deliver what is queued for a collector that may be away;
* the child of a stopped collector still works off its pipe while the child of the
  next one starts: two writers of one file without a lock, and a dashboard that
  reads it in two steps meanwhile; a child may be killed at any call;
* the commands of `sm_ctl` are several system calls on a file and on processes that
  other commands, and the daemons themselves, change meanwhile, and may be killed
  between two of them.

`PROJECT.json` lists each of these hazards at its line, with the properties that
watch it.

## 2. Modules

    FeedMessages      what the monitor sends
      DomainFeed      abstract: what it promises its subscribers
      HostMonitor     watcher, publisher and main loop; implements DomainFeed
        MCHostMonitor, HostMonitorProofs
    TimespecUtils     timespec arithmetic
      TimespecUtilsProofs
      DomainStatTracker, MCDomainStatTracker, DomainStatTrackerProofs
    OrderLemmas       sequences in order: what queues do to order and contents
    Collector         main thread, proxy thread, pipe and child
      CollectorProofs
    IntermediateReceiver
                      the relay, its signal and its connection
      IntermediateReceiverProofs
    WhisperStore      the files and the children that write them
      Dashboard       composed with the request that reads them; MCDashboard
        DashboardProofs
    ServiceControl    sm_ctl, pid file and processes; MCServiceControl
      ServiceControlProofs

An operator named `X_Something` is `X` with a plausible bug in it.  None is part
of a specification; they are there to confirm that each property notices a bug
of the code it is about.

**HostMonitor.**  Variables carry the names of the code.  `pc` is the statement
the daemon executes next; one step is one libvirt call with the local computation
that follows it, or one turn of a loop over a `std::set` or `std::map` (`todo`
holds the elements to come, visited in order).  `LoopTest` is `main()`'s loop,
`CountDomains` to `FinishPoll` are `poll()` with the handlers inlined where it
calls them, `UpdateTracker` and `Publish` are the rest of `update()`.  `Crash`
stands for an exception nobody catches and for the null pointer given to mxml.
`Boot` and `Destroy` are the hypervisor: ids are never reused, no two running
domains share a UUID, domain 0 is not destroyed, a listing is an atomic snapshot
of which a full array drops any part.  `wire` is the last message handed to the
PUB socket; the socket's own losses come after it.  `parity` flips with every
report, so that a report equal to the one before it is a step of its own.
`shortListing` is history: it remembers whether the last listing missed a running
domain.

**DomainFeed** is the promise: a set of followed domains that is left only with a
notice, one domain per instance, reports that list exactly the set, and a loss of
everything when the monitor stops.  The refinement maps `followed` to
`m_trackers` and `up` to `Up`.  `KeepsReporting` is the fairness of the feed's
`Report`, which flips `parity` and so is a step even when there is nothing new to
say: a daemon that hangs after its first report does not satisfy it.
`FlagIsHonoured` says that a daemon that was told to stop gets round to the flag.

**DomainStatTracker.**  A step is a libvirt call or the clock reading.  `sample`
holds `m_tmpInfo`, `m_blockstats` and `m_interfaceinfo`, `last` the structures of
the previous update; the fields libvirt does not fill in keep what the heap held
(`Garbage`).  `virDomainGetInfo` is taken to leave a failed buffer as it was or
wiped.  `latest`, `first` and `gained` are history for the sums, `infoAt`, `lag`
and `disturbed` for the interval.  `latest` is what the latest call that succeeded
has read, and a failed call does not touch it; `wiped` remembers that the buffer has
been wiped since.  Then the report is the difference of 0 and the last reading,
modulo the word, which the guest never did; the report after the next reading takes
it back.  So `ReportsAddUp` is stated for the CPU time while `~wiped`, and for the
other counters without a condition.  The report keeps the CPU time and the interval,
not their quotient.

**Collector.**  `subscriber -> next -> sock -> todo -> buffer -> pipe -> done` is
the way of a message; each queue is bounded.  Messages are numbered in the order
of arrival, which stands for their contents; an update makes lines for each of its
domains, and none where the host has no domains (`no_domains`).  The libraries are
modelled by what the code meets of them: a PUB socket drops for a subscriber that
is missing or full, stdio flushes when told or when full, a write to a full pipe
waits, `zmq_ctx_destroy` waits for open sockets.

A write to a pipe without a reader raises SIGPIPE.  `sigpipe` is what the process
has inherited for it.  A collector started from a shell has the default action and
dies.  One started by `sm_ctl` has it ignored: a Python 2 interpreter ignores
SIGPIPE, and that is kept over `os.execvp` (`sm_ctl:49`) and the `exec` of the
wrapper script (`../install.sh:21-25`).  Then `fprintf` and `fflush` fail, nobody
looks at their results (`WhisperUpdater.hh:86-102`), and the collector goes on
without a child and drops every update in silence.  So `DeadChildIsNoticed` is
stated for the default action and `LossesHaveACause` names the dead child as a cause
in either case.

What waits in `subscriber` and `next` is lost when the loop of `main()` ends, what
waits in `sock` when `run_proxy_loop` does; a process that is killed loses these and
`todo` and `buffer`.  `LossesHaveACause` says of every step which messages are no
longer waited for (`Waiting`) and which lines will not get to the child any more
(`Accepted`), and for which of these causes: it fails if the join is not awaited, for
example, because then the process goes on to its end while the thread still has lines.

`ReceiveError` is the one way out of the main loop, since the SIGINT handler is
not installed: an error of ZeroMQ, or a failed allocation when the message has
been taken already.  What whisper refuses is the nondeterministic branch of
`UpdateFile`.  The line of a notice is printed without a flush and waits in
`buffer` for the next update, for ever if there is none; `OnlyNoticesLinger` says
that nothing else does.  `m_shutdown` is
shared without synchronisation; the reader calls into ZeroMQ in every turn, so
the build reads it afresh and sees the write at some later turn, which the
interleaving of `Terminate` and `Poll` covers.

**IntermediateReceiver.**  `pc` is the call `main()` makes next.  `Wait` is the
point from which zmq_msg_recv blocks; `HandleInterrupt` is the handler together
with what it does to the call in progress: a wait fails, throws and leads back to
the test, `zmq_ctx_destroy` returns.  Between the test of `g_done` and the wait it
does nothing else, so that the relay goes on to wait, and stops after one more
message if there is one.  `Connect` to `Disconnect` are ZeroMQ's end of the
connection to the collector: a PUB socket drops before the first subscription and
when its queue is full, keeps the queue when the connection breaks, loses what
was on the wire, and by default lingers for ever.

**WhisperStore.**  A child is at the call `pc[c]`; `GoOn` moves it on.  A collector
that stops (`StopCollector`) closes its end of the pipe and the child drains it;
`StartCollector` forks the next one at any time, and `overlapped` remembers that it
found another at work.  Whisper itself is outside the repository and modelled by
what `update()` meets of it: `create` refuses a file that exists, then truncates
it and writes header and zeroes; `update` needs the header, refuses a time ahead
of the clock or as old as the ring is long, reads the first slot, computes its own
from it, and writes.  A report for a dead child kills the collector or is lost, as in
`Collector`.  Whisper reads `time.time()`, and `Tick` takes that clock never to be set
back: `PointsAreKept` and `ShowsLatestOfFile`, and the theorems about them, rest on
this assumption: after a step back `Covered` would let a late report replace the point
that is a turn ahead of it.  (The clocks of the monitors may be off in either direction,
and `DomainStatTracker` has its clock set back.)  The history `reported` and `stored`
are the lines that were written to a pipe and those that reached a file.

**Dashboard** extends it with one request, made at any time: find the files of the
instance, take the first, fetch, return the last value.  The request changes
nothing the children see, so that one stands for any number.  `since` is computed
before whisper.fetch reads the clock, which may have ticked.  whisper.fetch is two steps:
`FetchBase` reads the header, the clock and the first slot, `FetchPoints` the points,
at the places the first slot's time gives them.  In between children write, the first
slot may move on and the clock may tick; `known` is history, what the files held at
the first of the two.  A fetch that took longer than a turn of the ring would
find the points it looks for overwritten, and `ShowsLatestOfFile` leaves that
case out: in the code it would have to last 14 minutes (`METRIC_POINTS_TO_STORE` is 15
minutes, `back` is one).  Several reads of the points, or one that libc's
buffer answers, find each slot as it was at some moment between the two steps, and are
not told apart from one read at the end of them.  The walk over the
directories is one step: files are never removed, so that a longer walk finds what
a walk at one of its moments could have found.

**ServiceControl.**  Each command is at the system call `command[o]`.  A process id
is free, the service's (`forked`, `running`, `stopping`) or another program's and is
handed out again when free.  `which` tells the collector, which binds a port and
dies of SIGINT at once, from the monitor, which does neither.  `Killed` ends a
command before its next call.  `raced`, `crashed` and `killed` are history:
overlapping commands, crashes and killed commands excuse what the code cannot
promise then.  A killed stop does no more harm than a crash; a killed start leaves a
service without a pid file, or an empty file that stops neither command from
failing.  Without `~raced`, `ServesOnce` fails: two starts at once both pass the
test for the file and start two monitors, of which the file names one.  Two
collectors cannot serve at once, since the second one fails to bind its port, but
the file may then name the one that failed.  A file that is unlinked while a start
has it open is written without a name (`write_unlinked`).  Pids are written with the
same number of digits.

## 3. Runs

| run | module, configuration | question | outcome |
|---|---|---|---|
| `monitor` | `MCHostMonitor`, `HostMonitor` | do watcher and publisher agree, does the daemon implement the feed, keep reporting, stop when told and notice changes, whatever the hypervisor does and whatever fails? | holds; of a vanished domain with the crash as an excuse |
| `monitor_short_listing` | `HostMonitorShort` | is a removed domain always gone? | violated: boot between count and list |
| `monitor_vanishing` | `HostMonitorVanish` | is a vanished domain always removed? | violated: the daemon crashes instead |
| `tracker` | `MCDomainStatTracker`, `DomainStatTracker` | do reports and intervals add up, through failed calls and a clock that is set back, and does the CPU time fit its interval? | holds, of the CPU time unless a failed call has wiped its buffer, the last while undisturbed and up to the lag of one update |
| `tracker_first_update` | `DomainStatTrackerFirst` | does the first update report nothing? | violated: uninitialised memory |
| `collector` | `Collector`, `Collector` | are lines kept in order, not duplicated, lost for named causes only; are updates written, the thread joined, a dead child noticed? | holds; a dead child is noticed where SIGPIPE has its default action |
| `collector_shutdown` | `CollectorShutdown` | does shutdown end? | violated: a socket is left open |
| `services` | `MCServiceControl`, `ServiceControl` | is there ever a second or an unreachable service, does stop hit the service and make way, is the pid file ever left empty? | holds, for commands that do not overlap or are not killed, or a service that does not crash, where the property says so |
| `services_stale` | `ServiceControlStale` | does stop make way after a crash? | violated: kill raises before unlink |
| `relay` | `IntermediateReceiver`, `IntermediateReceiver` | does the relay keep order, drop messages for named causes only, honour a signal wherever it strikes, and exit? | holds; a signal between test and wait costs a message, an absent collector keeps it from exiting |
| `dashboard` | `MCDashboard`, `Dashboard` | do the files keep their points and the children get on, and does the dashboard show the latest of what was in a file when it began to read it, through restarts, overlaps, kills and late reports? | holds; the latest and the points only while children do not overlap |
| `dashboard_moved` | `DashboardMoved` | is it the latest of all the files of the instance? | violated: the first file found may be the old node's |

Four more disagreements showed up that no run is spent on:

* `update()` passes the size of a pointer, so that of the block and interface
  statistics libvirt fills in the first field only, and what a guest writes or
  transmits is never reported (`wr_bytes` and `tx_bytes` keep their garbage in
  `DomainStatTracker`);
* its result unchecked, a `virDomainGetInfo` that fails and wipes its buffer makes one
  bogus report of the CPU time (`DomainStatTracker.cc:66,107`, `wiped`);
* a notice may never reach the child (`OnlyNoticesLinger`);
* a collector that was started by `sm_ctl` outlives its child and drops every update
  in silence (`sigpipe`).

The findings in `PROJECT.json` quote the line each violated property comes from.

Bounds, and why they are enough:

* **HostMonitor**: ids 0 to 3, of which 0 is domain 0 and 1 and 3 are two boots of
  one instance.  That gives a reboot, an unrelated guest that comes and goes, and
  listings that miss one or more domains.  Nothing else is bounded; the proofs
  cover every set of ids.
* **DomainStatTracker**: `M` 5, two nanoseconds to a second, counters up to 2, a
  clock up to 2, which is enough for a borrow in `ts_diff`.  Updates repeat for
  ever, so sums over any number of them are covered while the counters move.
  `Driven` names the counters the guest moves: in `tracker` the CPU time, sampled
  in the first call, and `rd_req`, sampled in a later one; the interface counters
  are handled by the same operators as the block counters.  The fields of a group
  are treated by the same statements, so one of each group suffices.
* **Collector**: four messages, two lines an update or none, SIGPIPE ignored or not,
  queues of two messages, a buffer of three lines (it holds the lines of an update,
  or the notices of three messages), a pipe of one.  Every queue fills up and
  drains, notices meet updates in the buffer, and shutdown finds each of them in
  every state.
* **IntermediateReceiver**: five messages and queues of two: both queues fill up and
  drain while messages are in every place, and connections and signals come at any
  point.
* **WhisperStore, Dashboard**: an instance on two nodes, two children, three
  reports, rings of two slots and a clock to 3: a ring wraps round, a second child
  follows or overlaps the first, and a monitor's clock may be right, a second slow,
  or slower than a ring is long.  The request looks back half a ring, so that a
  second may pass while it is under way; in the code it looks back a fifteenth of
  it.  The theorem has any ratio up to the whole ring.  Nodes are symmetric, and no
  property reaches beyond a step.
* **ServiceControl**: three process ids, so that two services and a stranger can
  exist at once; two operators, who issue commands for ever and race or not.

`CHECK_DEADLOCK FALSE` is given where the system may stop: a guest that is destroyed
with its tracker crashed, a collector or a relay that has exited or been killed,
children that have ended.

Fairness.  The monitor (`WF_vars(Daemon)`) is one thread that never blocks:
libvirt calls return, a PUB socket drops instead of waiting, `sleep` is bounded.
In the collector both threads, the child and ZeroMQ's completion of the
subscription are weakly fair, in the relay `main()` and a connection that is
there, which is what an operating system's scheduler gives
them; waiting is in the guards.  Nothing is assumed of the hypervisor, of guests,
operators, signals, monitors, failing calls or interrupted waits.  Only the runs
with liveness properties state fairness.

## 4. Proofs

`HostMonitorProofs` proves, for every set of domain ids and every assignment of
instances to them, what `monitor` checks on four ids: `TypeCorrect`,
`TrackersCorrect`, `TrackersUnique`, `FalseNoticeCause`,
`ReportsCurrent` and the refinement `MonitorImplementsFeed`.  All follow from one
inductive invariant, `MonitorInv` (theorem `MonitorInvariant`).

The invariant is needed because none of the properties is inductive alone.  That
`m_trackers` follows `m_active` says nothing during a poll unless `todo` is known
to be what is left of the loop; that a tracker is unique per instance needs the
listing itself to name an instance once (it is part of a snapshot of running
domains) and the removal loop to be over before the first addition; that a
removed domain is gone needs ids not to be reused.  `MonitorInv` is the
conjunction of these facts by program counter.  The step proof has one case per
action.  The refinement shows that every action is a step of the feed or leaves
`Up`, `m_trackers` and `wire` alone, again using the invariant: adding a domain is
a `Follow` only because no tracker of the same instance is left.

`TimespecUtilsProofs` proves that `ts_diff` returns a proper timespec
(`DiffIsNormal`) and is exact subtraction (`DiffIsExact`) for all readings and any
resolution of the clock.

`ServiceControlProofs` proves all that the run `services` checks, for any number of
operators and process ids.  Three inductive invariants build on each other.
`ServiceInv` holds whatever happens: types, the ids that commands hold, the port
that one collector has at a time, and the pid file that is empty only while a start
is at work on it (`ServiceTypes`, `PidFileIsWritten`).  `OrderInv` adds, for
commands that do not overlap and starts that are not killed, who is serving at each
call of a command: nobody before a fork and before an unlink, and whoever serves is
named by the file or by the start about to write it (`ServiceRunsOnce`,
`ServiceIsInReach`).  `NamedInv` adds the converse, for services that do not crash:
an id in the file serves (`StopHits`, `StopRemovesFile`).  The converse is not
inductive without the uniqueness from `OrderInv`: a second collector would die at
the port and leave its id in the file.

`OrderLemmas` has what the two proofs about queues need: an order is a set of pairs,
and concatenation, appending, taking the head and dropping an element keep a
sequence in it (`InOrderConcat`, `NewcomerLast`, `HeadMoves`, `MiddleDropsOut`) and
have known effects on its contents (`ToSetConcat`).

`IntermediateReceiverProofs` proves the invariants and the action property of the
run `relay` for queues of any size and any number of messages.  `RelayKeepsOrder`:
all that is in transit, `received \o publisher \o next \o subscriber`, is one
increasing sequence; a step either moves a message across one of the three seams,
which leaves the concatenation alone, or appends a new highest number, or drops
elements.  `RelayAccountsForAll` proves `DropsHaveACause`: which messages the relay
still keeps is computed from where they are and what `main()` will still do, nothing
is recorded of a drop, and for each action what it takes out of that set is one of
the named cases.  It needs to know that a process that has ended is connected to
nobody (`Ended`).  `OneMoreAtMost`: a message counted after the interrupt has only
the test of the flag before it, and the flag is set.

`CollectorProofs` proves the invariants and the action property of the run
`collector` for queues, a buffer and a pipe of any size, any number of lines to an
update and any number of messages.  `TypeInv` adds to the types that every message
in a queue has arrived, and which places are empty at which statement: `next` away
from the send, `todo` away from the printing.  Without the last, a `Poll` would
overwrite lines.  `WhatAStepDoes` sums up all actions in six effects on the two
sequences `Unread` (messages) and `Lined` (lines): they rest, a message arrives, is
refused or lost, turns into its lines, or lines go with the child.  `FlowInv`,
`PipelineOrdered` in terms of `OrderLemmas`, is shown for the six effects instead of
nineteen actions (`PipelineKeepsOrder`).  `LossesHaveCauses` is shown action by
action: what waits or is accepted is computed from the queues, the statements of the
two threads and the child, and no history of losses is kept.  It rests on
`ShutdownInv`, the order of a shutdown: the flag, the end of the updater thread, its
join, and only then the end of the process.  Without it the join or the end could
take lines with it that the thread still has.  `OnlyNoticesStay` needs to know of
the buffer at every statement but the flush, not only when the thread waits
(`NoticesOnly`).

`DomainStatTrackerProofs` proves the four invariants of the run `tracker` for every
word size `M`, every resolution of the clock and every contents of uninitialised
memory.  `AccountInv` relates the buffers to the history: the sample is the latest
reading or a wiped buffer, the last one kept is the sample except between a call and its
report, and what was reported since the first reading is the way from there
to the last one modulo `M`, so that the report of a wiped buffer is taken back by the
next; the step rests on `MinusAddsUp`, that differences add up although each wraps
around (`TrackerReportsAddUp`).  `ElapsedInv` says which of the two clock readings
the sum of the divisors has reached at each call; with `DiffIsExact` the intervals
join without a gap (`TrackerElapsedAddsUp`).  `FitInv` bounds, at each call, how far
the guest is ahead of the sample and the sample ahead of the last one, by the time
between the calls (`TrackerCpuTimeFits`).

`DashboardProofs` proves all that the run `dashboard` checks, invariants and action
properties, for any number of nodes, instances, children and reports, rings of any
size, and clocks of the monitors that are off by anything.  `TypeInv` adds to the
types that lines in pipes and hands have been reported and that a file that is
filled, looked into or fetched is there (`DashboardTypes`).  `Effect` sums up what a
child's step does to its file.  `EmptyIsBeingMade` is inductive as it stands
(`EmptyFilesAreBeingMade`).  `AloneInv` holds while children do not overlap: one runs
at a time, what it found absent still is, a file that is not made has no points
(`RaisesNeedTrouble`).  `WrittenInv` holds whatever overlaps: every point was stored
and is not ahead of the clock.  `KeptInv`, without overlap,
is what makes the ring work: every point is in the slot its time counts from the
first slot, even when the first slot itself is overwritten (`PutInPlace`, by
arithmetic modulo `Slots`); the point that has to make way is no later, because two
times in one slot are a whole turn apart and `Covered` leaves less than a turn
(`NoLaterInSlot`); and the place of each stored point holds it or a later one, since
writing leaves every time its slot (`SlotsStay`).  From these follows
`StorePointsAreKept`.  `LatestIsShown` also needs `ReadInv` for the time between the two
reads of a fetch: the first slot moves on by whole turns only, so that the base that
was read still leads to the place of each point that was known; what is there is that
point, because the next one that belongs there is a turn later.  And a set of times
with a bound has a last one (`LastExists`).

Assumptions used: `UuidAssumption`, `DomainAssumption`, `CallsAssumption`
(`HostMonitor`), `ServiceAssumption`, `NsPerSecAssumption`, `WordAssumption` and
`BoundAssumption` (`DomainStatTracker`), `SizeAssumption` and `BoundAssumption`
(`Collector`), `HWMAssumption` and `BoundAssumption` (`IntermediateReceiver`),
`SizeAssumption`, `BoundAssumption` and `BackAssumption` (`WhisperStore`, `Dashboard`),
all of them evaluated by TLC in the runs.  They say that sizes are positive and
bounds are numbers; no bound is given a value.

So every invariant and every action property of the passing runs is a theorem.
Model-checked only are the liveness properties (`KeepsReporting`, `FlagIsHonoured`,
`VanishedIsRemovedOrStops`, `RunningIsReported`, `UpdatesAreWritten`, `JoinReturns`,
`DeadChildIsNoticed`, `InterruptIsHonoured`, `ShutdownEnds`): the provers have no
rules here for fairness and ENABLED.  What the runs with a violation show is a
counterexample, not a theorem.

## 5. Not modelled

* Contents, formats and copies of messages, host names, printed text.
* Memory utilisation, a quotient of two fields of one reading.
* Memory: leaks of the domain list, of the XML and of libvirt handles.
* `LinuxHostStatPublisher`, `print_aggregate_stats`, `print_carbon_update_lines` in
  the collector, and the path helpers of `common.cc`: not called or not
  instantiated.
* In the dashboard the load averages, arithmetic over the same fetch as the snapshot,
  and the queries nothing calls (`get_whisper_files_list` with its filters,
  `MonitoredDomain`, `_my_get_data`); the declarations for Django and Horizon.
* Start-up failures of the daemons: arguments, binds (but for the collector's port
  in `ServiceControl`), the libvirt connection.
* The end-to-end composition of monitor, relay and collector: they are connected by
  PUB and SUB sockets, which promise order and nothing else, and each module allows
  its input to be any sequence of messages.
* Tools, launch scripts, packaging.

## 6. Plan

Done, in this order: `FeedMessages`, `DomainFeed`, `HostMonitor` with its proofs;
`TimespecUtils` and `DomainStatTracker`; `Collector`; `ServiceControl`;
`IntermediateReceiver`; `WhisperStore` and `Dashboard`.

Proofs of every invariant and action property: the monitor, `sm_ctl` and the time
arithmetic first, then the relay, the collector, the tracker and the dashboard.

Next: one abstract channel, which may drop but never reorders, duplicates or takes
back what it has delivered, that relay and collector both implement.
