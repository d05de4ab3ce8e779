# linux-health-monitor: a TLA+ verification project

The program is a one-shot agent: it reads a Linux host one collector at a time,
judges what it read (`HEALTHY`, `WARNING`, `CRITICAL`, with alerts, a diagnosis
and suggested commands), writes a report and ends in an exit code. A systemd
timer starts it every two minutes, and the unit's state is the alerting signal.

It has no threads and keeps no state between runs, so what makes it hard is not
locking but *time*: the host moves while it is being read, the same fact is
sometimes read twice, a read may fail and then looks like a healthy value, the
report file is rewritten in place, and runs are killed, retried and overlapped.

## 1. Inventory

| Part | Source | State | Operations | Interacts with | What makes it correct |
|---|---|---|---|---|---|
| Health analysis | `agent/health_analysis.py` | none (pure) | status, alerts, diagnosis, actions | called by the run with one context | the four agree; each finding is owed to something read |
| Collection run | `agent/monitor.py` `HealthMonitor` | what was read so far | collect, report, analyse | all collectors, in a fixed order | no fault invented, no lasting fault missed, whatever changes meanwhile |
| Command line and output | `agent/monitor.py` `main`, `write_output`, `build_view` | the report file | write, chmod, exit | a web server reads the file, systemd the exit code | code, report and verdict agree; nothing torn, lost or formatted twice |
| Unit and timer | `systemd/*.service`, `*.timer` | unit state | start, time out, start again | starts `main` | faults end in `failed`, recovery ends it |
| System context | `agent/system_context.py` | none | services, failed units, containers, ports, identity | `systemctl`, `docker`, `podman`, `ss` | absent is not stopped; the monitor does not count itself |
| Host posture | `agent/host_checks.py` | none | journal, clock, LSM, firewall, virtual IP, reboot | `journalctl`, `timedatectl`, `ip`, `dnf` | only positive answers count |
| Endpoint checks | `agent/app_checks.py` | none | parse the list, GET each | other hosts, in sequence | every failure is a result |
| Metrics | `agent/system_metrics.py` | two samples | deltas, `df` filters, rankings | `/proc`, `df`, `du` | ratios stay in range across counter jumps and pid reuse |
| Subprocess wrapper | `agent/shell.py` | cache of `which` | run with a timeout | every command | never raises |
| HTML and humanized view | `agent/html_report.py` | none | format | the finished report | nothing lost or said twice differently |
| Fleet | two nodes, `systemd/README.md` | holder of the virtual IP, neighbour caches, two pages | failover, crash, announcement | each other's endpoints, a reader of both pages | split-brain is told from failover |

`PROJECT.json` lists these parts with their status, and every hazard of the code
at the line where it bites.

## 2. Modules

| Module | What it is |
|---|---|
| `HealthAnalysis` | the verdict as operators on a context record |
| `RunContract` | abstract specification: what one run promises, whatever order it reads in |
| `Monitor` | one run after another of `HealthMonitor.report()` on a host that changes; implements `RunContract` |
| `MCMonitor` | instances of `Monitor` for TLC |
| `HealthService` | timer, oneshot unit, report file, exit code, a run by hand; each run is a `RunContract` |
| `MCHealthService` | instances of `HealthService` for TLC |
| `CollectionBudget` | the questions of one run in their order, with their timeouts, against `TimeoutStartSec` |
| `Filesystems` | `df`, then the mount table, while both change and a remote server hangs |
| `Sampling` | the two samples of `get_cpu_snapshot` around its sleep, on a kernel that does not stop |
| `JournalWindow` | `get_journal_errors` over many runs: window, cap, list of units |
| `Fleet` | two nodes, the floating address, neighbour caches, and the two pages side by side |
| `ReportView` | the way of a report through mode, `-H` and `--html` to the reader, and the exit code |
| `MCParts` | these six, each under its own environment, for TLC |
| `MonitorProofs` | type correctness and `NoInventedFault`, proved |
| `MonitorCoverageProofs` | `NoMissedFault` and the refinement of `RunContract`, proved |
| `MonitorCoherenceProofs` | `Coherent`, `AlertsFollowedUp` and `AlertsMissRootOnly`, proved |
| `HealthServiceProofs` | type correctness and `FinishedRunPublished`, proved |
| `MetricsProofs` | `Sampling` and `Filesystems`: type correctness and all their invariants, proved |
| `PostureProofs` | `JournalWindow` and `Fleet`: type correctness and all their invariants, proved |
| `ReportProofs` | `CollectionBudget` and `ReportView`: type correctness and all their invariants, proved |
| `PartsProofs` | the six together: what is proved of each holds of `MCParts`, proved |

### HealthAnalysis

One operator per helper and generator, with the source's names. A finding is a
pair of a kind and a subject (`<<"disk", "/var">>`, `<<"endpoint", "own">>`), so
that "the diagnosis is not *No issues detected*" and "there is an alert" can be
stated while the wording is left out. Percentages are naturals: only comparisons
with limits matter. The worst disk is not computed as a maximum: *some reading
is above the limit* says the same. A limit is `Unset` or a number, read one
variable at a time as `_env_float` does, so the model admits a critical limit
below a warning limit, as the program does.

The two lists that follow an alert are not the same: `PostureFindings` is what the
diagnosis names, `PostureActions` what gets a command. `generate_actions` has
nothing to retry for an endpoint whose URL is empty (`if url:`; the JSON form of
`HEALTH_APP_ENDPOINTS` admits one), so an endpoint in `Urlless` gets none. Such an
endpoint never answers, and is scored where the host cannot read its own addresses,
so there are reports that are WARNING over it alone, with an empty action list.

### Monitor

`pc` is the collector `report()` calls next, `got` what the collectors returned,
`idx` the position in the service or endpoint list. Each collector is one action:
it reads the *present* host, or fails (`blind` records the command) and returns
what the code degrades to: `0`, the empty list, `unknown`. `df` is read twice,
`ip addr` twice. `Analyse` is `run_health_analysis`, with its second read of the
addresses. The host changes between any two actions, one facet at a time.
`get_filesystems` is one step with two outcomes: either `/proc/mounts` was read and
the mounts of `Reported` are listed, or it was not (`KeepsEveryMount`) and every row
of `df` is, images that are full for ever and remote mounts included; the host then
answers for those too, and a verdict may rest on them.
`ever` and `always` are history: the faults the host had at some time, and
throughout, since the run began. Collectors whose result never reaches the
verdict or the findings (containers, ports, disk details, temperature, LSM,
firewall, processes) are left out here. What `Monitor` takes as one read is
opened up where there is something inside: `Sampling` is the inside of `ReadCpu`,
`Filesystems` of `ReadFilesystems`, `JournalWindow` of `ReadJournal`, `Fleet` of
`ReadVip`, and `CollectionBudget` gives every read its time.

A *fault* is defined from the documentation, not from the code: a gauge over a
limit, a service stopped, failed, masked or not installed, a failed unit, an
unsynchronized clock, an endpoint that does not answer. `Watchers(fault)` are
the reads each of which alone would show it: two for root, none for another
node's endpoint.

### RunContract

The verdict is sandwiched. It may blame the host only for a fault the host had
at some time in the run (`Supported`), and must blame it for one that lasted and
could be read throughout (`Covers`). `Monitor` implements it under the mapping
`seen <- Seen`, `steady <- Steady`, `verdict <- analysis.status`; `HealthService`
uses the same two operators for what a run concludes, so the two levels compose.

### HealthService

`pc[r]` is the position of run `r` in `main()`: collecting, about to open the
report, writing it page by page at its own offset, chmod done, gone. `pages` is
the file: opening truncates, and each write puts this run's verdict on the next
page, so two writers can interleave. `unit` is what systemd shows: `activating`
while the process lives, then `inactive` or `failed` by its exit code. Faults
come and go, become unreadable (`dim`), the host is slow (runs may be killed at
`TimeoutStartSec`), has no room for the report, has no os-release file, reboots.

### CollectionBudget

`Programme` is the sequence of commands and requests of `report()`, in four parts
(metrics, context, posture, endpoints), each question with whom it asks and its
timeout: 3 s by default, 10 for `df`, 15 for `journalctl`, 30 for `du` and `dnf`,
2 per endpoint. Endpoints are their own parties, under names that none of the
other parties has; that is a convention of the model, not a demand on
`HEALTH_APP_ENDPOINTS`. `IsAsked` are the questions that hang on
another's answer: podman only if docker did not answer, the time services only if
`timedatectl` did, the walk of `/var/log` only if `du` printed nothing. What is
asked stalls and recovers between questions; a stalled question takes its whole
timeout and is answered at the last moment or not at all. Any question may also
fail at once (`AtOnce`, kept in `denied`): a command that is not installed or exits
in error, a connection that is refused. `Endless` is what no
timeout stops: a disk whose I/O cannot be killed (`subprocess.run` waits for the
child it has killed) and an endpoint that trickles, since a socket's timeout
bounds one operation.

`KilledMeansTwoTroubles` is what the budget comes to: the limits add up to far
more than 60 s, but no *one* thing that stalls uses them up, except `/var/log`
itself, where `du` gives up after 30 s and the Python walk that replaces it is
not limited. That depends on the configuration: systemd is asked once about each
unit of `HEALTH_SERVICES` and ten times besides, the kernel once about each
virtual address and four times besides, at 3 s each. `OneFits` is that neither
comes to `TimeoutStartSec`: at its 60 s, up to 9 services and 15 addresses. With
ten services a hung systemd alone is enough to have the run killed, unreported.
`StillReads` says that what stalls or fails costs only its own answers.

### Filesystems

`df` lists the mounts (`unasked`) and asks them one at a time (`rows`); then
`/proc/mounts` is read, or cannot be (`mountsRead`), and decides which rows are
reported. A mount may also refuse `df` (`Refuses`): its `statfs` fails, or its
columns are no numbers, and there is no row for it. Between any two
steps a filesystem is mounted, unmounted, remounted (read-only after an error,
too) or filled, and the servers of remote filesystems hang or recover.
`ReportedConcerns` and `NoConcernHidden` are the two directions of the list's
promise, over the points that were `steady`; `None` in the mount table is the
branch that keeps a mount it does not find, and with `/proc/mounts` unreadable it
finds none. So the first property, that what is listed is a writable disk or tmpfs,
holds only while that file was read, and what is listed without it at least has a
row and a capacity. The second, that such a filesystem is not hidden, excepts the
points that `refused` and a `df` that was stopped: to a reader of the report a mount
that cannot be read looks like a mount that is not there. A `df` that is missing
altogether is the empty list and is left out. One consequence of the read-only rule
that the model makes visible: a filesystem that the kernel remounts read-only
after an I/O error leaves the list, at the moment it becomes interesting.

### Sampling

Time is ticks; in each tick every CPU runs a process, waits for a disk or idles,
and the counters of `/proc/stat` and of the processes advance accordingly. The
reader opens (`lineStart`, then one `procStart` per pid), sleeps and closes in the
same order; ticks, births, deaths, pids handed on and corrections of `iowait`
fall between any two reads. `ran` is history: what the process that has the pid
really did between its two reads. The properties say what the figures mean:
`NeverOverReported` and `BusiestListed` of the process list, `AverageWitnessed`
and `SharesDisjoint` of the percentages. A tick that runs a virtual machine is in
two columns of the line, `user` and `guest`, and `_busy_total` sums both. So the CPU
percentage of a hypervisor is too high: with half of its CPUs running guests it
reads 66.7%. `AverageWitnessed` says what is left of the promise: the percentage is
never too low (a host above a limit at every tick is reported at the limit or
above), and it is above a limit only if the columns, *as they add up* (`Exceeds`),
were above it at some tick, which is the host itself only where no guest runs.
Percentages are in tenths, rounded and
clamped as in the source; `_disk_io_rate` and the swap rates are the same clamp
of a difference and are left out.

### JournalWindow

The journal is the sequence of the errors of the window, each with its age and the
number of runs that counted it (history). A run takes the newest `EntryCap`, or,
when `journalctl` stops over a broken file, a first part of them, and lists the
units with the most. An error whose message holds a line separator (U+2028, which JSON
does not escape) is cut in two by `splitlines`; neither half parses, and the code
skips both, so an `Entry` is `legible` or not. A skipped line lowers the count
without a word, and may leave `capped` false for a journal that was cut.
`UncutIsExact` is therefore about what was read: where the lines read, the skipped
ones included (`ReadAll`), are below the cap, the report lacks just the skipped
ones; at the cap it never says too much. `MissedOnlyInGap` is about the errors that
come as one line. `gap` is the time since the last run that read everything.
Not in the model: a fragment that happens to be JSON without being an object
(a bare number) would raise at `entry.get` (`host_checks.py:108`) and end the run.
`troubled` is whether the host deserves a WARNING; such a run leaves systemd's own
"Failed to start" in the journal, which the next runs count. `QuietClears` shows
that this does not feed itself, because the count is no part of the verdict
(`PostureWarning` does not mention `journal_units`). Two things to know when
reading a report: a count that is exactly the cap is flagged `capped` though it
may be exact, and one error is counted by up to `Window / Every + 1` reports
(`RecountBounded`): with the 15 minutes and 2 minutes of the shipped unit that is 8,
although the comment beside `HEALTH_JOURNAL_WINDOW` says that successive reports do
not re-count the same errors. The run `recount` shows the second report doing so.

### Fleet

Each node's run reads its addresses, then (if it does not hold the address) its
neighbour cache, then asks the address for its health page, and then replaces
its page. A read of `ip` may fail (`ReadFails`); the page then lacks what it would
have said. The address is taken and dropped by nodes and by strangers at any time,
announcements are heard or not, nodes reboot and runs are killed.
`HeldPagesCollide`: two pages that both say `held` are a split-brain *now*, unless
one of the two nodes has lost the address since. `ResponderIsRecent`: the name in
`answered_by` may be out of date, but only back to the last time this node asked
for the page. `PagesSettle`: once the address stays put, the pages come to tell
who has it, as failing reads, like moves of the address, come to an end
(`MaxMoves`). It needs an endpoint at the virtual address (`ProbesVip`): without
one nothing refreshes the cache, as the monitor only reads it.

### ReportView

A view is a function from fields to how often each has been formatted: 0 is a
number, 1 a text, 2 would be a text formatted again. `HumanizeView` and
`GenerateHtml` may both meet a field; the `isinstance` guards of the formatters
are what `FormattedOnce` rests on. Where the page is poorer than the JSON is
said by the properties' exceptions: with `-H` a page has no uptime (the field was
renamed) and no colours in the filesystem table (the numbers are texts), and the
colours follow 80 and 90 whatever limits are configured, so `PageAgreesWithExit`
is about the default limits. Not in the model, as they are wording: a default-mode
page shows the status without its alerts, and lists the features as unavailable,
because `format_disk_details({})` is not empty.

### MCParts

The six share no state, so one run checks them all: `part` says which one a
behaviour is about, and the others stay in one state. A reachable state is a
state of one part, and every property of a part is checked in every state.

## 3. Runs

| Run | Question | Result |
|---|---|---|
| `resources` | gauges and file systems under two changes and two failed reads | holds |
| `posture` | services, units, clock, endpoints (one without a URL), failover under two changes and two failed reads | holds |
| `runner` | a hosted runner with an explicit endpoint list; every run ends | holds |
| `timer` | unit and report through every trouble of the host, in any order | holds |
| `by_hand` | a second run on the same report file, started and interrupted at will | holds |
| `parts` | the six parts, each against everything its environment does | holds |
| `hung_server` | does a remote server that hangs leave the local filesystems alone? | violated |
| `low_crit` | do status, alerts and diagnosis agree with only a critical limit lowered? | violated |
| `vip_unread` | is the virtual IP scored on every node? | violated |
| `no_os_release` | does every run report? | violated |
| `recount` | do successive reports leave out the errors already counted? | violated |
| `flap` | does a WARNING leave the unit failed until a healthy run? | violated |

The six violated properties are statements of the repository; `findings` in
`PROJECT.json` quotes them. They are:

* **Limits out of order.** `HEALTH_CPU_CRIT=60` alone, the README's own example,
  makes a CPU at 65% CRITICAL with no alert, no action and "No issues detected". No
  level of that run is above a default limit, so nothing else can be the cause.
* **Virtual IP unscored.** `self_hosts` takes the virtual address from the
  `vip` feature; if that read of `ip addr` fails and the later one succeeds, the
  standby treats the dead address as a peer's.
* **No os-release, no report.** One of two reads of os-release is unguarded.
* **Errors counted again.** The look-back window of the shipped unit is seven times
  the interval of its timer.
* **The signal flaps.** `is-failed` is false while the next run is in progress.
* **A hung server hides the local disks.** The comments leave remote types out
  "because a hung server would stall df", but `df` is asked for every mount and
  the types are dropped from its output: one server that hangs makes it time out,
  and the list of filesystems is empty. Root is still read by the other `df`.

The models show three more such things, for which there is no run: exit code 1 is
also that of a traceback, so a HEALTHY or CRITICAL verdict whose report cannot be
written ends like a WARNING (`WriteFails`; `write_output` re-raises), although the
README lists 1 as WARNING only; guests' time is counted
twice (`Sampling`); and a count below the cap may be short of the lines that were
skipped (`JournalWindow`).

What holds is as telling. `Coherent` (status, diagnosis and actions agree, but for
an endpoint without a URL among what is wrong) holds as soon as every warning limit
is at most its critical limit. `AlertsFollowedUp` says it of each alert: it has its
own note and, unless it is for swapping or for an endpoint without a URL
(`Commandless`), its own command, whatever else is wrong; only root's may be left to
the note of another disk, and only where root's two `df`s differ.
`AlertsMissRootOnly` shows that the alert list is then empty for an unhealthy
host in exactly one way: root crossed the limit between the two `df`s, or the
first one failed. `FinishedRunPublished` shows that an exit code 0 or 2 always
sits beside a complete report of the same verdict, which is what the in-place
rewrite puts at risk.

### Bounds, and why they are enough

* `MaxChanges = 2` in a run: a fault that appears and disappears, two facets that
  cross each other, a failover and back. `Percent = {0, 82, 95}` lies below both
  disk limits, between the two and above all, and above the warning and below or
  above the critical limit of the others. `MaxBlind = 2` lets both reads of
  root, or both reads of the addresses, fail in one run.
* three mounts: root, one other, one not reported; four units: two configured,
  the monitor, one that is neither; five endpoints: own, peer, loopback, virtual
  and one with an empty URL.
* `timer`: `MaxChanges = 4`, two faults of different severity, a report of two
  pages. `by_hand`: the same with two changes and a second run; two pages are the
  least that can be torn and mixed.
* `parts`, fleet: two nodes, one stranger, three moves: a failover and a third
  device, or a failover and back, or a failover with a crash or an aborted run.
* `parts`, sampling: two CPUs, two pids, two births, deaths or corrections (a pid
  that changes hands needs two), one tick of sleep and one of delay anywhere.
  The limits compared are 0, 50 and 85; a list of one process makes ranking matter.
* `parts`, journal: a window of two ticks and a run every one, so that windows
  overlap three deep, and three runs in a row that fail or are capped leave a real
  gap; a cap of four, two errors besides systemd's own and up to three of those go
  below, at and above the cap; two sources and one listed unit make the order of the
  list matter. In this run errors are missed by runs that fail; that they may be
  missed by the cap alone is left to the proof, which is about every cap.
* `recount`: window and interval in minutes as shipped, 15 and 2, and one error.
* `parts`, budget: the deployed configuration (five services, one virtual address,
  four endpoints, RHEL) with the real timeouts and the real 60 s, and two changes
  of what stalls or fails at once: the least for "two things" and "the same one, again".
* `parts`, filesystems: two mount points with every kind of filesystem and two
  changes: enough for a mount replaced and filled between `df` and `/proc/mounts`.
* `parts`, view: every command line, every set of fields that may be missing,
  levels at and on both sides of both limits, two configurations of the limits.
* Deadlock is checked in every run; the timer and the next run go on for ever.

### Fairness

`Monitor!Fairness` is weak fairness of the run's own steps: each command has a
timeout and each GET too, so a collector returns. Nothing is assumed of the host.
`HealthService!Fairness` is weak fairness of the timer (`OnUnitActiveSec` rearms
after every start, failed or not) and of each run's steps; that a slow run is
killed is never assumed. `PartsFairness` is weak fairness of each node's run
(the timer starts one run after another), of the passing of time and of the runs
of the journal that are due; nothing is assumed of the address, of the log or of
the host. The liveness properties say what follows once the host
stays as it is (`<>[]`), which the bound on changes makes every behaviour do; in
`parts` the premise of `QuietClears` is that only systemd's own errors are logged
from some time on, and that of `FleetSettles` that the address stays where it is.
`MaxMoves` also ends the failing reads of the fleet: reads that fail for ever leave
a page without its virtual address, and nothing is claimed of that.

## 4. Proofs

Each theorem holds for every value of the constants: any lists of services and
endpoints, any mounts, limits, environments, faults, pages, runs by hand and bounds.

| Theorem | States | Module |
|---|---|---|
| `TypeCorrect` | `TypeOK` of `Monitor` | `MonitorProofs` |
| `NothingInvented` | `NoInventedFault` | `MonitorProofs` |
| `NothingMissed` | `NoMissedFault` | `MonitorCoverageProofs` |
| `RunImplementsContract` | `Monitor` implements `RunContract` | `MonitorCoverageProofs` |
| `ReportsCohere` | `Coherent` | `MonitorCoherenceProofs` |
| `AlertsAreFollowedUp` | `AlertsFollowedUp` | `MonitorCoherenceProofs` |
| `OnlyRootUnalerted` | `AlertsMissRootOnly` | `MonitorCoherenceProofs` |
| `ServiceTypeCorrect` | `TypeOK` of `HealthService` | `HealthServiceProofs` |
| `FinishedRunsPublish` | `FinishedRunPublished` | `HealthServiceProofs` |
| `SamplingTypeCorrect` | `SamplingTypeOK` | `MetricsProofs` |
| `NeverOverReportedCorrect` | `NeverOverReported` | `MetricsProofs` |
| `BusiestListedCorrect` | `BusiestListed` | `MetricsProofs` |
| `SharesDisjointCorrect` | `SharesDisjoint` | `MetricsProofs` |
| `AverageWitnessedCorrect` | `AverageWitnessed` | `MetricsProofs` |
| `FilesystemTypeCorrect` | `FilesystemTypeOK` | `MetricsProofs` |
| `ReportedConcernsCorrect` | `ReportedConcerns` | `MetricsProofs` |
| `NoConcernHiddenCorrect` | `NoConcernHidden` | `MetricsProofs` |
| `JournalTypeCorrect` | `JournalTypeOK` | `PostureProofs` |
| `MissedOnlyInGapCorrect` | `MissedOnlyInGap` | `PostureProofs` |
| `RecountBoundedCorrect` | `RecountBounded` | `PostureProofs` |
| `UncutIsExactCorrect` | `UncutIsExact` | `PostureProofs` |
| `FleetTypeCorrect` | `FleetTypeOK` | `PostureProofs` |
| `HeldPagesCollideCorrect` | `HeldPagesCollide` | `PostureProofs` |
| `ResponderIsRecentCorrect` | `ResponderIsRecent` | `PostureProofs` |
| `BudgetTypeCorrect` | `BudgetTypeOK` | `ReportProofs` |
| `StillReadsCorrect` | `StillReads` | `ReportProofs` |
| `KilledMeansTwoTroublesCorrect` | `KilledMeansTwoTroubles`, given `OneFits` | `ReportProofs` |
| `ViewTypeCorrect` | `ViewTypeOK` | `ReportProofs` |
| `FormattedOnceCorrect` | `FormattedOnce` | `ReportProofs` |
| `ReachesReaderCorrect` | `ReachesReader` | `ReportProofs` |
| `PageAgreesCorrect` | `PageAgreesWithExit` | `ReportProofs` |
| `PartsTypeCorrect` | `PartsTypeOK` | `PartsProofs` |
| `PartsSafe` | all the invariants of the parts, of `PartsSpec` | `PartsProofs` |

The theorems about a part are about its own specification (`FleetSpec`, ...).
`PartsImplement` shows that a behaviour of `PartsSpec`, which the run `parts`
checks, is one of every part's specification, so that they hold there too.

* `TypeCorrect`: `TypeOK` is inductive. The services and endpoints collected stay
  in range because the loop index stays in the list.
* `NothingInvented`: `NoInventedFault` alone is not inductive: it says nothing
  until the run is done. The strengthening, `Honest`, says that all that has been
  read so far was true at some time in the run: a gauge read above a limit is in
  `ever`, a service entry that reads as faulty is the fault of that service, and
  so on. Each collector keeps it, because what it adds is true now and now is
  part of `ever`; each change of the host keeps it, because `ever` only grows. A
  full mount that is not one of `Reported` is listed only where `/proc/mounts` was
  not read, which is when the host answers for it (`KeepsEveryMount`).
  `Analyse` then turns every branch of `generate_health_status` back into a fault.
* `NothingMissed` is the converse. The strengthening, `Shown`, says that a fault
  that has lasted so far shows in what was read as soon as the collector that
  watches it has returned and did not fail. `CollectWrites` (each part of a
  reading has one writer) and `CollectOrder` (a run gets past a collector only by
  running it) carry it over the collectors; the host keeps it because `always`
  only shrinks. `Analyse` then finds each lasting fault in the context:
  `GaugeScored`, `PostureScored`, `EndpointScored`.
* `RunImplementsContract` combines the two. The initial states map to initial
  states; a collector, a failed read and a change of the host are `Observe` steps
  (more seen, less steady), a new run is `Begin`, and `Analyse` is `Conclude`
  because its verdict is supported by what was seen and covers what was steady.
* `ReportsCohere`: the invariant is only that a finished run's analysis is `Judge`
  of one set of addresses; the rest are lemmas about the generators. The ordering
  of the limits is used in one place, `CriticalIsOver`, the step that
  `low_crit` breaks. A posture finding is an action too unless it is an endpoint
  without a URL (`PostureIsNamed`), which is the exception in the statement.
* `AlertsAreFollowedUp`: an alert that is not root's is in the list the diagnosis
  and the actions are made from as well (`OthersFollowedUp`). Root's comes from the
  first `df`; some disk is in the diagnosis because of it (`RootIsNoted`), and where
  the second `df` worked, lists root and the fault lasted, `Shown` puts root itself
  there (`RootReadsAgree`).
* `OnlyRootUnalerted` uses both invariants at once. Without an alert the context
  has no posture finding, no gauge over a limit and no full filesystem but root
  (`NoAlertIsQuiet`); since the status is not HEALTHY, root is over the limit in
  the second `df` (`UnalertedStatus`). `Honest` turns that reading into a fault
  the host had, and `Shown` says that the first `df`, had it worked and had the
  fault lasted, would have read it too.
* `FinishedRunsPublish`: the property speaks of a unit at rest, the strengthening
  `Progress` follows the run there: it starts with nothing written, the pages it
  wrote since it opened the report are its own verdict unless another run had the
  file open, it exits only with all pages written and the mode set. `Judged` (a
  run that writes has a verdict) is what makes `TypeOK` inductive.

* `Filesystems`: the invariant ties `rows` to the mount table at steady points.
  `RowsOwn`: at a point that is steady, a row that was read is that of what is
  mounted there, but for how full it is. `AskedOrDue`: while `df` runs, what is
  mounted at a steady point and did not refuse has its row or is still to be asked. `AllOrNothing`:
  afterwards it has its row or, after a timeout, nobody has. `ReportedRows`
  carries the filter of `Reports`, with the mount table or without it, to the end.
* `Sampling`: `WorkAccounted` relates the counters to the history. Of a pid that was
  in the first sample, the counter (the second sample's, once it is read) is what
  the first one says plus what has been run since, or, when the pid went to a new
  process meanwhile, what that process has run. So a difference is exact in the
  first case and an understatement in the second, which is why the clamp at 0 is
  all it needs. `NotSeenYet`: the second sample is empty before it is taken.
  `ListedByWork` carries the ranking to the end of the run. CPUs, processes,
  interval and the length of the list are arbitrary.
* The percentages have an invariant of their own, over the two lines of
  `/proc/stat`. `LinesInOrder`: the counters that only grow do not go back between
  them (`iowait` may). `Averaged`: while `iowait` is not corrected, the difference
  of the lines is at least one tick of all CPUs if there was a tick, and with every
  tick on one side of a limit so is the sum, `100 * work` against `limit * whole`,
  guests twice in both (`Between`); it is about the second line or, until that is read, the present counters, so
  that each tick keeps it. The rounding comes last (`RoundedNumber`,
  `ShareAgainstLimit`, `SharesAdd`): a limit is a whole number of tenths, so
  rounding to a tenth does not cross it, and two rounded parts of a whole exceed
  it by at most one tenth, which is where the 1001 of `SharesDisjoint` comes from.
* `JournalWindow`: `AtPace` bounds how often an entry was counted by its age,
  `counted * Every <= age + Every - since`: a run needs `since = Every` and sets it
  to 0. With `age <= Window` that is the bound of `RecountBounded`. `IsNew`: an
  legible entry that no run has counted is no older than `gap`, as the last complete
  run counted all that were legible (`ReadAllIsBelow`); so one that leaves the window uncounted does it after
  `gap` has passed the window. `UncutIsExact` is about the last report and the
  journal of that moment (`truth`), so it is its own invariant; its proof is that
  an output below the cap, skipped lines included, is the whole journal (`PrintedWhole`) and that the list
  of units leaves none off that has more errors than one on it (`CountedWhole`).
* `Fleet`: `HeldSince` says that a draft or a page that claims the address, with the
  number of losses its node has now, belongs to a node that holds it; a node that
  loses the address increments the number, so nothing else can break it. That
  the number stays in range is `LossesAreMoves`, a strengthening of the type
  invariant. `ResponderIsRecent` needs that a run about to read the cache has named
  nobody yet (`NamesNobody`), since that read may fail.
* `CollectionBudget`: first the programme itself, as a concatenation of its parts
  (`ProgrammeFacts`): which questions there are, how often each party is asked
  (`TimesAsked`), and that the clock is asked for before the time services. Then
  the invariant. `OnlyOneWaits`: while at most one party has stalled, the time that
  has passed is at most its longest timeout times how often it was asked so far.
  `Concluded`: a question that is over was answered, unless whom it was asked of
  had stalled or it was not asked for a reason that `StillReads` names. When a run
  is killed and only one party has stalled, `OnlyOneWaits` with one question more
  bounds the time by the party's timeout times `TimesAsked`, which `OneFits` says
  is below `TimeoutStartSec`: a contradiction, unless no timeout bounds the party.
* `ReportView`: the invariant says what the view and the output are at each stage
  as functions of the command and the collection (`TheView`, `TheOutput`,
  `TheColour`), so the three properties are lemmas about these. That the colour
  agrees with the exit code needs that `Verdict` at the default limits and `Colour`
  draw the line on the same side of equality.
* `Parts`: a step of `PartsSpec` is a step of one part and leaves the variables of
  the other five alone.

Assumptions are those of the modules (`SettingAssumption`, `ListAssumption`,
`MountAssumption`, `PercentAssumption`, ...): configuration lists are sequences
over the names in use, root is a mount, percentages are naturals that include 0. `OneFits` is no assumption of the module
but the hypothesis of one theorem: the deployed configuration, with 45 s for
systemd and 15 s for the kernel, is well within it, and where it ends the property
stops being true (TLC finds a killed run with ten services).

Only model-checked:

* liveness under fairness (`RunsEnd`, `FaultsFailTheUnit`, `QuietRecovers`,
  `FleetSettles`, `QuietClears`), which is out of the prover's reach.

Every invariant that a passing run checks is proved. The proofs about
`CollectionBudget` follow the programme question by question, so a command added
to a run shows as a lemma that fails.

## 5. Not modelled

* Parsing: the endpoint list (`parse_endpoints`), the JSON bodies of endpoints,
  `ss`, `du` and the lines of `/proc`. They are conversions of text with no state,
  and the repository's tests cover them line by line.
* Collectors that nothing depends on and that are one read of a file or of a
  sum: the security module, temperature, network counters, process counts, the
  listed ports and directories.
* The markup of the page, escaping and the cards of the features; the wording of
  alerts, diagnosis and actions.
* Environment detection, which is a constant of a run (`Env`).
* The Dockerfile, build files and tests.

Three hazards of `PROJECT.json` have no property. `dnf` answers a question and an
error with the same exit code, and no document says what an error should show. A
service that crash-loops is `activating` at every poll: the code says this is
deliberate. The filesystem table of the page colours by 80 and 90 whatever limits are
configured: `PageAgreesWithExit` has the default limits as its premise, and no
document says what the page should do at others. Nor is it in the models that a name
in `HEALTH_APP_CRITICAL` that matches no endpoint leaves every endpoint unscored:
the code does not check the list, and they take it as given.
