------------------------------ MODULE Monitor ------------------------------
(* One run of agent/monitor.py on a host that keeps changing under it.          *)
(*                                                                              *)
(* HealthMonitor.report() reads the host one collector at a time, in a fixed    *)
(* order, each read a subprocess or a file of its own; only then does it judge. *)
(* The report is therefore no snapshot: a facet may change after it was read,   *)
(* the root filesystem is read twice, and the host's addresses are read twice.  *)
(* A read may also fail, and then the collector degrades to a value that looks  *)
(* like a healthy one.  Collectors whose result is shown but never reaches the  *)
(* verdict (containers, ports, disk details, temperature, security module,      *)
(* firewall, process list) are left out.                                        *)
EXTENDS HealthAnalysis, Sequences, FiniteSets

CONSTANTS
  ServiceList,     \* HEALTH_SERVICES, in order
  Units,           \* every systemd unit of the host, the services and itself included
  SelfUnit,        \* what _self_unit() returns
  UnitStates,      \* <<LoadState, ActiveState>> pairs a unit goes through
  EndpointList,    \* names of HEALTH_APP_ENDPOINTS, in order
  Vips,            \* HEALTH_VIP
  OwnAddrs,        \* addresses this host always has
  OsFamily,        \* get_os_family()
  OsRelease,       \* whether the host has an os-release file
  Mounts,          \* mount points
  Reported,        \* the mounts _is_reportable_filesystem keeps
  Percent,         \* the usage percentages the host goes through
  Iowaits, Loads,  \* iowait percentages and load averages it goes through
  JournalUnits,    \* units that may log errors
  StartHosts,      \* the hosts a behaviour may start from
  MaxChanges,      \* bound on the changes of the host
  MaxBlind         \* bound on the reads that fail in one run

VARIABLES
  host,            \* the host as it is now
  pc,              \* the collector report() is about to call
  idx,             \* the next entry of the service or endpoint list
  got,             \* what the collectors of this run have returned
  analysis,        \* run_health_analysis: status, alerts, diagnosis, actions
  blind,           \* the reads of this run that failed: <<command, argument>>
  ever,            \* history: faults the host had at some time in this run
  always,          \* history: faults the host had throughout this run
  changes          \* how often the host changed, at most MaxChanges

vars == <<host, pc, idx, got, analysis, blind, ever, always, changes>>
history == <<ever, always, changes>>

Services == {ServiceList[i] : i \in DOMAIN ServiceList}
Endpoints == {EndpointList[i] : i \in DOMAIN EndpointList}

ASSUME ListAssumption == ServiceList \in Seq(Units) /\ EndpointList \in Seq(DOMAIN UrlHost)
ASSUME MountAssumption ==
  "/" \in Mounts /\ Mounts \cap {"cpu", "mem"} = {} /\ Reported \subseteq Mounts
ASSUME PercentAssumption ==
  Percent \subseteq Nat /\ 0 \in Percent /\ Iowaits \subseteq Nat /\ Loads \subseteq Nat
ASSUME AddressAssumption == OwnAddrs # {} /\ NoHost \notin Vips

\* systemd's own states
LoadStates == {"loaded", "not-found", "masked", "bad-setting", "error"}
ActiveStates == {"active", "reloading", "inactive", "failed", "activating", "deactivating"}
ASSUME UnitStateAssumption == UnitStates \subseteq LoadStates \X ActiveStates

ASSUME BoundAssumption == MaxChanges \in Nat /\ MaxBlind \in Nat

-----------------------------------------------------------------------------
(* The host. *)

Hosts ==
  [cpu : Percent, mem : Percent, used : [Mounts -> Percent],
   iowait : Iowaits, swapping : BOOLEAN, load1 : Loads,
   unit : [Units -> UnitStates], clock : BOOLEAN,
   up : [Endpoints -> BOOLEAN], holds : SUBSET Vips,
   journal : SUBSET JournalUnits, reboot : BOOLEAN]

ASSUME StartAssumption == StartHosts \subseteq Hosts

Gauges == {"cpu", "mem"} \cup Mounts
MetricOf(g) == IF g \in Mounts THEN "disk" ELSE g
Level(h, g) == IF g \in Mounts THEN h.used[g] ELSE h[g]

\* systemd/README.md, "Exit codes and alerting": stopped, failed, masked or not
\* installed; a unit caught mid-restart is none of these
Broken(state) ==
  \/ state[1] \in {"not-found", "masked"}
  \/ state[2] \in {"inactive", "failed"}

\* an empty URL is never answered
Answers(h, n) == n \notin Urlless /\ h.up[n]

\* The faults of a host, as the documentation names them and with no regard to
\* what a run of the monitor can see of them.
Faults(h) ==
  {<<"over", g>> : g \in {x \in Gauges : \/ Over(Level(h, x), MetricOf(x))
                                         \/ Crit(Level(h, x), MetricOf(x))}}
    \cup {<<"critical", g>> : g \in {x \in Gauges : Crit(Level(h, x), MetricOf(x))}}
    \cup {<<"service", s>> : s \in {x \in Services : Broken(h.unit[x])}}
    \cup {<<"failed", u>> : u \in {x \in Units : h.unit[x][2] = "failed"}}
    \cup When(~h.clock, {<<"clock", "">>})
    \cup {<<"endpoint", n>> : n \in {x \in Endpoints : ~Answers(h, x)}}

Running == pc \notin {"idle", "done", "crashed"}

-----------------------------------------------------------------------------
(* What one read of the host returns when it succeeds. *)

\* get_service_status: a unit that was never installed is not one that stopped
ServiceStatus(state) ==
  IF state[1] = "not-found" THEN "not-installed"
  ELSE IF state[1] = "masked" THEN "masked"
  ELSE state[2]

\* Mutated: the monitor's own unit counts, so a WARNING sustains itself.
FailedUnits_Self(h) == {u \in Units : h.unit[u][2] = "failed"}

\* get_failed_services leaves the monitor's own unit out of the count
FailedUnits(h) == {u \in Units \ {SelfUnit} : h.unit[u][2] = "failed"}

FilesystemList(h, mounts) == {[mount |-> m, used |-> h.used[m]] : m \in mounts}

HostAddresses(h) == OwnAddrs \cup h.holds

HasServices == Env \notin {"Docker", "CI", "WSL2"}
HasFailedUnits == Env \notin {"Docker", "CI", "WSL2", "GitHub Actions"}

-----------------------------------------------------------------------------
(* The run. *)

\* The value each collector degrades to, and the process starts with
NothingRead ==
  [cpu |-> 0, iowait |-> 0, swapping |-> FALSE, mem_used |-> 0, disk_used |-> 0,
   filesystems |-> {}, load1 |-> 0, services |-> {}, failed_services |-> {},
   journal_units |-> {}, time_desynchronized |-> FALSE, vip |-> {},
   reboot_required |-> FALSE, app_checks |-> {}]

NoAnalysis == [status |-> "none", alerts |-> {}, diagnosis |-> {}, actions |-> {}]

CanFail == Cardinality(blind) < MaxBlind

\* The read `source' returns `value', or fails and the collector returns `degraded'
Read(source, value, degraded) ==
  \/ got' = value /\ UNCHANGED blind
  \/ CanFail /\ got' = degraded /\ blind' = blind \cup {source}

At(here, there) == pc = here /\ pc' = there /\ UNCHANGED <<host, analysis, history>>

\* Mutated: a new run keeps the last verdict, or what the last run has read.
Begin_KeepsVerdict ==
  /\ ~Running
  /\ pc' = "cpu" /\ idx' = 1 /\ got' = NothingRead /\ UNCHANGED analysis
  /\ blind' = {} /\ ever' = Faults(host) /\ always' = Faults(host)
  /\ UNCHANGED <<host, changes>>

Begin_KeepsReads ==
  /\ ~Running
  /\ pc' = "cpu" /\ idx' = 1 /\ UNCHANGED got /\ analysis' = NoAnalysis
  /\ blind' = {} /\ ever' = Faults(host) /\ always' = Faults(host)
  /\ UNCHANGED <<host, changes>>

\* A new process; HEALTH_* is read from its environment
Begin ==
  /\ ~Running
  /\ pc' = "cpu" /\ idx' = 1 /\ got' = NothingRead /\ analysis' = NoAnalysis
  /\ blind' = {} /\ ever' = Faults(host) /\ always' = Faults(host)
  /\ UNCHANGED <<host, changes>>

\* get_cpu_snapshot: /proc/stat, and /proc/vmstat, which only adds the swap rate
ReadCpu ==
  /\ At("cpu", "memory") /\ UNCHANGED idx
  /\ \E swap \in {host.swapping, FALSE} :
       Read(<<"/proc/stat", "">>,
            [got EXCEPT !.cpu = host.cpu, !.iowait = host.iowait, !.swapping = swap],
            [got EXCEPT !.swapping = swap])

ReadMemory ==
  /\ At("memory", "disk") /\ UNCHANGED idx
  /\ Read(<<"/proc/meminfo", "">>, [got EXCEPT !.mem_used = host.mem], got)

\* get_disk_usage: `df /', which a hung mount or a timeout turns into 0.0
ReadDisk ==
  /\ At("disk", "filesystems") /\ UNCHANGED idx
  /\ Read(<<"df", "/">>, [got EXCEPT !.disk_used = host.used["/"]], got)

\* get_filesystems: a second `df', of every mount; one that fails lists some or
\* none.  Without /proc/mounts no mount is known to be read-only or of no
\* interest, and every row is kept.
ReadFilesystems ==
  /\ At("filesystems", "load") /\ UNCHANGED idx
  /\ \E failed \in SUBSET {<<"df", "">>, <<"/proc/mounts", "">>} :
       LET kept == IF <<"/proc/mounts", "">> \in failed THEN Mounts ELSE Reported
       IN  \E listed \in (IF <<"df", "">> \in failed THEN SUBSET kept ELSE {kept}) :
             /\ got' = [got EXCEPT !.filesystems = FilesystemList(host, listed)]
             /\ blind' = blind \cup failed /\ Cardinality(blind') <= MaxBlind

\* get_load_average falls back from /proc/loadavg to getloadavg()
ReadLoad ==
  /\ At("load", "identity") /\ UNCHANGED <<idx, blind>>
  /\ got' = [got EXCEPT !.load1 = host.load1]

\* get_system_identity reads os-release unguarded: without one the process dies
Identity ==
  /\ pc = "identity"
  /\ pc' = IF OsRelease THEN "services" ELSE "crashed"
  /\ UNCHANGED <<host, idx, got, analysis, blind, history>>

\* get_service_statuses, one `systemctl show' per configured service
CheckService ==
  /\ HasServices /\ idx \in DOMAIN ServiceList
  /\ At("services", "services") /\ idx' = idx + 1
  /\ LET s == ServiceList[idx]
         Entry(status) == [service |-> s, status |-> status]
     IN  Read(<<"systemctl show", s>>,
              [got EXCEPT !.services = @ \cup {Entry(ServiceStatus(host.unit[s]))}],
              [got EXCEPT !.services = @ \cup {Entry("unknown")}])

ServicesDone ==
  /\ HasServices => idx \notin DOMAIN ServiceList
  /\ At("services", "failed") /\ idx' = 1 /\ UNCHANGED <<got, blind>>

\* get_failed_services: `systemctl --failed'
ReadFailedUnits ==
  /\ At("failed", "journal") /\ UNCHANGED idx
  /\ IF HasFailedUnits
     THEN Read(<<"systemctl --failed", "">>,
               [got EXCEPT !.failed_services = FailedUnits(host)], got)
     ELSE UNCHANGED <<got, blind>>

ReadJournal ==
  /\ At("journal", "clock") /\ UNCHANGED idx
  /\ Read(<<"journalctl", "">>, [got EXCEPT !.journal_units = host.journal], got)

\* get_time_sync: only a positive "not synchronized" counts
ReadClock ==
  /\ At("clock", "vip") /\ UNCHANGED idx
  /\ Read(<<"timedatectl", "">>, [got EXCEPT !.time_desynchronized = ~host.clock], got)

\* get_vip_status lists every configured address, held or not, unless `ip' fails
ReadVip ==
  /\ At("vip", "reboot") /\ UNCHANGED idx
  /\ Read(<<"ip addr", "vip">>, [got EXCEPT !.vip = Vips], got)

\* get_reboot_required: the flag file cannot fail on Debian.  dnf can, and its
\* exit code 1 for an error is also the one that asks for a reboot.
ReadReboot ==
  /\ At("reboot", "endpoints") /\ UNCHANGED idx
  /\ LET read == [got EXCEPT !.reboot_required = host.reboot]
     IN IF OsFamily = "debian" THEN got' = read /\ UNCHANGED blind
        ELSE \E guess \in BOOLEAN :
               Read(<<"dnf", "">>, read, [got EXCEPT !.reboot_required = guess])

\* Mutated: an endpoint that does not answer is tried again.
CheckEndpoint_Retries ==
  /\ idx \in DOMAIN EndpointList
  /\ At("endpoints", "endpoints") /\ UNCHANGED blind
  /\ LET n == EndpointList[idx]
     IN  /\ idx' = IF Answers(host, n) THEN idx + 1 ELSE idx
         /\ got' = [got EXCEPT !.app_checks =
                     @ \cup {[name |-> n, success |-> Answers(host, n)]}]

\* get_app_checks: a GET that fails for whatever reason is an unsuccessful check
CheckEndpoint ==
  /\ idx \in DOMAIN EndpointList
  /\ At("endpoints", "endpoints") /\ idx' = idx + 1 /\ UNCHANGED blind
  /\ LET n == EndpointList[idx]
     IN  got' = [got EXCEPT !.app_checks =
                  @ \cup {[name |-> n, success |-> Answers(host, n)]}]

EndpointsDone ==
  /\ idx \notin DOMAIN EndpointList
  /\ At("endpoints", "analyse") /\ UNCHANGED <<idx, got, blind>>

\* self_hosts: the addresses of this moment and the VIPs as read earlier
SelfHosts(addresses) == IF addresses = {} THEN {} ELSE addresses \cup got.vip

Context(selfHosts) ==
  [cpu |-> got.cpu, mem_used |-> got.mem_used, disk_used |-> got.disk_used,
   load1 |-> got.load1, filesystems |-> got.filesystems, iowait |-> got.iowait,
   swapping |-> got.swapping, journal_units |-> got.journal_units,
   failed_services |-> got.failed_services, services |-> got.services,
   app_checks |-> got.app_checks, self_hosts |-> selfHosts,
   time_desynchronized |-> got.time_desynchronized,
   reboot_required |-> got.reboot_required]

Judge(selfHosts) ==
  LET ctx == Context(selfHosts)
  IN  [status |-> HealthStatus(ctx), alerts |-> Alerts(ctx),
       diagnosis |-> Diagnosis(ctx), actions |-> Actions(ctx)]

\* run_health_analysis: `ip addr' is read again, but only if there are endpoints
Analyse ==
  /\ pc = "analyse" /\ pc' = "done"
  /\ \/ /\ analysis' = Judge(IF Endpoints = {} THEN {} ELSE SelfHosts(HostAddresses(host)))
        /\ UNCHANGED blind
     \/ /\ CanFail /\ Endpoints # {}
        /\ analysis' = Judge({})
        /\ blind' = blind \cup {<<"ip addr", "self">>}
  /\ UNCHANGED <<host, idx, got, history>>

-----------------------------------------------------------------------------
(* The host changes under the run, one facet at a time. *)

Becomes(h) ==
  /\ changes < MaxChanges /\ changes' = changes + 1
  /\ h # host /\ host' = h
  /\ IF Running THEN ever' = ever \cup Faults(h) /\ always' = always \cap Faults(h)
                ELSE UNCHANGED <<ever, always>>
  /\ UNCHANGED <<pc, idx, got, analysis, blind>>

HostLoad ==
  \/ \E p \in Percent : Becomes([host EXCEPT !.cpu = p]) \/ Becomes([host EXCEPT !.mem = p])
  \/ \E m \in Mounts, p \in Percent : Becomes([host EXCEPT !.used[m] = p])
  \/ \E i \in Iowaits : Becomes([host EXCEPT !.iowait = i])
  \/ \E l \in Loads : Becomes([host EXCEPT !.load1 = l])
  \/ Becomes([host EXCEPT !.swapping = ~@])

HostUnits == \E u \in Units, s \in UnitStates : Becomes([host EXCEPT !.unit[u] = s])

HostPosture ==
  \/ Becomes([host EXCEPT !.clock = ~@])
  \/ Becomes([host EXCEPT !.reboot = ~@])
  \/ \E J \in SUBSET JournalUnits : Becomes([host EXCEPT !.journal = J])

\* an endpoint comes or goes, a failover moves a virtual address
HostNetwork ==
  \/ \E n \in Endpoints \ Urlless : Becomes([host EXCEPT !.up[n] = ~@])
  \/ \E V \in SUBSET Vips : Becomes([host EXCEPT !.holds = V])

Collect ==
  \/ ReadCpu \/ ReadMemory \/ ReadDisk \/ ReadFilesystems \/ ReadLoad
  \/ Identity \/ CheckService \/ ServicesDone \/ ReadFailedUnits
  \/ ReadJournal \/ ReadClock \/ ReadVip \/ ReadReboot
  \/ CheckEndpoint \/ EndpointsDone

HostStep == HostLoad \/ HostUnits \/ HostPosture \/ HostNetwork

Init ==
  /\ host \in StartHosts
  /\ pc = "idle" /\ idx = 1 /\ got = NothingRead /\ analysis = NoAnalysis
  /\ blind = {} /\ ever = {} /\ always = {} /\ changes = 0

Next == Begin \/ Collect \/ Analyse \/ HostStep

Spec == Init /\ [][Next]_vars

\* A run always gets on: every collector returns, by itself or at its timeout.
Fairness == WF_vars(Collect \/ Analyse)
FairSpec == Spec /\ Fairness

-----------------------------------------------------------------------------
(* What a run may be held to. *)

Sources(collector, subjects) == {<<collector, x>> : x \in subjects}

AnswersForHost(n) == IsOwnEndpoint(n, OwnAddrs)

\* The reads each of which alone would show a fault to this run, by the
\* documentation; {} for what the monitor does not watch on this host.  Root is
\* watched twice.  A virtual address is this host's because `ip' could be read
\* for the configured ones.
Watchers(fault) ==
  LET x == fault[2]
  IN CASE fault[1] \in {"over", "critical"} ->
            CASE x = "cpu" -> {<<"/proc/stat", "">>}
              [] x = "mem" -> {<<"/proc/meminfo", "">>}
              [] OTHER -> When(x = "/", {<<"df", "/">>}) \cup When(x \in Reported, {<<"df", "">>})
       [] fault[1] = "service" -> When(HasServices, {<<"systemctl show", x>>})
       [] fault[1] = "failed" ->
            When(HasFailedUnits /\ x # SelfUnit, {<<"systemctl --failed", "">>})
       [] fault[1] = "clock" -> {<<"timedatectl", "">>}
       [] fault[1] = "endpoint" ->
            IF Critical # {} THEN When(x \in Critical, {<<"GET", x>>})
            ELSE When(AnswersForHost(x), {<<"GET", x>>})
                   \cup When(UrlHost[x] \in Vips, {<<"ip addr", "vip">>})

\* With its own addresses unreadable the host answers for every endpoint.
FallsBack == Critical = {} /\ <<"ip addr", "self">> \in blind

\* With /proc/mounts unreadable it answers for the mounts it would leave out.
KeepsEveryMount == <<"/proc/mounts", "">> \in blind

Blamable(fault) ==
  \/ Watchers(fault) # {}
  \/ fault[1] = "endpoint" /\ FallsBack
  \/ fault[1] \in {"over", "critical"} /\ fault[2] \in Mounts /\ KeepsEveryMount
Hidden(fault) == Watchers(fault) \subseteq blind

SevereFaults == {<<"critical", g>> : g \in Gauges}

Seen == {f \in ever : Blamable(f)}
Steady == {f \in always : ~Hidden(f)}

Contract == INSTANCE RunContract
              WITH Severe <- SevereFaults, seen <- Seen, steady <- Steady,
                   verdict <- analysis.status

-----------------------------------------------------------------------------
(* Properties. *)

\* What get_service_status says of a unit; "unknown" is one it could not read
ServiceStates == ActiveStates \cup {"not-installed", "masked", "unknown"}

Gots ==
  [cpu : Percent, iowait : Nat, swapping : BOOLEAN, mem_used : Percent,
   disk_used : Percent, filesystems : SUBSET [mount : Mounts, used : Percent],
   load1 : Nat, services : SUBSET [service : Services, status : ServiceStates],
   failed_services : SUBSET Units, journal_units : SUBSET JournalUnits,
   time_desynchronized : BOOLEAN, vip : SUBSET Vips, reboot_required : BOOLEAN,
   app_checks : SUBSET [name : Endpoints, success : BOOLEAN]]

\* Type correctness of the run and of the host (the findings are sets of pairs).
TypeOK ==
  /\ host \in Hosts
  /\ pc \in {"idle", "cpu", "memory", "disk", "filesystems", "load", "identity",
             "services", "failed", "journal", "clock", "vip", "reboot", "endpoints",
             "analyse", "done", "crashed"}
  /\ idx \in Nat \ {0}
  /\ got \in Gots
  /\ DOMAIN analysis = {"status", "alerts", "diagnosis", "actions"}
  /\ analysis.status \in Verdicts \cup {"none"}
  /\ (analysis.status # "none") = (pc = "done")
  /\ always \subseteq ever
  /\ changes \in 0..MaxChanges

\* Degrade, never invent a finding: a verdict other than HEALTHY is owed to a
\* fault this host answers for and really had at some time in the run, CRITICAL
\* to one that crossed a critical limit, however the reads and the changes of the
\* host interleave and whichever reads fail.
NoInventedFault == pc = "done" => Contract!Supported(analysis.status, Seen)

\* A fault that lasts through the whole run reaches the verdict unless every
\* read that could show it failed: moving under the monitor hides nothing that
\* stayed, and root is still caught when one of its two reads fails.
NoMissedFault == pc = "done" => Contract!Covers(analysis.status, Steady)

\* Status, diagnosis and actions of one report agree: an unhealthy host is never
\* diagnosed with "No issues detected", and it is left without an action only
\* when an endpoint that has no URL to retry is among what is wrong.
Coherent ==
  pc = "done" /\ OrderedThresholds /\ analysis.status # "HEALTHY" =>
    /\ analysis.diagnosis # NoIssues
    /\ analysis.actions # {} \/ \E n \in Urlless : <<"endpoint", n>> \in analysis.alerts

\* Swapping is told and nothing is suggested; an empty URL cannot be retried.
Commandless == {<<"swap", "">>} \cup {<<"endpoint", n>> : n \in Urlless}

\* root's second `df' may say less than its first: it failed, it does not list
\* root, or root was not over the limit throughout the run
RootReadsDiffer ==
  \/ <<"over", "/">> \notin always
  \/ <<"df", "">> \in blind
  \/ "/" \notin Reported

\* Every alert is followed up: it has a note of its own in the diagnosis and a
\* command of its own among the actions, however many other things are wrong.
\* Only root's alert, read apart from the list, may be left to the note of
\* another disk, and that only where its two reads differ.
AlertsFollowedUp ==
  pc = "done" /\ OrderedThresholds =>
    \A alert \in analysis.alerts :
      \/ /\ alert \in analysis.diagnosis
         /\ alert \in analysis.actions \cup Commandless
      \/ /\ alert = <<"disk", "/">> /\ RootReadsDiffer
         /\ \E m \in Mounts : <<"disk", m>> \in analysis.diagnosis

\* The one way an unhealthy host comes without an alert: root was below the limit
\* in the first `df' and above it in the second.
AlertsMissRootOnly ==
  pc = "done" /\ OrderedThresholds /\ analysis.status # "HEALTHY" /\ analysis.alerts = {} =>
    /\ <<"over", "/">> \in ever
    /\ <<"over", "/">> \notin always \/ <<"df", "/">> \in blind

\* The run implements the contract.
ImplementsContract == Contract!Spec

\* A run that began comes to an end.
RunsEnd == Running ~> ~Running

-----------------------------------------------------------------------------
(* What the repository says and the code does not keep; see the findings.       *)

\* tests/test_health_analysis.py, test_status_and_diagnosis_never_disagree: a
\* status other than HEALTHY comes with a diagnosis and with an alert.
UnhealthyIsAlerted ==
  pc = "done" /\ analysis.status # "HEALTHY" =>
    analysis.diagnosis # NoIssues /\ analysis.alerts # {}

\* systemd/README.md: "The VIP is scored on every node deliberately, whoever
\* holds it", so a virtual address that never answered is never HEALTHY.
VipScoredEverywhere ==
  \A n \in Endpoints :
    pc = "done" /\ Critical = {} /\ UrlHost[n] \in Vips /\ <<"endpoint", n>> \in always
      => analysis.status # "HEALTHY"

\* README.md: "Every optional feature degrades rather than failing", and
\* systemd/README.md: "every collector degrades rather than failing", so that no
\* run ends in a traceback.
EveryRunReports == pc # "crashed"
=============================================================================
