--------------------------- MODULE HealthAnalysis ---------------------------
(* The verdict of agent/health_analysis.py as pure operators: what one         *)
(* analysis context `ctx' (run_health_analysis in agent/monitor.py) makes of    *)
(* the host.  The report's wording is abstracted to <<kind, subject>> pairs:    *)
(* a finding is about a metric, a mount, a service, a unit or an endpoint, and  *)
(* the order of the findings is layout.  Percentages are naturals.              *)
EXTENDS Integers

CONSTANTS
  Setting,         \* HEALTH_{CPU,MEM,DISK}_{WARN,CRIT}: Unset or a percentage
  Critical,        \* the endpoint names of HEALTH_APP_CRITICAL, {} when unset
  Loopback,        \* LOOPBACK_HOSTS
  UrlHost,         \* endpoint name -> the host its URL names, NoHost for none
  Urlless,         \* endpoints of an empty URL, which only the JSON form allows
  Env              \* detect_environment(): "Linux", "WSL2", "Docker", "CI", ...

Metrics == {"cpu", "mem", "disk"}
Levels == {"warn", "crit"}
Unset == -1
NoHost == ""

ASSUME SettingAssumption == Setting \in [Metrics -> [Levels -> Nat \cup {Unset}]]
ASSUME UrlAssumption == Urlless \subseteq {n \in DOMAIN UrlHost : UrlHost[n] = NoHost}

-----------------------------------------------------------------------------
(* Thresholds. *)

IOWAIT_WARN == 10

Default(metric, level) ==
  IF metric = "disk" THEN (IF level = "warn" THEN 80 ELSE 90)
                     ELSE (IF level = "warn" THEN 70 ELSE 85)

\* An absent or unparseable variable leaves the default; each is read alone, so
\* nothing relates the warning limit to the critical one.
Threshold(metric, level) ==
  IF Setting[metric][level] = Unset THEN Default(metric, level)
                                    ELSE Setting[metric][level]

Over(value, metric) == value > Threshold(metric, "warn")
Crit(value, metric) == value > Threshold(metric, "crit")

\* The usual configuration: crossing the critical limit also crosses the warning one.
OrderedThresholds ==
  \A m \in Metrics : Threshold(m, "warn") <= Threshold(m, "crit")

-----------------------------------------------------------------------------
(* Helpers shared by the four generators. *)

DiskReadings(ctx) == {ctx.disk_used} \cup {fs.used : fs \in ctx.filesystems}

\* Mutated: only root is compared.
WorstDiskAbove_RootOnly(ctx, limit) == ctx.disk_used > limit

\* _worst_disk(ctx) > limit, without naming the maximum
WorstDiskAbove(ctx, limit) == \E used \in DiskReadings(ctx) : used > limit

HEALTHY_SERVICE_STATES == {"active", "reloading"}
TRANSIENT_SERVICE_STATES == {"activating", "deactivating", "unknown"}
MISCONFIGURED_SERVICE_STATES == {"not-installed", "masked"}

\* Mutated: a unit that was never installed is not one the host misses.
Missing_MaskedOnly(ctx) == {s \in ctx.services : s.status = "masked"}

Missing(ctx) ==
  {s \in ctx.services : s.status \in MISCONFIGURED_SERVICE_STATES}

Stopped(ctx) ==
  {s \in ctx.services : s.status \notin MISCONFIGURED_SERVICE_STATES
                          \cup HEALTHY_SERVICE_STATES \cup TRANSIENT_SERVICE_STATES}

\* an endpoint whose URL names no host is nobody's
IsOwnEndpoint(name, selfHosts) ==
  UrlHost[name] # NoHost /\ UrlHost[name] \in Loopback \cup selfHosts

\* Mutated: an explicit list is ignored, or widens the default instead of replacing it.
Scored_IgnoresList(name, selfHosts) == selfHosts # {} => IsOwnEndpoint(name, selfHosts)
Scored_Widened(name, selfHosts) == name \in Critical \/ Scored_IgnoresList(name, selfHosts)

\* An explicit HEALTH_APP_CRITICAL wins; otherwise this host's own endpoints,
\* or every endpoint when the addresses could not be read.
Scored(name, selfHosts) ==
  IF Critical # {} THEN name \in Critical
  ELSE selfHosts # {} => IsOwnEndpoint(name, selfHosts)

EndpointFailures(ctx) ==
  {c.name : c \in {k \in ctx.app_checks :
                     ~k.success /\ Scored(k.name, ctx.self_hosts)}}

-----------------------------------------------------------------------------
(* generate_health_status *)

\* Mutated: the disks are held to the warning limit.
ResourceCritical_DiskWarn(ctx) ==
  \/ Crit(ctx.cpu, "cpu")
  \/ Crit(ctx.mem_used, "mem")
  \/ WorstDiskAbove(ctx, Threshold("disk", "warn"))

ResourceCritical(ctx) ==
  \/ Crit(ctx.cpu, "cpu")
  \/ Crit(ctx.mem_used, "mem")
  \/ WorstDiskAbove(ctx, Threshold("disk", "crit"))

ResourceWarning(ctx) ==
  \/ Over(ctx.cpu, "cpu")
  \/ Over(ctx.mem_used, "mem")
  \/ WorstDiskAbove(ctx, Threshold("disk", "warn"))

PostureWarning(ctx) ==
  \/ ctx.failed_services # {}
  \/ ctx.time_desynchronized
  \/ Stopped(ctx) \cup Missing(ctx) # {}
  \/ EndpointFailures(ctx) # {}

HealthStatus(ctx) ==
  IF ResourceCritical(ctx) THEN "CRITICAL"
  ELSE IF ResourceWarning(ctx) \/ PostureWarning(ctx) THEN "WARNING"
  ELSE "HEALTHY"

Verdicts == {"HEALTHY", "WARNING", "CRITICAL"}

-----------------------------------------------------------------------------
(* generate_alerts, generate_diagnostics, generate_recommendations *)

When(condition, findings) == IF condition THEN findings ELSE {}

\* Mutated: a filesystem is named only once it is critical.
FullFilesystems_Critical(ctx) ==
  {fs.mount : fs \in {f \in ctx.filesystems : Crit(f.used, "disk")}}

FullFilesystems(ctx) ==
  {fs.mount : fs \in {f \in ctx.filesystems : Over(f.used, "disk")}}

IOBound(ctx) == ctx.iowait > IOWAIT_WARN

\* Mutated: the findings forget the failed units the status counts.
PostureFindings_NoUnits(ctx) ==
  {<<"stopped", s.service>> : s \in Stopped(ctx)}
    \cup {<<"missing", s.service>> : s \in Missing(ctx)}
    \cup {<<"endpoint", n>> : n \in EndpointFailures(ctx)}
    \cup When(ctx.time_desynchronized, {<<"clock", "">>})
    \cup When(ctx.journal_units # {}, {<<"journal", "">>})
    \cup When(ctx.reboot_required, {<<"reboot", "">>})

\* What alerts and diagnosis say alike of the host's posture
PostureFindings(ctx) ==
  When(ctx.failed_services # {}, {<<"failed", "units">>})
    \cup {<<"stopped", s.service>> : s \in Stopped(ctx)}
    \cup {<<"missing", s.service>> : s \in Missing(ctx)}
    \cup {<<"endpoint", n>> : n \in EndpointFailures(ctx)}
    \cup When(ctx.time_desynchronized, {<<"clock", "">>})
    \cup When(ctx.journal_units # {}, {<<"journal", "">>})
    \cup When(ctx.reboot_required, {<<"reboot", "">>})

\* root's alert reads the single-filesystem df, never the list
Alerts(ctx) ==
  When(Over(ctx.cpu, "cpu"), {<<"cpu", "">>})
    \cup When(Over(ctx.mem_used, "mem"), {<<"mem", "">>})
    \cup When(Over(ctx.disk_used, "disk"), {<<"disk", "/">>})
    \cup {<<"disk", m>> : m \in FullFilesystems(ctx) \ {"/"}}
    \cup When(IOBound(ctx), {<<"iowait", "">>})
    \cup When(ctx.swapping, {<<"swap", "">>})
    \cup PostureFindings(ctx)

NoIssues == {<<"No issues detected", "">>}

Notes(ctx) ==
  When(IOBound(ctx), {<<"iowait", "">>})
    \cup When(~IOBound(ctx) /\ ctx.load1 > 0 /\ ctx.load1 > ctx.cpu, {<<"load", "">>})
    \cup When(ctx.swapping, {<<"swap", "">>})
    \cup When(Over(ctx.cpu, "cpu"), {<<"cpu", "">>})
    \cup {<<"disk", m>> : m \in FullFilesystems(ctx)}
    \cup When(FullFilesystems(ctx) = {} /\ Over(ctx.disk_used, "disk"), {<<"disk", "/">>})
    \cup When(Over(ctx.mem_used, "mem"), {<<"mem", "">>})
    \cup PostureFindings(ctx)

Diagnosis(ctx) == IF Notes(ctx) = {} THEN NoIssues ELSE Notes(ctx)

\* Mutated: the filesystems, like root, only when nothing else was named.
ResourceActions_First(ctx) ==
  LET named == When(Over(ctx.cpu, "cpu"), {<<"cpu", "">>})
                 \cup When(Over(ctx.mem_used, "mem"), {<<"mem", "">>})
  IN  named \cup When(named = {}, {<<"disk", m>> : m \in FullFilesystems(ctx)})

ResourceActions(ctx) ==
  LET named == When(Over(ctx.cpu, "cpu"), {<<"cpu", "">>})
                 \cup When(Over(ctx.mem_used, "mem"), {<<"mem", "">>})
                 \cup {<<"disk", m>> : m \in FullFilesystems(ctx)}
  IN  named \cup When(named = {} /\ Over(ctx.disk_used, "disk"), {<<"disk", "/">>})

\* by_unit keeps "kernel" for entries of no unit, which has no journal of its own
UnitJournals(ctx) == {<<"unit journal", u>> : u \in ctx.journal_units \ {"kernel"}}

\* Mutated: a unit that was never installed gets no command.
PostureActions_NoMissing(ctx) ==
  PostureFindings(ctx) \ {<<"missing", s.service>> : s \in Missing(ctx)}

\* a command for each finding, but for an endpoint there is no URL to retry
PostureActions(ctx) == PostureFindings(ctx) \ {<<"endpoint", n>> : n \in Urlless}

SpecificActions(ctx) ==
  ResourceActions(ctx)
    \cup When(IOBound(ctx), {<<"iowait", "">>})
    \cup PostureActions(ctx) \cup UnitJournals(ctx)

\* the generic hint: only beside other actions, and only where no unit was named
Actions(ctx) ==
  SpecificActions(ctx)
    \cup When(/\ SpecificActions(ctx) # {}
              /\ UnitJournals(ctx) = {}
              /\ Env \notin {"Docker", "CI", "GitHub Actions"},
              {<<"service journal", "">>})
=============================================================================
