----------------------- MODULE MonitorCoherenceProofs ------------------------
(* The four generators of one report agree as long as each warning limit is at  *)
(* most its critical limit: an unhealthy status has a diagnosis and an action,  *)
(* and every alert is followed up.                                              *)
EXTENDS MonitorCoverageProofs

\* With ordered limits, critical is also over.
LEMMA CriticalIsOver ==
  ASSUME OrderedThresholds, NEW m \in Metrics, NEW value \in Nat, Crit(value, m)
  PROVE  Over(value, m)
<1>1. Threshold(m, "warn") <= Threshold(m, "crit")
  BY DEF OrderedThresholds
<1>2. Threshold(m, "warn") \in Nat /\ Threshold(m, "crit") \in Nat
  BY ThresholdType DEF Levels
<1> QED BY <1>1, <1>2 DEF Crit, Over

\* A note of the diagnosis is never the sentence that stands for none.
LEMMA NotesAreIssues ==
  ASSUME NEW ctx, Notes(ctx) # {}
  PROVE  Diagnosis(ctx) # NoIssues
<1>1. <<"No issues detected", "">> \notin PostureFindings(ctx)
  BY DEF PostureFindings, When
<1>2. <<"No issues detected", "">> \notin Notes(ctx)
  BY <1>1 DEF Notes, When
<1> QED BY <1>2 DEF Diagnosis, NoIssues

\* What is over a limit is noted and acted upon.
LEMMA OverIsNamed ==
  ASSUME NEW ctx,
         \/ Over(ctx.cpu, "cpu") \/ Over(ctx.mem_used, "mem")
         \/ Over(ctx.disk_used, "disk") \/ FullFilesystems(ctx) # {}
  PROVE  Notes(ctx) # {} /\ ResourceActions(ctx) # {}
<1>1. Notes(ctx) # {}
  BY DEF Notes, When
<1>2. ResourceActions(ctx) # {}
  BY DEF ResourceActions, When
<1> QED BY <1>1, <1>2

LEMMA ActionsCover ==
  ASSUME NEW ctx
  PROVE  /\ ResourceActions(ctx) \cup PostureActions(ctx) \subseteq Actions(ctx)
         /\ IOBound(ctx) => <<"iowait", "">> \in Actions(ctx)
<1>1. ResourceActions(ctx) \cup PostureActions(ctx) \subseteq SpecificActions(ctx)
  BY DEF SpecificActions
<1>2. IOBound(ctx) => <<"iowait", "">> \in SpecificActions(ctx)
  BY DEF SpecificActions, When
<1> QED BY <1>1, <1>2 DEF Actions

\* A finding of the host's posture is noted and alerted, and acted upon unless it
\* is an endpoint without a URL.
LEMMA PostureIsNamed ==
  ASSUME NEW ctx
  PROVE  /\ PostureFindings(ctx) \subseteq Notes(ctx) /\ PostureFindings(ctx) \subseteq Alerts(ctx)
         /\ PostureFindings(ctx) \subseteq Actions(ctx) \cup {<<"endpoint", n>> : n \in Urlless}
         /\ PostureWarning(ctx) => PostureFindings(ctx) # {}
<1>1. PostureFindings(ctx) \subseteq Notes(ctx)
  BY DEF Notes
<1>2. PostureFindings(ctx) \subseteq Alerts(ctx)
  BY DEF Alerts
<1>3. PostureFindings(ctx) \subseteq Actions(ctx) \cup {<<"endpoint", n>> : n \in Urlless}
  BY ActionsCover DEF PostureActions
<1>4. PostureWarning(ctx) => PostureFindings(ctx) # {}
  BY DEF PostureWarning, PostureFindings, When
<1> QED BY <1>1, <1>2, <1>3, <1>4

\* A reading above a limit of the disks is root's or a file system's.
LEMMA WorstDiskIsNamed ==
  ASSUME NEW ctx, WorstDiskAbove(ctx, Threshold("disk", "warn"))
  PROVE  Over(ctx.disk_used, "disk") \/ FullFilesystems(ctx) # {}
BY DEF WorstDiskAbove, DiskReadings, FullFilesystems, Over

\* The readings a context holds are numbers.
LEMMA ContextType ==
  ASSUME TypeOK, NEW S
  PROVE  /\ Context(S).cpu \in Nat /\ Context(S).mem_used \in Nat
         /\ \A used \in DiskReadings(Context(S)) : used \in Nat
<1>1. /\ got.cpu \in Percent /\ got.mem_used \in Percent /\ got.disk_used \in Percent
      /\ \A fs \in got.filesystems : fs.used \in Percent
  BY DEF TypeOK, Gots
<1>2. \A p \in Percent : p \in Nat
  BY PercentAssumption
<1>3. \A used \in DiskReadings(Context(S)) : used \in Percent
  BY <1>1 DEF Context, DiskReadings
<1> QED BY <1>1, <1>2, <1>3 DEF Context

\* With ordered limits, a critical resource is one to warn of.
LEMMA CriticalIsWarning ==
  ASSUME TypeOK, OrderedThresholds, NEW S, ResourceCritical(Context(S))
  PROVE  ResourceWarning(Context(S))
<1> DEFINE ctx == Context(S)
<1>1. ctx.cpu \in Nat /\ ctx.mem_used \in Nat /\ \A used \in DiskReadings(ctx) : used \in Nat
  BY ContextType
<1>2. ResourceCritical(ctx)
  OBVIOUS
<1> HIDE DEF ctx
<1>3. ASSUME Crit(ctx.cpu, "cpu") PROVE ResourceWarning(ctx)
  BY <1>1, <1>3, CriticalIsOver DEF ResourceWarning, Metrics
<1>4. ASSUME Crit(ctx.mem_used, "mem") PROVE ResourceWarning(ctx)
  BY <1>1, <1>4, CriticalIsOver DEF ResourceWarning, Metrics
<1>5. ASSUME WorstDiskAbove(ctx, Threshold("disk", "crit")) PROVE ResourceWarning(ctx)
  <2>1. PICK used \in DiskReadings(ctx) : Crit(used, "disk")
    BY <1>5 DEF WorstDiskAbove, Crit
  <2>2. Over(used, "disk")
    BY <1>1, <2>1, CriticalIsOver DEF Metrics
  <2> QED BY <2>2 DEF ResourceWarning, WorstDiskAbove, Over
<1>6. ResourceWarning(ctx)
  BY <1>2, <1>3, <1>4, <1>5 DEF ResourceCritical
<1> QED BY <1>6 DEF ctx

LEMMA StatusIsNamed ==
  ASSUME TypeOK, OrderedThresholds, NEW S, HealthStatus(Context(S)) # "HEALTHY"
  PROVE  /\ Notes(Context(S)) # {}
         /\ Actions(Context(S)) # {} \/ \E n \in Urlless : <<"endpoint", n>> \in Alerts(Context(S))
<1> DEFINE ctx == Context(S)
<1>1. ResourceCritical(ctx) \/ ResourceWarning(ctx) \/ PostureWarning(ctx)
  BY DEF HealthStatus
<1>2. ResourceCritical(ctx) => ResourceWarning(ctx)
  BY CriticalIsWarning
<1> HIDE DEF ctx
<1>3. ResourceWarning(ctx) => Notes(ctx) # {} /\ ResourceActions(ctx) # {}
  BY OverIsNamed, WorstDiskIsNamed DEF ResourceWarning
<1>4. CASE ResourceWarning(ctx)
  BY <1>3, <1>4, ActionsCover DEF ctx
<1>5. CASE PostureWarning(ctx)
  <2>1. PICK f \in PostureFindings(ctx) : TRUE
    BY <1>5, PostureIsNamed
  <2>2. f \in Notes(ctx) /\ f \in Alerts(ctx)
    BY <2>1, PostureIsNamed
  <2>3. f \in Actions(ctx) \/ \E n \in Urlless : f = <<"endpoint", n>>
    BY <2>1, PostureIsNamed
  <2> QED BY <2>2, <2>3 DEF ctx
<1> QED BY <1>1, <1>2, <1>4, <1>5

CoherentInv == TypeOK /\ (pc = "done" => \E S : analysis = Judge(S))

LEMMA CoherentNext == CoherentInv /\ [Next]_vars => CoherentInv'
<1> SUFFICES ASSUME CoherentInv, [Next]_vars
             PROVE  pc' = "done" => (\E S : analysis = Judge(S))'
  BY TypeNext DEF CoherentInv
<1>1. CASE Begin
  BY <1>1 DEF Begin
<1>2. CASE Collect
  BY <1>2, CollectFrame
<1>3. CASE Analyse
  <2>1. PICK S : analysis' = Judge(S) /\ got' = got
    BY <1>3 DEF Analyse
  <2> QED BY <2>1 DEF Judge, Context
<1>4. CASE HostStep
  <2>1. UNCHANGED <<pc, got, analysis>>
    BY <1>4, HostStepType DEF CoherentInv, TypeOK
  <2> QED BY <2>1 DEF CoherentInv, Judge, Context
<1>5. CASE UNCHANGED vars
  BY <1>5 DEF vars, CoherentInv, Judge, Context
<1> QED BY <1>1, <1>2, <1>3, <1>4, <1>5 DEF Next

LEMMA CoherentHolds == CoherentInv => Coherent
<1> SUFFICES ASSUME CoherentInv, pc = "done", OrderedThresholds
             PROVE  analysis.status # "HEALTHY" =>
                      /\ analysis.diagnosis # NoIssues
                      /\ analysis.actions # {} \/ \E n \in Urlless : <<"endpoint", n>> \in analysis.alerts
  BY DEF Coherent
<1>1. PICK S : analysis = Judge(S)
  BY DEF CoherentInv
<1> DEFINE ctx == Context(S)
<1>2. /\ analysis.status = HealthStatus(ctx) /\ analysis.alerts = Alerts(ctx)
      /\ analysis.diagnosis = Diagnosis(ctx) /\ analysis.actions = Actions(ctx)
  BY <1>1 DEF Judge
<1> QED BY <1>2, StatusIsNamed, NotesAreIssues DEF CoherentInv

\* Status, diagnosis and actions of one report agree, for every configuration
\* whose critical limits are at least its warning limits: only an endpoint without
\* a URL can leave an unhealthy host without a command.
THEOREM ReportsCohere == Spec => []Coherent
<1>1. Init => CoherentInv
  BY TypeInit DEF Init, CoherentInv
<1> QED BY <1>1, CoherentNext, CoherentHolds, PTL DEF Spec
-----------------------------------------------------------------------------
(* The report without an alert.  Alerts read root from the first `df' and every *)
(* other mount from the second; the status takes the worst of both.            *)

\* Without an alert nothing is full but, perhaps, root in the second `df'.
LEMMA NoAlertIsQuiet ==
  ASSUME NEW ctx, Alerts(ctx) = {}
  PROVE  /\ ~Over(ctx.cpu, "cpu") /\ ~Over(ctx.mem_used, "mem") /\ ~Over(ctx.disk_used, "disk")
         /\ FullFilesystems(ctx) \subseteq {"/"} /\ PostureFindings(ctx) = {}
<1>1. ~Over(ctx.cpu, "cpu") /\ ~Over(ctx.mem_used, "mem") /\ ~Over(ctx.disk_used, "disk")
  BY DEF Alerts, When
<1>2. FullFilesystems(ctx) \subseteq {"/"}
  BY DEF Alerts
<1>3. PostureFindings(ctx) = {}
  BY DEF Alerts
<1> QED BY <1>1, <1>2, <1>3

LEMMA UnalertedStatus ==
  ASSUME TypeOK, OrderedThresholds, NEW S,
         HealthStatus(Context(S)) # "HEALTHY", Alerts(Context(S)) = {}
  PROVE  /\ ~Over(got.disk_used, "disk")
         /\ \E fs \in got.filesystems : fs.mount = "/" /\ Over(fs.used, "disk")
<1> DEFINE ctx == Context(S)
<1>1. ResourceCritical(ctx) \/ ResourceWarning(ctx) \/ PostureWarning(ctx)
  BY DEF HealthStatus
<1>2. ResourceCritical(ctx) => ResourceWarning(ctx)
  BY CriticalIsWarning
<1>3. ctx.disk_used = got.disk_used /\ ctx.filesystems = got.filesystems
  BY DEF Context
<1>4. Alerts(ctx) = {}
  OBVIOUS
<1> HIDE DEF ctx
<1>5. /\ ~Over(ctx.cpu, "cpu") /\ ~Over(ctx.mem_used, "mem") /\ ~Over(ctx.disk_used, "disk")
      /\ FullFilesystems(ctx) \subseteq {"/"} /\ PostureFindings(ctx) = {}
  BY <1>4, NoAlertIsQuiet
<1>6. ResourceWarning(ctx)
  BY <1>1, <1>2, <1>5, PostureIsNamed
<1>7. FullFilesystems(ctx) # {}
  BY <1>5, <1>6, WorstDiskIsNamed DEF ResourceWarning
<1>8. PICK fs \in ctx.filesystems : fs.mount = "/" /\ Over(fs.used, "disk")
  BY <1>5, <1>7 DEF FullFilesystems
<1> QED BY <1>3, <1>5, <1>8

\* At the verdict: what the second `df' read was so, and the first, had it worked
\* and had it lasted, would have read it too.
LEMMA AnalyseUnalerted ==
  ASSUME TypeOK, Honest, Shown, Analyse
  PROVE  AlertsMissRootOnly'
<1> SUFFICES ASSUME OrderedThresholds, analysis'.status # "HEALTHY", analysis'.alerts = {}
             PROVE  /\ <<"over", "/">> \in ever'
                    /\ <<"over", "/">> \notin always' \/ <<"df", "/">> \in blind'
  BY DEF AlertsMissRootOnly
<1>1. /\ pc = "analyse" /\ UNCHANGED <<got, ever, always>> /\ blind \subseteq blind'
      /\ \E S : analysis' = Judge(S)
  BY DEF Analyse, history
<1>2. PICK S : analysis' = Judge(S)
  BY <1>1
<1>3. HealthStatus(Context(S)) # "HEALTHY" /\ Alerts(Context(S)) = {}
  BY <1>2 DEF Judge
<1>4. /\ ~Over(got.disk_used, "disk")
      /\ \E fs \in got.filesystems : fs.mount = "/" /\ Over(fs.used, "disk")
  BY <1>3, UnalertedStatus
<1>5. MetricOf("/") = "disk"
  BY GaugeMetric, MountAssumption
<1>6. <<"over", "/">> \in ever
  BY <1>4, <1>5 DEF Honest, ResourcesHonest, GaugeHonest, Exceeds
<1>7. ASSUME <<"over", "/">> \in always PROVE <<"df", "/">> \in blind
  <2>1. pc \in AfterDisk
    BY <1>1 DEF AfterDisk, AfterFilesystems, AfterServices, AfterFailed, AfterClock, AfterVip
  <2> SUFFICES ASSUME <<"df", "/">> \notin blind PROVE FALSE
    OBVIOUS
  <2>2. Over(got.disk_used, "disk") \/ Crit(got.disk_used, "disk")
    BY <1>5, <1>7, <2>1 DEF Shown, RootShown, GaugeShown, Exceeds
  <2>3. got.disk_used \in Nat
    BY PercentAssumption DEF TypeOK, Gots
  <2> QED BY <1>4, <2>2, <2>3, CriticalIsOver DEF Metrics
<1> QED BY <1>1, <1>6, <1>7

LEMMA UnalertedNext ==
  TypeOK /\ Honest /\ Shown /\ AlertsMissRootOnly /\ [Next]_vars => AlertsMissRootOnly'
<1> SUFFICES ASSUME TypeOK, Honest, Shown, AlertsMissRootOnly, [Next]_vars
             PROVE  AlertsMissRootOnly'
  OBVIOUS
<1>1. CASE Begin
  BY <1>1 DEF Begin, AlertsMissRootOnly
<1>2. CASE Collect
  BY <1>2, CollectFrame DEF AlertsMissRootOnly
<1>3. CASE Analyse
  BY <1>3, AnalyseUnalerted
<1>4. CASE HostStep
  <2>1. UNCHANGED <<pc, analysis, blind>> /\ (~Running => UNCHANGED <<ever, always>>)
    BY <1>4, HostStepType DEF TypeOK
  <2>2. pc = "done" => UNCHANGED <<ever, always>>
    BY <2>1 DEF Running
  <2> QED BY <2>1, <2>2 DEF AlertsMissRootOnly
<1>5. CASE UNCHANGED vars
  BY <1>5 DEF vars, AlertsMissRootOnly
<1> QED BY <1>1, <1>2, <1>3, <1>4, <1>5 DEF Next

\* The alerts leave out nothing but root, and root only when it changed between
\* the two `df' of the run or the first of them failed: for every configuration
\* with ordered limits.
THEOREM OnlyRootUnalerted == Spec => []AlertsMissRootOnly
<1>1. Init => AlertsMissRootOnly
  BY DEF Init, AlertsMissRootOnly
<1>2. HonestInv /\ ShownInv => TypeOK /\ Honest /\ Shown
  BY DEF HonestInv, ShownInv
<1> QED BY <1>1, <1>2, HonestInit, HonestNext, ShownInit, ShownNext, UnalertedNext, PTL DEF Spec
-----------------------------------------------------------------------------
(* The follow-up of each alert.  Only root's is in question: its alert is from  *)
(* the first `df', its note and its command, where anything else is wrong, from *)
(* the second.                                                                  *)

\* Every alert but root's is noted and, where a command exists, acted upon.
LEMMA OthersFollowedUp ==
  ASSUME NEW ctx, NEW a \in Alerts(ctx), a # <<"disk", "/">> \/ "/" \in FullFilesystems(ctx)
  PROVE  a \in Notes(ctx) /\ a \in Actions(ctx) \cup Commandless
<1>1. CASE a \in PostureFindings(ctx)
  BY <1>1, PostureIsNamed DEF Commandless
<1>2. CASE \E m \in FullFilesystems(ctx) : a = <<"disk", m>>
  <2>1. a \in Notes(ctx)
    BY <1>2 DEF Notes
  <2>2. a \in ResourceActions(ctx)
    BY <1>2 DEF ResourceActions
  <2> QED BY <2>1, <2>2, ActionsCover
<1>3. CASE \/ Over(ctx.cpu, "cpu") /\ a = <<"cpu", "">>
           \/ Over(ctx.mem_used, "mem") /\ a = <<"mem", "">>
  <2>1. a \in Notes(ctx)
    BY <1>3 DEF Notes, When
  <2>2. a \in ResourceActions(ctx)
    BY <1>3 DEF ResourceActions, When
  <2> QED BY <2>1, <2>2, ActionsCover
<1>4. CASE \/ IOBound(ctx) /\ a = <<"iowait", "">>
           \/ ctx.swapping /\ a = <<"swap", "">>
  <2>1. a \in Notes(ctx)
    BY <1>4 DEF Notes, When
  <2>2. a \in Actions(ctx) \cup Commandless
    BY <1>4, ActionsCover DEF Commandless
  <2> QED BY <2>1, <2>2
<1> QED BY <1>1, <1>2, <1>3, <1>4 DEF Alerts, When

\* Root's alert has a disk beside it in the diagnosis: itself or another.
LEMMA RootIsNoted ==
  ASSUME TypeOK, NEW S, <<"disk", "/">> \in Alerts(Context(S)),
         "/" \notin FullFilesystems(Context(S))
  PROVE  \E m \in Mounts : <<"disk", m>> \in Notes(Context(S))
<1>1. CASE FullFilesystems(Context(S)) = {}
  <2>1. <<"disk", "/">> \notin PostureFindings(Context(S))
    BY DEF PostureFindings, When
  <2>2. Over(Context(S).disk_used, "disk")
    BY <1>1, <2>1 DEF Alerts, When
  <2> QED BY <1>1, <2>2, MountAssumption DEF Notes, When
<1>2. CASE FullFilesystems(Context(S)) # {}
  <2>1. PICK m \in FullFilesystems(Context(S)) : TRUE
    BY <1>2
  <2>2. m \in Mounts
    BY <2>1 DEF FullFilesystems, Context, TypeOK, Gots
  <2> QED BY <2>1, <2>2 DEF Notes
<1> QED BY <1>1, <1>2

\* Where both reads of root worked and it was over the limit throughout, the
\* second lists it as full too.
LEMMA RootReadsAgree ==
  ASSUME TypeOK, Shown, pc = "analyse", OrderedThresholds, ~RootReadsDiffer, NEW S
  PROVE  "/" \in FullFilesystems(Context(S))
<1>1. pc \in AfterFilesystems
  BY DEF AfterFilesystems, AfterServices, AfterFailed, AfterClock, AfterVip
<1>2. <<"over", "/">> \in always /\ <<"df", "">> \notin blind /\ "/" \in Reported
  BY DEF RootReadsDiffer
<1>3. PICK fs \in got.filesystems : fs.mount = "/" /\ GaugeShown(fs.used, "/")
  BY <1>1, <1>2 DEF Shown, MountsShown
<1>4. fs.used \in Nat /\ MetricOf("/") = "disk"
  BY <1>3, PercentAssumption, GaugeMetric, MountAssumption DEF TypeOK, Gots
<1>5. Over(fs.used, "disk") \/ Crit(fs.used, "disk")
  BY <1>2, <1>3, <1>4 DEF GaugeShown, Exceeds
<1>6. Over(fs.used, "disk")
  BY <1>4, <1>5, CriticalIsOver DEF Metrics
<1> QED BY <1>3, <1>6 DEF FullFilesystems, Context

LEMMA AnalyseFollowsUp ==
  ASSUME TypeOK, Shown, Analyse
  PROVE  AlertsFollowedUp'
<1> SUFFICES ASSUME OrderedThresholds, NEW a \in analysis'.alerts
             PROVE  \/ a \in analysis'.diagnosis /\ a \in analysis'.actions \cup Commandless
                    \/ /\ a = <<"disk", "/">> /\ RootReadsDiffer'
                       /\ \E m \in Mounts : <<"disk", m>> \in analysis'.diagnosis
  BY DEF AlertsFollowedUp, Commandless
<1>1. /\ pc = "analyse" /\ UNCHANGED always /\ blind \subseteq blind'
      /\ \E S : analysis' = Judge(S)
  BY DEF Analyse, history
<1>2. PICK S : analysis' = Judge(S)
  BY <1>1
<1> DEFINE ctx == Context(S)
<1>3. /\ a \in Alerts(ctx) /\ analysis'.actions = Actions(ctx)
      /\ Notes(ctx) # {} => analysis'.diagnosis = Notes(ctx)
  BY <1>2 DEF Judge, Diagnosis
<1>4. RootReadsDiffer => RootReadsDiffer'
  BY <1>1 DEF RootReadsDiffer
<1>5. CASE a # <<"disk", "/">> \/ "/" \in FullFilesystems(ctx)
  BY <1>3, <1>5, OthersFollowedUp
<1>6. CASE a = <<"disk", "/">> /\ "/" \notin FullFilesystems(ctx)
  <2>1. RootReadsDiffer'
    BY <1>1, <1>4, <1>6, RootReadsAgree
  <2>2. \E m \in Mounts : <<"disk", m>> \in Notes(ctx)
    BY <1>3, <1>6, RootIsNoted
  <2> QED BY <1>3, <1>6, <2>1, <2>2
<1> QED BY <1>5, <1>6

LEMMA FollowedUpNext == TypeOK /\ Shown /\ AlertsFollowedUp /\ [Next]_vars => AlertsFollowedUp'
<1> SUFFICES ASSUME TypeOK, Shown, AlertsFollowedUp, [Next]_vars
             PROVE  AlertsFollowedUp'
  OBVIOUS
<1> USE DEF AlertsFollowedUp, RootReadsDiffer, Commandless
<1>1. CASE Begin
  BY <1>1 DEF Begin
<1>2. CASE Collect
  BY <1>2, CollectFrame
<1>3. CASE Analyse
  BY <1>3, AnalyseFollowsUp
<1>4. CASE HostStep
  <2>1. UNCHANGED <<pc, analysis, blind>> /\ (~Running => UNCHANGED <<ever, always>>)
    BY <1>4, HostStepType DEF TypeOK
  <2>2. pc = "done" => UNCHANGED <<ever, always>>
    BY <2>1 DEF Running
  <2> QED BY <2>1, <2>2
<1>5. CASE UNCHANGED vars
  BY <1>5 DEF vars
<1> QED BY <1>1, <1>2, <1>3, <1>4, <1>5 DEF Next

\* Every alert is followed up by a note and, where there is a command to give, by
\* an action of its own, however many other things are wrong; root's alone may go
\* without, and only where its two `df' differ: for every configuration with
\* ordered limits, every host and every set of reads that fail.
THEOREM AlertsAreFollowedUp == Spec => []AlertsFollowedUp
<1>1. Init => AlertsFollowedUp
  BY DEF Init, AlertsFollowedUp
<1>2. ShownInv => TypeOK /\ Shown
  BY DEF ShownInv
<1> QED BY <1>1, <1>2, ShownInit, ShownNext, FollowedUpNext, PTL DEF Spec
=============================================================================
