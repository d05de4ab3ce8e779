---------------------------- MODULE MonitorProofs ----------------------------
(* Proofs about Monitor, for every configuration and every host.                *)
EXTENDS Monitor, TLAPS

\* A host step leads to another host, and the history of a run follows it.
LEMMA HostStepType == ASSUME host \in Hosts, HostStep
                      PROVE  /\ host' \in Hosts /\ changes < MaxChanges /\ changes' = changes + 1
                             /\ UNCHANGED <<pc, idx, got, analysis, blind>>
                             /\ IF Running THEN /\ ever' = ever \cup Faults(host')
                                                /\ always' = always \cap Faults(host')
                                           ELSE UNCHANGED <<ever, always>>
<1> DEFINE Goal(h) == h \in Hosts /\ Becomes(h)
<1>1. SUFFICES \E h : Goal(h)
  BY DEF Becomes
<1>2. CASE HostLoad
  <2>1. CASE \E p \in Percent : Becomes([host EXCEPT !.cpu = p])
    BY <2>1 DEF Hosts
  <2>2. CASE \E p \in Percent : Becomes([host EXCEPT !.mem = p])
    BY <2>2 DEF Hosts
  <2>3. CASE \E m \in Mounts, p \in Percent : Becomes([host EXCEPT !.used[m] = p])
    BY <2>3 DEF Hosts
  <2>4. CASE \E i \in Iowaits : Becomes([host EXCEPT !.iowait = i])
    BY <2>4 DEF Hosts
  <2>5. CASE \E l \in Loads : Becomes([host EXCEPT !.load1 = l])
    BY <2>5 DEF Hosts
  <2>6. CASE Becomes([host EXCEPT !.swapping = ~@])
    BY <2>6 DEF Hosts
  <2> QED BY <1>2, <2>1, <2>2, <2>3, <2>4, <2>5, <2>6 DEF HostLoad
<1>3. CASE HostUnits
  BY <1>3 DEF HostUnits, Hosts
<1>4. CASE HostPosture
  <2>1. CASE Becomes([host EXCEPT !.clock = ~@])
    BY <2>1 DEF Hosts
  <2>2. CASE Becomes([host EXCEPT !.reboot = ~@])
    BY <2>2 DEF Hosts
  <2>3. CASE \E J \in SUBSET JournalUnits : Becomes([host EXCEPT !.journal = J])
    BY <2>3 DEF Hosts
  <2> QED BY <1>4, <2>1, <2>2, <2>3 DEF HostPosture
<1>5. CASE HostNetwork
  <2>1. CASE \E n \in Endpoints \ Urlless : Becomes([host EXCEPT !.up[n] = ~@])
    BY <2>1 DEF Hosts
  <2>2. CASE \E V \in SUBSET Vips : Becomes([host EXCEPT !.holds = V])
    BY <2>2 DEF Hosts
  <2> QED BY <1>5, <2>1, <2>2 DEF HostNetwork
<1> QED BY <1>2, <1>3, <1>4, <1>5 DEF HostStep

\* What a collector changes: its own reading, the reads that failed, its place.
LEMMA CollectFrame ==
  Collect => /\ UNCHANGED <<host, analysis, ever, always, changes>>
             /\ pc \notin {"idle", "done", "crashed"} /\ pc' \notin {"idle", "done"}
             /\ blind \subseteq blind'
BY DEF Collect, ReadCpu, ReadMemory, ReadDisk, ReadFilesystems, ReadLoad, Identity,
       CheckService, ServicesDone, ReadFailedUnits, ReadJournal, ReadClock, ReadVip,
       ReadReboot, CheckEndpoint, EndpointsDone, At, Read, history

\* What the second `df' lists: every mount, where /proc/mounts could not be read.
LEMMA FilesystemsRead ==
  ASSUME ReadFilesystems
  PROVE  \E listed \in SUBSET Mounts :
           /\ got' = [got EXCEPT !.filesystems = FilesystemList(host, listed)]
           /\ listed \subseteq Reported \/ KeepsEveryMount'
BY MountAssumption DEF ReadFilesystems, KeepsEveryMount

\* An entry of HEALTH_SERVICES names a unit; systemd answers for it with a state.
LEMMA ServiceEntry ==
  ASSUME TypeOK, NEW i \in DOMAIN ServiceList
  PROVE  /\ ServiceList[i] \in Services /\ ServiceList[i] \in Units
         /\ host.unit[ServiceList[i]] \in UnitStates
         /\ ServiceStatus(host.unit[ServiceList[i]]) \in ServiceStates
<1>1. ServiceList[i] \in Services
  BY DEF Services
<1>2. ServiceList[i] \in Units
  BY ListAssumption
<1>3. host.unit[ServiceList[i]] \in UnitStates
  BY <1>2 DEF TypeOK, Hosts
<1>4. ServiceStatus(host.unit[ServiceList[i]]) \in ServiceStates
  <2> DEFINE state == host.unit[ServiceList[i]]
  <2>1. state[2] \in ActiveStates
    BY <1>3, UnitStateAssumption
  <2> QED BY <2>1 DEF ServiceStatus, ServiceStates
<1> QED BY <1>1, <1>2, <1>3, <1>4

\* Every collector returns a reading of the right type.
LEMMA CollectType == ASSUME TypeOK, Collect
                     PROVE  /\ got' \in Gots /\ idx' \in Nat \ {0}
                            /\ pc' \in {"memory", "disk", "filesystems", "load", "identity",
                                 "services", "failed", "journal", "clock", "vip", "reboot",
                                 "endpoints", "analyse", "crashed"}
<1> USE DEF TypeOK, At
<1>1. CASE ReadCpu
  <2>1. PICK swap \in {host.swapping, FALSE} :
          Read(<<"/proc/stat", "">>,
               [got EXCEPT !.cpu = host.cpu, !.iowait = host.iowait, !.swapping = swap],
               [got EXCEPT !.swapping = swap])
    BY <1>1 DEF ReadCpu
  <2>2. swap \in BOOLEAN /\ host.cpu \in Percent /\ host.iowait \in Nat
    BY PercentAssumption DEF Hosts
  <2>3. /\ [got EXCEPT !.swapping = swap] \in Gots
        /\ [got EXCEPT !.cpu = host.cpu, !.iowait = host.iowait, !.swapping = swap] \in Gots
    <3> HIDE DEF TypeOK, At
    <3>1. got \in Gots
      BY DEF TypeOK
    <3> QED BY <2>2, <3>1 DEF Gots
  <2>4. got' \in Gots
    <3> HIDE DEF TypeOK, At
    <3> QED BY <2>1, <2>3 DEF Read
  <2> QED BY <1>1, <2>4 DEF ReadCpu
<1>2. CASE ReadMemory
  BY <1>2 DEF ReadMemory, Read, Gots, Hosts
<1>3. CASE ReadDisk
  BY <1>3, MountAssumption DEF ReadDisk, Read, Gots, Hosts
<1>4. CASE ReadFilesystems
  <2>1. \A mounts \in SUBSET Mounts :
          FilesystemList(host, mounts) \in SUBSET [mount : Mounts, used : Percent]
    BY DEF FilesystemList, Hosts
  <2>2. PICK mounts \in SUBSET Mounts :
          got' = [got EXCEPT !.filesystems = FilesystemList(host, mounts)]
    BY <1>4, FilesystemsRead
  <2>3. got' \in Gots
    BY <2>1, <2>2 DEF Gots
  <2> QED BY <1>4, <2>3 DEF ReadFilesystems
<1>5. CASE ReadLoad
  BY <1>5, PercentAssumption DEF ReadLoad, Gots, Hosts
<1>6. CASE Identity
  BY <1>6 DEF Identity
<1>7. CASE CheckService
  <2> DEFINE s == ServiceList[idx]
             Entry(status) == [service |-> s, status |-> status]
             Adds(status) == [got EXCEPT !.services = @ \cup {Entry(status)}]
  <2>1. s \in Services /\ "unknown" \in ServiceStates /\ ServiceStatus(host.unit[s]) \in ServiceStates
    BY <1>7, ServiceEntry DEF CheckService, ServiceStates
  <2>2. \A status \in ServiceStates : Adds(status) \in Gots
    <3> TAKE status \in ServiceStates
    <3>1. got.services \cup {Entry(status)} \in SUBSET [service : Services, status : ServiceStates]
      BY <2>1 DEF Gots
    <3> QED BY <3>1 DEF Gots
  <2>3. got' = Adds(ServiceStatus(host.unit[s])) \/ got' = Adds("unknown")
    BY <1>7 DEF CheckService, Read
  <2>4. got' \in Gots
    <3>1. Adds(ServiceStatus(host.unit[s])) \in Gots
      BY <2>1, <2>2
    <3>2. Adds("unknown") \in Gots
      BY <2>1, <2>2
    <3> QED BY <2>3, <3>1, <3>2
  <2>5. idx' = idx + 1 /\ pc' = "services"
    BY <1>7 DEF CheckService
  <2>6. idx' \in Nat \ {0}
    BY <2>5
  <2> QED BY <2>4, <2>5, <2>6
<1>8. CASE ServicesDone
  BY <1>8 DEF ServicesDone
<1>9. CASE ReadFailedUnits
  <2>1. FailedUnits(host) \subseteq Units
    BY DEF FailedUnits
  <2> QED BY <1>9, <2>1 DEF ReadFailedUnits, Read, Gots
<1>10. CASE ReadJournal
  BY <1>10 DEF ReadJournal, Read, Gots, Hosts
<1>11. CASE ReadClock
  BY <1>11 DEF ReadClock, Read, Gots, Hosts
<1>12. CASE ReadVip
  BY <1>12 DEF ReadVip, Read, Gots
<1>13. CASE ReadReboot
  <2>1. \A b \in BOOLEAN : [got EXCEPT !.reboot_required = b] \in Gots
    BY DEF Gots
  <2>2. got' \in Gots
    BY <1>13, <2>1 DEF ReadReboot, Read, Hosts
  <2> QED BY <1>13, <2>2 DEF ReadReboot
<1>14. CASE CheckEndpoint
  <2> DEFINE n == EndpointList[idx]
  <2>1. n \in Endpoints /\ Answers(host, n) \in BOOLEAN
    BY <1>14 DEF CheckEndpoint, Endpoints, Hosts, Answers
  <2>2. got.app_checks \cup {[name |-> n, success |-> Answers(host, n)]}
          \in SUBSET [name : Endpoints, success : BOOLEAN]
    BY <2>1 DEF Gots
  <2> QED BY <1>14, <2>2 DEF CheckEndpoint, Gots
<1>15. CASE EndpointsDone
  BY <1>15 DEF EndpointsDone
<1> QED BY <1>1, <1>2, <1>3, <1>4, <1>5, <1>6, <1>7, <1>8, <1>9, <1>10, <1>11, <1>12,
           <1>13, <1>14, <1>15 DEF Collect

LEMMA JudgeType == \A selfHosts :
  /\ DOMAIN Judge(selfHosts) = {"status", "alerts", "diagnosis", "actions"}
  /\ Judge(selfHosts).status \in Verdicts
  /\ Judge(selfHosts).status = HealthStatus(Context(selfHosts))
BY DEF Judge, HealthStatus, Verdicts

LEMMA NothingReadType == NothingRead \in Gots
BY PercentAssumption DEF NothingRead, Gots

LEMMA TypeInit == Init => TypeOK
BY NothingReadType, StartAssumption, BoundAssumption DEF Init, TypeOK, NoAnalysis

LEMMA TypeNext == TypeOK /\ [Next]_vars => TypeOK'
<1> SUFFICES ASSUME TypeOK, [Next]_vars PROVE TypeOK'
  OBVIOUS
<1>1. CASE Begin
  BY <1>1, NothingReadType DEF Begin, TypeOK, NoAnalysis
<1>2. CASE Collect
  BY <1>2, CollectType, CollectFrame DEF TypeOK
<1>3. CASE Analyse
  <2>1. \E S : analysis' = Judge(S)
    BY <1>3 DEF Analyse
  <2>2. /\ DOMAIN analysis' = {"status", "alerts", "diagnosis", "actions"}
        /\ analysis'.status \in Verdicts
    BY <2>1, JudgeType
  <2> QED BY <1>3, <2>2 DEF Analyse, TypeOK, Verdicts, history
<1>4. CASE HostStep
  <2>1. changes' \in 0..MaxChanges
    BY <1>4, HostStepType, BoundAssumption DEF TypeOK
  <2> QED BY <1>4, <2>1, HostStepType DEF TypeOK
<1>5. CASE UNCHANGED vars
  BY <1>5 DEF vars, TypeOK
<1> QED BY <1>1, <1>2, <1>3, <1>4, <1>5 DEF Next

\* The run and the host stay well typed, whatever the configuration.
THEOREM TypeCorrect == Spec => []TypeOK
<1> QED BY TypeInit, TypeNext, PTL DEF Spec
-----------------------------------------------------------------------------
(* No invented fault.  The strengthening: everything the run has read so far is *)
(* a fault the host really had in this run, and one it answers for.             *)

Exceeds(value, metric) == Over(value, metric) \/ Crit(value, metric)

GaugeHonest(value, gauge) ==
  /\ Exceeds(value, MetricOf(gauge)) => <<"over", gauge>> \in ever
  /\ Crit(value, MetricOf(gauge)) => <<"critical", gauge>> \in ever

ResourcesHonest ==
  /\ GaugeHonest(got.cpu, "cpu") /\ GaugeHonest(got.mem_used, "mem")
  /\ GaugeHonest(got.disk_used, "/")
  /\ \A fs \in got.filesystems :
       /\ fs.mount \in Mounts /\ (fs.mount \in Reported \/ KeepsEveryMount)
       /\ GaugeHonest(fs.used, fs.mount)

ServicesHonest ==
  \A s \in Stopped(got) \cup Missing(got) : HasServices /\ <<"service", s.service>> \in ever

UnitsHonest ==
  \A u \in got.failed_services : HasFailedUnits /\ u # SelfUnit /\ <<"failed", u>> \in ever

ClockHonest == got.time_desynchronized => <<"clock", "">> \in ever

EndpointsHonest ==
  \A c \in got.app_checks : ~c.success => <<"endpoint", c.name>> \in ever

HistoryHonest == Running => Faults(host) \subseteq ever

Honest == /\ ResourcesHonest /\ ServicesHonest /\ UnitsHonest
          /\ ClockHonest /\ EndpointsHonest /\ HistoryHonest

HonestInv == TypeOK /\ Honest /\ NoInventedFault

\* The limits are naturals, so the 0 a failed read leaves behind exceeds none.
LEMMA ThresholdType ==
  \A m \in Metrics, l \in Levels : Threshold(m, l) \in Nat
BY SettingAssumption DEF Threshold, Default, Unset

LEMMA ZeroIsQuiet == \A m \in Metrics : ~Exceeds(0, m)
BY ThresholdType DEF Exceeds, Over, Crit, Metrics, Levels

LEMMA GaugeMetric ==
  /\ MetricOf("cpu") = "cpu" /\ MetricOf("mem") = "mem"
  /\ \A m \in Mounts : MetricOf(m) = "disk" /\ m # "cpu" /\ m # "mem"
BY MountAssumption DEF MetricOf

\* What makes each kind of fault a fault of a host.
LEMMA FaultsOf ==
  ASSUME NEW h
  PROVE  /\ \A g \in Gauges : /\ <<"over", g>> \in Faults(h) <=> Exceeds(Level(h, g), MetricOf(g))
                              /\ <<"critical", g>> \in Faults(h) <=> Crit(Level(h, g), MetricOf(g))
         /\ \A s \in Services : <<"service", s>> \in Faults(h) <=> Broken(h.unit[s])
         /\ \A u \in Units : <<"failed", u>> \in Faults(h) <=> h.unit[u][2] = "failed"
         /\ <<"clock", "">> \in Faults(h) <=> ~h.clock
         /\ \A n \in Endpoints : <<"endpoint", n>> \in Faults(h) <=> ~Answers(h, n)
<1>1. \A g \in Gauges : <<"over", g>> \in Faults(h) <=> Exceeds(Level(h, g), MetricOf(g))
  BY DEF Faults, Exceeds, When
<1>2. \A g \in Gauges : <<"critical", g>> \in Faults(h) <=> Crit(Level(h, g), MetricOf(g))
  BY DEF Faults, When
<1>3. \A s \in Services : <<"service", s>> \in Faults(h) <=> Broken(h.unit[s])
  BY DEF Faults, When
<1>4. \A u \in Units : <<"failed", u>> \in Faults(h) <=> h.unit[u][2] = "failed"
  BY DEF Faults, When
<1>5. <<"clock", "">> \in Faults(h) <=> ~h.clock
  BY DEF Faults, When
<1>6. \A n \in Endpoints : <<"endpoint", n>> \in Faults(h) <=> ~Answers(h, n)
  BY DEF Faults, When
<1> QED BY <1>1, <1>2, <1>3, <1>4, <1>5, <1>6

\* The gauges of a host, by their name.
LEMMA LevelOf ==
  ASSUME NEW h
  PROVE  /\ Level(h, "cpu") = h.cpu /\ Level(h, "mem") = h.mem
         /\ \A m \in Mounts : Level(h, m) = h.used[m]
BY MountAssumption DEF Level

\* A reading of the host of this moment is honest.
LEMMA GaugeRead ==
  ASSUME HistoryHonest, Running, NEW g \in Gauges
  PROVE  GaugeHonest(Level(host, g), g)
BY FaultsOf DEF HistoryHonest, GaugeHonest

\* A service that systemd reports stopped or absent is broken.
LEMMA BrokenService ==
  ASSUME NEW state \in LoadStates \X ActiveStates,
         ServiceStatus(state) \notin HEALTHY_SERVICE_STATES \cup TRANSIENT_SERVICE_STATES
  PROVE  Broken(state)
BY DEF ServiceStatus, Broken, HEALTHY_SERVICE_STATES, TRANSIENT_SERVICE_STATES,
       LoadStates, ActiveStates

\* Stopped and absent together are the services that are neither fine nor in between.
Faulty(services) ==
  {s \in services : s.status \notin HEALTHY_SERVICE_STATES \cup TRANSIENT_SERVICE_STATES}

LEMMA FaultyServices ==
  /\ Stopped(got) \cup Missing(got) = Faulty(got.services)
  /\ Stopped(got') \cup Missing(got') = Faulty(got'.services)
<1>1. \A ctx : Stopped(ctx) \cup Missing(ctx) = Faulty(ctx.services)
  BY DEF Stopped, Missing, Faulty, HEALTHY_SERVICE_STATES, TRANSIENT_SERVICE_STATES,
         MISCONFIGURED_SERVICE_STATES
<1> QED BY <1>1

\* A process that has read nothing blames nobody.
LEMMA NothingHonest ==
  got = NothingRead => /\ ResourcesHonest /\ ServicesHonest /\ UnitsHonest
                       /\ ClockHonest /\ EndpointsHonest
<1> SUFFICES ASSUME got = NothingRead
             PROVE  /\ ResourcesHonest /\ ServicesHonest /\ UnitsHonest
                    /\ ClockHonest /\ EndpointsHonest
  OBVIOUS
<1>1. /\ got.cpu = 0 /\ got.mem_used = 0 /\ got.disk_used = 0 /\ got.filesystems = {}
      /\ got.services = {} /\ got.failed_services = {} /\ ~got.time_desynchronized
      /\ got.app_checks = {}
  BY DEF NothingRead
<1>2. \A g \in {"cpu", "mem", "/"} : GaugeHonest(0, g)
  BY ZeroIsQuiet, GaugeMetric, MountAssumption DEF GaugeHonest, Exceeds, Metrics
<1>3. ResourcesHonest
  BY <1>1, <1>2 DEF ResourcesHonest
<1>4. ServicesHonest
  BY <1>1 DEF ServicesHonest, Stopped, Missing
<1> QED BY <1>1, <1>3, <1>4 DEF UnitsHonest, ClockHonest, EndpointsHonest

\* A reading of the host as it is while the run goes on adds nothing dishonest.
LEMMA CollectHonest ==
  ASSUME TypeOK, Honest, Collect
  PROVE  Honest'
<1> USE DEF Honest
<1>1. /\ UNCHANGED <<host, ever>> /\ Running /\ HistoryHonest'
      /\ KeepsEveryMount => KeepsEveryMount'
  BY CollectFrame DEF Running, HistoryHonest, KeepsEveryMount
<1>2. got \in Gots /\ host \in Hosts
  BY DEF TypeOK
<1>3. \A g, v : GaugeHonest(v, g) => GaugeHonest(v, g)'
  BY <1>1 DEF GaugeHonest
<1> DEFINE SameGauges == /\ got'.cpu = got.cpu /\ got'.mem_used = got.mem_used
                         /\ got'.disk_used = got.disk_used
                         /\ got'.filesystems = got.filesystems
           SameServices == got'.services = got.services
           SameUnits == got'.failed_services = got.failed_services
           SameClock == got'.time_desynchronized = got.time_desynchronized
           SameEndpoints == got'.app_checks = got.app_checks
<1>4. SameGauges => ResourcesHonest'
  BY <1>1, <1>3 DEF ResourcesHonest
<1>5. SameServices => ServicesHonest'
  BY <1>1 DEF ServicesHonest, Stopped, Missing
<1>6. SameUnits => UnitsHonest'
  BY <1>1 DEF UnitsHonest
<1>7. SameClock => ClockHonest'
  BY <1>1 DEF ClockHonest
<1>8. SameEndpoints => EndpointsHonest'
  BY <1>1 DEF EndpointsHonest
<1> HIDE DEF SameGauges, SameServices, SameUnits, SameClock, SameEndpoints
<1> DEFINE SameButGauges == SameServices /\ SameUnits /\ SameClock /\ SameEndpoints
<1>9. SameButGauges /\ ResourcesHonest' => Honest'
  BY <1>1, <1>5, <1>6, <1>7, <1>8
<1>10. "cpu" \in Gauges /\ "mem" \in Gauges /\ \A m \in Mounts : m \in Gauges
  BY DEF Gauges
<1>11. CASE ReadCpu
  <2>1. PICK swap \in {host.swapping, FALSE} :
          Read(<<"/proc/stat", "">>,
               [got EXCEPT !.cpu = host.cpu, !.iowait = host.iowait, !.swapping = swap],
               [got EXCEPT !.swapping = swap])
    BY <1>11 DEF ReadCpu
  <2>2. SameButGauges
    BY <1>2, <2>1 DEF Read, Gots, SameServices, SameUnits, SameClock, SameEndpoints
  <2>3. /\ got'.mem_used = got.mem_used /\ got'.disk_used = got.disk_used
        /\ got'.filesystems = got.filesystems
        /\ got'.cpu \in {got.cpu, host.cpu}
    BY <1>2, <2>1 DEF Read, Gots
  <2>4. GaugeHonest(got'.cpu, "cpu")
    BY <1>1, <1>10, <2>3, GaugeRead, LevelOf DEF ResourcesHonest
  <2>5. ResourcesHonest'
    BY <1>1, <1>3, <2>3, <2>4 DEF ResourcesHonest
  <2> QED BY <1>9, <2>2, <2>5
<1>12. CASE ReadMemory
  <2>1. SameButGauges
    BY <1>2, <1>12 DEF ReadMemory, Read, Gots, SameServices, SameUnits, SameClock, SameEndpoints
  <2>2. /\ got'.cpu = got.cpu /\ got'.disk_used = got.disk_used
        /\ got'.filesystems = got.filesystems
        /\ got'.mem_used \in {got.mem_used, host.mem}
    BY <1>2, <1>12 DEF ReadMemory, Read, Gots
  <2>3. GaugeHonest(got'.mem_used, "mem")
    BY <1>1, <1>10, <2>2, GaugeRead, LevelOf DEF ResourcesHonest
  <2>4. ResourcesHonest'
    BY <1>1, <1>3, <2>2, <2>3 DEF ResourcesHonest
  <2> QED BY <1>9, <2>1, <2>4
<1>13. CASE ReadDisk
  <2>1. SameButGauges
    BY <1>2, <1>13 DEF ReadDisk, Read, Gots, SameServices, SameUnits, SameClock, SameEndpoints
  <2>2. /\ got'.cpu = got.cpu /\ got'.mem_used = got.mem_used
        /\ got'.filesystems = got.filesystems
        /\ got'.disk_used \in {got.disk_used, host.used["/"]}
    BY <1>2, <1>13 DEF ReadDisk, Read, Gots
  <2>3. GaugeHonest(got'.disk_used, "/")
    BY <1>1, <1>10, <2>2, GaugeRead, LevelOf, MountAssumption DEF ResourcesHonest
  <2>4. ResourcesHonest'
    BY <1>1, <1>3, <2>2, <2>3 DEF ResourcesHonest
  <2> QED BY <1>9, <2>1, <2>4
<1>14. CASE ReadFilesystems
  <2>1. SameButGauges
    BY <1>2, <1>14 DEF ReadFilesystems, Read, Gots, SameServices, SameUnits, SameClock, SameEndpoints
  <2>2. /\ got'.cpu = got.cpu /\ got'.mem_used = got.mem_used
        /\ got'.disk_used = got.disk_used
        /\ \E listed \in SUBSET Mounts :
             /\ got'.filesystems = FilesystemList(host, listed)
             /\ listed \subseteq Reported \/ KeepsEveryMount'
    BY <1>2, <1>14, FilesystemsRead DEF Gots
  <2>3. \A m \in Mounts : GaugeHonest(host.used[m], m)
    BY <1>1, <1>10, GaugeRead, LevelOf
  <2>4. \A fs \in got'.filesystems :
          /\ fs.mount \in Mounts /\ (fs.mount \in Reported \/ KeepsEveryMount')
          /\ GaugeHonest(fs.used, fs.mount)
    BY <2>2, <2>3 DEF FilesystemList
  <2>5. ResourcesHonest'
    BY <1>1, <1>3, <2>2, <2>4 DEF ResourcesHonest
  <2> QED BY <1>9, <2>1, <2>5
<1> DEFINE SameScored == SameGauges /\ SameButGauges
<1>15. SameScored => Honest'
  BY <1>4, <1>9
<1> USE DEF SameGauges, SameServices, SameUnits, SameClock, SameEndpoints
<1>16. CASE ReadLoad
  BY <1>2, <1>15, <1>16 DEF ReadLoad, Gots
<1>17. CASE Identity
  BY <1>15, <1>17 DEF Identity
<1>18. CASE ServicesDone
  BY <1>15, <1>18 DEF ServicesDone
<1>19. CASE ReadJournal
  BY <1>2, <1>15, <1>19 DEF ReadJournal, Read, Gots
<1>20. CASE ReadVip
  BY <1>2, <1>15, <1>20 DEF ReadVip, Read, Gots
<1>21. CASE ReadReboot
  BY <1>2, <1>15, <1>21 DEF ReadReboot, Read, Gots
<1>22. CASE EndpointsDone
  BY <1>15, <1>22 DEF EndpointsDone
<1>23. CASE CheckService
  <2> DEFINE s == ServiceList[idx]
             Entry(status) == [service |-> s, status |-> status]
  <2>1. \E status \in {"unknown", ServiceStatus(host.unit[s])} :
          got' = [got EXCEPT !.services = @ \cup {Entry(status)}]
    BY <1>23 DEF CheckService, Read
  <2>2. PICK status \in {"unknown", ServiceStatus(host.unit[s])} :
          got' = [got EXCEPT !.services = @ \cup {Entry(status)}]
    BY <2>1
  <2>3. SameGauges /\ SameUnits /\ SameClock /\ SameEndpoints
        /\ got'.services = got.services \cup {Entry(status)}
    BY <1>2, <2>2 DEF Gots
  <2>4. HasServices /\ s \in Services /\ host.unit[s] \in LoadStates \X ActiveStates
    BY <1>23, ServiceEntry, UnitStateAssumption DEF CheckService
  <2>5. status \notin HEALTHY_SERVICE_STATES \cup TRANSIENT_SERVICE_STATES
          => <<"service", s>> \in ever
    <3> SUFFICES ASSUME status \notin HEALTHY_SERVICE_STATES \cup TRANSIENT_SERVICE_STATES
                 PROVE  <<"service", s>> \in ever
      OBVIOUS
    <3>1. status = ServiceStatus(host.unit[s])
      BY DEF TRANSIENT_SERVICE_STATES
    <3>2. Broken(host.unit[s])
      BY <3>1, <2>4, BrokenService
    <3> QED BY <3>2, <1>1, <2>4, FaultsOf DEF HistoryHonest
  <2>6. ServicesHonest'
    <3>1. \A x \in got'.services : x \in got.services \/ x = Entry(status)
      BY <2>3
    <3>2. \A x \in Faulty(got'.services) : x \in Faulty(got.services)
             \/ (x = Entry(status) /\ status \notin HEALTHY_SERVICE_STATES \cup TRANSIENT_SERVICE_STATES)
      BY <3>1 DEF Faulty
    <3>3. \A x \in Faulty(got'.services) : HasServices /\ <<"service", x.service>> \in ever
      <4> TAKE x \in Faulty(got'.services)
      <4>1. CASE x \in Faulty(got.services)
        BY <4>1, FaultyServices DEF ServicesHonest
      <4>2. CASE x = Entry(status) /\ status \notin HEALTHY_SERVICE_STATES \cup TRANSIENT_SERVICE_STATES
        BY <4>2, <2>4, <2>5
      <4> QED BY <3>2, <4>1, <4>2
    <3> QED BY <1>1, <3>3, FaultyServices DEF ServicesHonest
  <2> QED BY <1>1, <1>4, <1>6, <1>7, <1>8, <2>3, <2>6
<1>24. CASE ReadFailedUnits
  <2>1. /\ SameGauges /\ SameServices /\ SameClock /\ SameEndpoints
        /\ \/ SameUnits
           \/ HasFailedUnits /\ got'.failed_services = FailedUnits(host)
    BY <1>2, <1>24 DEF ReadFailedUnits, Read, Gots
  <2>2. \A u \in FailedUnits(host) : u # SelfUnit /\ <<"failed", u>> \in ever
    BY <1>1, FaultsOf DEF FailedUnits, HistoryHonest
  <2>3. UnitsHonest'
    BY <1>1, <1>6, <2>1, <2>2 DEF UnitsHonest
  <2> QED BY <1>1, <1>4, <1>5, <1>7, <1>8, <2>1, <2>3
<1>25. CASE ReadClock
  <2>1. /\ SameGauges /\ SameServices /\ SameUnits /\ SameEndpoints
        /\ SameClock \/ got'.time_desynchronized = ~host.clock
    BY <1>2, <1>25 DEF ReadClock, Read, Gots
  <2>2. ClockHonest'
    BY <1>1, <1>7, <2>1, FaultsOf DEF ClockHonest, HistoryHonest
  <2> QED BY <1>1, <1>4, <1>5, <1>6, <1>8, <2>1, <2>2
<1>26. CASE CheckEndpoint
  <2> DEFINE n == EndpointList[idx]
  <2>1. /\ SameGauges /\ SameServices /\ SameUnits /\ SameClock
        /\ got'.app_checks = got.app_checks \cup {[name |-> n, success |-> Answers(host, n)]}
    BY <1>2, <1>26 DEF CheckEndpoint, Gots
  <2>2. n \in Endpoints
    BY <1>26 DEF CheckEndpoint, Endpoints
  <2>3. ~Answers(host, n) => <<"endpoint", n>> \in ever
    BY <1>1, <2>2, FaultsOf DEF HistoryHonest
  <2>4. EndpointsHonest'
    BY <1>1, <2>1, <2>3 DEF EndpointsHonest
  <2> QED BY <1>1, <1>4, <1>5, <1>6, <1>7, <2>1, <2>4
<1> QED BY <1>11, <1>12, <1>13, <1>14, <1>16, <1>17, <1>18, <1>19, <1>20, <1>21, <1>22,
           <1>23, <1>24, <1>25, <1>26 DEF Collect

LEMMA NothingHonestNext ==
  got' = NothingRead => /\ ResourcesHonest' /\ ServicesHonest' /\ UnitsHonest'
                        /\ ClockHonest' /\ EndpointsHonest'
<1> SUFFICES ASSUME got' = NothingRead
             PROVE  /\ ResourcesHonest' /\ ServicesHonest' /\ UnitsHonest'
                    /\ ClockHonest' /\ EndpointsHonest'
  OBVIOUS
<1>1. /\ got'.cpu = 0 /\ got'.mem_used = 0 /\ got'.disk_used = 0 /\ got'.filesystems = {}
      /\ got'.services = {} /\ got'.failed_services = {} /\ ~got'.time_desynchronized
      /\ got'.app_checks = {}
  BY DEF NothingRead
<1>2. \A g \in {"cpu", "mem", "/"} : GaugeHonest(0, g)'
  BY ZeroIsQuiet, GaugeMetric, MountAssumption DEF GaugeHonest, Exceeds, Metrics
<1>3. ResourcesHonest'
  BY <1>1, <1>2 DEF ResourcesHonest
<1>4. ServicesHonest'
  BY <1>1 DEF ServicesHonest, Stopped, Missing
<1> QED BY <1>1, <1>3, <1>4 DEF UnitsHonest, ClockHonest, EndpointsHonest

\* What was read stays honest while more faults are seen.
LEMMA SameHonest ==
  ASSUME got' = got, ever \subseteq ever', blind \subseteq blind',
         ResourcesHonest, ServicesHonest, UnitsHonest, ClockHonest, EndpointsHonest
  PROVE  ResourcesHonest' /\ ServicesHonest' /\ UnitsHonest' /\ ClockHonest' /\ EndpointsHonest'
<1>1. \A g, v : GaugeHonest(v, g) => GaugeHonest(v, g)'
  BY DEF GaugeHonest
<1>2. ResourcesHonest'
  BY <1>1 DEF ResourcesHonest, KeepsEveryMount
<1>3. ServicesHonest'
  BY DEF ServicesHonest, Stopped, Missing
<1>4. UnitsHonest' /\ ClockHonest' /\ EndpointsHonest'
  BY DEF UnitsHonest, ClockHonest, EndpointsHonest
<1> QED BY <1>2, <1>3, <1>4

LEMMA HonestInit == Init => HonestInv
<1> SUFFICES ASSUME Init PROVE HonestInv
  OBVIOUS
<1>1. TypeOK
  BY TypeInit
<1>2. pc = "idle" /\ got = NothingRead
  BY DEF Init
<1>3. ResourcesHonest /\ ServicesHonest /\ UnitsHonest /\ ClockHonest /\ EndpointsHonest
  BY <1>2, NothingHonest
<1>4. HistoryHonest /\ NoInventedFault
  BY <1>2 DEF HistoryHonest, Running, NoInventedFault
<1> QED BY <1>1, <1>3, <1>4 DEF HonestInv, Honest

\* A status other than HEALTHY is owed to something the context shows.
LEMMA StatusOf ==
  ASSUME NEW S
  PROVE  LET ctx == Context(S)
         IN  /\ HealthStatus(ctx) = "CRITICAL" <=> ResourceCritical(ctx)
             /\ HealthStatus(ctx) # "HEALTHY" <=>
                  ResourceCritical(ctx) \/ ResourceWarning(ctx) \/ PostureWarning(ctx)
BY DEF HealthStatus

\* The reads that would show a fault, kind by kind.
LEMMA WatchersOf ==
  /\ Watchers(<<"over", "cpu">>) = {<<"/proc/stat", "">>}
  /\ Watchers(<<"critical", "cpu">>) = {<<"/proc/stat", "">>}
  /\ Watchers(<<"over", "mem">>) = {<<"/proc/meminfo", "">>}
  /\ Watchers(<<"critical", "mem">>) = {<<"/proc/meminfo", "">>}
  /\ \A m \in Mounts, kind \in {"over", "critical"} :
       Watchers(<<kind, m>>) = When(m = "/", {<<"df", "/">>}) \cup When(m \in Reported, {<<"df", "">>})
  /\ \A s : Watchers(<<"service", s>>) = When(HasServices, {<<"systemctl show", s>>})
  /\ \A u : Watchers(<<"failed", u>>)
              = When(HasFailedUnits /\ u # SelfUnit, {<<"systemctl --failed", "">>})
  /\ Watchers(<<"clock", "">>) = {<<"timedatectl", "">>}
  /\ \A n : Watchers(<<"endpoint", n>>)
              = IF Critical # {} THEN When(n \in Critical, {<<"GET", n>>})
                ELSE When(AnswersForHost(n), {<<"GET", n>>})
                       \cup When(UrlHost[n] \in Vips, {<<"ip addr", "vip">>})
<1>1. "cpu" \notin Mounts /\ "mem" \notin Mounts
  BY MountAssumption
<1> QED BY <1>1 DEF Watchers

\* What the disks show comes from root's own reading, from a reported mount, or
\* from one that is listed because /proc/mounts could not be read.
LEMMA DiskEvidence ==
  ASSUME TypeOK, Honest, NEW S, NEW limit, WorstDiskAbove(Context(S), limit)
  PROVE  \E m \in Mounts, used \in Percent :
           used > limit /\ GaugeHonest(used, m) /\ (m = "/" \/ m \in Reported \/ KeepsEveryMount)
<1>1. got.disk_used > limit \/ \E fs \in got.filesystems : fs.used > limit
  BY DEF WorstDiskAbove, DiskReadings, Context
<1>2. CASE got.disk_used > limit
  BY <1>2, MountAssumption DEF Honest, ResourcesHonest, TypeOK, Gots
<1>3. CASE \E fs \in got.filesystems : fs.used > limit
  BY <1>3, MountAssumption DEF Honest, ResourcesHonest, TypeOK, Gots
<1> QED BY <1>1, <1>2, <1>3

\* Resource use above a limit is owed to a gauge the host exceeded and answers for.
LEMMA ResourceEvidence ==
  ASSUME TypeOK, Honest, NEW S
  PROVE  /\ ResourceCritical(Context(S)) =>
              \E g \in Gauges : <<"critical", g>> \in ever /\ Blamable(<<"critical", g>>)
         /\ ResourceWarning(Context(S)) =>
              \E g \in Gauges : <<"over", g>> \in ever /\ Blamable(<<"over", g>>)
<1> USE DEF Gauges
<1>1. /\ Context(S).cpu = got.cpu /\ Context(S).mem_used = got.mem_used
      /\ GaugeHonest(got.cpu, "cpu") /\ GaugeHonest(got.mem_used, "mem")
  BY DEF Context, Honest, ResourcesHonest
<1>2. \A m \in Mounts, kind \in {"over", "critical"} :
         m = "/" \/ m \in Reported \/ KeepsEveryMount => Blamable(<<kind, m>>)
  BY WatchersOf DEF When, Blamable
<1>3. ASSUME ResourceCritical(Context(S))
      PROVE  \E g \in Gauges : <<"critical", g>> \in ever /\ Blamable(<<"critical", g>>)
  <2>1. CASE Crit(got.cpu, "cpu")
    BY <2>1, <1>1, WatchersOf, GaugeMetric DEF GaugeHonest, Blamable
  <2>2. CASE Crit(got.mem_used, "mem")
    BY <2>2, <1>1, WatchersOf, GaugeMetric DEF GaugeHonest, Blamable
  <2>3. CASE WorstDiskAbove(Context(S), Threshold("disk", "crit"))
    <3>1. PICK m \in Mounts, used \in Percent :
            used > Threshold("disk", "crit") /\ GaugeHonest(used, m)
              /\ (m = "/" \/ m \in Reported \/ KeepsEveryMount)
      BY <2>3, DiskEvidence
    <3>2. <<"critical", m>> \in ever
      BY <3>1, GaugeMetric DEF GaugeHonest, Crit
    <3> QED BY <3>1, <3>2, <1>2
  <2> QED BY <1>1, <1>3, <2>1, <2>2, <2>3 DEF ResourceCritical
<1>4. ASSUME ResourceWarning(Context(S))
      PROVE  \E g \in Gauges : <<"over", g>> \in ever /\ Blamable(<<"over", g>>)
  <2>1. CASE Over(got.cpu, "cpu")
    BY <2>1, <1>1, WatchersOf, GaugeMetric DEF GaugeHonest, Exceeds, Blamable
  <2>2. CASE Over(got.mem_used, "mem")
    BY <2>2, <1>1, WatchersOf, GaugeMetric DEF GaugeHonest, Exceeds, Blamable
  <2>3. CASE WorstDiskAbove(Context(S), Threshold("disk", "warn"))
    <3>1. PICK m \in Mounts, used \in Percent :
            used > Threshold("disk", "warn") /\ GaugeHonest(used, m)
              /\ (m = "/" \/ m \in Reported \/ KeepsEveryMount)
      BY <2>3, DiskEvidence
    <3>2. <<"over", m>> \in ever
      BY <3>1, GaugeMetric DEF GaugeHonest, Exceeds, Over
    <3> QED BY <3>1, <3>2, <1>2
  <2> QED BY <1>1, <1>4, <2>1, <2>2, <2>3 DEF ResourceWarning
<1> QED BY <1>3, <1>4

\* A posture finding is owed to a fault the run watches, or to an endpoint that
\* the analysis scores and that did not answer.
LEMMA PostureEvidence ==
  ASSUME TypeOK, Honest, NEW S, PostureWarning(Context(S))
  PROVE  \/ \E f \in ever : Watchers(f) # {}
         \/ \E n \in Endpoints : Scored(n, S) /\ <<"endpoint", n>> \in ever
<1> DEFINE ctx == Context(S)
<1>1. CASE ctx.failed_services # {}
  <2>1. PICK u \in got.failed_services : TRUE
    BY <1>1 DEF Context
  <2>2. <<"failed", u>> \in ever /\ HasFailedUnits /\ u # SelfUnit
    BY <2>1 DEF Honest, UnitsHonest
  <2> QED BY <2>2, WatchersOf DEF When
<1>2. CASE ctx.time_desynchronized
  <2>1. <<"clock", "">> \in ever
    BY <1>2 DEF Context, Honest, ClockHonest
  <2> QED BY <2>1, WatchersOf
<1>3. CASE Stopped(ctx) \cup Missing(ctx) # {}
  <2>1. Stopped(ctx) \cup Missing(ctx) = Stopped(got) \cup Missing(got)
    BY DEF Stopped, Missing, Context
  <2>2. PICK s \in Stopped(got) \cup Missing(got) : TRUE
    BY <1>3, <2>1
  <2>3. <<"service", s.service>> \in ever /\ HasServices
    BY <2>2 DEF Honest, ServicesHonest
  <2> QED BY <2>3, WatchersOf DEF When
<1>4. CASE EndpointFailures(ctx) # {}
  <2>1. PICK c \in got.app_checks : ~c.success /\ Scored(c.name, S)
    BY <1>4 DEF EndpointFailures, Context
  <2>2. c.name \in Endpoints /\ <<"endpoint", c.name>> \in ever
    BY <2>1 DEF Honest, EndpointsHonest, TypeOK, Gots
  <2> QED BY <2>1, <2>2
<1> QED BY <1>1, <1>2, <1>3, <1>4 DEF PostureWarning

\* The analysis scores only endpoints this host answers for, or falls back.
LEMMA ScoredIsBlamable ==
  ASSUME TypeOK, NEW n \in Endpoints, NEW S, Scored(n, S),
         S = {} \/ S \subseteq OwnAddrs \cup Vips
  PROVE  Watchers(<<"endpoint", n>>) # {} \/ (S = {} /\ Critical = {})
<1>1. CASE Critical # {}
  BY <1>1, WatchersOf DEF Scored, When
<1>2. CASE Critical = {} /\ S # {}
  <2>1. UrlHost[n] # NoHost /\ UrlHost[n] \in Loopback \cup OwnAddrs \cup Vips
    BY <1>2 DEF Scored, IsOwnEndpoint
  <2> QED BY <1>2, <2>1, WatchersOf DEF When, AnswersForHost, IsOwnEndpoint
<1> QED BY <1>1, <1>2

\* The verdict of an honest run is supported by what was seen.
LEMMA AnalyseHonest == ASSUME TypeOK, Honest, Analyse
                       PROVE  NoInventedFault'
<1>1. UNCHANGED <<host, got, ever, always>> /\ blind \subseteq blind'
  BY DEF Analyse, history
<1>2. PICK S : /\ analysis' = Judge(S)
               /\ S = {} \/ S \subseteq OwnAddrs \cup Vips
               /\ S = {} => Endpoints = {} \/ <<"ip addr", "self">> \in blind'
  <2>1. HostAddresses(host) # {} /\ HostAddresses(host) \cup got.vip \subseteq OwnAddrs \cup Vips
    BY AddressAssumption DEF HostAddresses, TypeOK, Hosts, Gots
  <2> QED BY <2>1 DEF Analyse, SelfHosts
<1>3. analysis'.status = HealthStatus(Context(S))
  BY <1>2, JudgeType
<1>4. \A f \in ever : Blamable(f) => f \in Seen'
  BY <1>1 DEF Seen, Blamable, FallsBack, KeepsEveryMount
<1>5. ASSUME analysis'.status = "CRITICAL" PROVE Seen' \cap SevereFaults # {}
  <2>1. PICK g \in Gauges : <<"critical", g>> \in ever /\ Blamable(<<"critical", g>>)
    BY <1>3, <1>5, StatusOf, ResourceEvidence
  <2> QED BY <2>1, <1>4 DEF SevereFaults
<1>6. ASSUME analysis'.status # "HEALTHY" PROVE Seen' # {}
  <2>1. ResourceCritical(Context(S)) \/ ResourceWarning(Context(S)) \/ PostureWarning(Context(S))
    BY <1>3, <1>6, StatusOf
  <2>2. CASE ResourceCritical(Context(S)) \/ ResourceWarning(Context(S))
    BY <2>2, <1>4, ResourceEvidence
  <2>3. CASE PostureWarning(Context(S))
    <3>1. CASE \E f \in ever : Watchers(f) # {}
      BY <3>1, <1>4 DEF Blamable
    <3>2. CASE \E n \in Endpoints : Scored(n, S) /\ <<"endpoint", n>> \in ever
      <4>1. PICK n \in Endpoints : Scored(n, S) /\ <<"endpoint", n>> \in ever
        BY <3>2
      <4>2. Watchers(<<"endpoint", n>>) # {} \/ FallsBack'
        BY <4>1, <1>2, ScoredIsBlamable DEF FallsBack
      <4>3. <<"endpoint", n>> \in Seen'
        BY <4>1, <4>2, <1>1 DEF Seen, Blamable
      <4> QED BY <4>3
    <3> QED BY <2>3, <3>1, <3>2, PostureEvidence
  <2> QED BY <2>1, <2>2, <2>3
<1> QED BY <1>5, <1>6 DEF NoInventedFault, Contract!Supported

LEMMA HonestNext == HonestInv /\ [Next]_vars => HonestInv'
<1> SUFFICES ASSUME HonestInv, [Next]_vars PROVE HonestInv'
  OBVIOUS
<1>1. TypeOK /\ Honest /\ NoInventedFault /\ TypeOK'
  BY TypeNext DEF HonestInv
<1> SUFFICES Honest' /\ NoInventedFault'
  BY <1>1 DEF HonestInv
<1>2. CASE Begin
  <2>1. /\ ~pc' = "done" /\ got' = NothingRead /\ ever' = Faults(host) /\ host' = host
    BY <1>2 DEF Begin
  <2>2. ResourcesHonest' /\ ServicesHonest' /\ UnitsHonest' /\ ClockHonest' /\ EndpointsHonest'
    BY <2>1, NothingHonestNext
  <2> QED BY <2>1, <2>2 DEF Honest, HistoryHonest, NoInventedFault
<1>3. CASE Collect
  <2>1. pc' # "done"
    BY <1>3, CollectFrame
  <2> QED BY <1>1, <1>3, <2>1, CollectHonest DEF NoInventedFault
<1>4. CASE Analyse
  <2>1. UNCHANGED <<host, got, ever>> /\ ~Running' /\ blind \subseteq blind'
    BY <1>4 DEF Analyse, history, Running
  <2>2. Honest'
    BY <1>1, <2>1, SameHonest DEF Honest, HistoryHonest
  <2> QED BY <1>1, <1>4, <2>2, AnalyseHonest
<1>5. CASE HostStep
  <2>1. /\ UNCHANGED <<pc, idx, got, analysis, blind>> /\ ever \subseteq ever'
        /\ Running => ever' = ever \cup Faults(host')
        /\ ~Running => ever' = ever
    BY <1>1, <1>5, HostStepType DEF TypeOK
  <2>2. ResourcesHonest' /\ ServicesHonest' /\ UnitsHonest' /\ ClockHonest' /\ EndpointsHonest'
    BY <1>1, <2>1, SameHonest DEF Honest
  <2>3. HistoryHonest'
    BY <2>1 DEF HistoryHonest, Running
  <2>4. NoInventedFault'
    BY <1>1, <2>1 DEF NoInventedFault, Seen, Blamable, FallsBack,
         KeepsEveryMount, Running, Contract!Supported
  <2> QED BY <2>2, <2>3, <2>4 DEF Honest
<1>6. CASE UNCHANGED vars
  <2>1. UNCHANGED <<host, pc, got, ever, blind, analysis>>
    BY <1>6 DEF vars
  <2>2. Honest'
    BY <1>1, <2>1, SameHonest DEF Honest, HistoryHonest, Running
  <2>3. NoInventedFault'
    BY <1>1, <2>1 DEF NoInventedFault, Seen, Blamable, FallsBack,
         KeepsEveryMount, Contract!Supported
  <2> QED BY <2>2, <2>3
<1> QED BY <1>2, <1>3, <1>4, <1>5, <1>6 DEF Next

\* Degrade, never invent a finding: for every configuration, every host and every
\* interleaving of its changes with the reads, a verdict other than HEALTHY is
\* owed to a fault that the host had in this run and answers for.
THEOREM NothingInvented == Spec => []NoInventedFault
<1>1. HonestInv => NoInventedFault
  BY DEF HonestInv
<1> QED BY <1>1, HonestInit, HonestNext, PTL DEF Spec
=============================================================================
