------------------------ MODULE MonitorCoverageProofs ------------------------
(* No missed fault: what lasted through the run, and was read, is in the        *)
(* verdict.  With NothingInvented this makes Monitor an implementation of       *)
(* RunContract.                                                                 *)
EXTENDS MonitorProofs

\* The steps of a run still to come once a collector has returned.
AfterVip == {"reboot", "endpoints", "analyse"}
AfterClock == {"vip"} \cup AfterVip
AfterFailed == {"journal", "clock"} \cup AfterClock
AfterServices == {"failed"} \cup AfterFailed
AfterFilesystems == {"load", "identity", "services"} \cup AfterServices
AfterDisk == {"filesystems"} \cup AfterFilesystems
AfterMemory == {"disk"} \cup AfterDisk
AfterCpu == {"memory"} \cup AfterMemory

(* The strengthening: a fault that has lasted so far shows in what was read, as *)
(* soon as the collector that watches it has returned and did not fail.         *)

GaugeShown(value, gauge) ==
  /\ <<"over", gauge>> \in always => Exceeds(value, MetricOf(gauge))
  /\ <<"critical", gauge>> \in always => Crit(value, MetricOf(gauge))

CpuShown == pc \in AfterCpu /\ <<"/proc/stat", "">> \notin blind => GaugeShown(got.cpu, "cpu")
MemoryShown ==
  pc \in AfterMemory /\ <<"/proc/meminfo", "">> \notin blind => GaugeShown(got.mem_used, "mem")
RootShown == pc \in AfterDisk /\ <<"df", "/">> \notin blind => GaugeShown(got.disk_used, "/")
MountsShown ==
  pc \in AfterFilesystems /\ <<"df", "">> \notin blind =>
    \A m \in Reported : \E fs \in got.filesystems : fs.mount = m /\ GaugeShown(fs.used, m)

ServiceShown(s) ==
  <<"systemctl show", s>> \notin blind /\ <<"service", s>> \in always =>
    \E x \in Faulty(got.services) : x.service = s

ServicesShown ==
  HasServices =>
    \A i \in DOMAIN ServiceList :
      pc \in AfterServices \/ (pc = "services" /\ i < idx) => ServiceShown(ServiceList[i])

UnitsShown ==
  pc \in AfterFailed /\ HasFailedUnits /\ <<"systemctl --failed", "">> \notin blind =>
    \A u \in Units \ {SelfUnit} : <<"failed", u>> \in always => u \in got.failed_services

ClockShown ==
  pc \in AfterClock /\ <<"timedatectl", "">> \notin blind =>
    (<<"clock", "">> \in always => got.time_desynchronized)

VipShown == pc \in AfterVip /\ <<"ip addr", "vip">> \notin blind => got.vip = Vips

EndpointShown(n) ==
  <<"endpoint", n>> \in always => \E c \in got.app_checks : c.name = n /\ ~c.success

EndpointsShown ==
  \A i \in DOMAIN EndpointList :
    pc = "analyse" \/ (pc = "endpoints" /\ i < idx) => EndpointShown(EndpointList[i])

HistoryShown == Running => always \subseteq Faults(host)

\* Both loops start at their first entry.
IndexFresh == pc \in ({"cpu"} \cup AfterCpu) \ {"services", "endpoints", "analyse"} => idx = 1

Shown ==
  /\ CpuShown /\ MemoryShown /\ RootShown /\ MountsShown /\ ServicesShown /\ UnitsShown
  /\ ClockShown /\ VipShown /\ EndpointsShown /\ HistoryShown /\ IndexFresh

ShownInv == TypeOK /\ Shown /\ NoMissedFault

LEMMA ShownInit == Init => ShownInv
<1> SUFFICES ASSUME Init PROVE ShownInv
  OBVIOUS
<1>1. TypeOK
  BY TypeInit
<1>2. pc = "idle"
  BY DEF Init
<1>3. /\ pc \notin AfterCpu /\ pc \notin AfterMemory /\ pc \notin AfterDisk
      /\ pc \notin AfterFilesystems /\ pc \notin AfterServices /\ pc \notin AfterFailed
      /\ pc \notin AfterClock /\ pc \notin AfterVip
  BY <1>2 DEF AfterCpu, AfterMemory, AfterDisk, AfterFilesystems, AfterServices, AfterFailed,
              AfterClock, AfterVip
<1>4. Shown
  BY <1>2, <1>3 DEF Shown, CpuShown, MemoryShown, RootShown, MountsShown, ServicesShown,
       UnitsShown, ClockShown, VipShown, EndpointsShown, HistoryShown, IndexFresh, Running
<1>5. NoMissedFault
  BY <1>2 DEF NoMissedFault
<1> QED BY <1>1, <1>4, <1>5 DEF ShownInv

\* A new run has read nothing yet.
LEMMA BeginShown == ASSUME Begin PROVE Shown'
<1>1. pc' = "cpu" /\ idx' = 1 /\ always' = Faults(host) /\ host' = host
  BY DEF Begin
<1>2. /\ pc' \notin AfterCpu /\ pc' \notin AfterMemory /\ pc' \notin AfterDisk
      /\ pc' \notin AfterFilesystems /\ pc' \notin AfterServices /\ pc' \notin AfterFailed
      /\ pc' \notin AfterClock /\ pc' \notin AfterVip
  BY <1>1 DEF AfterCpu, AfterMemory, AfterDisk, AfterFilesystems, AfterServices, AfterFailed,
              AfterClock, AfterVip
<1> QED BY <1>1, <1>2 DEF Shown, CpuShown, MemoryShown, RootShown, MountsShown, ServicesShown,
          UnitsShown, ClockShown, VipShown, EndpointsShown, HistoryShown, IndexFresh, Running

\* What was shown stays shown while less is steady and more reads have failed.
LEMMA SameShown ==
  ASSUME Shown, UNCHANGED <<pc, idx, got>>, always' \subseteq always, blind \subseteq blind',
         HistoryShown'
  PROVE  Shown'
<1> USE DEF Shown
<1>1. \A g, v : GaugeShown(v, g) => GaugeShown(v, g)'
  BY DEF GaugeShown
<1>2. CpuShown' /\ MemoryShown' /\ RootShown'
  BY <1>1 DEF CpuShown, MemoryShown, RootShown
<1>3. MountsShown'
  BY <1>1 DEF MountsShown
<1>4. \A s : ServiceShown(s) => ServiceShown(s)'
  BY DEF ServiceShown
<1>5. ServicesShown'
  BY <1>4 DEF ServicesShown
<1>6. UnitsShown' /\ ClockShown' /\ VipShown'
  BY DEF UnitsShown, ClockShown, VipShown
<1>7. EndpointsShown'
  BY DEF EndpointsShown, EndpointShown
<1>8. IndexFresh'
  BY DEF IndexFresh
<1> QED BY <1>2, <1>3, <1>5, <1>6, <1>7, <1>8

\* Each part of a reading is written by one collector.
LEMMA CollectWrites ==
  ASSUME TypeOK, Collect
  PROVE  /\ blind \subseteq blind'
         /\ got'.cpu = got.cpu \/ ReadCpu
         /\ got'.mem_used = got.mem_used \/ ReadMemory
         /\ got'.disk_used = got.disk_used \/ ReadDisk
         /\ got'.filesystems = got.filesystems \/ ReadFilesystems
         /\ got'.services = got.services \/ CheckService
         /\ got'.failed_services = got.failed_services \/ ReadFailedUnits
         /\ got'.time_desynchronized = got.time_desynchronized \/ ReadClock
         /\ got'.vip = got.vip \/ ReadVip
         /\ got'.app_checks = got.app_checks \/ CheckEndpoint
<1> USE DEF Gots, Read
<1>0. got \in Gots
  BY DEF TypeOK
<1>1. CASE ReadCpu
  BY <1>0, <1>1 DEF ReadCpu
<1>2. CASE ReadMemory
  BY <1>0, <1>2 DEF ReadMemory
<1>3. CASE ReadDisk
  BY <1>0, <1>3 DEF ReadDisk
<1>4. CASE ReadFilesystems
  BY <1>0, <1>4 DEF ReadFilesystems
<1>5. CASE ReadLoad
  BY <1>0, <1>5 DEF ReadLoad
<1>6. CASE Identity
  BY <1>6 DEF Identity
<1>7. CASE CheckService
  BY <1>0, <1>7 DEF CheckService
<1>8. CASE ServicesDone
  BY <1>8 DEF ServicesDone
<1>9. CASE ReadFailedUnits
  BY <1>0, <1>9 DEF ReadFailedUnits
<1>10. CASE ReadJournal
  BY <1>0, <1>10 DEF ReadJournal
<1>11. CASE ReadClock
  BY <1>0, <1>11 DEF ReadClock
<1>12. CASE ReadVip
  BY <1>0, <1>12 DEF ReadVip
<1>13. CASE ReadReboot
  BY <1>0, <1>13 DEF ReadReboot
<1>14. CASE CheckEndpoint
  BY <1>0, <1>14 DEF CheckEndpoint
<1>15. CASE EndpointsDone
  BY <1>15 DEF EndpointsDone
<1> QED BY <1>1, <1>2, <1>3, <1>4, <1>5, <1>6, <1>7, <1>8, <1>9, <1>10, <1>11, <1>12,
           <1>13, <1>14, <1>15 DEF Collect

\* A run gets past a collector only by running it.
LEMMA CollectOrder ==
  ASSUME Collect
  PROVE  /\ pc' \in AfterCpu => pc \in AfterCpu \/ ReadCpu
         /\ pc' \in AfterMemory => pc \in AfterMemory \/ ReadMemory
         /\ pc' \in AfterDisk => pc \in AfterDisk \/ ReadDisk
         /\ pc' \in AfterFilesystems => pc \in AfterFilesystems \/ ReadFilesystems
         /\ pc' \in AfterServices \cup {"services"} =>
              pc \in AfterServices \/ Identity \/ CheckService \/ ServicesDone
         /\ pc' \in AfterFailed => pc \in AfterFailed \/ ReadFailedUnits
         /\ pc' \in AfterClock => pc \in AfterClock \/ ReadClock
         /\ pc' \in AfterVip => pc \in AfterVip \/ ReadVip
         /\ pc' \in {"endpoints", "analyse"} => ReadReboot \/ CheckEndpoint \/ EndpointsDone
         /\ pc \in AfterCpu \ {"services", "endpoints", "analyse"} \/ pc = "cpu" =>
              UNCHANGED idx
         /\ pc' \in AfterCpu \ {"services", "endpoints", "analyse"} \/ pc' = "cpu" =>
              pc \in ({"cpu"} \cup AfterCpu) \ {"services", "endpoints", "analyse"} \/ ServicesDone
<1> USE DEF At, AfterCpu, AfterMemory, AfterDisk, AfterFilesystems, AfterServices,
            AfterFailed, AfterClock, AfterVip
<1>1. CASE ReadCpu
  BY <1>1 DEF ReadCpu
<1>2. CASE ReadMemory
  BY <1>2 DEF ReadMemory
<1>3. CASE ReadDisk
  BY <1>3 DEF ReadDisk
<1>4. CASE ReadFilesystems
  BY <1>4 DEF ReadFilesystems
<1>5. CASE ReadLoad
  BY <1>5 DEF ReadLoad
<1>6. CASE Identity
  BY <1>6 DEF Identity
<1>7. CASE CheckService
  BY <1>7 DEF CheckService
<1>8. CASE ServicesDone
  BY <1>8 DEF ServicesDone
<1>9. CASE ReadFailedUnits
  BY <1>9 DEF ReadFailedUnits
<1>10. CASE ReadJournal
  BY <1>10 DEF ReadJournal
<1>11. CASE ReadClock
  BY <1>11 DEF ReadClock
<1>12. CASE ReadVip
  BY <1>12 DEF ReadVip
<1>13. CASE ReadReboot
  BY <1>13 DEF ReadReboot
<1>14. CASE CheckEndpoint
  BY <1>14 DEF CheckEndpoint
<1>15. CASE EndpointsDone
  BY <1>15 DEF EndpointsDone
<1> QED BY <1>1, <1>2, <1>3, <1>4, <1>5, <1>6, <1>7, <1>8, <1>9, <1>10, <1>11, <1>12,
           <1>13, <1>14, <1>15 DEF Collect

\* A service that systemd reports broken counts against the host.
LEMMA BrokenStatus ==
  ASSUME NEW state \in LoadStates \X ActiveStates, Broken(state)
  PROVE  ServiceStatus(state) \notin HEALTHY_SERVICE_STATES \cup TRANSIENT_SERVICE_STATES
BY DEF ServiceStatus, Broken, HEALTHY_SERVICE_STATES, TRANSIENT_SERVICE_STATES,
       LoadStates, ActiveStates

\* The host of this moment shows the faults that have lasted so far.
LEMMA GaugeLasts ==
  ASSUME HistoryShown, Running, NEW g \in Gauges
  PROVE  GaugeShown(Level(host, g), g)
BY FaultsOf DEF HistoryShown, GaugeShown

\* The entries of a list are counted from 1; past the last one, all are done.
LEMMA ListDomain ==
  ASSUME NEW S, NEW list \in Seq(S)
  PROVE  /\ \A i \in DOMAIN list : i \in Nat \ {0}
         /\ \A i \in DOMAIN list, k \in Nat \ {0} : k \notin DOMAIN list => i < k
<1>1. DOMAIN list = 1..Len(list) /\ Len(list) \in Nat
  OBVIOUS
<1> QED BY <1>1

LEMMA Counting ==
  /\ \A i \in Nat \ {0} : ~(i < 1)
  /\ \A i, k \in Nat : i < k + 1 => i = k \/ i < k
OBVIOUS

LEMMA EntryNumbers ==
  /\ \A i \in DOMAIN ServiceList : i \in Nat \ {0}
  /\ \A i \in DOMAIN ServiceList, k \in Nat \ {0} : k \notin DOMAIN ServiceList => i < k
  /\ \A i \in DOMAIN EndpointList : i \in Nat \ {0}
  /\ \A i \in DOMAIN EndpointList, k \in Nat \ {0} : k \notin DOMAIN EndpointList => i < k
<1>1. ServiceList \in Seq(Units) /\ EndpointList \in Seq(DOMAIN UrlHost)
  BY ListAssumption
<1>2. /\ \A i \in DOMAIN ServiceList : i \in Nat \ {0}
      /\ \A i \in DOMAIN ServiceList, k \in Nat \ {0} : k \notin DOMAIN ServiceList => i < k
  BY <1>1, ListDomain
<1>3. /\ \A i \in DOMAIN EndpointList : i \in Nat \ {0}
      /\ \A i \in DOMAIN EndpointList, k \in Nat \ {0} : k \notin DOMAIN EndpointList => i < k
  BY <1>1, ListDomain
<1> QED BY <1>2, <1>3

\* A collector that returns keeps what was shown, and shows what it watches.
LEMMA CollectShown ==
  ASSUME TypeOK, Shown, Collect
  PROVE  Shown'
<1> USE DEF Shown
<1>1. /\ UNCHANGED <<host, always>> /\ Running /\ HistoryShown' /\ blind \subseteq blind'
      /\ got \in Gots /\ host \in Hosts /\ idx \in Nat \ {0}
  BY CollectFrame, CollectWrites DEF Running, HistoryShown, TypeOK
<1>2. /\ GaugeShown(host.cpu, "cpu") /\ GaugeShown(host.mem, "mem")
      /\ \A m \in Mounts : GaugeShown(host.used[m], m)
  BY <1>1, GaugeLasts, LevelOf DEF Gauges
<1>3. CpuShown'
  <2> SUFFICES ASSUME pc' \in AfterCpu, <<"/proc/stat", "">> \notin blind'
               PROVE  GaugeShown(got'.cpu, "cpu")
    BY <1>1 DEF CpuShown, GaugeShown
  <2>1. CASE ReadCpu
    <3>1. got'.cpu = host.cpu
      BY <1>1, <2>1 DEF ReadCpu, Read, Gots
    <3> QED BY <3>1, <1>2
  <2>2. CASE pc \in AfterCpu /\ ~ReadCpu
    BY <2>2, <1>1, CollectWrites DEF CpuShown
  <2> QED BY <2>1, <2>2, CollectOrder
<1>4. MemoryShown'
  <2> SUFFICES ASSUME pc' \in AfterMemory, <<"/proc/meminfo", "">> \notin blind'
               PROVE  GaugeShown(got'.mem_used, "mem")
    BY <1>1 DEF MemoryShown, GaugeShown
  <2>1. CASE ReadMemory
    <3>1. got'.mem_used = host.mem
      BY <1>1, <2>1 DEF ReadMemory, Read, Gots
    <3> QED BY <3>1, <1>2
  <2>2. CASE pc \in AfterMemory /\ ~ReadMemory
    BY <2>2, <1>1, CollectWrites DEF MemoryShown
  <2> QED BY <2>1, <2>2, CollectOrder
<1>5. RootShown'
  <2> SUFFICES ASSUME pc' \in AfterDisk, <<"df", "/">> \notin blind'
               PROVE  GaugeShown(got'.disk_used, "/")
    BY <1>1 DEF RootShown, GaugeShown
  <2>1. CASE ReadDisk
    <3>1. got'.disk_used = host.used["/"]
      BY <1>1, <2>1 DEF ReadDisk, Read, Gots
    <3> QED BY <3>1, <1>2, MountAssumption
  <2>2. CASE pc \in AfterDisk /\ ~ReadDisk
    BY <2>2, <1>1, CollectWrites DEF RootShown
  <2> QED BY <2>1, <2>2, CollectOrder
<1>6. MountsShown'
  <2> SUFFICES ASSUME pc' \in AfterFilesystems, <<"df", "">> \notin blind', NEW m \in Reported
               PROVE  \E fs \in got'.filesystems : fs.mount = m /\ GaugeShown(fs.used, m)
    BY <1>1 DEF MountsShown, GaugeShown
  <2>1. CASE ReadFilesystems
    <3>1. \E listed : got'.filesystems = FilesystemList(host, listed) /\ Reported \subseteq listed
      BY <1>1, <2>1, MountAssumption DEF ReadFilesystems, Gots
    <3>2. [mount |-> m, used |-> host.used[m]] \in got'.filesystems
      BY <3>1 DEF FilesystemList
    <3>3. GaugeShown(host.used[m], m)
      BY <1>2, MountAssumption
    <3> QED BY <3>2, <3>3
  <2>2. CASE pc \in AfterFilesystems /\ ~ReadFilesystems
    <3>1. PICK fs \in got.filesystems : fs.mount = m /\ GaugeShown(fs.used, m)
      BY <2>2, <1>1 DEF MountsShown
    <3> QED BY <2>2, <3>1, CollectWrites
  <2> QED BY <2>1, <2>2, CollectOrder
<1>7. ServicesShown'
  <2> SUFFICES ASSUME HasServices, NEW i \in DOMAIN ServiceList,
                      pc' \in AfterServices \/ (pc' = "services" /\ i < idx'),
                      <<"systemctl show", ServiceList[i]>> \notin blind',
                      <<"service", ServiceList[i]>> \in always
               PROVE  \E x \in Faulty(got'.services) : x.service = ServiceList[i]
    BY <1>1 DEF ServicesShown, ServiceShown
  <2>1. ASSUME pc \in AfterServices \/ (pc = "services" /\ i < idx), got.services \subseteq got'.services
        PROVE  \E x \in Faulty(got'.services) : x.service = ServiceList[i]
    <3>1. PICK x \in Faulty(got.services) : x.service = ServiceList[i]
      BY <2>1, <1>1 DEF ServicesShown, ServiceShown
    <3> QED BY <2>1, <3>1 DEF Faulty
  <2>2. CASE CheckService
    <3>0. i \in Nat /\ idx \in Nat
      BY <1>1, EntryNumbers
    <3>1. pc = "services" /\ pc' = "services" /\ idx' = idx + 1
      BY <2>2 DEF CheckService, At
    <3>2. i < idx'
      BY <3>1 DEF AfterServices, AfterFailed, AfterClock, AfterVip
    <3> DEFINE s == ServiceList[idx]
               Entry(status) == [service |-> s, status |-> status]
    <3>3. \E status : got' = [got EXCEPT !.services = @ \cup {Entry(status)}]
      BY <2>2 DEF CheckService, Read
    <3>4. got.services \subseteq got'.services
      BY <3>3, <1>1 DEF Gots
    <3>5. CASE i = idx
      <4>1. got' = [got EXCEPT !.services = @ \cup {Entry(ServiceStatus(host.unit[s]))}]
        BY <2>2, <3>5 DEF CheckService, Read
      <4>2. Entry(ServiceStatus(host.unit[s])) \in got'.services
        BY <4>1, <1>1 DEF Gots
      <4>3. Broken(host.unit[s])
        BY <3>5, <1>1, ServiceEntry, FaultsOf DEF HistoryShown
      <4>4. ServiceStatus(host.unit[s]) \notin HEALTHY_SERVICE_STATES \cup TRANSIENT_SERVICE_STATES
        BY <3>5, <4>3, ServiceEntry, UnitStateAssumption, BrokenStatus
      <4>5. Entry(ServiceStatus(host.unit[s])) \in Faulty(got'.services)
        BY <4>2, <4>4 DEF Faulty
      <4> QED BY <3>5, <4>5
    <3>6. CASE i < idx
      BY <2>1, <3>1, <3>4, <3>6
    <3>7. i = idx \/ i < idx
      BY <3>0, <3>1, <3>2, Counting
    <3> QED BY <3>5, <3>6, <3>7
  <2>3. CASE ServicesDone
    <3>1. pc = "services" /\ idx \notin DOMAIN ServiceList /\ got' = got
      BY <2>3 DEF ServicesDone, At
    <3>2. i < idx
      BY <3>1, <1>1, EntryNumbers
    <3> QED BY <2>1, <3>1, <3>2
  <2>4. CASE Identity
    <3>1. pc = "identity" /\ pc' \notin AfterServices /\ idx' = idx
      BY <2>4 DEF Identity, AfterServices, AfterFailed, AfterClock, AfterVip
    <3>2. idx = 1
      BY <3>1 DEF IndexFresh, AfterCpu, AfterMemory, AfterDisk, AfterFilesystems
    <3>3. i \in Nat \ {0} /\ ~(i < 1)
      BY EntryNumbers, Counting
    <3> QED BY <3>1, <3>2, <3>3
  <2>5. CASE pc \in AfterServices /\ ~CheckService
    BY <2>1, <2>5, CollectWrites
  <2> QED BY <2>2, <2>3, <2>4, <2>5, CollectOrder
<1>8. UnitsShown'
  <2> SUFFICES ASSUME pc' \in AfterFailed, HasFailedUnits, <<"systemctl --failed", "">> \notin blind',
                      NEW u \in Units \ {SelfUnit}, <<"failed", u>> \in always
               PROVE  u \in got'.failed_services
    BY <1>1 DEF UnitsShown
  <2>1. CASE ReadFailedUnits
    <3>1. got'.failed_services = FailedUnits(host)
      BY <1>1, <2>1 DEF ReadFailedUnits, Read, Gots
    <3>2. host.unit[u][2] = "failed"
      BY <1>1, FaultsOf DEF HistoryShown
    <3> QED BY <3>1, <3>2 DEF FailedUnits
  <2>2. CASE pc \in AfterFailed /\ ~ReadFailedUnits
    BY <2>2, <1>1, CollectWrites DEF UnitsShown
  <2> QED BY <2>1, <2>2, CollectOrder
<1>9. ClockShown'
  <2> SUFFICES ASSUME pc' \in AfterClock, <<"timedatectl", "">> \notin blind',
                      <<"clock", "">> \in always
               PROVE  got'.time_desynchronized
    BY <1>1 DEF ClockShown
  <2>1. CASE ReadClock
    <3>1. got'.time_desynchronized = ~host.clock
      BY <1>1, <2>1 DEF ReadClock, Read, Gots
    <3> QED BY <3>1, <1>1, FaultsOf DEF HistoryShown
  <2>2. CASE pc \in AfterClock /\ ~ReadClock
    BY <2>2, <1>1, CollectWrites DEF ClockShown
  <2> QED BY <2>1, <2>2, CollectOrder
<1>10. VipShown'
  <2> SUFFICES ASSUME pc' \in AfterVip, <<"ip addr", "vip">> \notin blind'
               PROVE  got'.vip = Vips
    BY DEF VipShown
  <2>1. CASE ReadVip
    BY <1>1, <2>1 DEF ReadVip, Read, Gots
  <2>2. CASE pc \in AfterVip /\ ~ReadVip
    BY <2>2, <1>1, CollectWrites DEF VipShown
  <2> QED BY <2>1, <2>2, CollectOrder
<1>11. EndpointsShown'
  <2> SUFFICES ASSUME NEW i \in DOMAIN EndpointList,
                      pc' = "analyse" \/ (pc' = "endpoints" /\ i < idx'),
                      <<"endpoint", EndpointList[i]>> \in always
               PROVE  \E c \in got'.app_checks : c.name = EndpointList[i] /\ ~c.success
    BY <1>1 DEF EndpointsShown, EndpointShown
  <2>1. ASSUME pc = "endpoints", i < idx, got.app_checks \subseteq got'.app_checks
        PROVE  \E c \in got'.app_checks : c.name = EndpointList[i] /\ ~c.success
    BY <2>1 DEF EndpointsShown, EndpointShown
  <2>2. CASE ReadReboot
    <3>1. pc = "reboot" /\ pc' = "endpoints" /\ idx' = idx
      BY <2>2 DEF ReadReboot, At
    <3>2. idx = 1
      BY <3>1 DEF IndexFresh, AfterCpu, AfterMemory, AfterDisk, AfterFilesystems, AfterServices,
                  AfterFailed, AfterClock, AfterVip
    <3> QED BY <3>1, <3>2, EntryNumbers
  <2>3. CASE CheckEndpoint
    <3> DEFINE check == [name |-> EndpointList[idx], success |-> Answers(host, EndpointList[idx])]
    <3>1. /\ pc = "endpoints" /\ pc' = "endpoints" /\ idx' = idx + 1
          /\ got'.app_checks = got.app_checks \cup {check}
      BY <2>3, <1>1 DEF CheckEndpoint, At, Gots
    <3>2. CASE i = idx
      <4>1. EndpointList[i] \in Endpoints /\ <<"endpoint", EndpointList[i]>> \in Faults(host)
        BY <1>1 DEF HistoryShown, Endpoints
      <4>2. ~Answers(host, EndpointList[i])
        BY <4>1, FaultsOf
      <4>3. check \in got'.app_checks /\ check.name = EndpointList[i] /\ ~check.success
        BY <3>1, <3>2, <4>2
      <4> QED BY <4>3
    <3>3. CASE i < idx
      BY <2>1, <3>1, <3>3
    <3>4. i \in Nat
      BY EntryNumbers
    <3> QED BY <1>1, <3>1, <3>2, <3>3, <3>4
  <2>4. CASE EndpointsDone
    <3>1. pc = "endpoints" /\ idx \notin DOMAIN EndpointList /\ got' = got
      BY <2>4 DEF EndpointsDone, At
    <3>2. i < idx
      BY <3>1, <1>1, EntryNumbers
    <3> QED BY <2>1, <3>1, <3>2
  <2> QED BY <2>2, <2>3, <2>4, CollectOrder
<1>12. IndexFresh'
  <2> SUFFICES ASSUME pc' \in ({"cpu"} \cup AfterCpu) \ {"services", "endpoints", "analyse"}
               PROVE  idx' = 1
    BY DEF IndexFresh
  <2>1. CASE ServicesDone
    BY <2>1 DEF ServicesDone
  <2>2. CASE pc \in ({"cpu"} \cup AfterCpu) \ {"services", "endpoints", "analyse"}
    BY <2>2, CollectOrder DEF IndexFresh
  <2> QED BY <2>1, <2>2, CollectOrder
<1> QED BY <1>1, <1>3, <1>4, <1>5, <1>6, <1>7, <1>8, <1>9, <1>10, <1>11, <1>12

\* The kinds of fault there are.
LEMMA FaultKinds ==
  ASSUME NEW h, NEW f \in Faults(h)
  PROVE  \/ \E g \in Gauges : f = <<"over", g>> \/ f = <<"critical", g>>
         \/ \E x \in Services : f = <<"service", x>>
         \/ \E u \in Units : f = <<"failed", u>>
         \/ f = <<"clock", "">>
         \/ \E n \in Endpoints : f = <<"endpoint", n>>
BY DEF Faults, When

\* A gauge that lasted over a limit, and was read, makes the resources exceed it.
LEMMA GaugeScored ==
  ASSUME TypeOK, Shown, pc = "analyse", NEW S, NEW g \in Gauges
  PROVE  /\ ~Hidden(<<"over", g>>) /\ <<"over", g>> \in always
              => ResourceCritical(Context(S)) \/ ResourceWarning(Context(S))
         /\ ~Hidden(<<"critical", g>>) /\ <<"critical", g>> \in always
              => ResourceCritical(Context(S))
<1>1. /\ pc \in AfterCpu /\ pc \in AfterMemory /\ pc \in AfterDisk /\ pc \in AfterFilesystems
  BY DEF AfterCpu, AfterMemory, AfterDisk, AfterFilesystems, AfterServices, AfterFailed,
         AfterClock, AfterVip
<1> DEFINE ctx == Context(S)
<1>2. ctx.cpu = got.cpu /\ ctx.mem_used = got.mem_used
  BY DEF Context
<1>3. CASE g = "cpu"
  <2>1. \A kind \in {"over", "critical"} :
          ~Hidden(<<kind, g>>) => GaugeShown(got.cpu, g)
    BY <1>1, <1>3, WatchersOf DEF Hidden, Shown, CpuShown
  <2> QED BY <1>2, <1>3, <2>1, GaugeMetric
          DEF GaugeShown, Exceeds, ResourceCritical, ResourceWarning
<1>4. CASE g = "mem"
  <2>1. \A kind \in {"over", "critical"} :
          ~Hidden(<<kind, g>>) => GaugeShown(got.mem_used, g)
    BY <1>1, <1>4, WatchersOf DEF Hidden, Shown, MemoryShown
  <2> QED BY <1>2, <1>4, <2>1, GaugeMetric
          DEF GaugeShown, Exceeds, ResourceCritical, ResourceWarning
<1>5. CASE g \in Mounts
  <2>1. \A kind \in {"over", "critical"} :
          ~Hidden(<<kind, g>>) => \E used \in DiskReadings(ctx) : GaugeShown(used, g)
    <3> SUFFICES ASSUME NEW kind \in {"over", "critical"}, ~Hidden(<<kind, g>>)
                 PROVE  \E used \in DiskReadings(ctx) : GaugeShown(used, g)
      OBVIOUS
    <3>1. Watchers(<<kind, g>>)
            = When(g = "/", {<<"df", "/">>}) \cup When(g \in Reported, {<<"df", "">>})
      BY <1>5, WatchersOf
    <3>2. \/ g = "/" /\ <<"df", "/">> \notin blind
          \/ g \in Reported /\ <<"df", "">> \notin blind
      BY <3>1 DEF Hidden, When
    <3>3. CASE g = "/" /\ <<"df", "/">> \notin blind
      BY <1>1, <3>3 DEF Shown, RootShown, DiskReadings, Context
    <3>4. CASE g \in Reported /\ <<"df", "">> \notin blind
      BY <1>1, <3>4 DEF Shown, MountsShown, DiskReadings, Context
    <3> QED BY <3>2, <3>3, <3>4
  <2>2. \A used \in DiskReadings(ctx) :
          /\ Over(used, "disk") => ResourceWarning(ctx)
          /\ Crit(used, "disk") => ResourceCritical(ctx)
    BY DEF Over, Crit, WorstDiskAbove, ResourceWarning, ResourceCritical
  <2>3. MetricOf(g) = "disk"
    BY <1>5, GaugeMetric
  <2>4. \A used : GaugeShown(used, g) =>
          /\ <<"over", g>> \in always => Over(used, "disk") \/ Crit(used, "disk")
          /\ <<"critical", g>> \in always => Crit(used, "disk")
    BY <2>3 DEF GaugeShown, Exceeds
  <2> HIDE DEF ctx
  <2>5. ASSUME ~Hidden(<<"over", g>>), <<"over", g>> \in always
        PROVE  ResourceCritical(ctx) \/ ResourceWarning(ctx)
    BY <2>1, <2>2, <2>4, <2>5
  <2>6. ASSUME ~Hidden(<<"critical", g>>), <<"critical", g>> \in always
        PROVE  ResourceCritical(ctx)
    BY <2>1, <2>2, <2>4, <2>6
  <2> QED BY <2>5, <2>6 DEF ctx
<1> QED BY <1>3, <1>4, <1>5 DEF Gauges

\* An endpoint that never answered, and that this host answers for, is a failure.
LEMMA EndpointScored ==
  ASSUME TypeOK, Shown, pc = "analyse", NEW n \in Endpoints, <<"endpoint", n>> \in always,
         ~Hidden(<<"endpoint", n>>), NEW S, S = {} \/ OwnAddrs \cup got.vip \subseteq S
  PROVE  PostureWarning(Context(S))
<1>1. pc \in AfterVip
  BY DEF AfterVip
<1>2. PICK c \in got.app_checks : c.name = n /\ ~c.success
  <2>1. PICK i \in DOMAIN EndpointList : n = EndpointList[i]
    BY DEF Endpoints
  <2> QED BY <2>1 DEF Shown, EndpointsShown, EndpointShown
<1>3. Scored(n, S)
  <2>1. CASE Critical # {}
    <3>1. Watchers(<<"endpoint", n>>) = When(n \in Critical, {<<"GET", n>>})
      BY <2>1, WatchersOf
    <3>2. n \in Critical
      BY <3>1 DEF Hidden, When
    <3> QED BY <2>1, <3>2 DEF Scored
  <2>2. CASE Critical = {} /\ S # {}
    <3>1. AnswersForHost(n) \/ (UrlHost[n] \in Vips /\ <<"ip addr", "vip">> \notin blind)
      BY <2>2, WatchersOf DEF Hidden, When
    <3>2. <<"ip addr", "vip">> \notin blind => got.vip = Vips
      BY <1>1 DEF Shown, VipShown
    <3> QED BY <2>2, <3>1, <3>2, AddressAssumption DEF AnswersForHost, Scored, IsOwnEndpoint
  <2>3. CASE Critical = {} /\ S = {}
    BY <2>3 DEF Scored
  <2> QED BY <2>1, <2>2, <2>3
<1>4. c.name \in EndpointFailures(Context(S))
  BY <1>2, <1>3 DEF EndpointFailures, Context
<1> QED BY <1>4 DEF PostureWarning

\* A service, unit or clock that was at fault throughout, and was read, counts.
LEMMA PostureScored ==
  ASSUME TypeOK, Shown, pc = "analyse", NEW S, NEW f \in always, ~Hidden(f),
         \/ \E x \in Services : f = <<"service", x>>
         \/ \E u \in Units : f = <<"failed", u>>
         \/ f = <<"clock", "">>
  PROVE  PostureWarning(Context(S))
<1>1. pc \in AfterServices /\ pc \in AfterFailed /\ pc \in AfterClock
  BY DEF AfterServices, AfterFailed, AfterClock, AfterVip
<1>2. CASE \E x \in Services : f = <<"service", x>>
  <2>1. PICK x \in Services : f = <<"service", x>>
    BY <1>2
  <2>2. HasServices /\ <<"systemctl show", x>> \notin blind
    <3>1. Watchers(f) = When(HasServices, {<<"systemctl show", x>>})
      BY <2>1, WatchersOf
    <3> QED BY <3>1 DEF Hidden, When
  <2>3. PICK i \in DOMAIN ServiceList : x = ServiceList[i]
    BY DEF Services
  <2>4. Faulty(got.services) # {}
    BY <1>1, <2>1, <2>2, <2>3 DEF Shown, ServicesShown, ServiceShown
  <2>5. Stopped(Context(S)) \cup Missing(Context(S)) = Stopped(got) \cup Missing(got)
    BY DEF Stopped, Missing, Context
  <2> QED BY <2>4, <2>5, FaultyServices DEF PostureWarning
<1>3. CASE \E u \in Units : f = <<"failed", u>>
  <2>1. PICK u \in Units : f = <<"failed", u>>
    BY <1>3
  <2>2. HasFailedUnits /\ u # SelfUnit /\ <<"systemctl --failed", "">> \notin blind
    BY <2>1, WatchersOf DEF Hidden, When
  <2>3. u \in got.failed_services
    BY <1>1, <2>1, <2>2 DEF Shown, UnitsShown
  <2> QED BY <2>3 DEF PostureWarning, Context
<1>4. CASE f = <<"clock", "">>
  <2>1. <<"timedatectl", "">> \notin blind
    BY <1>4, WatchersOf DEF Hidden
  <2>2. got.time_desynchronized
    BY <1>1, <1>4, <2>1 DEF Shown, ClockShown
  <2> QED BY <2>2 DEF PostureWarning, Context
<1> QED BY <1>2, <1>3, <1>4

\* The verdict covers what lasted through the run and was read.
LEMMA AnalyseShown ==
  ASSUME TypeOK, Shown, Analyse
  PROVE  NoMissedFault'
<1>1. /\ pc = "analyse" /\ UNCHANGED <<got, always>> /\ blind \subseteq blind'
      /\ always \subseteq Faults(host)
  BY DEF Analyse, history, Shown, HistoryShown, Running
<1>2. PICK S : analysis' = Judge(S) /\ (S = {} \/ OwnAddrs \cup got.vip \subseteq S)
  BY DEF Analyse, SelfHosts, HostAddresses
<1> DEFINE ctx == Context(S)
<1>3. /\ analysis'.status = "CRITICAL" <=> ResourceCritical(ctx)
      /\ analysis'.status # "HEALTHY" <=>
           ResourceCritical(ctx) \/ ResourceWarning(ctx) \/ PostureWarning(ctx)
  BY <1>2, JudgeType, StatusOf
<1> HIDE DEF ctx
<1>4. \A f \in Steady' : f \in always /\ ~Hidden(f)
  BY <1>1 DEF Steady, Hidden
<1>5. ASSUME NEW f \in Steady' PROVE analysis'.status # "HEALTHY"
  <2>1. f \in always /\ ~Hidden(f) /\ f \in Faults(host)
    BY <1>1, <1>4
  <2>2. CASE \E g \in Gauges : f = <<"over", g>> \/ f = <<"critical", g>>
    BY <1>1, <1>3, <2>1, <2>2, GaugeScored DEF ctx
  <2>3. CASE \/ \E x \in Services : f = <<"service", x>>
             \/ \E u \in Units : f = <<"failed", u>>
             \/ f = <<"clock", "">>
    BY <1>1, <1>3, <2>1, <2>3, PostureScored DEF ctx
  <2>4. CASE \E n \in Endpoints : f = <<"endpoint", n>>
    BY <1>1, <1>2, <1>3, <2>1, <2>4, EndpointScored DEF ctx
  <2> QED BY <2>1, <2>2, <2>3, <2>4, FaultKinds
<1>6. ASSUME NEW f \in Steady' \cap SevereFaults PROVE analysis'.status = "CRITICAL"
  <2>1. PICK g \in Gauges : f = <<"critical", g>>
    BY DEF SevereFaults
  <2> QED BY <1>1, <1>3, <1>4, <2>1, GaugeScored DEF ctx
<1>7. SevereFaults' = SevereFaults
  OBVIOUS
<1> QED BY <1>5, <1>6, <1>7 DEF NoMissedFault, Contract!Covers

LEMMA ShownNext == ShownInv /\ [Next]_vars => ShownInv'
<1> SUFFICES ASSUME ShownInv, [Next]_vars PROVE ShownInv'
  OBVIOUS
<1>1. TypeOK /\ Shown /\ NoMissedFault /\ TypeOK'
  BY TypeNext DEF ShownInv
<1> SUFFICES Shown' /\ NoMissedFault'
  BY <1>1 DEF ShownInv
<1>2. CASE Begin
  <2>1. pc' # "done"
    BY <1>2 DEF Begin
  <2> QED BY <1>2, <2>1, BeginShown DEF NoMissedFault
<1>3. CASE Collect
  <2>1. pc' # "done"
    BY <1>3, CollectFrame
  <2> QED BY <1>1, <1>3, <2>1, CollectShown DEF NoMissedFault
<1>4. CASE Analyse
  <2>1. pc' = "done"
    BY <1>4 DEF Analyse
  <2>2. /\ pc' \notin AfterCpu /\ pc' \notin AfterMemory /\ pc' \notin AfterDisk
        /\ pc' \notin AfterFilesystems /\ pc' \notin AfterServices /\ pc' \notin AfterFailed
        /\ pc' \notin AfterClock /\ pc' \notin AfterVip
    BY <2>1 DEF AfterCpu, AfterMemory, AfterDisk, AfterFilesystems, AfterServices, AfterFailed,
                AfterClock, AfterVip
  <2>3. Shown'
    BY <2>1, <2>2 DEF Shown, CpuShown, MemoryShown, RootShown, MountsShown, ServicesShown,
         UnitsShown, ClockShown, VipShown, EndpointsShown, HistoryShown, IndexFresh, Running
  <2> QED BY <1>1, <1>4, <2>3, AnalyseShown
<1>5. CASE HostStep
  <2>1. /\ UNCHANGED <<pc, idx, got, analysis, blind>> /\ always' \subseteq always
        /\ Running => always' \subseteq Faults(host')
        /\ ~Running => always' = always
    BY <1>1, <1>5, HostStepType DEF TypeOK
  <2>2. HistoryShown'
    BY <2>1 DEF HistoryShown, Running
  <2>3. Shown'
    BY <1>1, <2>1, <2>2, SameShown
  <2>4. NoMissedFault'
    BY <1>1, <2>1 DEF NoMissedFault, Steady, Hidden, Running, Contract!Covers
  <2> QED BY <2>3, <2>4
<1>6. CASE UNCHANGED vars
  <2>1. UNCHANGED <<host, pc, idx, got, analysis, blind, always>>
    BY <1>6 DEF vars
  <2>2. HistoryShown'
    BY <1>1, <2>1 DEF Shown, HistoryShown, Running
  <2>3. Shown'
    BY <1>1, <2>1, <2>2, SameShown
  <2>4. NoMissedFault'
    BY <1>1, <2>1 DEF NoMissedFault, Steady, Hidden, Contract!Covers
  <2> QED BY <2>3, <2>4
<1> QED BY <1>2, <1>3, <1>4, <1>5, <1>6 DEF Next

\* Degrade, never hide a finding: for every configuration, every host and every
\* interleaving of its changes with the reads, a fault that lasted through the
\* run is in the verdict unless every read that could show it failed.
THEOREM NothingMissed == Spec => []NoMissedFault
<1>1. ShownInv => NoMissedFault
  BY DEF ShownInv
<1> QED BY <1>1, ShownInit, ShownNext, PTL DEF Spec
-----------------------------------------------------------------------------
(* The refinement: seen faults only grow, steady ones only shrink, and the      *)
(* verdict lies between the two.                                                *)

LEMMA ContractInit == Init => Contract!Init
BY DEF Init, Contract!Init, NoAnalysis, Steady

\* While more faults are known and more reads have failed, more is seen, less steady.
LEMMA ObservedMore ==
  ASSUME blind \subseteq blind', ever \subseteq ever', always' \subseteq always
  PROVE  Seen \subseteq Seen' /\ Steady' \subseteq Steady
<1>1. \A f : Blamable(f) => Blamable(f)'
  BY DEF Blamable, FallsBack, KeepsEveryMount
<1>2. \A f : Hidden(f) => Hidden(f)'
  BY DEF Hidden
<1> QED BY <1>1, <1>2 DEF Seen, Steady

LEMMA ContractNext ==
  ASSUME TypeOK, TypeOK', NoInventedFault', NoMissedFault', [Next]_vars
  PROVE  [Contract!Next]_(Contract!vars)
<1> USE DEF Contract!Next, Contract!vars
<1>1. CASE Begin
  <2>1. analysis'.status = "none"
    BY <1>1 DEF Begin, NoAnalysis
  <2>2. Steady' \subseteq Seen'
    BY DEF TypeOK, Steady, Seen, Hidden, Blamable
  <2> QED BY <2>1, <2>2 DEF Contract!Begin
<1>2. CASE Collect
  <2>1. analysis.status = "none" /\ analysis' = analysis
    BY <1>2, CollectFrame DEF TypeOK
  <2>2. Seen \subseteq Seen' /\ Steady' \subseteq Steady
    BY <1>2, CollectFrame, CollectWrites, ObservedMore
  <2> QED BY <2>1, <2>2 DEF Contract!Observe
<1>3. CASE Analyse
  <2>1. pc = "analyse" /\ pc' = "done" /\ blind \subseteq blind' /\ UNCHANGED <<ever, always>>
    BY <1>3 DEF Analyse, history
  <2>2. analysis.status = "none" /\ analysis'.status \in {"HEALTHY", "WARNING", "CRITICAL"}
    BY <2>1 DEF TypeOK, Verdicts
  <2>3. Seen \subseteq Seen' /\ Steady' \subseteq Steady
    BY <2>1, ObservedMore
  <2>4. Contract!Supported(analysis.status, Seen)' /\ Contract!Covers(analysis.status, Steady)'
    BY <2>1 DEF NoInventedFault, NoMissedFault
  <2> QED BY <2>2, <2>3, <2>4 DEF Contract!Conclude, Contract!Supported, Contract!Covers
<1>4. CASE HostStep
  <2>1. /\ UNCHANGED <<pc, analysis, blind>> /\ ever \subseteq ever' /\ always' \subseteq always
        /\ ~Running => UNCHANGED <<ever, always>>
    BY <1>4, HostStepType DEF TypeOK
  <2>2. CASE Running
    <3>1. analysis.status = "none"
      BY <2>2 DEF Running, TypeOK
    <3>2. Seen \subseteq Seen' /\ Steady' \subseteq Steady
      BY <2>1, ObservedMore
    <3> QED BY <2>1, <3>1, <3>2 DEF Contract!Observe
  <2>3. CASE ~Running
    BY <2>1, <2>3 DEF Seen, Steady, Blamable, Hidden, FallsBack, KeepsEveryMount
  <2> QED BY <2>2, <2>3
<1>5. CASE UNCHANGED vars
  BY <1>5 DEF vars, Seen, Steady, Blamable, Hidden, FallsBack, KeepsEveryMount
<1> QED BY <1>1, <1>2, <1>3, <1>4, <1>5 DEF Next

\* A run of agent/monitor.py implements the contract: for every configuration,
\* every host, every order of changes and every set of reads that fail, what it
\* concludes lies between the faults it must report and those it may.
THEOREM RunImplementsContract == Spec => ImplementsContract
<1>1. Spec => [](TypeOK /\ NoInventedFault /\ NoMissedFault)
  BY TypeCorrect, NothingInvented, NothingMissed, PTL
<1>2. /\ TypeOK /\ NoInventedFault /\ NoMissedFault
      /\ (TypeOK /\ NoInventedFault /\ NoMissedFault)'
      /\ [Next]_vars
      => [Contract!Next]_(Contract!vars)
  BY ContractNext
<1> QED BY <1>1, <1>2, ContractInit, PTL DEF Spec, ImplementsContract, Contract!Spec
=============================================================================
