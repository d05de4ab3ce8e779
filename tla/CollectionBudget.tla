-------------------------- MODULE CollectionBudget --------------------------
(* The time a collection run may take.  A run asks the host one question after   *)
(* another; each has a timeout of its own and there is none for them all but     *)
(* TimeoutStartSec of the unit, at which systemd kills the run and the last      *)
(* report stays.  What answers the questions may stall and recover meanwhile.    *)
(* A question to something that works takes no time here; one to something that  *)
(* stalls takes its whole timeout, answered at the last moment or not at all;    *)
(* and any of them may fail at once.                                             *)
EXTENDS Naturals, FiniteSets, SequencesExt

CONSTANTS
  Watched,         \* units of HEALTH_SERVICES
  Addresses,       \* how many addresses of HEALTH_VIP this node does not hold
  Endpoints,       \* what HEALTH_APP_ENDPOINTS names
  Rhel,            \* whether the host asks dnf for pending reboots
  Firewalls,       \* the units of FIREWALL_UNITS that are active
  Runtimes,        \* which of docker and podman are installed
  Endless,         \* what no timeout bounds when it stalls: a disk whose I/O cannot be
                   \* killed, an endpoint that goes on sending a byte at a time
  StartLimit,      \* TimeoutStartSec, in seconds
  MaxTurns         \* bound on how often something stalls, recovers or fails in a run

VARIABLES
  asked,           \* how many questions of the programme are over
  heard,           \* the questions that were answered
  elapsed,         \* seconds since the run was started
  outcome,         \* of the run: under_way, reported, killed
  stalled,         \* what stalls now
  faltered,        \* history: what stalled at some time in the run
  denied,          \* history: the questions that failed at once
  turns            \* at most MaxTurns

budgetVars == <<asked, heard, elapsed, outcome, stalled, faltered, denied, turns>>

FIREWALL_UNITS == <<"firewalld", "ufw", "nftables", "iptables">>

\* The other questions of a run and whom they are asked of: endpoints go by names of
\* their own.
OtherNames ==
  {FIREWALL_UNITS[i] : i \in DOMAIN FIREWALL_UNITS}
  \cup {"df_root", "df", "disk", "nproc", "ss", "addresses", "neighbour", "self", "kernel",
        "show", "failed", "time_service", "systemd", "docker", "podman", "du", "walk", "logs",
        "journal", "journald", "clock", "timedated", "zone", "reboot", "packages"}

ASSUME BudgetAssumption ==
  /\ IsFiniteSet(Watched) /\ IsFiniteSet(Endpoints) /\ Addresses \in Nat
  /\ Endpoints \cap OtherNames = {}
  /\ Rhel \in BOOLEAN
  /\ Firewalls \subseteq {FIREWALL_UNITS[i] : i \in DOMAIN FIREWALL_UNITS}
  /\ Runtimes \subseteq {"docker", "podman"}
  /\ StartLimit \in Nat \ {0} /\ MaxTurns \in Nat

-----------------------------------------------------------------------------
(* The questions of HealthMonitor.report, in their order. *)

Question(what, whom, limit) == [what |-> what, whom |-> whom, limit |-> limit]

\* Mutated: the default timeout is longer.
Timeout_Longer == 10

\* run_command's default
Timeout == 3

Repeated(n, what, whom) == [i \in 1..n |-> Question(what, whom, Timeout)]

\* collect_core_metrics
MetricQuestions ==
  <<Question("df_root", "disk", Timeout), Question("df", "disk", 10),
    Question("nproc", "kernel", Timeout)>>

\* The features of system_context.py.  The walk of get_directory_usage is no command
\* and has no timeout at all.
ContextQuestions ==
  Repeated(Cardinality(Watched), "show", "systemd")
  \o <<Question("failed", "systemd", Timeout), Question("docker", "docker", Timeout),
       Question("podman", "podman", Timeout), Question("ss", "kernel", Timeout),
       Question("du", "logs", 30), Question("walk", "logs", 0)>>

\* Those of host_checks.py
PostureQuestions ==
  <<Question("journal", "journald", 15), Question("clock", "timedated", Timeout)>>
  \o Repeated(5, "time_service", "systemd")
  \o [i \in DOMAIN FIREWALL_UNITS |-> Question(FIREWALL_UNITS[i], "systemd", Timeout)]
  \o <<Question("zone", "firewalld", Timeout), Question("addresses", "kernel", Timeout)>>
  \o Repeated(Addresses, "neighbour", "kernel") \o <<Question("reboot", "packages", 30)>>

\* get_app_checks, and the addresses that run_health_analysis reads to know its own
AppQuestions ==
  [i \in 1..Cardinality(Endpoints) |-> Question(SetToSeq(Endpoints)[i], SetToSeq(Endpoints)[i], 2)]
  \o <<Question("self", "kernel", Timeout)>>

Programme == MetricQuestions \o ContextQuestions \o PostureQuestions \o AppQuestions

Parties == {Programme[i].whom : i \in DOMAIN Programme}

\* _active_unit over FIREWALL_UNITS: a unit whose probe was not answered is not active
Active(unit) == unit \in Firewalls \cap heard

\* Mutated: a runtime that does not answer is the host's runtime all the same.
IsAsked_DockerOnly(q) ==
  CASE q.what = "podman"       -> "docker" \notin Runtimes
    [] q.what = "walk"         -> "du" \notin heard
    [] q.what = "time_service" -> "clock" \in heard
    [] q.what = "zone"         -> Active("firewalld")
    [] q.what = "neighbour"    -> "addresses" \in heard
    [] q.what = "self"         -> Endpoints # {}
    [] q.what = "reboot"       -> Rhel
    [] OTHER                   -> TRUE

\* The questions that hang on the answer to another or on the host
Dependent == {"walk", "time_service", "zone", "neighbour", "reboot"}

IsAsked(q) ==
  CASE q.what = "podman"       -> "docker" \notin heard
    [] q.what = "walk"         -> "du" \notin heard
    [] q.what = "time_service" -> "clock" \in heard
    [] q.what = "zone"         -> Active("firewalld")
    [] q.what = "neighbour"    -> "addresses" \in heard
    [] q.what = "self"         -> Endpoints # {}
    [] q.what = "reboot"       -> Rhel
    [] OTHER                   -> TRUE

-----------------------------------------------------------------------------
(* A run. *)

Present == Programme[asked + 1]
Asking == outcome = "under_way" /\ asked < Len(Programme) /\ IsAsked(Present)
Missing == {"docker", "podman"} \ Runtimes

Fits == elapsed + Present.limit < StartLimit

Waits == Present.what \notin Missing /\ Present.whom \in stalled
Unbounded == Present.what = "walk" \/ Present.whom \in Endless

Moves == asked' = asked + 1 /\ UNCHANGED <<outcome, stalled, faltered>>

Skips ==
  /\ outcome = "under_way" /\ asked < Len(Programme) /\ ~IsAsked(Present)
  /\ Moves /\ UNCHANGED <<heard, elapsed, denied, turns>>

\* A runtime that is not installed is asked all the same, and fails at once.
Answers ==
  /\ Asking /\ ~Waits
  /\ heard' = heard \cup ({Present.what} \ Missing)
  /\ Moves /\ UNCHANGED <<elapsed, denied, turns>>

\* So does a command that cannot be started or exits in error, and a connection that
\* is refused.
AtOnce ==
  /\ Asking /\ ~Waits /\ turns < MaxTurns
  /\ turns' = turns + 1 /\ denied' = denied \cup {Present.what}
  /\ Moves /\ UNCHANGED <<heard, elapsed>>

\* run_command, or the socket's timeout: the answer comes just in time or not at all
TimeRunsOut ==
  /\ Asking /\ Waits /\ ~Unbounded /\ Fits
  /\ elapsed' = elapsed + Present.limit
  /\ heard' \in {heard, heard \cup {Present.what}}
  /\ Moves /\ UNCHANGED <<denied, turns>>

\* TimeoutStartSec: the report is not written
IsKilled ==
  /\ Asking /\ Waits /\ (Unbounded \/ ~Fits)
  /\ outcome' = "killed"
  /\ UNCHANGED <<asked, heard, elapsed, stalled, faltered, denied, turns>>

Finishes ==
  /\ outcome = "under_way" /\ asked = Len(Programme)
  /\ outcome' = "reported"
  /\ UNCHANGED <<asked, heard, elapsed, stalled, faltered, denied, turns>>

\* the timer's next run, which may find the same host stalled once it has begun
Again ==
  /\ outcome # "under_way"
  /\ asked' = 0 /\ heard' = {} /\ elapsed' = 0 /\ outcome' = "under_way"
  /\ stalled' = {} /\ faltered' = {} /\ denied' = {} /\ turns' = 0

Turns(party) ==
  /\ outcome = "under_way" /\ turns < MaxTurns
  /\ turns' = turns + 1
  /\ stalled' = IF party \in stalled THEN stalled \ {party} ELSE stalled \cup {party}
  /\ faltered' = faltered \cup {party}
  /\ UNCHANGED <<asked, heard, elapsed, outcome, denied>>

-----------------------------------------------------------------------------

BudgetInit ==
  /\ asked = 0 /\ heard = {} /\ elapsed = 0 /\ outcome = "under_way"
  /\ stalled = {} /\ faltered = {} /\ denied = {} /\ turns = 0

BudgetNext ==
  \/ Skips \/ Answers \/ AtOnce \/ TimeRunsOut \/ IsKilled \/ Finishes \/ Again
  \/ \E party \in Parties : Turns(party)

BudgetSpec == BudgetInit /\ [][BudgetNext]_budgetVars

-----------------------------------------------------------------------------
(* Properties. *)

\* Type correctness of the run and its host; a run that still asks has time left.
BudgetTypeOK ==
  /\ asked \in 0..Len(Programme) /\ heard \subseteq {Programme[i].what : i \in DOMAIN Programme}
  /\ elapsed \in 0..StartLimit - 1 /\ outcome \in {"under_way", "reported", "killed"}
  /\ stalled \subseteq Parties /\ faltered \subseteq Parties
  /\ denied \subseteq {Programme[i].what : i \in DOMAIN Programme} /\ turns \in 0..MaxTurns

\* The timeouts add up to far more than TimeoutStartSec, but a run is killed, and
\* its host left without a report, only when two things stalled in it, or one that
\* no timeout bounds; /var/log is such a one, since the walk that replaces a du
\* that timed out has no limit.
KilledMeansTwoTroubles ==
  outcome = "killed" =>
    Cardinality(faltered) >= 2 \/ faltered \cap (Endless \cup {"logs"}) # {}

\* Nothing a run asks more than once is asked so often that its timeouts alone come
\* to TimeoutStartSec: systemd about each unit and each candidate of FIREWALL_UNITS,
\* the kernel about each virtual address.  The rest is asked once or twice.
OneFits ==
  /\ Timeout * (Cardinality(Watched) + 10) < StartLimit
  /\ Timeout * (Addresses + 4) < StartLimit
  /\ StartLimit > 30

\* What stalls or fails costs the report its own answers and no others: all that
\* hangs on no other answer is read from whatever did not, the containers are those
\* of a runtime that works although the other one does not, and the host is said to
\* have no firewall only if it has none or systemd did not say.
StillReads ==
  outcome = "reported" =>
    /\ \A i \in DOMAIN Programme :
         LET q == Programme[i] IN
         /\ q.whom \notin faltered /\ q.what \notin denied
         /\ q.what \notin {"docker", "podman"} \cup Dependent
         /\ (q.what = "self" => Endpoints # {})
         => q.what \in heard
    /\ Runtimes \ (faltered \cup denied) # {} => {"docker", "podman"} \cap heard # {}
    /\ /\ {"systemd", "timedated"} \cap faltered = {}
       /\ {"clock", "time_service"} \cap denied = {}
       => "time_service" \in heard
    /\ (\A u \in Firewalls : ~Active(u)) => "systemd" \in faltered \/ Firewalls \subseteq denied
=============================================================================
