---------------------------- MODULE HealthService ----------------------------
(* The monitor as it is deployed: health-monitor.timer starts the oneshot       *)
(* health-monitor.service again and again, each run judges the host, overwrites *)
(* one report file in place and ends in an exit code, and systemd turns that    *)
(* code into the unit state that `systemctl is-failed' alerts on.  An operator  *)
(* may start the program by hand at the same time, on the same report file.     *)
(*                                                                              *)
(* What a run makes of the host is RunContract, which Monitor implements: a     *)
(* fault that is there, and readable, throughout a run is in its verdict, and   *)
(* no fault is that never was there.                                            *)
EXTENDS Integers, FiniteSets

CONSTANTS
  FaultSet,        \* faults a host may have
  SevereFaults,    \* those that make a verdict CRITICAL
  ByHand,          \* runs an operator starts, {} for none
  Pages,           \* writes it takes to fill the report file
  MaxChanges       \* bound on the changes of the host, reboots included

VARIABLES
  host,            \* [faults, dim, slow, full, release]: dim faults cannot be read,
                   \* a slow host lets a run outlast TimeoutStartSec, a full one has
                   \* no room for the report, one without an os-release fails every run
  unit,            \* the service: its ActiveState and what its last run ended in
  pc, verdict,     \* of each run: its next step, its health status,
  seen, steady,    \* the faults that were there at some time, and throughout,
  written,         \* and how far it has written the report
  pages, mode,     \* the report file: the verdict on each page, its permissions
  owner, overlap,  \* history: who truncated the file last; was it open elsewhere
  changes          \* how often the host changed, at most MaxChanges

runVars == <<pc, verdict, seen, steady, written>>
fileVars == <<pages, mode, owner, overlap>>
vars == <<host, unit, runVars, fileVars, changes>>

Timed == "timed"   \* the run health-monitor.timer starts
Runs == {Timed} \cup ByHand

ASSUME FaultAssumption == SevereFaults \subseteq FaultSet
ASSUME PagesAssumption == Pages \in Nat \ {0}
ASSUME RunsAssumption == Timed \notin ByHand
ASSUME ChangesAssumption == MaxChanges \in Nat

Promise == INSTANCE RunContract
             WITH Severe <- SevereFaults, seen <- {}, steady <- {}, verdict <- "none"

Verdicts == {"HEALTHY", "WARNING", "CRITICAL"}
Blank == "blank"
Never == -1        \* the unit has not run since boot
Killed == -15      \* ended by SIGTERM, at TimeoutStartSec

Hosts ==
  [faults : SUBSET FaultSet, dim : SUBSET FaultSet, slow : BOOLEAN, full : BOOLEAN,
   release : BOOLEAN]

Visible(h) == h.faults \ h.dim

-----------------------------------------------------------------------------
(* A run. *)

At(r, here, there) == pc[r] = here /\ pc' = [pc EXCEPT ![r] = there]

Start(r) ==
  /\ At(r, "off", "collect")
  /\ verdict' = [verdict EXCEPT ![r] = "none"]
  /\ seen' = [seen EXCEPT ![r] = host.faults]
  /\ steady' = [steady EXCEPT ![r] = Visible(host)]
  /\ written' = [written EXCEPT ![r] = 0]

\* Mutated: the timer leaves a failed unit alone.
Elapse_OnlyInactive ==
  /\ unit.active = "inactive"
  /\ Start(Timed) /\ unit' = [unit EXCEPT !.active = "activating"]
  /\ UNCHANGED <<host, fileVars, changes>>

\* OnBootSec and OnUnitActiveSec.  The unit has one process: starting it while it
\* is activating changes nothing.
Elapse ==
  /\ unit.active # "activating"
  /\ Start(Timed) /\ unit' = [unit EXCEPT !.active = "activating"]
  /\ UNCHANGED <<host, fileVars, changes>>

StartByHand(r) ==
  /\ r \in ByHand
  /\ Start(r) /\ UNCHANGED <<host, unit, fileVars, changes>>

ExitCode(status) ==
  IF status = "CRITICAL" THEN 2 ELSE IF status = "WARNING" THEN 1 ELSE 0

\* The process of run r ends; only the unit's own concerns systemd.
End(r, code) ==
  /\ pc' = [pc EXCEPT ![r] = "off"]
  /\ unit' = IF r = Timed
             THEN [active |-> IF code = 0 THEN "inactive" ELSE "failed", code |-> code]
             ELSE unit

\* HealthMonitor.report()
Judge(r) ==
  /\ host.release
  /\ At(r, "collect", "publish")
  /\ \E v \in Verdicts :
       /\ Promise!Supported(v, seen[r]) /\ Promise!Covers(v, steady[r])
       /\ verdict' = [verdict EXCEPT ![r] = v]
  /\ UNCHANGED <<host, unit, seen, steady, written, fileVars, changes>>

\* Mutated: the traceback ends in a clean exit.
NoIdentity_Clean(r) ==
  /\ ~host.release
  /\ pc[r] = "collect" /\ End(r, 0)
  /\ UNCHANGED <<host, verdict, seen, steady, written, fileVars, changes>>

\* get_system_identity raises without an os-release file
NoIdentity(r) ==
  /\ ~host.release
  /\ pc[r] = "collect" /\ End(r, 1)
  /\ UNCHANGED <<host, verdict, seen, steady, written, fileVars, changes>>

\* open(path, "w") truncates the report of the last run; a new file gets the umask's mode
Open(r) ==
  /\ At(r, "publish", "write")
  /\ pages' = [i \in DOMAIN pages |-> Blank]
  /\ mode' = IF mode = "none" THEN "umask" ELSE mode
  /\ owner' = r
  /\ overlap' = (\E s \in Runs \ {r} : pc[s] = "write")
  /\ UNCHANGED <<host, unit, verdict, seen, steady, written, changes>>

\* f.write(html), at this run's own offset in the file
Write(r) ==
  /\ pc[r] = "write" /\ written[r] < Pages
  /\ written' = [written EXCEPT ![r] = @ + 1]
  /\ pages' = [pages EXCEPT ![written'[r]] = verdict[r]]
  /\ UNCHANGED <<host, unit, pc, verdict, seen, steady, mode, owner, overlap, changes>>

\* after writing: chmod is not masked by the umask
Chmod(r) ==
  /\ written[r] = Pages
  /\ At(r, "write", "exit")
  /\ mode' = "chosen"
  /\ UNCHANGED <<host, unit, verdict, seen, steady, written, pages, owner, overlap, changes>>

\* Mutated: the exception is reported and then forgotten.
WriteFails_Swallowed(r) ==
  /\ host.full
  /\ \/ pc[r] = "publish" /\ mode = "none"
     \/ pc[r] = "write" /\ written[r] < Pages
  /\ pc' = [pc EXCEPT ![r] = "exit"]
  /\ UNCHANGED <<host, unit, verdict, seen, steady, written, fileVars, changes>>

\* Without room neither a new file nor a page can be written: write_output
\* re-raises and the interpreter exits 1.
WriteFails(r) ==
  /\ host.full
  /\ \/ pc[r] = "publish" /\ mode = "none"
     \/ pc[r] = "write" /\ written[r] < Pages
  /\ End(r, 1)
  /\ UNCHANGED <<host, verdict, seen, steady, written, fileVars, changes>>

Exit(r) ==
  /\ pc[r] = "exit" /\ End(r, ExitCode(verdict[r]))
  /\ UNCHANGED <<host, verdict, seen, steady, written, fileVars, changes>>

\* Mutated: the unit waits for a run that is gone.
TimeOut_KeepsWaiting ==
  /\ host.slow /\ pc[Timed] # "off"
  /\ pc' = [pc EXCEPT ![Timed] = "off"]
  /\ UNCHANGED <<host, unit, verdict, seen, steady, written, fileVars, changes>>

\* TimeoutStartSec=60: systemd terminates the run, wherever it is
TimeOut ==
  /\ host.slow /\ pc[Timed] # "off"
  /\ End(Timed, Killed)
  /\ UNCHANGED <<host, verdict, seen, steady, written, fileVars, changes>>

\* The operator's Ctrl-C, which write_output does not catch
Interrupt(r) ==
  /\ r \in ByHand /\ pc[r] # "off"
  /\ End(r, Killed)
  /\ UNCHANGED <<host, verdict, seen, steady, written, fileVars, changes>>

-----------------------------------------------------------------------------
(* The host. *)

\* One facet changes under the runs that still collect.
Becomes(h) ==
  /\ changes < MaxChanges /\ changes' = changes + 1
  /\ h # host /\ host' = h
  /\ seen' = [r \in Runs |-> IF pc[r] = "collect" THEN seen[r] \cup h.faults ELSE seen[r]]
  /\ steady' = [r \in Runs |-> IF pc[r] = "collect" THEN steady[r] \cap Visible(h) ELSE steady[r]]
  /\ UNCHANGED <<unit, pc, verdict, written, fileVars>>

HostStep ==
  \/ \E F \in SUBSET FaultSet :
       Becomes([host EXCEPT !.faults = F]) \/ Becomes([host EXCEPT !.dim = F])
  \/ Becomes([host EXCEPT !.slow = ~@])
  \/ Becomes([host EXCEPT !.full = ~@])

\* systemd forgets the unit's last run; the report file stays as it is.
Reboot ==
  /\ changes < MaxChanges /\ changes' = changes + 1
  /\ pc' = [r \in Runs |-> "off"]
  /\ unit' = [active |-> "inactive", code |-> Never]
  /\ UNCHANGED <<host, verdict, seen, steady, written, fileVars>>

-----------------------------------------------------------------------------

Init ==
  /\ \E b \in BOOLEAN :
       host = [faults |-> {}, dim |-> {}, slow |-> FALSE, full |-> FALSE, release |-> b]
  /\ unit = [active |-> "inactive", code |-> Never]
  /\ pc = [r \in Runs |-> "off"] /\ verdict = [r \in Runs |-> "none"]
  /\ seen = [r \in Runs |-> {}] /\ steady = [r \in Runs |-> {}]
  /\ written = [r \in Runs |-> 0]
  /\ pages = [i \in 1..Pages |-> Blank] /\ mode = "none"
  /\ owner = "none" /\ overlap = FALSE
  /\ changes = 0

Step(r) ==
  Judge(r) \/ NoIdentity(r) \/ Open(r) \/ Write(r) \/ Chmod(r) \/ WriteFails(r) \/ Exit(r)

Next ==
  \/ Elapse \/ TimeOut \/ HostStep \/ Reboot
  \/ \E r \in Runs : Step(r) \/ StartByHand(r) \/ Interrupt(r)

Spec == Init /\ [][Next]_vars

\* The timer never stops, and a run gets on by itself or at TimeoutStartSec.
Fairness == WF_vars(Elapse) /\ \A r \in Runs : WF_vars(Step(r))

FairSpec == Spec /\ Fairness

-----------------------------------------------------------------------------
(* Properties. *)

\* Type correctness; the unit is activating exactly while its process lives.
TypeOK ==
  /\ host \in Hosts
  /\ unit \in [active : {"inactive", "activating", "failed"}, code : {Never, Killed, 0, 1, 2}]
  /\ pc \in [Runs -> {"off", "collect", "publish", "write", "exit"}]
  /\ verdict \in [Runs -> Verdicts \cup {"none"}]
  /\ seen \in [Runs -> SUBSET FaultSet] /\ steady \in [Runs -> SUBSET FaultSet]
  /\ written \in [Runs -> 0..Pages]
  /\ pages \in [1..Pages -> Verdicts \cup {Blank}]
  /\ mode \in {"none", "umask", "chosen"}
  /\ owner \in Runs \cup {"none"} /\ overlap \in BOOLEAN
  /\ changes \in 0..MaxChanges
  /\ (unit.active = "activating") = (pc[Timed] # "off")

Complete == \A i \in 1..Pages : pages[i] # Blank

\* A unit at rest that reports 0 or 2, and was the last to open the report, has
\* published it: every page is there, with the permissions that were asked for,
\* and, unless another run had the file open too, every page says what the exit
\* code says.  No timeout, full disk, interrupt or reboot leaves a torn or
\* stale report beside such a code.
FinishedRunPublished ==
  unit.active # "activating" /\ unit.code \in {0, 2} /\ owner = Timed =>
    /\ Complete /\ mode = "chosen"
    /\ ~overlap => \A i \in 1..Pages : ExitCode(pages[i]) = unit.code

\* A fault that stays and can be read ends in a unit that is failed, or running,
\* for good: neither a run that is killed, or cannot write its report, or dies
\* before it has one, nor a reboot turns the signal back to healthy.
FaultsFailTheUnit ==
  \A f \in FaultSet :
    <>[](f \in Visible(host)) => <>[](unit.active # "inactive")

\* Once nothing is wrong, nothing stays alarmed: the unit is not failed again, and
\* the report it leaves says HEALTHY on every page.
QuietRecovers ==
  <>[](host.faults = {} /\ ~host.slow /\ ~host.full /\ host.release) =>
    /\ <>[](unit.active # "failed")
    /\ <>[](owner = Timed /\ (\A r \in Runs : pc[r] # "write")
              => \A i \in 1..Pages : pages[i] = "HEALTHY")

-----------------------------------------------------------------------------
(* What the repository says and the code does not keep; see the findings.       *)

\* systemd/README.md: "A WARNING leaves the unit in `failed' until the next
\* healthy run", so only such a run, or a reboot, takes the unit out of it.
FailedUntilHealthy ==
  [][unit.active = "failed" /\ verdict[Timed] = "WARNING" /\ unit'.active # "failed"
       => unit'.code \in {0, Never}]_vars
=============================================================================
