------------------------------ MODULE Sampling ------------------------------
(* get_cpu_snapshot of agent/system_metrics.py: every counter is read, the      *)
(* program sleeps for the interval, every counter is read again, and the        *)
(* differences become the CPU percentage, the iowait share and the list of the  *)
(* busiest processes.  Time is counted in ticks, in which each CPU runs a       *)
(* process, waits for a disk or idles; a tick that runs a virtual machine is    *)
(* in two columns of the line.  The kernel does not stop for the reader: ticks  *)
(* pass between any two reads, processes are born, die and hand their pid on,   *)
(* and the iowait counter may go back.  Percentages are tenths.                 *)
EXTENDS Integers, FiniteSets

CONSTANTS
  Cpus,            \* CPUs of the host
  Pids,            \* process ids
  Interval,        \* ticks the program sleeps, at least
  TopLimit,        \* how many processes are listed
  LoadLimits,      \* limits a CPU percentage may be compared with
  MaxDelay,        \* bound on the ticks that pass besides those of the sleep
  MaxChurn         \* bound on the births, deaths and iowait corrections

VARIABLES
  kernel,          \* the cpu line of /proc/stat
  proc,            \* pid -> the jiffies of the process that has it, or Gone
  doing,           \* what get_cpu_snapshot does next
  pending,         \* the pids its present listing of /proc has still to read
  asleep,          \* ticks of the sleep, counted to the interval
  lineStart, lineEnd,   \* stat_start, stat_end
  procStart, procEnd,   \* proc_start, proc_end: pid -> jiffies, or Gone
  top,             \* the pids of the list of processes
  levels,          \* history: how many CPUs were busy, and how many of these ran
                   \* a guest, in the ticks between the lines
  ran,             \* history: what the process ran since the first read of its pid,
                   \* or since its birth, until the second
  born,            \* history: pids handed to a new process between the two reads
  corrected,       \* history: iowait went back between the lines
  delay, churn     \* at most MaxDelay, MaxChurn

lineVars == <<lineStart, lineEnd>>
procVars == <<procStart, procEnd>>
lineHistory == <<levels, corrected>>
processHistory == <<ran, born>>
samplingVars == <<kernel, proc, doing, pending, asleep, lineVars, procVars, top,
                  lineHistory, processHistory, delay, churn>>

ASSUME SamplingAssumption ==
  /\ Cpus \in Nat \ {0} /\ Interval \in Nat /\ TopLimit \in Nat
  /\ LoadLimits \subseteq 0..100
  /\ MaxDelay \in Nat /\ MaxChurn \in Nat /\ IsFiniteSet(Pids)

Gone == -1
Alive == {p \in Pids : proc[p] # Gone}
Seen == {p \in Pids : procEnd[p] # Gone}
Unread == [busy |-> -1, idle |-> -1, iowait |-> -1, guest |-> -1]

-----------------------------------------------------------------------------
(* What the samples are made into. *)

\* sum(values): guest and guest_nice too, which the kernel has counted into user
\* and nice, here `busy', already
Total(line) == line.busy + line.idle + line.iowait + line.guest

\* Mutated: waiting for a disk counts as work.
BusyTotal_CountsIowait(line) ==
  [busy |-> Total(line) - line.idle, total |-> Total(line)]

\* _busy_total
BusyTotal(line) ==
  [busy |-> Total(line) - (line.idle + line.iowait), total |-> Total(line)]

\* Mutated: the share is rounded and not clamped.
Share_Unclamped(part, whole) == (2 * 1000 * part + whole) \div (2 * whole)

\* round(max(0.0, min(100.0, part / whole * 100)), 1), in tenths
Share(part, whole) ==
  LET rounded == (2 * 1000 * part + whole) \div (2 * whole)
  IN  IF rounded < 0 THEN 0 ELSE IF rounded > 1000 THEN 1000 ELSE rounded

\* _cpu_percent
CpuTenths ==
  LET start == BusyTotal(lineStart)
      end   == BusyTotal(lineEnd)
  IN  IF Unread \notin {lineStart, lineEnd} /\ end.total - start.total > 0
      THEN Share(end.busy - start.busy, end.total - start.total) ELSE 0

\* _pressure; 0 stands for its None
IowaitTenths ==
  LET elapsed == Total(lineEnd) - Total(lineStart)
  IN  IF Unread \notin {lineStart, lineEnd} /\ elapsed > 0
      THEN Share(lineEnd.iowait - lineStart.iowait, elapsed) ELSE 0

\* Mutated: the difference is taken, whichever way it goes.
Worked_Absolute(p) ==
  IF procStart[p] = Gone THEN 0
  ELSE IF procEnd[p] >= procStart[p] THEN procEnd[p] - procStart[p]
       ELSE procStart[p] - procEnd[p]

\* _top_processes: without a baseline nothing, and with the baseline of an older
\* process of the pid no more than what is left
Worked(p) ==
  IF procStart[p] # Gone /\ procEnd[p] >= procStart[p] THEN procEnd[p] - procStart[p] ELSE 0

\* the first TopLimit of the processes sorted by work; memory, here anything, breaks ties
Leads(listed) ==
  /\ Cardinality(listed) = IF Cardinality(Seen) < TopLimit THEN Cardinality(Seen) ELSE TopLimit
  /\ \A p \in listed, q \in Seen \ listed : Worked(p) >= Worked(q)

-----------------------------------------------------------------------------
(* The reader. *)

Does(here, there) == doing = here /\ doing' = there

\* /proc/stat, if it can be read
OpenLine ==
  /\ Does("open_line", "open_list")
  /\ lineStart' \in {kernel, Unread} /\ levels' = {} /\ corrected' = FALSE
  /\ UNCHANGED <<kernel, proc, pending, asleep, lineEnd, procVars, top, processHistory, delay, churn>>

CloseLine ==
  /\ Does("close_line", "close_list")
  /\ lineEnd' \in {kernel, Unread}
  /\ UNCHANGED <<kernel, proc, pending, asleep, lineStart, procVars, top, lineHistory,
                 processHistory, delay, churn>>

\* _pid_list
ListPids ==
  /\ Does("open_list", "open_pids") \/ Does("close_list", "close_pids")
  /\ pending' = Alive
  /\ UNCHANGED <<kernel, proc, asleep, lineVars, procVars, top, lineHistory, processHistory, delay, churn>>

\* _proc_pid_stat; a process that is gone by now is left out
OpenPid(p) ==
  /\ doing = "open_pids" /\ p \in pending
  /\ pending' = pending \ {p}
  /\ procStart' = [procStart EXCEPT ![p] = proc[p]]
  /\ ran' = [ran EXCEPT ![p] = 0] /\ born' = born \ {p}
  /\ UNCHANGED <<kernel, proc, doing, asleep, lineVars, procEnd, top, lineHistory, delay, churn>>

ClosePid(p) ==
  /\ doing = "close_pids" /\ p \in pending
  /\ pending' = pending \ {p}
  /\ procEnd' = [procEnd EXCEPT ![p] = proc[p]]
  /\ UNCHANGED <<kernel, proc, doing, asleep, lineVars, procStart, top, lineHistory,
                 processHistory, delay, churn>>

Sleep ==
  /\ pending = {} /\ Does("open_pids", "sleep")
  /\ UNCHANGED <<kernel, proc, pending, asleep, lineVars, procVars, top, lineHistory,
                 processHistory, delay, churn>>

Wake ==
  /\ asleep = Interval /\ Does("sleep", "close_line")
  /\ UNCHANGED <<kernel, proc, pending, asleep, lineVars, procVars, top, lineHistory,
                 processHistory, delay, churn>>

\* Mutated: the list is ranked by what the processes ran in all their life.
TopProcesses_ByTotal ==
  /\ pending = {} /\ Does("close_pids", "done")
  /\ \E listed \in SUBSET Seen :
       /\ Cardinality(listed) = IF Cardinality(Seen) < TopLimit THEN Cardinality(Seen) ELSE TopLimit
       /\ \A p \in listed, q \in Seen \ listed : procEnd[p] >= procEnd[q]
       /\ top' = listed
  /\ UNCHANGED <<kernel, proc, pending, asleep, lineVars, procVars, lineHistory,
                 processHistory, delay, churn>>

TopProcesses ==
  /\ pending = {} /\ Does("close_pids", "done")
  /\ \E listed \in SUBSET Seen : Leads(listed) /\ top' = listed
  /\ UNCHANGED <<kernel, proc, pending, asleep, lineVars, procVars, lineHistory,
                 processHistory, delay, churn>>

-----------------------------------------------------------------------------
(* The kernel. *)

\* A tick: R run, `guests' of them a virtual machine, and `waiting' CPUs have
\* nothing to run but a disk to wait for.
Tick(R, waiting, guests) ==
  /\ R \subseteq Alive /\ Cardinality(R) + waiting <= Cpus /\ doing # "done"
  /\ guests <= Cardinality(R)
  /\ \/ /\ doing = "sleep" /\ asleep < Interval
        /\ asleep' = asleep + 1 /\ delay' = delay
     \/ /\ delay < MaxDelay /\ ~(doing = "sleep" /\ asleep < Interval)
        /\ delay' = delay + 1 /\ asleep' = asleep
  /\ kernel' = [busy   |-> kernel.busy + Cardinality(R),
                idle   |-> kernel.idle + (Cpus - Cardinality(R) - waiting),
                iowait |-> kernel.iowait + waiting,
                guest  |-> kernel.guest + guests]
  /\ proc' = [p \in Pids |-> IF p \in R THEN proc[p] + 1 ELSE proc[p]]
  /\ ran' = [p \in Pids |-> IF p \in R \ Seen THEN ran[p] + 1 ELSE ran[p]]
  /\ levels' = IF doing \in {"close_list", "close_pids"} THEN levels
               ELSE levels \cup {[busy |-> Cardinality(R), guest |-> guests]}
  /\ UNCHANGED <<doing, pending, lineVars, procVars, top, corrected, born, churn>>

Churns == churn < MaxChurn /\ churn' = churn + 1 /\ doing # "done"

Fork(p) ==
  /\ Churns /\ p \notin Alive
  /\ proc' = [proc EXCEPT ![p] = 0]
  /\ IF p \in Seen THEN UNCHANGED processHistory
     ELSE ran' = [ran EXCEPT ![p] = 0] /\ born' = born \cup {p}
  /\ UNCHANGED <<kernel, doing, pending, asleep, lineVars, procVars, top, lineHistory, delay>>

Exit(p) ==
  /\ Churns /\ p \in Alive
  /\ proc' = [proc EXCEPT ![p] = Gone]
  /\ UNCHANGED <<kernel, doing, pending, asleep, lineVars, procVars, top, lineHistory,
                 processHistory, delay>>

\* proc(5): the value of iowait may decrease
IowaitBack ==
  /\ Churns /\ kernel.iowait > 0
  /\ kernel' = [kernel EXCEPT !.iowait = @ - 1]
  /\ corrected' = (corrected \/ doing \notin {"close_list", "close_pids"})
  /\ UNCHANGED <<proc, doing, pending, asleep, lineVars, procVars, top, levels,
                 processHistory, delay>>

-----------------------------------------------------------------------------

SamplingInit ==
  /\ kernel = [busy |-> 0, idle |-> 0, iowait |-> 1, guest |-> 0]
  /\ proc \in [Pids -> {Gone, 1}]
  /\ doing = "open_line" /\ pending = {} /\ asleep = 0
  /\ lineStart = Unread /\ lineEnd = Unread
  /\ procStart = [p \in Pids |-> Gone] /\ procEnd = [p \in Pids |-> Gone]
  /\ top = {} /\ levels = {} /\ corrected = FALSE
  /\ ran = [p \in Pids |-> 0] /\ born = {}
  /\ delay = 0 /\ churn = 0

\* The process ends with its report; the next one starts with nothing read, and
\* only differences of the kernel's counters matter to it.
NextRun ==
  /\ Does("done", "open_line") /\ pending' = {} /\ asleep' = 0
  /\ kernel' = [busy |-> 0, idle |-> 0, iowait |-> 1, guest |-> 0]
  /\ proc' \in [Pids -> {Gone, 1}]
  /\ lineStart' = Unread /\ lineEnd' = Unread
  /\ procStart' = [p \in Pids |-> Gone] /\ procEnd' = [p \in Pids |-> Gone]
  /\ top' = {} /\ levels' = {} /\ corrected' = FALSE
  /\ ran' = [p \in Pids |-> 0] /\ born' = {}
  /\ delay' = 0 /\ churn' = 0

SamplingNext ==
  \/ OpenLine \/ ListPids \/ Sleep \/ Wake \/ CloseLine \/ TopProcesses \/ NextRun
  \/ \E p \in Pids : OpenPid(p) \/ ClosePid(p) \/ Fork(p) \/ Exit(p)
  \/ \E R \in SUBSET Pids, waiting, guests \in 0..Cpus : Tick(R, waiting, guests)
  \/ IowaitBack

SamplingSpec == SamplingInit /\ [][SamplingNext]_samplingVars

-----------------------------------------------------------------------------
(* Properties. *)

Lines == [busy : Nat, idle : Nat, iowait : Nat, guest : Nat]
Levels == [busy : 0..Cpus, guest : 0..Cpus]

\* Type correctness of the counters, the samples and their history.
SamplingTypeOK ==
  /\ kernel \in Lines /\ lineStart \in Lines \cup {Unread} /\ lineEnd \in Lines \cup {Unread}
  /\ proc \in [Pids -> Nat \cup {Gone}]
  /\ procStart \in [Pids -> Nat \cup {Gone}] /\ procEnd \in [Pids -> Nat \cup {Gone}]
  /\ doing \in {"open_line", "open_list", "open_pids", "sleep",
                "close_line", "close_list", "close_pids", "done"}
  /\ pending \in SUBSET Pids /\ top \in SUBSET Pids
  /\ levels \in SUBSET Levels /\ corrected \in BOOLEAN
  /\ ran \in [Pids -> Nat] /\ born \in SUBSET Pids
  /\ asleep \in 0..Interval /\ delay \in 0..MaxDelay /\ churn \in 0..MaxChurn

\* No listed process is credited with work it did not do: of the process that has
\* the pid at the second read, the report counts at most what that process itself
\* ran between the two reads (or since it was born between them), even when the
\* pid changed hands; and of a process that was there both times, exactly that.
NeverOverReported ==
  \A p \in Seen :
    /\ Worked(p) <= ran[p]
    /\ procStart[p] # Gone /\ p \notin born => Worked(p) = ran[p]

\* A process that was there throughout is left off the list only if every one on
\* it ran at least as much meanwhile.
BusiestListed ==
  doing = "done" =>
    \A p \in top, q \in Seen \ top :
      p \in Seen /\ (procStart[q] # Gone /\ q \notin born => ran[p] >= ran[q])

\* The percentages stay percentages when iowait goes back or nothing moves, and
\* the CPU and the iowait share are parts of one whole, but for the rounding:
\* what high iowait explains is never also counted as work.
SharesDisjoint ==
  doing = "done" => /\ {CpuTenths, IowaitTenths} \subseteq 0..1000
                    /\ CpuTenths + IowaitTenths <= 1001

\* What the columns make of one tick: a guest's jiffies are twice in the part and
\* twice in the whole.
Exceeds(t, limit) == 100 * (t.busy + t.guest) > limit * (Cpus + t.guest)

\* One CPU percentage stands for the whole interval.  It is never too low: a host
\* above a limit at every tick is reported at the limit or above, whatever it ran.
\* And it is too high for no other reason than the guests: above a limit, at some
\* tick the columns, as they add up, were above the limit; with no guest that is
\* the host itself.  (A correction of iowait may inflate it too.)
AverageWitnessed ==
  doing = "done" /\ ~corrected =>
    \A limit \in LoadLimits :
      /\ CpuTenths > 10 * limit => \E t \in levels : Exceeds(t, limit)
      /\ Unread \notin {lineStart, lineEnd} /\ levels # {}
         /\ (\A t \in levels : 100 * t.busy > limit * Cpus)
         => CpuTenths >= 10 * limit
=============================================================================
