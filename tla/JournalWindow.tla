--------------------------- MODULE JournalWindow ---------------------------
(* get_journal_errors of agent/host_checks.py over many runs: each one counts    *)
(* the errors of a look-back window, of which journalctl returns the newest few. *)
(* Runs are not as far apart as the window is long, so one error is counted by   *)
(* several of them; runs fail, so one may be counted by none; and a run that     *)
(* ends in a WARNING is itself an error of the journal the next run reads. An    *)
(* entry whose message holds a line separator is two lines to splitlines, and no *)
(* JSON: it is skipped.                                                          *)
EXTENDS Naturals, Sequences, FiniteSets

CONSTANTS
  Units,           \* units that log errors
  Window,          \* ticks HEALTH_JOURNAL_WINDOW looks back
  Every,           \* ticks of the timer between two runs
  EntryCap,        \* JOURNAL_ENTRY_CAP
  UnitsListed,     \* units a report lists
  MaxErrors        \* bound on the errors of Units in the window

VARIABLES
  journal,         \* the errors of the window, oldest first
  report,          \* what the last run said of the journal
  since,           \* ticks since the last run, to Every
  troubled,        \* whether the host deserves a WARNING, whatever its journal
  truth,           \* history: the errors in the window when it was read, in all and of each unit
  whole,           \* history: journalctl then printed all it had to
  skipped,         \* history: how many of the entries it printed were no JSON
  gap,             \* history: ticks since a run that read the whole window, to Window + 1
  missed           \* history: a legible error left the window, counted by no run, since then

journalHistory == <<truth, whole, skipped, gap, missed>>
journalVars == <<journal, report, since, troubled, journalHistory>>

\* systemd's `Failed to start' is an error of init.scope.
SystemdUnit == "init.scope"
Sources == Units \cup {SystemdUnit}

ASSUME JournalAssumption ==
  /\ SystemdUnit \notin Units
  /\ Window \in Nat /\ Every \in Nat \ {0} /\ EntryCap \in Nat \ {0}
  /\ UnitsListed \in Nat /\ MaxErrors \in Nat

\* `legible': it comes as one line; `counted': by how many runs
Entry(unit, legible) == [unit |-> unit, legible |-> legible, age |-> 0, counted |-> 0]
Older(e) == [e EXCEPT !.age = @ + 1]
CountedOnce(e) == [e EXCEPT !.counted = @ + 1]

Legible(entries) == {i \in DOMAIN entries : entries[i].legible}

\* the legible errors of a unit
Errors(entries, unit) == Cardinality({i \in Legible(entries) : entries[i].unit = unit})

-----------------------------------------------------------------------------
(* journalctl and get_journal_errors. *)

\* --lines: the newest errors of the window, in the order they were logged
Newest(entries) ==
  SubSeq(entries, IF Len(entries) > EntryCap THEN Len(entries) - EntryCap + 1 ELSE 1, Len(entries))

Unavailable == [success |-> FALSE, count |-> 0, capped |-> FALSE, by_unit |-> {}]

\* Mutated: the list is cut before it is sorted.
Leading_Unsorted(entries, listed) ==
  LET named == {entries[i].unit : i \in Legible(entries)}
  IN  /\ listed \subseteq named
      /\ Cardinality(listed) = IF Cardinality(named) < UnitsListed
                               THEN Cardinality(named) ELSE UnitsListed

\* the units of the sorted list's head, with ties in any order
Leading(entries, listed) ==
  LET named == {entries[i].unit : i \in Legible(entries)}
  IN  /\ listed \subseteq named
      /\ Cardinality(listed) = IF Cardinality(named) < UnitsListed
                               THEN Cardinality(named) ELSE UnitsListed
      /\ \A u \in listed, v \in named \ listed : Errors(entries, u) >= Errors(entries, v)

Capped(count) == count >= EntryCap

\* What is made of the output: nothing at all is unavailable, a part of what
\* there was to print (journalctl stopped over a broken file) is counted like the
\* whole, and what is no JSON is left out.
Counted(output, success) ==
  IF ~success /\ output = <<>> THEN {Unavailable}
  ELSE {[success |-> TRUE, count |-> Cardinality(Legible(output)),
         capped |-> Capped(Cardinality(Legible(output))),
         by_unit |-> {[unit |-> u, count |-> Errors(output, u)] : u \in listed}] :
          listed \in {l \in SUBSET Sources : Leading(output, l)}}

-----------------------------------------------------------------------------

\* Mutated: errors of the journal are a reason for a WARNING.
Fails_OnErrors(said) == troubled \/ said.count > 0

\* the run's exit code; errors of the journal are no part of generate_health_status
Fails(said) == troubled

\* Mutated: the timer does not wait.
Due_AtOnce == TRUE

Due == since = Every

\* The lines read, those skipped included, were all there was in the window.
ReadAll(said, lost) == ~said.capped /\ (lost > 0 => said.count + lost < EntryCap)

\* A run of the timer; journalctl prints `printed' entries and succeeds or not.
Run(printed, success) ==
  LET newest == Newest(journal)
      output == SubSeq(newest, 1, printed)
      first  == Len(journal) - Len(newest)
      marked == [i \in DOMAIN journal |->
                   IF i \in first + 1 .. first + printed /\ journal[i].legible
                   THEN CountedOnce(journal[i]) ELSE journal[i]]
  IN  /\ Due
      /\ printed <= Len(newest) /\ (success => printed = Len(newest))
      /\ report' \in Counted(output, success)
      /\ journal' = IF Fails(report') THEN Append(marked, Entry(SystemdUnit, TRUE)) ELSE marked
      /\ since' = 0 /\ whole' = success
      /\ skipped' = printed - Cardinality(Legible(output))
      /\ truth' = [all |-> Len(journal), of |-> [u \in Sources |-> Errors(journal, u)]]
      /\ IF success /\ ReadAll(report', skipped')
         THEN gap' = 0 /\ missed' = FALSE ELSE UNCHANGED <<gap, missed>>
      /\ UNCHANGED troubled

Log(unit, legible) ==
  /\ Cardinality({i \in DOMAIN journal : journal[i].unit # SystemdUnit}) < MaxErrors
  /\ journal' = Append(journal, Entry(unit, legible))
  /\ UNCHANGED <<report, since, troubled, journalHistory>>

\* Mutated: the window that is asked for is a tick short.
Kept_Short(e) == e.age < Window

\* An error at the edge of the window is still in it.
Kept(e) == e.age <= Window

\* A tick, after which the oldest errors are no longer in the window.
Pass ==
  LET aged == [i \in DOMAIN journal |-> Older(journal[i])]
  IN  /\ \E old \in 0..Len(journal) :
           /\ \A i \in DOMAIN journal : Kept(aged[i]) <=> i > old
           /\ journal' = SubSeq(aged, old + 1, Len(journal))
           /\ missed' = (missed \/ \E i \in 1..old : aged[i].legible /\ aged[i].counted = 0)
      /\ gap' = IF gap > Window THEN gap ELSE gap + 1
      /\ since' = IF since = Every THEN since ELSE since + 1
      /\ UNCHANGED <<report, troubled, truth, whole, skipped>>

Turn == troubled' = ~troubled /\ UNCHANGED <<journal, report, since, journalHistory>>

-----------------------------------------------------------------------------

JournalInit ==
  /\ journal = <<>> /\ report = Unavailable /\ since \in 0..Every
  /\ troubled \in BOOLEAN
  /\ truth = [all |-> 0, of |-> [u \in Sources |-> 0]] /\ whole = FALSE
  /\ skipped = 0
  /\ gap = 0 /\ missed = FALSE

RunAny == \E printed \in 0..EntryCap, success \in BOOLEAN : Run(printed, success)

JournalNext == RunAny \/ Pass \/ Turn \/ \E u \in Units, legible \in BOOLEAN : Log(u, legible)

\* Time passes, and the timer starts the runs that are due.
JournalFairness == WF_journalVars(Pass) /\ WF_journalVars(RunAny)

JournalSpec == JournalInit /\ [][JournalNext]_journalVars
JournalFairSpec == JournalSpec /\ JournalFairness

-----------------------------------------------------------------------------
(* Properties. *)

\* Type correctness of the journal and of what is said of it.
JournalTypeOK ==
  /\ \A i \in DOMAIN journal :
      journal[i] \in [unit : Sources, legible : BOOLEAN, age : 0..Window, counted : Nat]
  /\ report.success \in BOOLEAN /\ report.capped \in BOOLEAN /\ report.count \in 0..EntryCap
  /\ report.by_unit \subseteq [unit : Sources, count : 1..EntryCap]
  /\ since \in 0..Every /\ gap \in 0..Window + 1 /\ missed \in BOOLEAN
  /\ troubled \in BOOLEAN /\ whole \in BOOLEAN /\ skipped \in 0..EntryCap
  /\ truth \in [all : Nat, of : [Sources -> Nat]]

\* What a report can be held to, skipped lines and all: an error that comes as one
\* line leaves the window uncounted only if more than a window has passed since the
\* last run that read it whole, by journalctl's success and the cap alone.
MissedOnlyInGap == missed => gap > Window

\* A report of a journalctl that did not stop half-way never says too much, and when
\* what it read, skipped lines included, is below the cap, it lacks just those: each
\* listed unit has its own number of legible errors, and no unit left off the list
\* has more than one on it.
UncutIsExact ==
  report.success /\ whole =>
    /\ report.count + skipped <= truth.all
    /\ ReadAll(report, skipped) =>
         /\ report.count + skipped = truth.all
         /\ \A e \in report.by_unit, u \in Sources :
              /\ truth.of[e.unit] = e.count
              /\ (\A f \in report.by_unit : f.unit # u) => truth.of[u] <= e.count

\* One error is not reported for ever: it is counted by no more runs than fit into
\* the window at the timer's pace.
RecountBounded == \A i \in DOMAIN journal : journal[i].counted <= Window \div Every + 1

\* "successive reports do not re-count the same errors" (health-monitor.service:78-79):
\* they do, the window of 15 minutes being seven times the timer's interval.
NoRecount == \A i \in DOMAIN journal : journal[i].counted <= 1

\* The monitor does not keep itself warning: once nothing else logs errors and the
\* host deserves no WARNING, the reports count no error any more, although every
\* failed run left one for the next ones to count.
QuietClears ==
  <>[](~troubled /\ \A i \in DOMAIN journal : journal[i].unit = SystemdUnit)
    => <>[](report.count = 0)
=============================================================================
