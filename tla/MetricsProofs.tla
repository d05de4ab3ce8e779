--------------------------- MODULE MetricsProofs ----------------------------
(* Proofs about the metrics: Sampling, for any number of CPUs, any finite set of *)
(* pids, any interval and any number of ticks, births and deaths; Filesystems,   *)
(* for any set of mount points and any number of changes of the host.            *)
EXTENDS Sampling, Filesystems, FiniteSetTheorems, TLAPS

(* Sampling. *)

Jiffies == Nat \cup {Gone}

\* The process that has p's pid, as the report will see it: as it was at the second
\* read, or, until then, as it is now.
Now(p) == IF procEnd[p] = Gone THEN proc[p] ELSE procEnd[p]

\* What a pid has at the second read is its baseline and what was run since, or, of
\* a process born in between, what that one has run.
WorkAccounted ==
  \A p \in Pids : procStart[p] # Gone /\ Now(p) # Gone =>
    Now(p) = IF p \in born THEN ran[p] ELSE procStart[p] + ran[p]

\* Until a pid is read for the second time there is no second sample of it, and while
\* the first listing is read there is no second sample at all.
NotSeenYet ==
  /\ doing \notin {"close_pids", "done"} => \A p \in Pids : procEnd[p] = Gone
  /\ doing = "close_pids" => \A p \in pending : procEnd[p] = Gone

\* The list is made of the second samples, and is not touched any more.
ListedByWork ==
  doing = "done" => /\ top \subseteq Seen
                    /\ \A p \in top, q \in Seen \ top : Worked(p) >= Worked(q)

SamplingInv == SamplingTypeOK /\ WorkAccounted /\ NotSeenYet /\ ListedByWork

-----------------------------------------------------------------------------
(* Type correctness. *)

LEMMA GoneIsNoCount == Gone \notin Nat /\ Gone \in Jiffies
BY DEF Gone, Jiffies

\* A tick hands each CPU to one of a finite number of processes.
LEMMA TickNumbers ==
  ASSUME SamplingTypeOK, NEW R \in SUBSET Pids, NEW waiting \in 0..Cpus,
         Cardinality(R) + waiting <= Cpus
  PROVE  /\ Cardinality(R) \in 0..Cpus
         /\ Cpus - Cardinality(R) - waiting \in Nat
<1>1. IsFiniteSet(R) /\ Cpus \in Nat
  BY SamplingAssumption, FS_Subset
<1>2. Cardinality(R) \in Nat
  BY <1>1, FS_CardinalityType
<1> QED BY <1>1, <1>2

LEMMA SamplingTypeInit == SamplingInit => SamplingTypeOK
<1> SUFFICES ASSUME SamplingInit PROVE SamplingTypeOK
  OBVIOUS
<1>1. Interval \in Nat /\ MaxDelay \in Nat /\ MaxChurn \in Nat
  BY SamplingAssumption
<1>2. [busy |-> 0, idle |-> 0, iowait |-> 1, guest |-> 0] \in Lines
  BY DEF Lines
<1>3. proc \in [Pids -> {Gone, 1}]
  BY DEF SamplingInit
<1>4. proc \in [Pids -> Nat \cup {Gone}]
  BY <1>3
<1>5. [p \in Pids |-> Gone] \in [Pids -> Nat \cup {Gone}]
  OBVIOUS
<1>6. /\ kernel \in Lines /\ lineStart \in Lines \cup {Unread} /\ lineEnd \in Lines \cup {Unread}
      /\ procStart \in [Pids -> Nat \cup {Gone}] /\ procEnd \in [Pids -> Nat \cup {Gone}]
  BY <1>2, <1>5, Zenon DEF SamplingInit
<1>7. /\ asleep \in 0..Interval /\ delay \in 0..MaxDelay /\ churn \in 0..MaxChurn
  BY <1>1, SMT DEF SamplingInit
<1>8. /\ pending \in SUBSET Pids /\ top \in SUBSET Pids
      /\ levels \in SUBSET Levels /\ corrected \in BOOLEAN
      /\ ran \in [Pids -> Nat] /\ born \in SUBSET Pids
  BY DEF SamplingInit
<1>9. doing = "open_line"
  BY DEF SamplingInit
<1> QED BY <1>4, <1>6, <1>7, <1>8, <1>9, Zenon DEF SamplingTypeOK

LEMMA SamplingTypeStart == SamplingInit' => SamplingTypeOK'
BY SamplingTypeInit, PTL

LEMMA ReadType ==
  ASSUME SamplingTypeOK,
         \/ OpenLine \/ ListPids \/ Sleep \/ Wake \/ CloseLine \/ TopProcesses \/ NextRun
         \/ \E p \in Pids : OpenPid(p) \/ ClosePid(p)
  PROVE  SamplingTypeOK'
<1> USE DEF Does, lineVars, procVars, lineHistory, processHistory
<1>1. CASE OpenLine
  BY <1>1 DEF OpenLine, SamplingTypeOK
<1>2. CASE ListPids
  BY <1>2 DEF ListPids, SamplingTypeOK, Alive
<1>3. CASE Sleep
  BY <1>3 DEF Sleep, SamplingTypeOK
<1>4. CASE Wake
  BY <1>4 DEF Wake, SamplingTypeOK
<1>5. CASE CloseLine
  BY <1>5 DEF CloseLine, SamplingTypeOK
<1>6. CASE TopProcesses
  BY <1>6 DEF TopProcesses, SamplingTypeOK, Seen
<1>7. CASE NextRun
  <2>1. SamplingInit'
    BY <1>7 DEF NextRun, SamplingInit
  <2> QED BY <2>1, SamplingTypeStart
<1>8. ASSUME NEW p \in Pids, OpenPid(p) PROVE SamplingTypeOK'
  BY <1>8 DEF OpenPid, SamplingTypeOK
<1>9. ASSUME NEW p \in Pids, ClosePid(p) PROVE SamplingTypeOK'
  BY <1>9 DEF ClosePid, SamplingTypeOK
<1> QED BY <1>1, <1>2, <1>3, <1>4, <1>5, <1>6, <1>7, <1>8, <1>9

LEMMA ChurnType ==
  ASSUME SamplingTypeOK, IowaitBack \/ \E p \in Pids : Fork(p) \/ Exit(p)
  PROVE  SamplingTypeOK'
<1> USE DEF lineVars, procVars, lineHistory, processHistory
<1>1. churn' \in 0..MaxChurn
  BY SamplingAssumption DEF IowaitBack, Fork, Exit, Churns, SamplingTypeOK
<1>2. CASE IowaitBack
  <2>1. kernel' \in Lines
    BY <1>2 DEF IowaitBack, SamplingTypeOK, Lines
  <2>2. corrected' \in BOOLEAN
    BY <1>2 DEF IowaitBack, SamplingTypeOK
  <2> QED BY <1>1, <1>2, <2>1, <2>2 DEF IowaitBack, SamplingTypeOK
<1>3. ASSUME NEW p \in Pids, Fork(p) PROVE SamplingTypeOK'
  <2>1. ran' \in [Pids -> Nat] /\ born' \in SUBSET Pids
    BY <1>3 DEF Fork, SamplingTypeOK
  <2>2. proc' \in [Pids -> Nat \cup {Gone}]
    BY <1>3 DEF Fork, SamplingTypeOK, Gone
  <2> QED BY <1>1, <1>3, <2>1, <2>2 DEF Fork, SamplingTypeOK
<1>4. ASSUME NEW p \in Pids, Exit(p) PROVE SamplingTypeOK'
  BY <1>1, <1>4 DEF Exit, SamplingTypeOK
<1> QED BY <1>2, <1>3, <1>4

LEMMA TickType ==
  ASSUME SamplingTypeOK, NEW R \in SUBSET Pids, NEW waiting \in 0..Cpus, NEW guests \in 0..Cpus,
         Tick(R, waiting, guests)
  PROVE  SamplingTypeOK'
<1> USE DEF lineVars, procVars
<1>1. Cardinality(R) \in 0..Cpus /\ Cpus - Cardinality(R) - waiting \in Nat
  BY TickNumbers DEF Tick
<1>2. kernel' \in Lines
  BY <1>1 DEF Tick, SamplingTypeOK, Lines
<1>3. levels' \in SUBSET Levels
  <2>1. [busy |-> Cardinality(R), guest |-> guests] \in Levels
    BY <1>1 DEF Levels
  <2> QED BY <2>1 DEF Tick, SamplingTypeOK
<1>4. proc' \in [Pids -> Nat \cup {Gone}]
  <2>1. R \subseteq Alive /\ proc' = [p \in Pids |-> IF p \in R THEN proc[p] + 1 ELSE proc[p]]
    BY DEF Tick
  <2>2. \A p \in R : proc[p] \in Nat
    BY <2>1 DEF Alive, SamplingTypeOK, Gone
  <2> QED BY <2>1, <2>2 DEF SamplingTypeOK
<1>5. ran' \in [Pids -> Nat]
  BY DEF Tick, SamplingTypeOK
<1>6. asleep' \in 0..Interval /\ delay' \in 0..MaxDelay
  BY SamplingAssumption DEF Tick, SamplingTypeOK
<1> QED BY <1>2, <1>3, <1>4, <1>5, <1>6 DEF Tick, SamplingTypeOK

\* The types hold in every reachable state: the iowait counter goes back but not
\* below zero, and no sample is taken of a process that is gone.
THEOREM SamplingTypeCorrect == SamplingSpec => []SamplingTypeOK
<1>1. SamplingTypeOK /\ [SamplingNext]_samplingVars => SamplingTypeOK'
  <2> SUFFICES ASSUME SamplingTypeOK, [SamplingNext]_samplingVars PROVE SamplingTypeOK'
    OBVIOUS
  <2>1. CASE SamplingNext
    BY <2>1, ReadType, ChurnType, TickType DEF SamplingNext
  <2>2. CASE UNCHANGED samplingVars
    BY <2>2 DEF samplingVars, lineVars, procVars, lineHistory, processHistory, SamplingTypeOK
  <2> QED BY <2>1, <2>2
<1> QED BY SamplingTypeInit, <1>1, PTL DEF SamplingSpec

-----------------------------------------------------------------------------
(* What is counted of a process. *)

LEMMA SamplingInvInit == SamplingInit => SamplingInv
<1> SUFFICES ASSUME SamplingInit PROVE SamplingInv
  OBVIOUS
<1>1. WorkAccounted /\ NotSeenYet /\ ListedByWork
  BY DEF SamplingInit, WorkAccounted, NotSeenYet, ListedByWork
<1> QED BY <1>1, SamplingTypeInit DEF SamplingInv

LEMMA SamplingInvStart == SamplingInit' => SamplingInv'
BY SamplingInvInit, PTL

\* The first read of a pid is its baseline, the second one what is reported of it.
LEMMA ReadAccounted ==
  ASSUME SamplingInv, NEW p \in Pids, OpenPid(p) \/ ClosePid(p)
  PROVE  WorkAccounted' /\ NotSeenYet' /\ ListedByWork'
<1> USE DEF SamplingInv, SamplingTypeOK, lineVars, procVars, lineHistory, processHistory
<1>1. CASE OpenPid(p)
  <2>1. /\ doing = "open_pids" /\ doing' = doing /\ proc' = proc /\ procEnd' = procEnd
        /\ procStart' = [procStart EXCEPT ![p] = proc[p]]
        /\ ran' = [ran EXCEPT ![p] = 0] /\ born' = born \ {p}
    BY <1>1 DEF OpenPid
  <2>2. \A q \in Pids : procEnd[q] = Gone
    BY <2>1 DEF NotSeenYet
  <2>3. WorkAccounted'
    <3> SUFFICES ASSUME NEW q \in Pids, procStart'[q] # Gone, Now(q)' # Gone
                 PROVE  Now(q)' = IF q \in born' THEN ran'[q] ELSE procStart'[q] + ran'[q]
      BY DEF WorkAccounted
    <3>1. Now(q)' = proc[q] /\ Now(q) = proc[q]
      BY <2>1, <2>2 DEF Now
    <3>2. CASE q = p
      <4>1. procStart'[q] = proc[q] /\ ran'[q] = 0 /\ q \notin born' /\ proc[q] \in Nat
        BY <2>1, <3>1, <3>2
      <4> QED BY <3>1, <4>1
    <3>3. CASE q # p
      BY <2>1, <3>1, <3>3 DEF WorkAccounted
    <3> QED BY <3>2, <3>3
  <2>4. NotSeenYet' /\ ListedByWork'
    BY <2>1, <2>2 DEF NotSeenYet, ListedByWork
  <2> QED BY <2>3, <2>4
<1>2. CASE ClosePid(p)
  <2>1. /\ doing = "close_pids" /\ doing' = doing /\ proc' = proc /\ procStart' = procStart
        /\ p \in pending /\ pending' = pending \ {p}
        /\ procEnd' = [procEnd EXCEPT ![p] = proc[p]] /\ ran' = ran /\ born' = born
    BY <1>2 DEF ClosePid
  <2>2. procEnd[p] = Gone
    BY <2>1 DEF NotSeenYet
  <2>3. \A q \in Pids : Now(q)' = Now(q)
    BY <2>1, <2>2 DEF Now
  <2>4. WorkAccounted'
    BY <2>1, <2>3 DEF WorkAccounted
  <2>5. NotSeenYet' /\ ListedByWork'
    BY <2>1 DEF NotSeenYet, ListedByWork
  <2> QED BY <2>4, <2>5
<1> QED BY <1>1, <1>2

\* The other steps of the program read no process, and the last one makes the list.
LEMMA ProgramAccounted ==
  ASSUME SamplingInv, OpenLine \/ ListPids \/ Sleep \/ Wake \/ CloseLine \/ TopProcesses
  PROVE  WorkAccounted' /\ NotSeenYet' /\ ListedByWork'
<1> USE DEF lineVars, procVars, lineHistory, processHistory, Does
<1>1. /\ proc' = proc /\ procStart' = procStart /\ procEnd' = procEnd
      /\ ran' = ran /\ born' = born
  BY DEF OpenLine, ListPids, Sleep, Wake, CloseLine, TopProcesses
<1>2. WorkAccounted'
  BY <1>1 DEF SamplingInv, WorkAccounted, Now
<1>3. CASE OpenLine \/ ListPids \/ Sleep \/ Wake \/ CloseLine
  <2>1. doing' # "done" /\ doing \notin {"close_pids", "done"}
    BY <1>3 DEF OpenLine, ListPids, Sleep, Wake, CloseLine
  <2>2. pending' \subseteq Pids
    BY <1>3 DEF SamplingInv, SamplingTypeOK, Alive, OpenLine, ListPids, Sleep, Wake, CloseLine
  <2> QED BY <1>1, <1>2, <2>1, <2>2 DEF SamplingInv, NotSeenYet, ListedByWork
<1>4. CASE TopProcesses
  <2>1. doing' = "done"
    BY <1>4 DEF TopProcesses
  <2>2. Seen' = Seen /\ \A p : Worked(p)' = Worked(p)
    BY <1>1 DEF Seen, Worked
  <2>3. top' \subseteq Seen /\ \A p \in top', q \in Seen \ top' : Worked(p) >= Worked(q)
    BY <1>4 DEF TopProcesses, Leads
  <2> QED BY <1>2, <2>1, <2>2, <2>3 DEF NotSeenYet, ListedByWork
<1> QED BY <1>3, <1>4

\* A tick is counted to the processes that run in it, unless they were read already.
LEMMA TickAccounted ==
  ASSUME SamplingInv, NEW R \in SUBSET Pids, NEW waiting \in 0..Cpus, NEW guests \in 0..Cpus,
         Tick(R, waiting, guests)
  PROVE  WorkAccounted' /\ NotSeenYet' /\ ListedByWork'
<1>1. /\ procStart' = procStart /\ procEnd' = procEnd /\ born' = born
      /\ doing' = doing /\ pending' = pending /\ doing # "done" /\ R \subseteq Alive
      /\ proc' = [p \in Pids |-> IF p \in R THEN proc[p] + 1 ELSE proc[p]]
      /\ ran' = [p \in Pids |-> IF p \in R \ Seen THEN ran[p] + 1 ELSE ran[p]]
  BY DEF Tick, lineVars, procVars
<1>2. ASSUME NEW p \in Pids, procStart[p] # Gone, Now(p)' # Gone
      PROVE  Now(p)' = IF p \in born THEN ran'[p] ELSE procStart[p] + ran'[p]
  <2>1. ran[p] \in Nat /\ procStart[p] \in Nat /\ proc[p] \in Nat \cup {Gone}
    BY <1>2 DEF SamplingInv, SamplingTypeOK
  <2>2. CASE p \in R \ Seen
    <3>1. proc[p] \in Nat /\ proc'[p] = proc[p] + 1 /\ ran'[p] = ran[p] + 1 /\ procEnd[p] = Gone
      BY <1>1, <2>1, <2>2 DEF Alive, Seen
    <3>2. Now(p) = proc[p] /\ Now(p)' = proc[p] + 1
      BY <1>1, <3>1 DEF Now
    <3>3. Now(p) # Gone
      BY <3>1, <3>2, GoneIsNoCount
    <3>4. Now(p) = IF p \in born THEN ran[p] ELSE procStart[p] + ran[p]
      BY <1>2, <3>3 DEF SamplingInv, WorkAccounted
    <3> QED BY <2>1, <3>1, <3>2, <3>4
  <2>3. CASE p \notin R \ Seen
    <3>1. ran'[p] = ran[p]
      BY <1>1, <2>3
    <3>2. Now(p)' = Now(p)
      BY <1>1, <2>3 DEF Now, Seen
    <3> QED BY <1>2, <3>1, <3>2 DEF SamplingInv, WorkAccounted
  <2> QED BY <2>2, <2>3
<1>3. WorkAccounted'
  BY <1>1, <1>2 DEF WorkAccounted
<1> QED BY <1>1, <1>3 DEF SamplingInv, NotSeenYet, ListedByWork

\* A pid that changes hands before its second read is accounted to the new process.
LEMMA ChurnAccounted ==
  ASSUME SamplingInv, IowaitBack \/ \E p \in Pids : Fork(p) \/ Exit(p)
  PROVE  WorkAccounted' /\ NotSeenYet' /\ ListedByWork'
<1> USE DEF lineVars, procVars, lineHistory, processHistory
<1>1. /\ procStart' = procStart /\ procEnd' = procEnd /\ doing' = doing
      /\ pending' = pending /\ doing # "done"
  BY DEF IowaitBack, Fork, Exit, Churns
<1>2. NotSeenYet' /\ ListedByWork'
  BY <1>1 DEF SamplingInv, NotSeenYet, ListedByWork
<1>3. CASE IowaitBack
  <2>1. proc' = proc /\ ran' = ran /\ born' = born
    BY <1>3 DEF IowaitBack
  <2> QED BY <1>1, <1>2, <2>1 DEF SamplingInv, WorkAccounted, Now
<1>4. ASSUME NEW p \in Pids, Fork(p) PROVE WorkAccounted'
  <2>1. proc' = [proc EXCEPT ![p] = 0] /\ proc[p] = Gone
    BY <1>4 DEF Fork, Alive
  <2>2. CASE p \in Seen
    <3>1. ran' = ran /\ born' = born /\ procEnd[p] # Gone
      BY <1>4, <2>2 DEF Fork, Seen
    <3>2. \A q \in Pids : Now(q)' = Now(q)
      BY <1>1, <2>1, <3>1 DEF Now, SamplingInv, SamplingTypeOK
    <3> QED BY <1>1, <3>1, <3>2 DEF SamplingInv, WorkAccounted
  <2>3. CASE p \notin Seen
    <3>1. ran' = [ran EXCEPT ![p] = 0] /\ born' = born \cup {p} /\ procEnd[p] = Gone
      BY <1>4, <2>3 DEF Fork, Seen
    <3>2. Now(p)' = 0 /\ \A q \in Pids \ {p} : Now(q)' = Now(q)
      BY <1>1, <2>1, <3>1 DEF Now, SamplingInv, SamplingTypeOK
    <3>3. p \in born' /\ ran'[p] = 0
      BY <3>1 DEF SamplingInv, SamplingTypeOK
    <3>4. \A q \in Pids \ {p} : ran'[q] = ran[q] /\ (q \in born' <=> q \in born)
      BY <3>1 DEF SamplingInv, SamplingTypeOK
    <3>5. ASSUME NEW q \in Pids, procStart'[q] # Gone, Now(q)' # Gone
          PROVE  Now(q)' = IF q \in born' THEN ran'[q] ELSE procStart'[q] + ran'[q]
      <4>1. CASE q = p
        BY <3>2, <3>3, <4>1
      <4>2. CASE q # p
        BY <1>1, <3>2, <3>4, <3>5, <4>2 DEF SamplingInv, WorkAccounted
      <4> QED BY <4>1, <4>2
    <3> QED BY <3>5 DEF WorkAccounted
  <2> QED BY <2>2, <2>3
<1>5. ASSUME NEW p \in Pids, Exit(p) PROVE WorkAccounted'
  <2>1. proc' = [proc EXCEPT ![p] = Gone] /\ ran' = ran /\ born' = born
    BY <1>5 DEF Exit
  <2>2. \A q \in Pids : Now(q)' \in {Now(q), Gone}
    BY <1>1, <2>1 DEF Now, SamplingInv, SamplingTypeOK
  <2> QED BY <1>1, <2>1, <2>2 DEF SamplingInv, WorkAccounted
<1> QED BY <1>2, <1>3, <1>4, <1>5

LEMMA SamplingInvariant == SamplingSpec => []SamplingInv
<1>1. SamplingTypeOK' /\ WorkAccounted' /\ NotSeenYet' /\ ListedByWork' => SamplingInv'
  BY DEF SamplingInv
<1>2. SamplingInv /\ [SamplingNext]_samplingVars => SamplingInv'
  <2> SUFFICES ASSUME SamplingInv, [SamplingNext]_samplingVars PROVE SamplingInv'
    OBVIOUS
  <2>1. SamplingTypeOK
    BY DEF SamplingInv
  <2>2. CASE OpenLine \/ ListPids \/ Sleep \/ Wake \/ CloseLine \/ TopProcesses
    BY <1>1, <2>1, <2>2, ReadType, ProgramAccounted
  <2>3. CASE \E p \in Pids : OpenPid(p) \/ ClosePid(p)
    BY <1>1, <2>1, <2>3, ReadType, ReadAccounted
  <2>4. CASE NextRun
    <3>1. SamplingInit'
      BY <2>4 DEF NextRun, SamplingInit, Does
    <3> QED BY <3>1, SamplingInvStart
  <2>5. CASE IowaitBack \/ \E p \in Pids : Fork(p) \/ Exit(p)
    BY <1>1, <2>1, <2>5, ChurnType, ChurnAccounted
  <2>6. CASE \E R \in SUBSET Pids, waiting, guests \in 0..Cpus : Tick(R, waiting, guests)
    BY <1>1, <2>1, <2>6, TickType, TickAccounted
  <2>7. CASE UNCHANGED samplingVars
    BY <2>7 DEF samplingVars, lineVars, procVars, lineHistory, processHistory, SamplingInv,
                SamplingTypeOK, WorkAccounted, NotSeenYet, ListedByWork, Now, Seen, Worked
  <2> QED BY <2>2, <2>3, <2>4, <2>5, <2>6, <2>7 DEF SamplingNext
<1> QED BY SamplingInvInit, <1>2, PTL DEF SamplingSpec

\* What is reported of a pid is never more than the process that has it did, and
\* exactly that for a process that was there at both reads.
LEMMA WorkedIsRan ==
  ASSUME SamplingInv, NEW p \in Seen
  PROVE  /\ Worked(p) <= ran[p]
         /\ procStart[p] # Gone /\ p \notin born => Worked(p) = ran[p]
<1>1. /\ p \in Pids /\ procEnd[p] # Gone /\ procEnd[p] \in Nat /\ ran[p] \in Nat
      /\ procStart[p] \in Nat \cup {Gone}
  BY DEF Seen, SamplingInv, SamplingTypeOK
<1>2. CASE procStart[p] = Gone
  BY <1>1, <1>2 DEF Worked
<1>3. CASE procStart[p] # Gone
  <2>1. procEnd[p] = IF p \in born THEN ran[p] ELSE procStart[p] + ran[p]
    BY <1>1, <1>3 DEF SamplingInv, WorkAccounted, Now
  <2> QED BY <1>1, <1>3, <2>1 DEF Worked
<1> QED BY <1>2, <1>3

\* No listed process is credited with work it did not do, however many pids are
\* handed on between the two reads.
THEOREM NeverOverReportedCorrect == SamplingSpec => []NeverOverReported
<1>1. SamplingInv => NeverOverReported
  BY WorkedIsRan DEF NeverOverReported
<1> QED BY SamplingInvariant, <1>1, PTL

\* A process that was there throughout is left off the list only if every one on it
\* ran at least as much meanwhile.
THEOREM BusiestListedCorrect == SamplingSpec => []BusiestListed
<1>1. SamplingInv => BusiestListed
  <2> SUFFICES ASSUME SamplingInv, doing = "done", NEW p \in top, NEW q \in Seen \ top
               PROVE  p \in Seen /\ (procStart[q] # Gone /\ q \notin born => ran[p] >= ran[q])
    BY DEF BusiestListed
  <2>1. p \in Seen /\ Worked(p) >= Worked(q)
    BY DEF SamplingInv, ListedByWork
  <2>2. Worked(p) <= ran[p] /\ (procStart[q] # Gone /\ q \notin born => Worked(q) = ran[q])
    BY <2>1, WorkedIsRan
  <2>3. ran[p] \in Nat /\ ran[q] \in Nat /\ Worked(p) \in Nat
    BY <2>1 DEF SamplingInv, SamplingTypeOK, Seen, Worked
  <2> QED BY <2>1, <2>2, <2>3
<1> QED BY SamplingInvariant, <1>1, PTL

-----------------------------------------------------------------------------
(* The two lines of /proc/stat. *)

BeforeEnd == {"open_line", "open_list", "open_pids", "sleep", "close_line"}

\* What the first line is compared with: the second, or, until it is read, the present.
Latest == IF doing \in BeforeEnd THEN kernel ELSE lineEnd

\* What the line counts as work: every column but idle and iowait.
Work(line) == line.busy + line.guest

\* A line that could be read is no later than the next, in the counters that only grow.
LinesInOrder ==
  /\ doing = "open_line" => lineStart = Unread
  /\ doing \in BeforeEnd => lineEnd = Unread
  /\ lineStart # Unread =>
       /\ Work(lineStart) <= Work(kernel) /\ lineStart.idle <= kernel.idle
       /\ lineEnd # Unread => Work(lineStart) <= Work(lineEnd) /\ lineStart.idle <= lineEnd.idle

\* The difference of two lines is the sum of the ticks between them, each of Cpus jiffies
\* and its guests': with all of them on one side of a limit, so is the sum.
StaysWithin(t, limit) == 100 * (t.busy + t.guest) <= limit * (Cpus + t.guest)

Between(earlier, later, limit) ==
  LET work  == Work(later) - Work(earlier)
      whole == Total(later) - Total(earlier)
  IN  /\ (\A t \in levels : StaysWithin(t, limit)) => 100 * work <= limit * whole
      /\ (\A t \in levels : Exceeds(t, limit)) => 100 * work >= limit * whole

Averaged ==
  ~corrected /\ Unread \notin {lineStart, Latest} =>
    /\ levels # {} => Total(Latest) - Total(lineStart) >= Cpus
    /\ levels = {} => Total(Latest) - Total(lineStart) >= 0
    /\ \A limit \in LoadLimits : Between(lineStart, Latest, limit)

LinesInv == SamplingTypeOK /\ LinesInOrder /\ Averaged

LEMMA UnreadIsNoLine == Unread \notin Lines
<1>1. Unread.busy = -1
  BY DEF Unread
<1> QED BY <1>1 DEF Lines

LEMMA LineNumbers ==
  ASSUME NEW line \in Lines
  PROVE  /\ line.idle \in Nat /\ line.iowait \in Nat /\ Work(line) \in Nat
         /\ Total(line) = Work(line) + line.idle + line.iowait /\ Total(line) \in Nat
BY DEF Lines, Total, Work

LEMMA LimitNumbers == LoadLimits \subseteq 0..100 /\ Cpus \in Nat \ {0}
BY SamplingAssumption

LEMMA LinesInvInit == SamplingInit => LinesInv
<1> SUFFICES ASSUME SamplingInit PROVE LinesInv
  OBVIOUS
<1>1. lineStart = Unread /\ lineEnd = Unread
  BY DEF SamplingInit
<1>2. LinesInOrder /\ Averaged
  BY <1>1 DEF LinesInOrder, Averaged
<1> QED BY <1>2, SamplingTypeInit DEF LinesInv

LEMMA LinesInvStart == SamplingInit' => LinesInv'
BY LinesInvInit, PTL

\* A step that leaves the lines, the counters and their history alone, and does not
\* bring the reader to or past one of its two reads of the line.
LEMMA LinesKept ==
  ASSUME LinesInv, UNCHANGED <<kernel, lineStart, lineEnd, levels, corrected>>,
         doing' = "open_line" => doing = "open_line",
         doing' \in BeforeEnd <=> doing \in BeforeEnd
  PROVE  LinesInOrder' /\ Averaged'
<1>1. LinesInOrder'
  BY DEF LinesInv, LinesInOrder, Work
<1>2. Latest' = Latest
  BY DEF Latest
<1>3. \A limit : Between(lineStart, Latest, limit)' <=> Between(lineStart, Latest, limit)
  BY <1>2 DEF Between, Total, Work
<1>4. Averaged'
  BY <1>2, <1>3 DEF LinesInv, Averaged, Total
<1> QED BY <1>1, <1>4

\* The first read starts the sum; the second one ends it.
LEMMA ReadLines ==
  ASSUME LinesInv, OpenLine \/ CloseLine
  PROVE  LinesInOrder' /\ Averaged'
<1> USE DEF Does, lineVars, procVars, lineHistory, processHistory
<1>0. kernel \in Lines /\ kernel' = kernel
  BY DEF LinesInv, SamplingTypeOK, OpenLine, CloseLine
<1>1. CASE OpenLine
  <2>1. /\ doing = "open_line" /\ doing' = "open_list" /\ lineStart' \in {kernel, Unread}
        /\ levels' = {} /\ lineEnd' = lineEnd
    BY <1>1 DEF OpenLine
  <2>2. lineEnd' = Unread /\ Latest' = kernel
    BY <1>0, <2>1 DEF LinesInv, LinesInOrder, BeforeEnd, Latest
  <2>3. LinesInOrder'
    <3>1. Work(kernel) \in Nat /\ kernel.idle \in Nat /\ Work(kernel)' = Work(kernel)
      BY <1>0, LineNumbers DEF Work
    <3> QED BY <1>0, <2>1, <2>2, <3>1 DEF LinesInOrder, Work
  <2>4. CASE lineStart' = Unread
    BY <2>3, <2>4 DEF Averaged
  <2>5. CASE lineStart' = kernel
    <3>1. Total(Latest)' - Total(lineStart)' = 0 /\ Work(Latest)' - Work(lineStart)' = 0
      <4>1. Total(kernel) \in Nat /\ Work(kernel) \in Nat
        BY <1>0, LineNumbers
      <4> QED BY <1>0, <2>2, <2>5, <4>1 DEF Total, Work
    <3>2. ASSUME NEW limit \in LoadLimits PROVE Between(lineStart, Latest, limit)'
      BY <3>1, LimitNumbers DEF Between
    <3> QED BY <2>1, <2>3, <3>1, <3>2 DEF Averaged
  <2> QED BY <2>1, <2>3, <2>4, <2>5
<1>2. CASE CloseLine
  <2>1. /\ doing = "close_line" /\ doing' = "close_list" /\ lineEnd' \in {kernel, Unread}
        /\ lineStart' = lineStart /\ levels' = levels /\ corrected' = corrected
    BY <1>2 DEF CloseLine
  <2>2. Latest = kernel /\ Latest' = lineEnd'
    BY <2>1 DEF BeforeEnd, Latest
  <2>3. LinesInOrder'
    BY <1>0, <2>1 DEF LinesInv, LinesInOrder, BeforeEnd, Work
  <2>4. CASE lineEnd' = Unread
    BY <2>2, <2>3, <2>4 DEF Averaged
  <2>5. CASE lineEnd' = kernel
    <3>1. Latest' = Latest
      BY <2>2, <2>5
    <3>2. \A limit : Between(lineStart, Latest, limit)' <=> Between(lineStart, Latest, limit)
      BY <2>1, <3>1 DEF Between, Total, Work
    <3>3. Averaged'
      BY <2>1, <3>1, <3>2 DEF LinesInv, Averaged, Total
    <3> QED BY <2>3, <3>3
  <2> QED BY <2>1, <2>4, <2>5
<1> QED BY <1>1, <1>2

\* One tick more: its level joins the others, and its jiffies the sum.
LEMMA OneTickMore ==
  ASSUME NEW limit \in Nat, NEW level \in Nat, NEW size \in Nat, NEW work \in Int, NEW whole \in Int
  PROVE  /\ 100 * level <= limit * size /\ 100 * work <= limit * whole
              => 100 * (work + level) <= limit * (whole + size)
         /\ 100 * level > limit * size /\ 100 * work >= limit * whole
              => 100 * (work + level) >= limit * (whole + size)
<1>1. limit * (whole + size) = limit * whole + limit * size
  OBVIOUS
<1>2. limit * whole \in Int /\ limit * size \in Int
  OBVIOUS
<1> QED BY <1>1, <1>2

LEMMA TickLines ==
  ASSUME LinesInv, NEW R \in SUBSET Pids, NEW waiting \in 0..Cpus, NEW guests \in 0..Cpus,
         Tick(R, waiting, guests)
  PROVE  LinesInOrder' /\ Averaged'
<1> DEFINE running == Cardinality(R)
           tick == [busy |-> running, guest |-> guests]
           level == running + guests
           size == Cpus + guests
<1>1. /\ running \in 0..Cpus /\ Cpus - running - waiting \in Nat /\ Cpus \in Nat \ {0}
      /\ guests \in Nat /\ waiting \in Nat
  BY TickNumbers, LimitNumbers DEF Tick, LinesInv
<1>2. /\ doing' = doing /\ doing # "done" /\ lineStart' = lineStart /\ lineEnd' = lineEnd
      /\ corrected' = corrected
      /\ kernel' = [busy |-> kernel.busy + running, idle |-> kernel.idle + (Cpus - running - waiting),
                    iowait |-> kernel.iowait + waiting, guest |-> kernel.guest + guests]
      /\ levels' = IF doing \in {"close_list", "close_pids"} THEN levels ELSE levels \cup {tick}
  BY DEF Tick, lineVars
<1>0. level \in Nat /\ size \in Nat /\ size >= Cpus /\ tick.busy + tick.guest = level
  BY <1>1
<1> HIDE DEF running
<1>3. /\ kernel \in Lines /\ lineStart \in Lines \cup {Unread} /\ lineEnd \in Lines \cup {Unread}
  BY DEF LinesInv, SamplingTypeOK
<1>4. /\ kernel' \in Lines /\ Work(kernel)' = Work(kernel) + level /\ kernel'.idle >= kernel.idle
      /\ Total(kernel)' = Total(kernel) + size
  BY <1>1, <1>2, <1>3 DEF Lines, Total, Work
<1>5. LinesInOrder'
  <2>1. /\ Work(kernel) \in Nat /\ kernel.idle \in Nat /\ Work(kernel)' >= Work(kernel)
        /\ Work(kernel)' \in Nat /\ kernel'.idle \in Nat
    BY <1>0, <1>3, <1>4, LineNumbers DEF Lines
  <2>2. lineStart # Unread => Work(lineStart) \in Nat /\ lineStart.idle \in Nat
    BY <1>3, LineNumbers
  <2>3. Work(lineStart)' = Work(lineStart) /\ Work(lineEnd)' = Work(lineEnd)
    BY <1>2 DEF Work
  <2>4. /\ doing = "open_line" => lineStart = Unread
        /\ doing \in BeforeEnd => lineEnd = Unread
        /\ lineStart # Unread =>
             /\ Work(lineStart) <= Work(kernel) /\ lineStart.idle <= kernel.idle
             /\ lineEnd # Unread => Work(lineStart) <= Work(lineEnd) /\ lineStart.idle <= lineEnd.idle
    BY DEF LinesInv, LinesInOrder
  <2>5. lineStart # Unread => Work(lineStart) <= Work(kernel)' /\ lineStart.idle <= kernel'.idle
    BY <1>4, <2>1, <2>2, <2>4
  <2> QED BY <1>2, <2>3, <2>4, <2>5 DEF LinesInOrder
<1>6. CASE doing \in BeforeEnd
  <2>1. Latest = kernel /\ Latest' = kernel' /\ levels' = levels \cup {tick}
    BY <1>2, <1>6 DEF Latest, BeforeEnd
  <2>2. SUFFICES ASSUME ~corrected, lineStart # Unread PROVE Averaged'
    BY <1>2, <1>5 DEF Averaged
  <2>3. /\ lineStart \in Lines /\ Total(lineStart)' = Total(lineStart)
        /\ Work(lineStart)' = Work(lineStart)
        /\ Work(lineStart) \in Nat /\ Work(kernel) \in Nat
        /\ Total(lineStart) \in Nat /\ Total(kernel) \in Nat
    BY <1>2, <1>3, <2>2, LineNumbers DEF Total, Work
  <2>4. kernel # Unread
    BY <1>3, UnreadIsNoLine
  <2>5. /\ levels # {} => Total(kernel) - Total(lineStart) >= Cpus
        /\ levels = {} => Total(kernel) - Total(lineStart) >= 0
        /\ \A limit \in LoadLimits : Between(lineStart, kernel, limit)
    BY <2>1, <2>2, <2>4 DEF LinesInv, Averaged
  <2> HIDE DEF level, size, tick
  <2>6. Total(kernel)' - Total(lineStart)' >= Cpus
    BY <1>0, <1>1, <1>4, <2>3, <2>5
  <2>7. ASSUME NEW limit \in LoadLimits PROVE Between(lineStart, kernel, limit)'
    <3> DEFINE work  == Work(kernel) - Work(lineStart)
               whole == Total(kernel) - Total(lineStart)
    <3>1. limit \in Nat
      BY LimitNumbers
    <3>2. /\ (\A t \in levels : StaysWithin(t, limit)) => 100 * work <= limit * whole
          /\ (\A t \in levels : Exceeds(t, limit)) => 100 * work >= limit * whole
      BY <2>5 DEF Between
    <3>3. work \in Int /\ whole \in Int
      BY <2>3
    <3>4. Work(kernel)' - Work(lineStart)' = work + level /\ Total(kernel)' - Total(lineStart)' = whole + size
      BY <1>0, <1>4, <2>3
    <3> HIDE DEF work, whole
    <3>5. /\ 100 * level <= limit * size /\ 100 * work <= limit * whole
               => 100 * (work + level) <= limit * (whole + size)
          /\ 100 * level > limit * size /\ 100 * work >= limit * whole
               => 100 * (work + level) >= limit * (whole + size)
      BY <1>0, <3>1, <3>3, OneTickMore
    <3>6. /\ tick \in levels' /\ levels \subseteq levels'
          /\ StaysWithin(tick, limit) <=> 100 * level <= limit * size
          /\ Exceeds(tick, limit) <=> 100 * level > limit * size
      <4>1. tick.guest = guests /\ tick.busy + tick.guest = level /\ size = Cpus + guests
        BY <1>0 DEF tick, size
      <4> QED BY <2>1, <4>1 DEF StaysWithin, Exceeds
    <3>7. (\A t \in levels' : StaysWithin(t, limit)) => 100 * (work + level) <= limit * (whole + size)
      BY <3>2, <3>5, <3>6
    <3>8. (\A t \in levels' : Exceeds(t, limit)) => 100 * (work + level) >= limit * (whole + size)
      BY <3>2, <3>5, <3>6
    <3>9. /\ \A t : StaysWithin(t, limit)' <=> StaysWithin(t, limit)
          /\ \A t : Exceeds(t, limit)' <=> Exceeds(t, limit)
      BY DEF StaysWithin, Exceeds
    <3> QED BY <3>4, <3>7, <3>8, <3>9 DEF Between
  <2>8. tick \in levels'
    BY <2>1
  <2> QED BY <1>1, <2>1, <2>6, <2>7, <2>8 DEF Averaged, Between
<1>7. CASE doing \notin BeforeEnd
  <2>1. Latest = lineEnd /\ Latest' = lineEnd /\ levels' = levels
    <3>1. doing \in {"close_list", "close_pids"}
      BY <1>2, <1>7 DEF LinesInv, SamplingTypeOK, BeforeEnd
    <3> QED BY <1>2, <1>7, <3>1 DEF Latest
  <2>2. \A limit : Between(lineStart, Latest, limit)' <=> Between(lineStart, Latest, limit)
    BY <1>2, <2>1 DEF Between, Total, Work
  <2>3. Averaged'
    BY <1>2, <2>1, <2>2 DEF LinesInv, Averaged, Total
  <2> QED BY <1>5, <2>3
<1> QED BY <1>6, <1>7, <1>5

\* iowait may go back, which the sum takes note of until it is closed.
LEMMA BackLines ==
  ASSUME LinesInv, IowaitBack
  PROVE  LinesInOrder' /\ Averaged'
<1>1. /\ doing' = doing /\ doing # "done" /\ lineStart' = lineStart /\ lineEnd' = lineEnd
      /\ levels' = levels
      /\ kernel' = [kernel EXCEPT !.iowait = @ - 1] /\ kernel \in Lines
      /\ corrected' = (corrected \/ doing \notin {"close_list", "close_pids"})
  BY DEF IowaitBack, Churns, lineVars, LinesInv, SamplingTypeOK
<1>2. Work(kernel)' = Work(kernel) /\ kernel'.idle = kernel.idle
  BY <1>1 DEF Lines, Work
<1>3. LinesInOrder'
  <2>1. Work(lineStart)' = Work(lineStart) /\ Work(lineEnd)' = Work(lineEnd)
    BY <1>1 DEF Work
  <2> QED BY <1>1, <1>2, <2>1 DEF LinesInv, LinesInOrder
<1>4. CASE doing \in {"close_list", "close_pids"}
  <2>1. Latest = lineEnd /\ Latest' = lineEnd /\ corrected' = corrected
    BY <1>1, <1>4 DEF Latest, BeforeEnd, LinesInv, SamplingTypeOK
  <2>2. \A limit : Between(lineStart, Latest, limit)' <=> Between(lineStart, Latest, limit)
    BY <1>1, <2>1 DEF Between, Total, Work
  <2>3. Averaged'
    BY <1>1, <2>1, <2>2 DEF LinesInv, Averaged, Total
  <2> QED BY <1>3, <2>3
<1>5. CASE doing \notin {"close_list", "close_pids"}
  BY <1>1, <1>3, <1>5 DEF Averaged
<1> QED BY <1>4, <1>5

LEMMA LinesInvariant == SamplingSpec => []LinesInv
<1>1. SamplingTypeOK' /\ LinesInOrder' /\ Averaged' => LinesInv'
  BY DEF LinesInv
<1>2. LinesInv /\ [SamplingNext]_samplingVars => LinesInv'
  <2> SUFFICES ASSUME LinesInv, [SamplingNext]_samplingVars PROVE LinesInv'
    OBVIOUS
  <2> USE DEF lineVars, procVars, lineHistory, processHistory
  <2>1. SamplingTypeOK
    BY DEF LinesInv
  <2>2. CASE OpenLine \/ CloseLine
    BY <1>1, <2>1, <2>2, ReadType, ReadLines
  <2>3. CASE ListPids \/ Sleep \/ Wake \/ TopProcesses
    <3>1. /\ UNCHANGED <<kernel, lineStart, lineEnd, levels, corrected>>
          /\ doing' # "open_line" /\ (doing' \in BeforeEnd <=> doing \in BeforeEnd)
      BY <2>3 DEF ListPids, Sleep, Wake, TopProcesses, Does, BeforeEnd
    <3> QED BY <1>1, <2>1, <2>3, <3>1, ReadType, LinesKept
  <2>4. CASE \E p \in Pids : OpenPid(p) \/ ClosePid(p)
    <3>1. UNCHANGED <<kernel, lineStart, lineEnd, levels, corrected, doing>>
      BY <2>4 DEF OpenPid, ClosePid
    <3> QED BY <1>1, <2>1, <2>4, <3>1, ReadType, LinesKept
  <2>5. CASE \E p \in Pids : Fork(p) \/ Exit(p)
    <3>1. UNCHANGED <<kernel, lineStart, lineEnd, levels, corrected, doing>>
      BY <2>5 DEF Fork, Exit
    <3> QED BY <1>1, <2>1, <2>5, <3>1, ChurnType, LinesKept
  <2>6. CASE IowaitBack
    BY <1>1, <2>1, <2>6, ChurnType, BackLines
  <2>7. CASE \E R \in SUBSET Pids, waiting, guests \in 0..Cpus : Tick(R, waiting, guests)
    BY <1>1, <2>1, <2>7, TickType, TickLines
  <2>8. CASE NextRun
    <3>1. SamplingInit'
      BY <2>8 DEF NextRun, SamplingInit, Does
    <3> QED BY <3>1, LinesInvStart
  <2>9. CASE UNCHANGED samplingVars
    <3>1. UNCHANGED <<kernel, lineStart, lineEnd, levels, corrected, doing>>
      BY <2>9 DEF samplingVars
    <3>2. SamplingTypeOK'
      BY <2>1, <2>9 DEF samplingVars, SamplingTypeOK
    <3> QED BY <1>1, <3>1, <3>2, LinesKept
  <2> QED BY <2>2, <2>3, <2>4, <2>5, <2>6, <2>7, <2>8, <2>9 DEF SamplingNext
<1> QED BY LinesInvInit, <1>2, PTL DEF SamplingSpec

-----------------------------------------------------------------------------
(* Rounding. *)

LEMMA Quotient ==
  ASSUME NEW a \in Int, NEW b \in Nat \ {0}
  PROVE  /\ a \div b \in Int
         /\ b * (a \div b) <= a /\ a < b * (a \div b) + b
OBVIOUS

\* A multiple of a positive number that is below that number is none.
LEMMA NotAMultiple ==
  ASSUME NEW whole \in Nat \ {0}, NEW k \in Int, whole * k < whole
  PROVE  k <= 0
<1> SUFFICES ASSUME k >= 1 PROVE FALSE
  OBVIOUS
<1>1. PICK d \in Nat : k = 1 + d
  <2>1. k - 1 \in Nat /\ k = 1 + (k - 1)
    OBVIOUS
  <2> QED BY <2>1
<1>2. whole * k = whole + whole * d /\ whole * d \in Nat
  BY <1>1
<1> QED BY <1>2

\* The rounded number of tenths of a percent, before it is clamped.
Rounded(part, whole) == (2 * 1000 * part + whole) \div (2 * whole)

LEMMA RoundedNumber ==
  ASSUME NEW part \in Int, NEW whole \in Nat \ {0}
  PROVE  LET q == Rounded(part, whole)
         IN  /\ q \in Int /\ whole * q \in Int
             /\ 2 * (whole * q) <= 2000 * part + whole
             /\ 2000 * part + whole < 2 * (whole * q) + 2 * whole
<1> DEFINE a == 2 * 1000 * part + whole
           b == 2 * whole
           q == a \div b
<1>1. a \in Int /\ b \in Nat \ {0}
  OBVIOUS
<1> HIDE DEF a, b
<1>2. q \in Int /\ b * q <= a /\ a < b * q + b
  BY <1>1, Quotient
<1>3. q = Rounded(part, whole)
  BY DEF Rounded, a, b
<1> HIDE DEF q
<1>4. whole * q \in Int /\ b * q = 2 * (whole * q)
  BY <1>2 DEF b
<1>5. 2 * (whole * q) <= 2000 * part + whole /\ 2000 * part + whole < 2 * (whole * q) + 2 * whole
  BY <1>2, <1>4 DEF a, b
<1> QED BY <1>2, <1>3, <1>4, <1>5

LEMMA ShareClamps ==
  ASSUME NEW part \in Int, NEW whole \in Nat \ {0}
  PROVE  LET q == Rounded(part, whole)
         IN  /\ Share(part, whole) \in 0..1000
             /\ q <= 0 => Share(part, whole) = 0
             /\ 0 <= q => Share(part, whole) <= q
             /\ Share(part, whole) = q \/ q < 0 \/ Share(part, whole) = 1000
<1>1. Rounded(part, whole) \in Int
  BY RoundedNumber
<1>2. Share(part, whole) = IF Rounded(part, whole) < 0 THEN 0
                           ELSE IF Rounded(part, whole) > 1000 THEN 1000 ELSE Rounded(part, whole)
  BY DEF Share, Rounded
<1> QED BY <1>1, <1>2

\* So a share is a percentage, whatever the counters did.
LEMMA ShareRange ==
  ASSUME NEW part \in Int, NEW whole \in Nat \ {0}
  PROVE  Share(part, whole) \in 0..1000
<1>1. Rounded(part, whole) \in Int
  BY RoundedNumber
<1>2. Share(part, whole) = IF Rounded(part, whole) < 0 THEN 0
                           ELSE IF Rounded(part, whole) > 1000 THEN 1000 ELSE Rounded(part, whole)
  BY DEF Share, Rounded
<1> HIDE DEF Rounded
<1> QED BY <1>1, <1>2

\* A part that is at most a limit is rounded to the limit at most, and one that is not
\* below it, not below it.
LEMMA ShareAgainstLimit ==
  ASSUME NEW part \in Int, NEW whole \in Nat \ {0}, NEW limit \in 0..100
  PROVE  /\ 100 * part <= limit * whole => Share(part, whole) <= 10 * limit
         /\ 100 * part >= limit * whole => Share(part, whole) >= 10 * limit
<1> DEFINE q == Rounded(part, whole)
<1>1. /\ q \in Int /\ whole * q \in Int /\ 2 * (whole * q) <= 2000 * part + whole
      /\ 2000 * part + whole < 2 * (whole * q) + 2 * whole
  BY RoundedNumber
<1>2. /\ Share(part, whole) \in 0..1000 /\ (q <= 0 => Share(part, whole) = 0)
      /\ (0 <= q => Share(part, whole) <= q)
      /\ Share(part, whole) = q \/ q < 0 \/ Share(part, whole) = 1000
  BY ShareClamps
<1> HIDE DEF q
<1>3. limit * whole \in Nat /\ whole * (10 * limit) = 10 * (limit * whole)
  OBVIOUS
<1>4. ASSUME 100 * part <= limit * whole PROVE Share(part, whole) <= 10 * limit
  <2>1. whole * (q - 10 * limit) = whole * q - whole * (10 * limit)
    BY <1>1
  <2>2. 2 * (whole * q) <= 20 * (limit * whole) + whole
    BY <1>1, <1>3, <1>4
  <2>3. whole * (q - 10 * limit) < whole
    BY <1>1, <1>3, <2>1, <2>2
  <2>4. q - 10 * limit \in Int
    BY <1>1
  <2>5. q - 10 * limit <= 0
    BY <2>3, <2>4, NotAMultiple
  <2> QED BY <1>1, <1>2, <2>5
<1>5. ASSUME 100 * part >= limit * whole PROVE Share(part, whole) >= 10 * limit
  <2>1. whole * (10 * limit - q) = whole * (10 * limit) - whole * q
    BY <1>1
  <2>2. 20 * (limit * whole) < 2 * (whole * q) + whole
    BY <1>1, <1>3, <1>5
  <2>3. whole * (10 * limit - q) < whole
    BY <1>1, <1>3, <2>1, <2>2
  <2>4. 10 * limit - q \in Int
    BY <1>1
  <2>5. 10 * limit - q <= 0
    BY <2>3, <2>4, NotAMultiple
  <2>6. q \in Int /\ q >= 10 * limit /\ 0 <= q /\ 10 * limit <= 1000
    BY <1>1, <2>5
  <2>7. Share(part, whole) = q \/ Share(part, whole) = 1000
    BY <1>2, <2>6
  <2> QED BY <2>6, <2>7
<1> QED BY <1>4, <1>5

\* Two parts of one whole make no more than the whole, but for the rounding of each;
\* one that is negative counts for nothing.
LEMMA SharesAdd ==
  ASSUME NEW one \in Nat, NEW other \in Int, NEW whole \in Nat \ {0}, one + other <= whole
  PROVE  Share(one, whole) + Share(other, whole) <= 1001
<1> DEFINE q == Rounded(one, whole)
           r == Rounded(other, whole)
<1>1. /\ q \in Int /\ whole * q \in Int /\ 2 * (whole * q) <= 2000 * one + whole
      /\ 2000 * one + whole < 2 * (whole * q) + 2 * whole
      /\ r \in Int /\ whole * r \in Int /\ 2 * (whole * r) <= 2000 * other + whole
  BY RoundedNumber
<1>2. /\ Share(one, whole) \in 0..1000 /\ Share(other, whole) \in 0..1000
      /\ (r <= 0 => Share(other, whole) = 0) /\ (0 <= r => Share(other, whole) <= r)
      /\ (q <= 0 => Share(one, whole) = 0) /\ (0 <= q => Share(one, whole) <= q)
  BY ShareClamps
<1> HIDE DEF q, r
<1>3. CASE other < 0
  <2>1. whole * r < whole
    BY <1>1, <1>3
  <2>2. r <= 0
    BY <1>1, <2>1, NotAMultiple
  <2> QED BY <1>2, <2>2
<1>4. CASE other >= 0
  <2>1. whole * (q + r - 1001) = whole * q + whole * r - 1001 * whole
    BY <1>1
  <2>2. 2 * (whole * q) + 2 * (whole * r) <= 2002 * whole
    BY <1>1
  <2>3. whole * (q + r - 1001) < whole
    BY <1>1, <2>1, <2>2
  <2>4. q + r - 1001 \in Int
    BY <1>1
  <2>5. q + r - 1001 <= 0
    BY <2>3, <2>4, NotAMultiple
  <2>6. q \in Int /\ r \in Int
    BY <1>1
  <2>7. Share(one, whole) = 0 \/ (0 <= q /\ Share(one, whole) <= q)
    BY <1>2, <2>6
  <2>8. Share(other, whole) = 0 \/ (0 <= r /\ Share(other, whole) <= r)
    BY <1>2, <2>6
  <2>9. Share(one, whole) <= 1000 /\ Share(other, whole) <= 1000
    BY <1>2
  <2>10. Share(one, whole) \in Int /\ Share(other, whole) \in Int
    BY <1>2
  <2>11. q + r <= 1001
    BY <2>5, <2>6
  <2> QED BY <2>6, <2>7, <2>8, <2>9, <2>10, <2>11
<1> QED BY <1>3, <1>4

-----------------------------------------------------------------------------
(* What the percentages say. *)

\* The two shares are those of one difference of lines, if there is one.
LEMMA TheShares ==
  ASSUME LinesInv, doing = "done"
  PROVE  LET busy  == Work(lineEnd) - Work(lineStart)
             wait  == lineEnd.iowait - lineStart.iowait
             whole == Total(lineEnd) - Total(lineStart)
         IN  \/ CpuTenths = 0 /\ IowaitTenths = 0
                /\ (Unread \in {lineStart, lineEnd} \/ whole <= 0)
             \/ /\ Unread \notin {lineStart, lineEnd} /\ whole \in Nat \ {0} /\ busy \in Nat
                /\ wait \in Int /\ busy + wait <= whole
                /\ CpuTenths = Share(busy, whole) /\ IowaitTenths = Share(wait, whole)
<1>1. lineStart \in Lines \cup {Unread} /\ lineEnd \in Lines \cup {Unread}
  BY DEF LinesInv, SamplingTypeOK
<1>2. CASE Unread \in {lineStart, lineEnd}
  BY <1>2 DEF CpuTenths, IowaitTenths
<1>3. CASE Unread \notin {lineStart, lineEnd}
  <2>1. /\ Work(lineStart) \in Nat /\ lineStart.idle \in Nat /\ lineStart.iowait \in Nat
        /\ Work(lineEnd) \in Nat /\ lineEnd.idle \in Nat /\ lineEnd.iowait \in Nat
        /\ Total(lineStart) = Work(lineStart) + lineStart.idle + lineStart.iowait
        /\ Total(lineEnd) = Work(lineEnd) + lineEnd.idle + lineEnd.iowait
        /\ Total(lineStart) \in Nat /\ Total(lineEnd) \in Nat
    BY <1>1, <1>3, LineNumbers
  <2>2. Work(lineStart) <= Work(lineEnd) /\ lineStart.idle <= lineEnd.idle
    BY <1>3 DEF LinesInv, LinesInOrder
  <2>3. /\ BusyTotal(lineStart).total = Total(lineStart) /\ BusyTotal(lineStart).busy = Work(lineStart)
        /\ BusyTotal(lineEnd).total = Total(lineEnd) /\ BusyTotal(lineEnd).busy = Work(lineEnd)
    BY <2>1 DEF BusyTotal
  <2>4. CASE Total(lineEnd) - Total(lineStart) > 0
    <3>1. /\ CpuTenths = Share(Work(lineEnd) - Work(lineStart), Total(lineEnd) - Total(lineStart))
          /\ IowaitTenths = Share(lineEnd.iowait - lineStart.iowait, Total(lineEnd) - Total(lineStart))
      BY <1>3, <2>3, <2>4 DEF CpuTenths, IowaitTenths
    <3>2. Total(lineEnd) - Total(lineStart) \in Nat \ {0} /\ Work(lineEnd) - Work(lineStart) \in Nat
      BY <2>1, <2>2, <2>4
    <3>3. lineEnd.iowait - lineStart.iowait \in Int
      BY <2>1
    <3>4. (Work(lineEnd) - Work(lineStart)) + (lineEnd.iowait - lineStart.iowait)
            <= Total(lineEnd) - Total(lineStart)
      BY <2>1, <2>2
    <3> QED BY <1>3, <3>1, <3>2, <3>3, <3>4
  <2>5. CASE ~(Total(lineEnd) - Total(lineStart) > 0)
    BY <2>1, <2>3, <2>5 DEF CpuTenths, IowaitTenths
  <2> QED BY <2>4, <2>5
<1> QED BY <1>2, <1>3

\* The percentages stay percentages when iowait goes back, and the two shares are
\* parts of one whole.
THEOREM SharesDisjointCorrect == SamplingSpec => []SharesDisjoint
<1>1. LinesInv => SharesDisjoint
  <2> SUFFICES ASSUME LinesInv, doing = "done"
               PROVE  {CpuTenths, IowaitTenths} \subseteq 0..1000 /\ CpuTenths + IowaitTenths <= 1001
    BY DEF SharesDisjoint
  <2> DEFINE busy  == Work(lineEnd) - Work(lineStart)
             wait  == lineEnd.iowait - lineStart.iowait
             whole == Total(lineEnd) - Total(lineStart)
  <2>1. \/ CpuTenths = 0 /\ IowaitTenths = 0
        \/ /\ whole \in Nat \ {0} /\ busy \in Nat /\ wait \in Int /\ busy + wait <= whole
           /\ CpuTenths = Share(busy, whole) /\ IowaitTenths = Share(wait, whole)
    BY TheShares
  <2> HIDE DEF busy, wait, whole
  <2>2. CASE CpuTenths = 0 /\ IowaitTenths = 0
    BY <2>2
  <2>3. CASE /\ whole \in Nat \ {0} /\ busy \in Nat /\ wait \in Int /\ busy + wait <= whole
             /\ CpuTenths = Share(busy, whole) /\ IowaitTenths = Share(wait, whole)
    <3>0. busy \in Int /\ wait \in Int /\ whole \in Nat \ {0}
      BY <2>3
    <3>1. Share(busy, whole) \in 0..1000
      BY <3>0, ShareRange
    <3>4. Share(wait, whole) \in 0..1000
      BY <3>0, ShareRange
    <3>2. Share(busy, whole) + Share(wait, whole) <= 1001
      BY <2>3, SharesAdd
    <3> QED BY <2>3, <3>1, <3>2, <3>4
  <2> QED BY <2>1, <2>2, <2>3
<1> QED BY LinesInvariant, <1>1, PTL

\* A tick above a limit is above it in the columns too, whichever guests it ran.
LEMMA GuestsExceed ==
  ASSUME NEW limit \in 0..100, NEW t \in Levels, 100 * t.busy > limit * Cpus
  PROVE  Exceeds(t, limit)
<1> DEFINE b == t.busy
           g == t.guest
<1>1. b \in Nat /\ g \in Nat /\ Cpus \in Nat
  BY LimitNumbers DEF Levels
<1> HIDE DEF b, g
<1>2. limit * (Cpus + g) = limit * Cpus + limit * g /\ limit * Cpus \in Nat /\ limit * g \in Nat
  BY <1>1
<1>3. limit * g <= 100 * g
  <2>1. 100 - limit \in Nat /\ (100 - limit) * g = 100 * g - limit * g
    BY <1>1
  <2>2. (100 - limit) * g \in Nat
    BY <1>1, <2>1
  <2> QED BY <1>1, <1>2, <2>1, <2>2
<1>4. 100 * (b + g) > limit * (Cpus + g)
  <2>1. 100 * b > limit * Cpus
    BY DEF b
  <2> QED BY <1>1, <1>2, <1>3, <2>1
<1> QED BY <1>4 DEF Exceeds, b, g

\* A host that is above a limit throughout is reported at the limit or above, and a
\* CPU percentage above a limit was witnessed at some tick, as the columns add up.
THEOREM AverageWitnessedCorrect == SamplingSpec => []AverageWitnessed
<1>1. LinesInv => AverageWitnessed
  <2> SUFFICES ASSUME LinesInv, doing = "done", ~corrected, NEW limit \in LoadLimits
               PROVE  /\ CpuTenths > 10 * limit => \E t \in levels : Exceeds(t, limit)
                      /\ Unread \notin {lineStart, lineEnd} /\ levels # {}
                         /\ (\A t \in levels : 100 * t.busy > limit * Cpus)
                         => CpuTenths >= 10 * limit
    BY DEF AverageWitnessed
  <2> DEFINE busy  == Work(lineEnd) - Work(lineStart)
             whole == Total(lineEnd) - Total(lineStart)
  <2>1. limit \in 0..100 /\ Cpus \in Nat \ {0} /\ levels \subseteq Levels
    BY LimitNumbers DEF LinesInv, SamplingTypeOK
  <2>2. \A t \in levels : /\ ~Exceeds(t, limit) => StaysWithin(t, limit)
                          /\ 100 * t.busy > limit * Cpus => Exceeds(t, limit)
    <3> SUFFICES ASSUME NEW t \in levels
                 PROVE  /\ ~Exceeds(t, limit) => StaysWithin(t, limit)
                        /\ 100 * t.busy > limit * Cpus => Exceeds(t, limit)
      OBVIOUS
    <3>1. 100 * t.busy > limit * Cpus => Exceeds(t, limit)
      BY <2>1, GuestsExceed
    <3>2. t.busy \in Nat /\ t.guest \in Nat
      BY <2>1 DEF Levels
    <3>3. 100 * (t.busy + t.guest) \in Int /\ limit * (Cpus + t.guest) \in Int
      BY <2>1, <3>2
    <3>4. ~Exceeds(t, limit) => StaysWithin(t, limit)
      BY <3>3 DEF Exceeds, StaysWithin
    <3> QED BY <3>1, <3>4
  <2>3. Unread \notin {lineStart, lineEnd} =>
          /\ levels # {} => whole >= Cpus
          /\ (\A t \in levels : StaysWithin(t, limit)) => 100 * busy <= limit * whole
          /\ (\A t \in levels : Exceeds(t, limit)) => 100 * busy >= limit * whole
    <3>1. Latest = lineEnd
      BY DEF Latest, BeforeEnd
    <3> QED BY <3>1 DEF LinesInv, Averaged, Between
  <2>4. \/ CpuTenths = 0 /\ (Unread \in {lineStart, lineEnd} \/ whole <= 0)
        \/ /\ Unread \notin {lineStart, lineEnd} /\ whole \in Nat \ {0} /\ busy \in Nat
           /\ CpuTenths = Share(busy, whole)
    BY TheShares
  <2> HIDE DEF busy, whole
  <2>5. CASE CpuTenths = 0 /\ (Unread \in {lineStart, lineEnd} \/ whole <= 0)
    <3>1. ~(CpuTenths > 10 * limit)
      BY <2>1, <2>5
    <3>2. Unread \in {lineStart, lineEnd} \/ levels = {} \/ ~(whole >= Cpus)
      <4>1. Unread \notin {lineStart, lineEnd} => whole \in Int
        BY LineNumbers DEF LinesInv, SamplingTypeOK, whole
      <4>2. whole \in Int /\ whole <= 0 => ~(whole >= Cpus)
        BY <2>1
      <4> QED BY <2>5, <4>1, <4>2
    <3> QED BY <2>3, <3>1, <3>2
  <2>6. CASE /\ Unread \notin {lineStart, lineEnd} /\ whole \in Nat \ {0} /\ busy \in Nat
             /\ CpuTenths = Share(busy, whole)
    <3>0. busy \in Int /\ whole \in Nat \ {0}
      BY <2>6
    <3>1. /\ 100 * busy <= limit * whole => CpuTenths <= 10 * limit
          /\ 100 * busy >= limit * whole => CpuTenths >= 10 * limit
      BY <2>1, <2>6, <3>0, ShareAgainstLimit
    <3>2. CpuTenths \in 0..1000
      <4>1. Share(busy, whole) \in 0..1000
        BY <3>0, ShareRange
      <4> QED BY <2>6, <4>1
    <3>3. /\ (\A t \in levels : ~Exceeds(t, limit)) => \A t \in levels : StaysWithin(t, limit)
          /\ (\A t \in levels : 100 * t.busy > limit * Cpus) => \A t \in levels : Exceeds(t, limit)
      BY <2>2
    <3>4. CpuTenths <= 10 * limit => ~(CpuTenths > 10 * limit)
      BY <2>1, <3>2
    <3> QED BY <2>3, <2>6, <3>1, <3>3, <3>4
  <2> QED BY <2>4, <2>5, <2>6
<1> QED BY LinesInvariant, <1>1, PTL

-----------------------------------------------------------------------------
(* Filesystems. *)

\* What a row keeps of a filesystem that is still the same: its use may have moved.
SameMount(fs, row) == row.fstype = fs.fstype /\ row.ro = fs.ro

\* While df runs, a steady filesystem that answers has its row or is still to be asked.
AskedOrDue ==
  df = "df" => \A p \in steady \ refused : table[p] # None => p \in unasked \/ rows[p] # None

\* After df there is a row for every steady filesystem that answered, or no row at all.
AllOrNothing ==
  df \in {"mounts", "done"} /\ (\E p \in Points : rows[p] # None) =>
    \A p \in steady \ refused : table[p] # None => rows[p] # None

\* A steady point's row is of what is mounted there.
RowsOwn ==
  df # "idle" => \A p \in steady : rows[p] # None => table[p] # None /\ SameMount(table[p], rows[p])

\* The list holds what _is_reportable_filesystem let through, and only then.
ReportedRows ==
  /\ df # "done" => reported = {}
  /\ df = "done" => reported = {p \in Points : rows[p].use # "nothing" /\
                                   IsReportable(IF mountsRead THEN table[p] ELSE None)}

FilesystemInv ==
  FilesystemTypeOK /\ AskedOrDue /\ AllOrNothing /\ RowsOwn /\ ReportedRows

-----------------------------------------------------------------------------
(* The filesystems. *)

LEMMA MountedCases ==
  ASSUME NEW fs \in Mounted
  PROVE  \E type \in {"disk", "tmpfs", "remote", "overlay", "synthetic"}, ro \in BOOLEAN,
            use \in {"some", "all", "nothing"} :
           /\ fs = [fstype |-> type, ro |-> ro, use |-> use]
           /\ use = "nothing" <=> type = "synthetic"
           /\ type # "disk" => ~ro
BY DEF Mounted

LEMMA MountFacts ==
  ASSUME NEW fs \in Mounted \cup {None}
  PROVE  /\ fs # None <=> fs \in Mounted
         /\ fs = None <=> fs.fstype = "none"
         /\ fs.ro \in BOOLEAN
         /\ fs.use \in {"some", "all", "nothing"}
         /\ fs.fstype \in {"disk", "tmpfs", "remote", "overlay", "synthetic", "none"}
         /\ fs.use = "nothing" <=> fs.fstype \in {"synthetic", "none"}
         /\ fs.fstype # "disk" => ~fs.ro
<1>1. CASE fs = None
  <2>1. None.fstype = "none" /\ None.ro = FALSE /\ None.use = "nothing"
    BY DEF None
  <2>2. None \notin Mounted
    BY <2>1, MountedCases
  <2> QED BY <1>1, <2>1, <2>2
<1>2. CASE fs \in Mounted
  <2>1. PICK type \in {"disk", "tmpfs", "remote", "overlay", "synthetic"}, ro \in BOOLEAN,
             use \in {"some", "all", "nothing"} :
          /\ fs = [fstype |-> type, ro |-> ro, use |-> use]
          /\ use = "nothing" <=> type = "synthetic"
          /\ type # "disk" => ~ro
    BY <1>2, MountedCases
  <2>2. fs.fstype = type /\ fs.ro = ro /\ fs.use = use
    BY <2>1
  <2>3. None.fstype = "none"
    BY DEF None
  <2>4. fs # None
    BY <2>2, <2>3
  <2> QED BY <1>2, <2>1, <2>2, <2>4
<1> QED BY <1>1, <1>2

\* Filling a disk or a tmpfs gives one of the same type and mode.
LEMMA FilledMount ==
  ASSUME NEW fs \in Mounted \cup {None}, NEW use \in {"some", "all"},
         fs.fstype \in {"disk", "tmpfs"}, ~fs.ro
  PROVE  /\ [fs EXCEPT !.use = use] \in Mounted
         /\ [fs EXCEPT !.use = use].fstype = fs.fstype
         /\ [fs EXCEPT !.use = use].ro = fs.ro
<1>1. fs \in Mounted
  BY MountFacts
<1>2. PICK type \in {"disk", "tmpfs", "remote", "overlay", "synthetic"}, ro \in BOOLEAN,
           was \in {"some", "all", "nothing"} :
        fs = [fstype |-> type, ro |-> ro, use |-> was]
  BY <1>1, MountedCases
<1>3. type \in {"disk", "tmpfs"} /\ ro = FALSE
  BY <1>2
<1>4. [fs EXCEPT !.use = use] = [fstype |-> type, ro |-> ro, use |-> use]
  BY <1>2
<1>5. [fstype |-> type, ro |-> ro, use |-> use] \in Mounted
  <2>1. CASE type = "disk"
    BY <2>1 DEF Mounted
  <2>2. CASE type = "tmpfs"
    BY <1>3, <2>2 DEF Mounted
  <2> QED BY <1>3, <2>1, <2>2
<1> QED BY <1>2, <1>3, <1>4, <1>5

-----------------------------------------------------------------------------
(* Type correctness. *)

LEMMA FilesystemTypeInit == FilesystemInit => FilesystemTypeOK
BY FilesystemAssumption DEF FilesystemInit, FilesystemTypeOK

\* A step of get_filesystems keeps the types.
LEMMA DfType ==
  ASSUME FilesystemTypeOK,
         \/ Begins \/ Ends \/ TimesOut \/ Reports \/ Returns
         \/ \E p \in Points : Asks(p) \/ Refuses(p)
  PROVE  FilesystemTypeOK'
<1> USE DEF FilesystemTypeOK, Continues, filesystemHistory
<1>1. CASE Begins
  BY <1>1 DEF Begins
<1>2. CASE Ends
  BY <1>2 DEF Ends
<1>3. CASE TimesOut
  BY <1>3 DEF TimesOut
<1>4. CASE Reports
  BY <1>4 DEF Reports
<1>5. CASE Returns
  BY <1>5, FilesystemAssumption DEF Returns
<1>6. CASE \E p \in Points : Asks(p)
  BY <1>6 DEF Asks
<1>7. CASE \E p \in Points : Refuses(p)
  BY <1>7 DEF Refuses
<1> QED BY <1>1, <1>2, <1>3, <1>4, <1>5, <1>6, <1>7

\* A step of the host keeps the types.
LEMMA HostType ==
  ASSUME FilesystemTypeOK,
         \/ ServerTurns
         \/ \E p \in Points, fs \in Mounted \cup {None} : Remounts(p, fs)
         \/ \E p \in Points, use \in {"some", "all"} : Fills(p, use)
  PROVE  FilesystemTypeOK'
<1>1. changes' \in 0..MaxChanges
  BY FilesystemAssumption DEF FilesystemTypeOK, ServerTurns, Remounts, Fills, Changes
<1>2. CASE ServerTurns
  BY <1>1, <1>2 DEF FilesystemTypeOK, ServerTurns, filesystemHistory
<1>3. ASSUME NEW p \in Points, NEW fs \in Mounted \cup {None}, Remounts(p, fs)
      PROVE  FilesystemTypeOK'
  BY <1>1, <1>3 DEF FilesystemTypeOK, Remounts
<1>4. ASSUME NEW p \in Points, NEW use \in {"some", "all"}, Fills(p, use)
      PROVE  FilesystemTypeOK'
  <2>1. [table[p] EXCEPT !.use = use] \in Mounted
    BY <1>4, FilledMount DEF FilesystemTypeOK, Fills
  <2> QED BY <1>1, <1>4, <2>1 DEF FilesystemTypeOK, Fills, filesystemHistory
<1> QED BY <1>2, <1>3, <1>4

\* The steps of FilesystemNext are those of get_filesystems and those of the host.
LEMMA TwoActors ==
  ASSUME FilesystemNext
  PROVE  \/ \/ Begins \/ Ends \/ TimesOut \/ Reports \/ Returns
            \/ \E p \in Points : Asks(p) \/ Refuses(p)
         \/ \/ ServerTurns
            \/ \E p \in Points, fs \in Mounted \cup {None} : Remounts(p, fs)
            \/ \E p \in Points, use \in {"some", "all"} : Fills(p, use)
BY DEF FilesystemNext

\* The types hold in every reachable state: nothing that happens to the mount table
\* while it is read makes get_filesystems fail.
THEOREM FilesystemTypeCorrect == FilesystemSpec => []FilesystemTypeOK
<1>1. FilesystemTypeOK /\ [FilesystemNext]_filesystemVars => FilesystemTypeOK'
  <2> SUFFICES ASSUME FilesystemTypeOK, [FilesystemNext]_filesystemVars PROVE FilesystemTypeOK'
    OBVIOUS
  <2>1. CASE FilesystemNext
    BY <2>1, TwoActors, DfType, HostType
  <2>2. CASE UNCHANGED filesystemVars
    BY <2>2 DEF filesystemVars, FilesystemTypeOK
  <2> QED BY <2>1, <2>2
<1> QED BY FilesystemTypeInit, <1>1, PTL DEF FilesystemSpec

-----------------------------------------------------------------------------
(* The rows df prints and the table they are judged by. *)

LEMMA FilesystemInvInit == FilesystemInit => FilesystemInv
<1> SUFFICES ASSUME FilesystemInit PROVE FilesystemInv
  OBVIOUS
<1>1. FilesystemTypeOK
  BY FilesystemTypeInit
<1>2. AskedOrDue /\ AllOrNothing /\ RowsOwn /\ ReportedRows
  BY DEF FilesystemInit, AskedOrDue, AllOrNothing, RowsOwn, ReportedRows
<1> QED BY <1>1, <1>2 DEF FilesystemInv

\* df asks one filesystem after another, until it has them all or is stopped.
LEMMA ReaderInv ==
  ASSUME FilesystemInv,
         \/ Begins \/ Ends \/ TimesOut \/ Reports \/ Returns
         \/ \E p \in Points : Asks(p) \/ Refuses(p)
  PROVE  AskedOrDue' /\ AllOrNothing' /\ RowsOwn' /\ ReportedRows'
<1> USE DEF FilesystemInv, FilesystemTypeOK, AskedOrDue, AllOrNothing, RowsOwn, ReportedRows,
            Continues, SameMount, filesystemHistory
<1>1. CASE Begins
  BY <1>1 DEF Begins
<1>2. CASE Ends
  BY <1>2 DEF Ends
<1>3. CASE TimesOut
  BY <1>3 DEF TimesOut
<1>4. CASE Reports
  <2>1. RowsOwn' /\ AskedOrDue' /\ AllOrNothing'
    BY <1>4 DEF Reports
  <2>2. ReportedRows'
    BY <1>4 DEF Reports, IsReportable, Excluded
  <2> QED BY <2>1, <2>2
<1>5. CASE Returns
  BY <1>5 DEF Returns
<1>6. CASE \E p \in Points : Asks(p)
  BY <1>6 DEF Asks
<1>7. CASE \E p \in Points : Refuses(p)
  BY <1>7 DEF Refuses
<1> QED BY <1>1, <1>2, <1>3, <1>4, <1>5, <1>6, <1>7

\* The host changes the table behind df's back: a point that is mounted anew is no
\* longer steady, and one that is filled keeps its type and mode.
LEMMA HostInv ==
  ASSUME FilesystemInv,
         \/ ServerTurns
         \/ \E p \in Points, fs \in Mounted \cup {None} : Remounts(p, fs)
         \/ \E p \in Points, use \in {"some", "all"} : Fills(p, use)
  PROVE  AskedOrDue' /\ AllOrNothing' /\ RowsOwn' /\ ReportedRows'
<1> DEFINE SteadyKept == /\ steady' \subseteq steady
                        /\ \A p \in steady' : /\ SameMount(table'[p], table[p])
                                              /\ table'[p] # None <=> table[p] # None
<1>0. /\ df # "done" /\ df' = df /\ unasked' = unasked /\ rows' = rows
      /\ reported' = reported /\ refused' = refused
  BY DEF ServerTurns, Remounts, Fills, Changes, filesystemHistory
<1>1. ReportedRows'
  BY <1>0 DEF FilesystemInv, ReportedRows
<1>2. SteadyKept
  <2>1. CASE ServerTurns
    BY <2>1 DEF ServerTurns, SameMount, filesystemHistory
  <2>2. ASSUME NEW p \in Points, NEW fs \in Mounted \cup {None}, Remounts(p, fs)
        PROVE  SteadyKept
    BY <2>2 DEF Remounts, SameMount, FilesystemInv, FilesystemTypeOK
  <2>3. ASSUME NEW p \in Points, NEW use \in {"some", "all"}, Fills(p, use)
        PROVE  SteadyKept
    <3>1. table[p] \in Mounted \cup {None} /\ table[p].fstype \in {"disk", "tmpfs"} /\ ~table[p].ro
      BY <2>3 DEF Fills, FilesystemInv, FilesystemTypeOK
    <3>2. /\ [table[p] EXCEPT !.use = use] \in Mounted
          /\ SameMount([table[p] EXCEPT !.use = use], table[p])
      BY <3>1, FilledMount DEF SameMount
    <3>3. [table[p] EXCEPT !.use = use] # None /\ table[p] # None
      BY <3>1, <3>2, MountFacts
    <3>4. \A q \in Points \ {p} : table'[q] = table[q]
      BY <2>3 DEF Fills, FilesystemInv, FilesystemTypeOK
    <3>5. table'[p] = [table[p] EXCEPT !.use = use]
      BY <2>3 DEF Fills, FilesystemInv, FilesystemTypeOK
    <3>6. steady' = steady /\ steady \subseteq Points
      BY <2>3 DEF Fills, FilesystemInv, FilesystemTypeOK, filesystemHistory
    <3> QED BY <3>2, <3>3, <3>4, <3>5, <3>6 DEF SameMount
  <2> QED BY <2>1, <2>2, <2>3
<1>3. AskedOrDue' /\ AllOrNothing' /\ RowsOwn'
  BY <1>0, <1>2 DEF FilesystemInv, AskedOrDue, AllOrNothing, RowsOwn, SameMount
<1> QED BY <1>1, <1>3

LEMMA FilesystemInvariant == FilesystemSpec => []FilesystemInv
<1>1. FilesystemInv /\ [FilesystemNext]_filesystemVars => FilesystemInv'
  <2> SUFFICES ASSUME FilesystemInv, [FilesystemNext]_filesystemVars PROVE FilesystemInv'
    OBVIOUS
  <2>1. CASE FilesystemNext
    <3>1. FilesystemTypeOK'
      BY <2>1, TwoActors, DfType, HostType DEF FilesystemInv
    <3>2. AskedOrDue' /\ AllOrNothing' /\ RowsOwn' /\ ReportedRows'
      BY <2>1, TwoActors, ReaderInv, HostInv
    <3> QED BY <3>1, <3>2 DEF FilesystemInv
  <2>2. CASE UNCHANGED filesystemVars
    BY <2>2 DEF filesystemVars, FilesystemInv, FilesystemTypeOK, AskedOrDue, AllOrNothing,
                RowsOwn, ReportedRows, IsReportable
  <2> QED BY <2>1, <2>2
<1> QED BY FilesystemInvInit, <1>1, PTL DEF FilesystemSpec

\* A row of the report is of operational concern, whatever was mounted, unmounted or
\* remounted between df and the reading of /proc/mounts: only the row of a point
\* that changed hands meanwhile may not be, or any row if that file was not read.
THEOREM ReportedConcernsCorrect == FilesystemSpec => []ReportedConcerns
<1>1. FilesystemInv => ReportedConcerns
  <2> SUFFICES ASSUME FilesystemInv, NEW p \in reported
               PROVE  /\ mountsRead => Concern(rows[p]) \/ p \notin steady
                      /\ rows[p] # None /\ rows[p].fstype # "synthetic"
    BY DEF ReportedConcerns
  <2>1. /\ df = "done" /\ p \in Points /\ rows[p].use # "nothing"
        /\ mountsRead => IsReportable(table[p])
    BY DEF FilesystemInv, ReportedRows
  <2>2. rows[p] \in Mounted \cup {None} /\ table[p] \in Mounted \cup {None}
    BY <2>1 DEF FilesystemInv, FilesystemTypeOK
  <2>3. rows[p] # None
    BY <2>1, <2>2, MountFacts
  <2>4. rows[p].fstype \notin {"synthetic", "none"}
    BY <2>1, <2>2, MountFacts
  <2>5. ASSUME mountsRead, p \in steady PROVE Concern(rows[p])
    <3>1. table[p] # None /\ rows[p].fstype = table[p].fstype /\ rows[p].ro = table[p].ro
      BY <2>1, <2>3, <2>5 DEF FilesystemInv, RowsOwn, SameMount
    <3>2. ~table[p].ro /\ table[p].fstype \notin {"remote", "overlay"}
      BY <2>1, <2>5, <3>1 DEF IsReportable, Excluded
    <3>3. rows[p].fstype \in {"disk", "tmpfs", "remote", "overlay", "synthetic", "none"}
      BY <2>2, MountFacts
    <3> QED BY <2>4, <3>1, <3>2, <3>3 DEF Concern
  <2> QED BY <2>3, <2>4, <2>5
<1> QED BY FilesystemInvariant, <1>1, PTL

\* Unless df was stopped, no filesystem of operational concern that stayed mounted and
\* answered is missing from the report, and its row is its own.
THEOREM NoConcernHiddenCorrect == FilesystemSpec => []NoConcernHidden
<1>1. FilesystemInv => NoConcernHidden
  <2> SUFFICES ASSUME FilesystemInv, df = "done", \E q \in Points : rows[q] # None,
                      NEW p \in steady \ refused, Concern(table[p])
               PROVE  p \in reported /\ Concern(rows[p])
    BY DEF NoConcernHidden
  <2>1. p \in Points /\ rows[p] \in Mounted \cup {None} /\ table[p] \in Mounted \cup {None}
    BY DEF FilesystemInv, FilesystemTypeOK
  <2>2. table[p] # None
    BY <2>1, MountFacts DEF Concern
  <2>3. rows[p] # None
    BY <2>2 DEF FilesystemInv, AllOrNothing
  <2>4. rows[p].fstype = table[p].fstype /\ rows[p].ro = table[p].ro
    BY <2>3 DEF FilesystemInv, RowsOwn, SameMount
  <2>5. Concern(rows[p])
    BY <2>4 DEF Concern
  <2>6. rows[p].use # "nothing"
    BY <2>1, <2>5, MountFacts DEF Concern
  <2>7. IsReportable(table[p]) /\ IsReportable(None)
    BY DEF Concern, IsReportable, Excluded
  <2> QED BY <2>1, <2>5, <2>6, <2>7 DEF FilesystemInv, ReportedRows
<1> QED BY FilesystemInvariant, <1>1, PTL
=============================================================================
