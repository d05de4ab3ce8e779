------------------------- MODULE HealthServiceProofs -------------------------
(* Proofs about HealthService, for any set of runs by hand, any faults, any     *)
(* number of pages and any number of changes of the host.                       *)
EXTENDS HealthService, TLAPS

\* What the report is written from: a run that publishes has judged.
Judged == \A r \in Runs : pc[r] \in {"publish", "write", "exit"} => verdict[r] \in Verdicts

TypeInv == TypeOK /\ Judged

\* Every step is one of a run, of systemd, or of the host.
RunStep(r) == Step(r) \/ StartByHand(r) \/ Interrupt(r)

LEMMA TimedRuns == Timed \in Runs /\ \A r \in ByHand : r \in Runs /\ r # Timed
BY RunsAssumption DEF Runs

\* The code the process ends in is the verdict's.
LEMMA ExitCodes ==
  /\ \A v : ExitCode(v) \in {0, 1, 2}
  /\ ExitCode("HEALTHY") = 0 /\ ExitCode("WARNING") = 1 /\ ExitCode("CRITICAL") = 2
BY DEF ExitCode

\* The end of a run leaves the unit at rest if it was the unit's own.
LEMMA EndType ==
  ASSUME TypeOK, NEW r \in Runs, NEW code \in {Killed, 0, 1, 2}, End(r, code)
  PROVE  /\ pc' \in [Runs -> {"off", "collect", "publish", "write", "exit"}]
         /\ unit' \in [active : {"inactive", "activating", "failed"}, code : {Never, Killed, 0, 1, 2}]
         /\ (unit'.active = "activating") = (pc'[Timed] # "off")
<1>1. pc' \in [Runs -> {"off", "collect", "publish", "write", "exit"}]
  BY DEF TypeOK, End
<1>2. CASE r = Timed
  <2>1. pc'[Timed] = "off"
    BY <1>2 DEF TypeOK, End
  <2>2. unit' = [active |-> IF code = 0 THEN "inactive" ELSE "failed", code |-> code]
    BY <1>2 DEF End
  <2> QED BY <1>1, <2>1, <2>2
<1>3. CASE r # Timed
  <2>1. pc'[Timed] = pc[Timed] /\ unit' = unit
    BY <1>3, TimedRuns DEF TypeOK, End
  <2> QED BY <1>1, <2>1 DEF TypeOK
<1> QED BY <1>2, <1>3

\* A step of a run that goes on leaves the unit as it is.
LEMMA AtType ==
  ASSUME TypeOK, NEW r \in Runs, NEW here \in {"collect", "publish", "write", "exit"},
         NEW there \in {"collect", "publish", "write", "exit"}, At(r, here, there)
  PROVE  /\ pc' \in [Runs -> {"off", "collect", "publish", "write", "exit"}]
         /\ (unit.active = "activating") = (pc'[Timed] # "off")
BY TimedRuns DEF TypeOK, At

LEMMA StartType ==
  ASSUME TypeOK, NEW r \in Runs, Start(r)
  PROVE  /\ pc' \in [Runs -> {"off", "collect", "publish", "write", "exit"}]
         /\ pc' = [pc EXCEPT ![r] = "collect"]
         /\ verdict' \in [Runs -> Verdicts \cup {"none"}]
         /\ seen' \in [Runs -> SUBSET FaultSet] /\ steady' \in [Runs -> SUBSET FaultSet]
         /\ written' \in [Runs -> 0..Pages]
<1>1. host.faults \in SUBSET FaultSet /\ Visible(host) \in SUBSET FaultSet
  BY DEF TypeOK, Hosts, Visible
<1>2. 0 \in 0..Pages
  BY PagesAssumption
<1> QED BY <1>1, <1>2 DEF TypeOK, Start, At

LEMMA TypeInit == Init => TypeInv
<1> SUFFICES ASSUME Init PROVE TypeInv
  OBVIOUS
<1>1. 0 \in 0..Pages /\ 0 \in 0..MaxChanges
  BY PagesAssumption, ChangesAssumption
<1>2. host \in Hosts
  BY DEF Init, Hosts
<1>3. /\ unit \in [active : {"inactive", "activating", "failed"}, code : {Never, Killed, 0, 1, 2}]
      /\ (unit.active = "activating") = (pc[Timed] # "off")
  BY TimedRuns DEF Init
<1>4. TypeOK
  BY <1>1, <1>2, <1>3 DEF Init, TypeOK
<1>5. Judged
  BY DEF Init, Judged
<1> QED BY <1>4, <1>5 DEF TypeInv

\* The host changes: what each collecting run has seen follows.
LEMMA HostType ==
  ASSUME TypeOK, HostStep
  PROVE  TypeOK'
<1>1. PICK h \in Hosts : Becomes(h)
  BY DEF HostStep, TypeOK, Hosts
<1>2. changes' \in 0..MaxChanges
  BY <1>1, ChangesAssumption DEF Becomes, TypeOK
<1>3. h.faults \subseteq FaultSet /\ Visible(h) \subseteq FaultSet
  BY DEF Hosts, Visible
<1>4. seen' \in [Runs -> SUBSET FaultSet]
  BY <1>1, <1>3 DEF Becomes, TypeOK
<1>5. steady' \in [Runs -> SUBSET FaultSet]
  BY <1>1, <1>3 DEF Becomes, TypeOK
<1> QED BY <1>1, <1>2, <1>4, <1>5 DEF Becomes, TypeOK, fileVars

LEMMA RunType ==
  ASSUME TypeInv, NEW r \in Runs, RunStep(r)
  PROVE  TypeOK'
<1> USE DEF fileVars, TypeInv
<1>1. CASE Judge(r)
  <2>1. PICK v \in Verdicts : verdict' = [verdict EXCEPT ![r] = v]
    BY <1>1 DEF Judge
  <2> QED BY <1>1, <2>1, AtType DEF Judge, TypeOK
<1>2. CASE NoIdentity(r)
  BY <1>2, EndType DEF NoIdentity, TypeOK
<1>3. CASE Open(r)
  BY <1>3, AtType DEF Open, TypeOK
<1>4. CASE Write(r)
  <2>1. written[r] + 1 \in 1..Pages
    BY <1>4, PagesAssumption DEF Write, TypeOK
  <2>2. written' = [written EXCEPT ![r] = written[r] + 1] /\ written'[r] = written[r] + 1
    BY <1>4 DEF Write, TypeOK
  <2>3. verdict[r] \in Verdicts
    BY <1>4 DEF Write, Judged
  <2>4. pages' \in [1..Pages -> Verdicts \cup {Blank}]
    BY <1>4, <2>1, <2>2, <2>3 DEF Write, TypeOK
  <2>5. written' \in [Runs -> 0..Pages]
    BY <2>1, <2>2 DEF TypeOK
  <2> QED BY <1>4, <2>4, <2>5 DEF Write, TypeOK
<1>5. CASE Chmod(r)
  BY <1>5, AtType DEF Chmod, TypeOK
<1>6. CASE WriteFails(r)
  BY <1>6, EndType DEF WriteFails, TypeOK
<1>7. CASE Exit(r)
  BY <1>7, EndType, ExitCodes DEF Exit, TypeOK
<1>8. CASE StartByHand(r)
  <2>1. r # Timed
    BY <1>8, TimedRuns DEF StartByHand
  <2>2. pc'[Timed] = pc[Timed]
    BY <1>8, <2>1, StartType, TimedRuns DEF StartByHand, TypeOK
  <2> QED BY <1>8, <2>2, StartType DEF StartByHand, TypeOK
<1>9. CASE Interrupt(r)
  BY <1>9, EndType DEF Interrupt, TypeOK
<1> QED BY <1>1, <1>2, <1>3, <1>4, <1>5, <1>6, <1>7, <1>8, <1>9 DEF RunStep, Step

\* Only its own judgement changes what a run publishes.
LEMMA JudgedNext == TypeInv /\ [Next]_vars => Judged'
<1> SUFFICES ASSUME TypeInv, [Next]_vars, NEW s \in Runs,
                    pc'[s] \in {"publish", "write", "exit"}
             PROVE  verdict'[s] \in Verdicts
  BY DEF Judged
<1> USE TimedRuns DEF TypeInv, TypeOK, Judged, At, End
<1>1. CASE Elapse
  BY <1>1 DEF Elapse, Start
<1>2. CASE TimeOut
  BY <1>2 DEF TimeOut
<1>3. CASE HostStep
  BY <1>3 DEF HostStep, Becomes
<1>4. CASE Reboot
  BY <1>4 DEF Reboot
<1>5. ASSUME NEW r \in Runs, RunStep(r) PROVE verdict'[s] \in Verdicts
  <2>1. CASE Judge(r)
    BY <2>1 DEF Judge
  <2>2. CASE NoIdentity(r)
    BY <2>2 DEF NoIdentity
  <2>3. CASE Open(r)
    BY <2>3 DEF Open
  <2>4. CASE Write(r)
    BY <2>4 DEF Write
  <2>5. CASE Chmod(r)
    BY <2>5 DEF Chmod
  <2>6. CASE WriteFails(r)
    BY <2>6 DEF WriteFails
  <2>7. CASE Exit(r)
    BY <2>7 DEF Exit
  <2>8. CASE StartByHand(r)
    BY <2>8 DEF StartByHand, Start
  <2>9. CASE Interrupt(r)
    BY <2>9 DEF Interrupt
  <2> QED BY <1>5, <2>1, <2>2, <2>3, <2>4, <2>5, <2>6, <2>7, <2>8, <2>9 DEF RunStep, Step
<1>6. CASE UNCHANGED vars
  BY <1>6 DEF vars, runVars
<1> QED BY <1>1, <1>2, <1>3, <1>4, <1>5, <1>6 DEF Next, RunStep

LEMMA TypeNext == TypeInv /\ [Next]_vars => TypeInv'
<1> SUFFICES ASSUME TypeInv, [Next]_vars PROVE TypeOK'
  BY JudgedNext DEF TypeInv
<1> USE TimedRuns DEF fileVars, TypeInv
<1>1. CASE Elapse
  <2>1. unit' = [unit EXCEPT !.active = "activating"] /\ pc'[Timed] # "off"
    BY <1>1, StartType DEF Elapse, TypeOK
  <2> QED BY <1>1, <2>1, StartType DEF Elapse, TypeOK
<1>2. CASE TimeOut
  BY <1>2, EndType DEF TimeOut, TypeOK
<1>3. CASE HostStep
  BY <1>3, HostType
<1>4. CASE Reboot
  <2>1. changes' \in 0..MaxChanges
    BY <1>4, ChangesAssumption DEF Reboot, TypeOK
  <2> QED BY <1>4, <2>1 DEF Reboot, TypeOK
<1>5. ASSUME NEW r \in Runs, RunStep(r) PROVE TypeOK'
  BY <1>5, RunType
<1>6. CASE UNCHANGED vars
  BY <1>6 DEF vars, runVars, TypeOK
<1> QED BY <1>1, <1>2, <1>3, <1>4, <1>5, <1>6 DEF Next, RunStep

\* Timer, unit, runs and report stay well typed, and the unit is activating
\* exactly while its process lives, whatever the host does.
THEOREM ServiceTypeCorrect == Spec => []TypeOK
<1>1. TypeInv => TypeOK
  BY DEF TypeInv
<1> QED BY <1>1, TypeInit, TypeNext, PTL DEF Spec
-----------------------------------------------------------------------------
(* Finished runs are published.  The strengthening follows a run through        *)
(* write_output: it starts with nothing written, the pages it wrote since it    *)
(* opened the report are there, and nobody else writes between them unless the  *)
(* report was open elsewhere when it was truncated.                             *)

NotWritten == \A r \in Runs : pc[r] \in {"collect", "publish"} => written[r] = 0

SoleWriter == ~overlap => \A r \in Runs : pc[r] = "write" => r = owner

OwnPages ==
  owner = Timed /\ pc[Timed] \in {"write", "exit"} =>
    \A i \in 1..written[Timed] : pages[i] # Blank /\ (~overlap => pages[i] = verdict[Timed])

ReadyToExit == pc[Timed] = "exit" => written[Timed] = Pages /\ mode = "chosen"

Progress == NotWritten /\ SoleWriter /\ OwnPages /\ ReadyToExit

PublishedInv == TypeInv /\ Progress /\ FinishedRunPublished

LEMMA PublishedInit == Init => PublishedInv
<1> SUFFICES ASSUME Init PROVE PublishedInv
  OBVIOUS
<1>1. Progress
  BY TimedRuns DEF Init, Progress, NotWritten, SoleWriter, OwnPages, ReadyToExit
<1>2. FinishedRunPublished
  BY DEF Init, FinishedRunPublished, Never
<1> QED BY <1>1, <1>2, TypeInit DEF PublishedInv

\* A verdict is no blank page.
LEMMA NotBlank == Blank \notin Verdicts
BY DEF Blank, Verdicts

\* A process that ends leaves the report as it is.
LEMMA EndProgress ==
  ASSUME TypeInv, Progress, NEW r \in Runs, NEW code, End(r, code),
         UNCHANGED <<verdict, written, fileVars>>
  PROVE  Progress'
<1>1. \A s \in Runs : pc'[s] = pc[s] \/ pc'[s] = "off"
  BY DEF End, TypeInv, TypeOK
<1> QED BY <1>1, TimedRuns
       DEF fileVars, Progress, NotWritten, SoleWriter, OwnPages, ReadyToExit

\* A new process has written nothing.
LEMMA StartProgress ==
  ASSUME TypeInv, Progress, NEW r \in Runs, Start(r), UNCHANGED fileVars
  PROVE  Progress'
<1>1. /\ pc' = [pc EXCEPT ![r] = "collect"] /\ written' = [written EXCEPT ![r] = 0]
      /\ verdict' = [verdict EXCEPT ![r] = "none"]
  BY DEF Start, At
<1>2. \A s \in Runs : \/ pc'[s] = "collect" /\ written'[s] = 0
                      \/ pc'[s] = pc[s] /\ written'[s] = written[s] /\ verdict'[s] = verdict[s]
  BY <1>1 DEF TypeInv, TypeOK
<1> QED BY <1>2, TimedRuns
       DEF fileVars, Progress, NotWritten, SoleWriter, OwnPages, ReadyToExit

\* A run has written no more than the pages it opened the report for.
LEMMA RunProgress ==
  ASSUME TypeInv, Progress, NEW r \in Runs, RunStep(r)
  PROVE  Progress'
<1> USE TimedRuns DEF TypeInv, TypeOK, Progress, NotWritten, SoleWriter, OwnPages, ReadyToExit
<1>1. CASE Judge(r)
  BY <1>1 DEF Judge, At, fileVars
<1>2. CASE NoIdentity(r)
  BY <1>2, EndProgress DEF NoIdentity
<1>3. CASE Open(r)
  <2>1. /\ pc[r] = "publish" /\ pc' = [pc EXCEPT ![r] = "write"] /\ owner' = r
        /\ written[r] = 0 /\ UNCHANGED <<written, verdict>>
    BY <1>3 DEF Open, At
  <2>2. NotWritten' /\ ReadyToExit'
    BY <2>1, <1>3 DEF Open
  <2>3. SoleWriter'
    BY <2>1, <1>3 DEF Open
  <2>4. OwnPages'
    BY <2>1
  <2> QED BY <2>2, <2>3, <2>4
<1>4. CASE Write(r)
  <2>1. /\ pc[r] = "write" /\ UNCHANGED <<pc, verdict, mode, owner, overlap>>
        /\ written' = [written EXCEPT ![r] = written[r] + 1]
        /\ written[r] + 1 \in 1..Pages
        /\ pages' = [pages EXCEPT ![written[r] + 1] = verdict[r]]
        /\ verdict[r] \in Verdicts
    BY <1>4, PagesAssumption DEF Write, Judged
  <2>2. NotWritten' /\ SoleWriter' /\ ReadyToExit'
    BY <2>1, PagesAssumption
  <2>3. OwnPages'
    <3> SUFFICES ASSUME owner = Timed, pc[Timed] \in {"write", "exit"},
                        NEW i \in 1..written'[Timed]
                 PROVE  pages'[i] # Blank /\ (~overlap => pages'[i] = verdict[Timed])
      BY <2>1
    <3>1. written'[Timed] \in 0..Pages /\ i \in 1..Pages
      BY <2>1, PagesAssumption
    <3>2. CASE i = written[r] + 1
      BY <2>1, <3>1, <3>2, NotBlank
    <3>3. CASE i # written[r] + 1
      <4>1. i \in 1..written[Timed]
        BY <2>1, <3>1, <3>3
      <4> QED BY <2>1, <3>1, <3>3, <4>1
    <3> QED BY <3>2, <3>3
  <2> QED BY <2>2, <2>3
<1>5. CASE Chmod(r)
  BY <1>5 DEF Chmod, At
<1>6. CASE WriteFails(r)
  BY <1>6, EndProgress DEF WriteFails
<1>7. CASE Exit(r)
  BY <1>7, EndProgress DEF Exit
<1>8. CASE StartByHand(r)
  BY <1>8, StartProgress DEF StartByHand
<1>9. CASE Interrupt(r)
  BY <1>9, EndProgress DEF Interrupt
<1> QED BY <1>1, <1>2, <1>3, <1>4, <1>5, <1>6, <1>7, <1>8, <1>9 DEF RunStep, Step

LEMMA ProgressNext == TypeInv /\ Progress /\ [Next]_vars => Progress'
<1> SUFFICES ASSUME TypeInv, Progress, [Next]_vars PROVE Progress'
  OBVIOUS
<1> USE TimedRuns
<1>1. CASE Elapse
  BY <1>1, StartProgress DEF Elapse
<1>2. CASE TimeOut
  BY <1>2, EndProgress DEF TimeOut
<1>3. CASE HostStep
  <2>1. UNCHANGED <<pc, verdict, written, fileVars>>
    BY <1>3 DEF HostStep, Becomes
  <2> QED BY <2>1 DEF fileVars, Progress, NotWritten, SoleWriter, OwnPages, ReadyToExit
<1>4. CASE Reboot
  BY <1>4 DEF Reboot, fileVars, Progress, NotWritten, SoleWriter, OwnPages, ReadyToExit
<1>5. ASSUME NEW r \in Runs, RunStep(r) PROVE Progress'
  BY <1>5, RunProgress
<1>6. CASE UNCHANGED vars
  BY <1>6 DEF vars, runVars, fileVars, Progress, NotWritten, SoleWriter, OwnPages, ReadyToExit
<1> QED BY <1>1, <1>2, <1>3, <1>4, <1>5, <1>6 DEF Next, RunStep

\* The end of a run that did not conclude says neither HEALTHY nor CRITICAL; the
\* end of one by hand says nothing of the unit.
LEMMA EndPublished ==
  ASSUME TypeInv, FinishedRunPublished, NEW r \in Runs, NEW code, End(r, code),
         r = Timed => code \notin {0, 2}, UNCHANGED fileVars
  PROVE  FinishedRunPublished'
<1>1. CASE r = Timed
  BY <1>1 DEF End, FinishedRunPublished
<1>2. CASE r # Timed
  BY <1>2 DEF End, FinishedRunPublished, fileVars, Complete
<1> QED BY <1>1, <1>2

\* A run by hand that writes while the unit rests leaves its report complete.
LEMMA RunPublished ==
  ASSUME TypeInv, Progress, FinishedRunPublished, NEW r \in Runs, RunStep(r)
  PROVE  FinishedRunPublished'
<1> USE DEF FinishedRunPublished
<1>1. CASE Judge(r)
  BY <1>1 DEF Judge, fileVars, Complete
<1>2. CASE NoIdentity(r)
  BY <1>2, EndPublished DEF NoIdentity
<1>3. CASE Open(r)
  <2>1. owner' = Timed => unit'.active = "activating"
    BY <1>3, TimedRuns DEF Open, At, TypeInv, TypeOK
  <2> QED BY <2>1
<1>4. CASE Write(r)
  <2>1. /\ pc[r] = "write" /\ UNCHANGED <<unit, mode, owner, overlap>>
        /\ verdict[r] \in Verdicts /\ pages \in [1..Pages -> Verdicts \cup {Blank}]
        /\ pages' = [pages EXCEPT ![written'[r]] = verdict[r]]
    BY <1>4 DEF Write, TypeInv, TypeOK, Judged
  <2>2. Complete => Complete'
    BY <2>1, NotBlank DEF Complete
  <2>3. unit.active # "activating" /\ owner = Timed => overlap
    BY <2>1, TimedRuns DEF Progress, SoleWriter, TypeInv, TypeOK
  <2> QED BY <2>1, <2>2, <2>3
<1>5. CASE Chmod(r)
  BY <1>5 DEF Chmod, Complete
<1>6. CASE WriteFails(r)
  BY <1>6, EndPublished DEF WriteFails
<1>7. CASE Exit(r)
  <2>1. CASE r # Timed
    BY <1>7, <2>1, EndPublished DEF Exit
  <2>2. CASE r = Timed
    <3>1. /\ pc[Timed] = "exit" /\ unit'.code = ExitCode(verdict[Timed])
          /\ UNCHANGED <<verdict, pages, mode, owner, overlap>>
      BY <1>7, <2>2 DEF Exit, End, fileVars
    <3>2. owner = Timed => \A i \in 1..Pages :
                             pages[i] # Blank /\ (~overlap => pages[i] = verdict[Timed])
      BY <3>1 DEF Progress, OwnPages, ReadyToExit
    <3>3. mode = "chosen"
      BY <3>1 DEF Progress, ReadyToExit
    <3> QED BY <3>1, <3>2, <3>3 DEF Complete
  <2> QED BY <2>1, <2>2
<1>8. CASE StartByHand(r)
  BY <1>8 DEF StartByHand, fileVars, Complete
<1>9. CASE Interrupt(r)
  BY <1>9, TimedRuns, EndPublished DEF Interrupt
<1> QED BY <1>1, <1>2, <1>3, <1>4, <1>5, <1>6, <1>7, <1>8, <1>9 DEF RunStep, Step

LEMMA PublishedNext == PublishedInv /\ [Next]_vars => PublishedInv'
<1> SUFFICES ASSUME PublishedInv, [Next]_vars PROVE FinishedRunPublished'
  BY TypeNext, ProgressNext DEF PublishedInv
<1> USE DEF PublishedInv
<1>1. CASE Elapse
  <2>1. unit'.active = "activating"
    BY <1>1 DEF Elapse, TypeInv, TypeOK
  <2> QED BY <2>1 DEF FinishedRunPublished
<1>2. CASE TimeOut
  <2>1. Killed \notin {0, 2}
    BY DEF Killed
  <2> QED BY <1>2, <2>1, TimedRuns, EndPublished DEF TimeOut
<1>3. CASE HostStep
  <2>1. UNCHANGED <<unit, fileVars>>
    BY <1>3 DEF HostStep, Becomes
  <2> QED BY <2>1 DEF fileVars, FinishedRunPublished, Complete
<1>4. CASE Reboot
  BY <1>4 DEF Reboot, FinishedRunPublished, Never
<1>5. ASSUME NEW r \in Runs, RunStep(r) PROVE FinishedRunPublished'
  BY <1>5, RunPublished
<1>6. CASE UNCHANGED vars
  BY <1>6 DEF vars, runVars, fileVars, FinishedRunPublished, Complete
<1> QED BY <1>1, <1>2, <1>3, <1>4, <1>5, <1>6 DEF Next, RunStep

\* Exit code and report agree: for any number of pages and of runs by hand, and
\* whatever times out, fills up, is interrupted or reboots, a unit at rest with
\* code 0 or 2 that was the last to open the report has published all of it.
THEOREM FinishedRunsPublish == Spec => []FinishedRunPublished
<1>1. PublishedInv => FinishedRunPublished
  BY DEF PublishedInv
<1> QED BY <1>1, PublishedInit, PublishedNext, PTL DEF Spec
=============================================================================
