------------------------------ MODULE MCParts ------------------------------
(* The parts of the monitor that share no state with one another, each checked   *)
(* on its own and all in one run: `part' says which one a behaviour is about.    *)
EXTENDS Fleet, Sampling, JournalWindow, CollectionBudget, Filesystems, ReportView

CONSTANTS
  Parts            \* the parts to check

VARIABLES
  part             \* the one the behaviour is about

partsVars == <<part, fleetVars, samplingVars, journalVars, budgetVars, filesystemVars, viewVars>>

MCDiskLimits == {DefaultLimits, [warn |-> 70, crit |-> 85]}

\* The parts a behaviour is not about start, and stay, in one state each.
PartsInit ==
  /\ part \in Parts
  /\ FleetInit /\ (part = "fleet" \/ holds = {CHOOSE n \in Nodes : TRUE})
  /\ SamplingInit /\ (part = "sampling" \/ proc = [p \in Pids |-> Gone])
  /\ JournalInit /\ (part = "journal" \/ (since = 0 /\ ~troubled))
  /\ BudgetInit
  /\ FilesystemInit /\ (part = "filesystems" \/ (table = [p \in Points |-> None] /\ ~hung))
  /\ ViewInit /\ \/ part = "view"
                 \/ /\ options = [mode |-> "all", human |-> FALSE, html |-> TRUE, exits |-> TRUE]
                    /\ collected = CHOOSE c \in Collections : TRUE

PartsNext ==
  /\ UNCHANGED part
  /\ \/ /\ part = "fleet" /\ FleetNext
        /\ UNCHANGED <<samplingVars, journalVars, budgetVars, filesystemVars, viewVars>>
     \/ /\ part = "sampling" /\ SamplingNext
        /\ UNCHANGED <<fleetVars, journalVars, budgetVars, filesystemVars, viewVars>>
     \/ /\ part = "journal" /\ JournalNext
        /\ UNCHANGED <<fleetVars, samplingVars, budgetVars, filesystemVars, viewVars>>
     \/ /\ part = "budget" /\ BudgetNext
        /\ UNCHANGED <<fleetVars, samplingVars, journalVars, filesystemVars, viewVars>>
     \/ /\ part = "filesystems" /\ FilesystemNext
        /\ UNCHANGED <<fleetVars, samplingVars, journalVars, budgetVars, viewVars>>
     \/ /\ part = "view" /\ ViewNext
        /\ UNCHANGED <<fleetVars, samplingVars, journalVars, budgetVars, filesystemVars>>

\* FleetFairness and JournalFairness, of the behaviours about them
PartsFairness ==
  /\ \A n \in Nodes : WF_fleetVars(part = "fleet" /\ RunStep(n))
  /\ WF_journalVars(part = "journal" /\ Pass)
  /\ WF_journalVars(part = "journal" /\ RunAny)

PartsSpec == PartsInit /\ [][PartsNext]_partsVars /\ PartsFairness

\* Type correctness of every part.
PartsTypeOK ==
  /\ part \in Parts /\ FleetTypeOK /\ SamplingTypeOK /\ JournalTypeOK
  /\ BudgetTypeOK /\ FilesystemTypeOK /\ ViewTypeOK

\* PagesSettle: once the address stays where it is, the pages of the two nodes come
\* to tell who holds it, and go on doing so.
FleetSettles == part = "fleet" => PagesSettle
=============================================================================
