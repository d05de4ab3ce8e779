----------------------------- MODULE PartsProofs -----------------------------
(* Proofs about the parts checked together: each of them, among the others,      *)
(* does what its own specification says, so what is proved of a part holds of    *)
(* the behaviours of all of them.                                                *)
EXTENDS MCParts, MetricsProofs, PostureProofs, ReportProofs

\* A behaviour of the parts is one of every part: the one it is about moves as its
\* specification says, the others start in a state of theirs and stay in it.
LEMMA PartsImplement ==
  PartsSpec => /\ FleetSpec /\ SamplingSpec /\ JournalSpec
               /\ BudgetSpec /\ FilesystemSpec /\ ViewSpec
<1>1. PartsInit => /\ FleetInit /\ SamplingInit /\ JournalInit
                   /\ BudgetInit /\ FilesystemInit /\ ViewInit
  BY DEF PartsInit
<1>2. [PartsNext]_partsVars =>
        /\ [FleetNext]_fleetVars /\ [SamplingNext]_samplingVars /\ [JournalNext]_journalVars
        /\ [BudgetNext]_budgetVars /\ [FilesystemNext]_filesystemVars /\ [ViewNext]_viewVars
  <2> SUFFICES ASSUME [PartsNext]_partsVars
               PROVE  /\ [FleetNext]_fleetVars /\ [SamplingNext]_samplingVars
                      /\ [JournalNext]_journalVars /\ [BudgetNext]_budgetVars
                      /\ [FilesystemNext]_filesystemVars /\ [ViewNext]_viewVars
    OBVIOUS
  <2>1. CASE PartsNext
    BY <2>1 DEF PartsNext
  <2>2. CASE UNCHANGED partsVars
    BY <2>2 DEF partsVars
  <2> QED BY <2>1, <2>2
<1> QED BY <1>1, <1>2, PTL DEF PartsSpec, FleetSpec, SamplingSpec, JournalSpec, BudgetSpec,
                                 FilesystemSpec, ViewSpec

\* Type correctness of the parts, whichever a behaviour is about.
THEOREM PartsTypeCorrect == PartsSpec => []PartsTypeOK
<1>1. PartsInit => part \in Parts
  BY DEF PartsInit
<1>2. part \in Parts /\ [PartsNext]_partsVars => (part \in Parts)'
  BY DEF PartsNext, partsVars
<1>3. PartsSpec => [](part \in Parts)
  BY <1>1, <1>2, PTL DEF PartsSpec
<1> QED BY <1>3, PartsImplement, FleetTypeCorrect, SamplingTypeCorrect, JournalTypeCorrect,
           BudgetTypeCorrect, FilesystemTypeCorrect, ViewTypeCorrect, PTL DEF PartsTypeOK
\* What the run of the parts checks of every state holds of all their behaviours: of the
\* time a run takes where no single party's timeouts use it up.
THEOREM PartsSafe ==
  PartsSpec => /\ [](HeldPagesCollide /\ ResponderIsRecent)
               /\ [](NeverOverReported /\ BusiestListed /\ SharesDisjoint /\ AverageWitnessed)
               /\ [](MissedOnlyInGap /\ UncutIsExact /\ RecountBounded)
               /\ [](StillReads /\ (OneFits => KilledMeansTwoTroubles))
               /\ [](ReportedConcerns /\ NoConcernHidden)
               /\ [](FormattedOnce /\ ReachesReader /\ PageAgreesWithExit)
<1>1. FleetSpec => [](HeldPagesCollide /\ ResponderIsRecent)
  BY HeldPagesCollideCorrect, ResponderIsRecentCorrect, PTL
<1>2. SamplingSpec => [](NeverOverReported /\ BusiestListed /\ SharesDisjoint /\ AverageWitnessed)
  BY NeverOverReportedCorrect, BusiestListedCorrect, SharesDisjointCorrect,
     AverageWitnessedCorrect, PTL
<1>3. JournalSpec => [](MissedOnlyInGap /\ UncutIsExact /\ RecountBounded)
  BY MissedOnlyInGapCorrect, UncutIsExactCorrect, RecountBoundedCorrect, PTL
<1>4. BudgetSpec => [](OneFits => KilledMeansTwoTroubles)
  <2>1. CASE OneFits
    <3>1. KilledMeansTwoTroubles => (OneFits => KilledMeansTwoTroubles)
      OBVIOUS
    <3> QED BY <2>1, <3>1, KilledMeansTwoTroublesCorrect, PTL
  <2>2. CASE ~OneFits
    <3>1. OneFits => KilledMeansTwoTroubles
      BY <2>2
    <3> QED BY <3>1, PTL
  <2> QED BY <2>1, <2>2
<1>5. BudgetSpec => [](StillReads /\ (OneFits => KilledMeansTwoTroubles))
  BY <1>4, StillReadsCorrect, PTL
<1>6. FilesystemSpec => [](ReportedConcerns /\ NoConcernHidden)
  BY ReportedConcernsCorrect, NoConcernHiddenCorrect, PTL
<1>7. ViewSpec => [](FormattedOnce /\ ReachesReader /\ PageAgreesWithExit)
  BY FormattedOnceCorrect, ReachesReaderCorrect, PageAgreesCorrect, PTL
<1> QED BY <1>1, <1>2, <1>3, <1>5, <1>6, <1>7, PartsImplement, PTL
=============================================================================
