--------------------------- MODULE PostureProofs ----------------------------
(* Proofs about two of the posture checks: JournalWindow, for any units, window, *)
(* pace of the timer and cap; Fleet, for any number of nodes and strangers and   *)
(* any number of moves of the address.                                           *)
EXTENDS JournalWindow, Fleet, SequenceTheorems, FiniteSetTheorems, TLAPS

(* JournalWindow. *)

Logged == [unit : Sources, legible : BOOLEAN, age : 0..Window, counted : Nat]

\* An error was counted no more often than the timer has ticked since it was logged
\* (s, since the last run): a run is due again only a whole interval after the last.
AtPace(e, s) == e.counted * Every <= e.age + Every - s

\* A legible error that no run has counted is no older than the last run that read all.
IsNew(e, g) == e.legible /\ e.counted = 0 => e.age <= g

EntriesAccounted(entries, s, g) ==
  entries \in Seq(Logged) /\ \A i \in DOMAIN entries : AtPace(entries[i], s) /\ IsNew(entries[i], g)

\* What a report says, with its types.
ReportTypeOK(r) ==
  /\ r.success \in BOOLEAN /\ r.capped \in BOOLEAN /\ r.count \in 0..EntryCap
  /\ r.by_unit \subseteq [unit : Sources, count : 1..EntryCap]

JournalInv ==
  /\ ReportTypeOK(report) /\ troubled \in BOOLEAN /\ whole \in BOOLEAN
  /\ skipped \in 0..EntryCap /\ truth \in [all : Nat, of : [Sources -> Nat]]
  /\ since \in 0..Every /\ gap \in 0..Window + 1
  /\ missed \in BOOLEAN /\ (missed => gap > Window)
  /\ EntriesAccounted(journal, since, gap)
  /\ UncutIsExact

-----------------------------------------------------------------------------
(* Arithmetic. *)

\* A multiple of the interval within a window and one interval more.
LEMMA FitsWindow ==
  ASSUME NEW c \in Nat, NEW e \in Nat \ {0}, NEW w \in Nat, c * e <= w + e
  PROVE  c <= w \div e + 1
<1> DEFINE q == w \div e
<1>1. q \in Nat /\ w < (q + 1) * e
  OBVIOUS
<1> HIDE DEF q
<1>2. SUFFICES ASSUME c >= q + 2 PROVE FALSE
  BY <1>1 DEF q
<1>3. c * e >= (q + 2) * e
  <2>1. PICK d \in Nat : c = q + 2 + d
    <3>1. c - (q + 2) \in Nat /\ c = q + 2 + (c - (q + 2))
      BY <1>1, <1>2
    <3> QED BY <3>1
  <2>2. c * e = (q + 2) * e + d * e
    BY <1>1, <2>1
  <2>3. d * e >= 0
    BY <2>1
  <2> QED BY <1>1, <2>2, <2>3
<1>4. (q + 2) * e = (q + 1) * e + e
  BY <1>1
<1> QED BY <1>1, <1>3, <1>4

LEMMA OnceMore ==
  ASSUME NEW c \in Nat, NEW e \in Nat
  PROVE  (c + 1) * e = c * e + e /\ c * e \in Nat
OBVIOUS

-----------------------------------------------------------------------------
(* Entries. *)

LEMMA EntryFacts ==
  ASSUME NEW e \in [unit : Sources, legible : BOOLEAN, age : Nat, counted : Nat]
  PROVE  /\ Older(e) \in [unit : Sources, legible : BOOLEAN, age : Nat, counted : Nat]
         /\ Older(e).unit = e.unit /\ Older(e).age = e.age + 1 /\ Older(e).counted = e.counted
         /\ Older(e).legible = e.legible /\ CountedOnce(e).legible = e.legible
         /\ CountedOnce(e) \in [unit : Sources, legible : BOOLEAN, age : Nat, counted : Nat]
         /\ CountedOnce(e).unit = e.unit /\ CountedOnce(e).age = e.age
         /\ CountedOnce(e).counted = e.counted + 1
BY DEF Older, CountedOnce

LEMMA LoggedFacts ==
  ASSUME NEW e \in Logged
  PROVE  /\ e \in [unit : Sources, legible : BOOLEAN, age : Nat, counted : Nat]
         /\ e.age \in 0..Window /\ e.counted \in Nat
         /\ CountedOnce(e) \in Logged
         /\ Kept(Older(e)) => Older(e) \in Logged
<1>1. Window \in Nat
  BY JournalAssumption
<1>2. e \in [unit : Sources, legible : BOOLEAN, age : Nat, counted : Nat]
  BY <1>1 DEF Logged
<1>3. e.unit \in Sources /\ e.age \in 0..Window /\ e.counted \in Nat
  BY DEF Logged
<1>4. CountedOnce(e) \in Logged
  BY <1>2, <1>3, EntryFacts DEF Logged
<1>5. Kept(Older(e)) => Older(e) \in Logged
  BY <1>2, <1>3, EntryFacts DEF Logged, Kept
<1> QED BY <1>2, <1>3, <1>4, <1>5

LEMMA NewEntry ==
  ASSUME NEW unit \in Sources, NEW legible \in BOOLEAN
  PROVE  /\ Entry(unit, legible) \in Logged
         /\ Entry(unit, legible).age = 0 /\ Entry(unit, legible).counted = 0
BY JournalAssumption DEF Entry, Logged

\* A new error was counted by no run, and is newer than every run.
LEMMA AppendAccounted ==
  ASSUME NEW s \in 0..Every, NEW g \in Nat, NEW entries, EntriesAccounted(entries, s, g),
         NEW unit \in Sources, NEW legible \in BOOLEAN
  PROVE  EntriesAccounted(Append(entries, Entry(unit, legible)), s, g)
<1> DEFINE longer == Append(entries, Entry(unit, legible))
<1>1. entries \in Seq(Logged) /\ \A i \in DOMAIN entries : AtPace(entries[i], s) /\ IsNew(entries[i], g)
  BY DEF EntriesAccounted
<1>2. /\ longer \in Seq(Logged) /\ Len(longer) = Len(entries) + 1
      /\ \A i \in 1..Len(entries) : longer[i] = entries[i]
      /\ longer[Len(entries) + 1] = Entry(unit, legible)
  BY <1>1, NewEntry, AppendProperties
<1>3. AtPace(Entry(unit, legible), s) /\ IsNew(Entry(unit, legible), g)
  BY NewEntry, JournalAssumption DEF AtPace, IsNew
<1> HIDE DEF longer
<1>4. ASSUME NEW i \in DOMAIN longer PROVE AtPace(longer[i], s) /\ IsNew(longer[i], g)
  <2>1. CASE i = Len(entries) + 1
    BY <1>2, <1>3, <2>1
  <2>2. CASE i # Len(entries) + 1
    <3>1. i \in DOMAIN entries /\ longer[i] = entries[i]
      BY <1>1, <1>2, <2>2
    <3> QED BY <1>1, <3>1
  <2> QED BY <2>1, <2>2
<1> QED BY <1>2, <1>4 DEF EntriesAccounted, longer

-----------------------------------------------------------------------------
(* The steps. *)

\* What a run marks: at its pace, one count more for the legible entries journalctl
\* printed; all of them are counted when that was the whole journal.
LEMMA MarkAccounted ==
  ASSUME EntriesAccounted(journal, Every, gap), NEW marked, NEW printed \in SUBSET Nat,
         marked = [i \in DOMAIN journal |->
                     IF i \in printed /\ journal[i].legible
                     THEN CountedOnce(journal[i]) ELSE journal[i]],
         NEW g \in {0, gap}, g = 0 => gap = 0 \/ DOMAIN journal \subseteq printed
  PROVE  EntriesAccounted(marked, 0, g)
<1>1. /\ journal \in Seq(Logged) /\ Every \in Nat
      /\ \A i \in DOMAIN journal : AtPace(journal[i], Every) /\ IsNew(journal[i], gap)
  BY JournalAssumption DEF EntriesAccounted
<1>2. ASSUME NEW i \in DOMAIN journal
      PROVE  marked[i] \in Logged /\ AtPace(marked[i], 0) /\ IsNew(marked[i], g)
  <2>1. /\ journal[i] \in Logged /\ journal[i].age \in Nat /\ journal[i].counted \in Nat
        /\ journal[i].counted * Every <= journal[i].age
    <3>1. journal[i] \in Logged
      BY <1>1
    <3>2. journal[i].age \in Nat /\ journal[i].counted \in Nat
      BY <3>1, LoggedFacts, JournalAssumption
    <3>3. journal[i].counted * Every \in Nat
      BY <1>1, <3>2, OnceMore
    <3>4. journal[i].counted * Every <= journal[i].age + Every - Every
      BY <1>1 DEF AtPace
    <3> QED BY <1>1, <3>1, <3>2, <3>3, <3>4
  <2>2. CASE i \in printed /\ journal[i].legible
    <3>1. marked[i] = CountedOnce(journal[i])
      BY <2>2
    <3>2. /\ marked[i] \in Logged /\ marked[i].age = journal[i].age
          /\ marked[i].counted = journal[i].counted + 1
      BY <2>1, <3>1, LoggedFacts, EntryFacts
    <3>3. AtPace(marked[i], 0)
      BY <1>1, <2>1, <3>2, OnceMore DEF AtPace
    <3>4. IsNew(marked[i], g)
      BY <2>1, <3>2 DEF IsNew
    <3> QED BY <3>2, <3>3, <3>4
  <2>3. CASE ~(i \in printed /\ journal[i].legible)
    <3>1. marked[i] = journal[i] /\ (g = gap \/ ~journal[i].legible)
      BY <2>3
    <3>2. IsNew(marked[i], g)
      BY <1>1, <3>1 DEF IsNew
    <3>3. AtPace(marked[i], 0)
      BY <1>1, <2>1, <3>1 DEF AtPace
    <3> QED BY <2>1, <3>1, <3>2, <3>3
  <2> QED BY <2>2, <2>3
<1>3. marked \in Seq(Logged)
  BY <1>1, <1>2
<1> QED BY <1>2, <1>3 DEF EntriesAccounted

\* --lines keeps the newest entries, all of them if they are few enough.
LEMMA NewestFacts ==
  ASSUME NEW entries \in Seq(Logged)
  PROVE  /\ Newest(entries) \in Seq(Logged)
         /\ Len(Newest(entries)) = IF Len(entries) > EntryCap THEN EntryCap ELSE Len(entries)
<1>1. Len(entries) \in Nat /\ EntryCap \in Nat \ {0}
  BY JournalAssumption
<1>2. CASE Len(entries) > EntryCap
  <2>1. \A i \in Len(entries) - EntryCap + 1 .. Len(entries) : entries[i] \in Logged
    BY <1>1, <1>2
  <2>2. /\ SubSeq(entries, Len(entries) - EntryCap + 1, Len(entries)) \in Seq(Logged)
        /\ Len(SubSeq(entries, Len(entries) - EntryCap + 1, Len(entries))) = EntryCap
    BY <1>1, <1>2, <2>1, SubSeqProperties
  <2> QED BY <1>2, <2>2 DEF Newest
<1>3. CASE ~(Len(entries) > EntryCap)
  <2>1. \A i \in 1 .. Len(entries) : entries[i] \in Logged
    OBVIOUS
  <2>2. /\ SubSeq(entries, 1, Len(entries)) \in Seq(Logged)
        /\ Len(SubSeq(entries, 1, Len(entries))) = Len(entries)
    BY <1>1, <2>1, SubSeqProperties
  <2> QED BY <1>3, <2>2 DEF Newest
<1> QED BY <1>2, <1>3

\* No more entries are legible than there are.
LEMMA LegibleFacts ==
  ASSUME NEW entries \in Seq(Logged)
  PROVE  /\ Legible(entries) \subseteq DOMAIN entries /\ IsFiniteSet(Legible(entries))
         /\ Cardinality(Legible(entries)) \in 0..Len(entries)
<1>1. DOMAIN entries = 1..Len(entries) /\ Len(entries) \in Nat
  OBVIOUS
<1>2. IsFiniteSet(1..Len(entries)) /\ Cardinality(1..Len(entries)) = Len(entries)
  BY <1>1, FS_Interval
<1>3. Legible(entries) \in SUBSET (1..Len(entries))
  BY <1>1 DEF Legible
<1>4. IsFiniteSet(Legible(entries)) /\ Cardinality(Legible(entries)) <= Len(entries)
  BY <1>2, <1>3, FS_Subset
<1>5. Cardinality(Legible(entries)) \in Nat
  BY <1>4, FS_CardinalityType
<1> QED BY <1>1, <1>3, <1>4, <1>5

\* A unit that is named in some entries has at least one, and no more than there are.
LEMMA ErrorsType ==
  ASSUME NEW entries \in Seq(Logged), Len(entries) <= EntryCap,
         NEW i \in Legible(entries)
  PROVE  Errors(entries, entries[i].unit) \in 1..EntryCap
<1> DEFINE those == {j \in Legible(entries) : entries[j].unit = entries[i].unit}
<1>1. Len(entries) \in Nat /\ EntryCap \in Nat
  BY JournalAssumption
<1>2. /\ IsFiniteSet(Legible(entries)) /\ Cardinality(Legible(entries)) \in Nat
      /\ Cardinality(Legible(entries)) <= EntryCap
  BY <1>1, LegibleFacts
<1>3. those \in SUBSET Legible(entries) /\ those # {}
  OBVIOUS
<1> HIDE DEF those
<1>4. IsFiniteSet(those) /\ Cardinality(those) <= Cardinality(Legible(entries))
  BY <1>2, <1>3, FS_Subset
<1>5. Cardinality(those) \in Nat /\ Cardinality(those) # 0
  BY <1>3, <1>4, FS_CardinalityType, FS_EmptySet
<1> QED BY <1>1, <1>2, <1>4, <1>5 DEF Errors, those

\* What get_journal_errors makes of journalctl's output.
LEMMA CountedType ==
  ASSUME NEW output \in Seq(Logged), Len(output) <= EntryCap, NEW success \in BOOLEAN,
         NEW r \in Counted(output, success)
  PROVE  /\ ReportTypeOK(r)
         /\ success => /\ r.count = Cardinality(Legible(output))
                       /\ r.capped <=> r.count >= EntryCap
<1> DEFINE number == Cardinality(Legible(output))
<1>1. number \in 0..EntryCap /\ 0 \in 0..EntryCap
  BY JournalAssumption, LegibleFacts
<1>2. CASE ~success /\ output = <<>>
  <2>1. r = [success |-> FALSE, count |-> 0, capped |-> FALSE, by_unit |-> {}]
    BY <1>2 DEF Counted, Unavailable
  <2> QED BY <1>1, <1>2, <2>1 DEF ReportTypeOK
<1>3. CASE ~(~success /\ output = <<>>)
  <2>1. PICK listed \in SUBSET Sources :
          /\ Leading(output, listed)
          /\ r = [success |-> TRUE, count |-> number, capped |-> Capped(number),
                  by_unit |-> {[unit |-> u, count |-> Errors(output, u)] : u \in listed}]
    BY <1>3 DEF Counted
  <2>2. ASSUME NEW u \in listed PROVE Errors(output, u) \in 1..EntryCap
    <3>1. PICK i \in Legible(output) : u = output[i].unit
      BY <2>1 DEF Leading
    <3> QED BY <3>1, ErrorsType
  <2>3. {[unit |-> u, count |-> Errors(output, u)] : u \in listed}
          \subseteq [unit : Sources, count : 1..EntryCap]
    BY <2>2
  <2> HIDE DEF number
  <2>4. r.success \in BOOLEAN /\ r.count = number /\ r.capped \in BOOLEAN
    BY <2>1 DEF Capped
  <2>5. r.capped <=> r.count >= EntryCap
    BY <2>1 DEF Capped
  <2>6. r.by_unit \subseteq [unit : Sources, count : 1..EntryCap]
    BY <2>1, <2>3
  <2> QED BY <1>1, <2>4, <2>5, <2>6 DEF ReportTypeOK, number
<1> QED BY <1>2, <1>3

\* Of any unit there are so many errors, and none of one that is not named.
LEMMA ErrorsNumber ==
  ASSUME NEW entries \in Seq(Logged), NEW unit
  PROVE  /\ Errors(entries, unit) \in Nat
         /\ (\A i \in Legible(entries) : entries[i].unit # unit) => Errors(entries, unit) = 0
<1> DEFINE those == {i \in Legible(entries) : entries[i].unit = unit}
<1>1. IsFiniteSet(Legible(entries))
  BY LegibleFacts
<1>2. /\ those \in SUBSET Legible(entries)
      /\ (\A i \in Legible(entries) : entries[i].unit # unit) => those = {}
  OBVIOUS
<1>3. Errors(entries, unit) = Cardinality(those)
  BY DEF Errors
<1> HIDE DEF those
<1> QED BY <1>1, <1>2, <1>3, FS_Subset, FS_CardinalityType, FS_EmptySet

\* A journal below the cap is printed whole.
LEMMA PrintedWhole ==
  ASSUME NEW entries \in Seq(Logged)
  PROVE  LET newest == Newest(entries)
             output == SubSeq(newest, 1, Len(newest))
         IN  /\ output = newest
             /\ Len(output) < EntryCap => output = entries
<1> DEFINE newest == Newest(entries)
           output == SubSeq(newest, 1, Len(newest))
<1>1. Len(entries) \in Nat /\ EntryCap \in Nat \ {0}
  BY JournalAssumption
<1>2. /\ newest \in Seq(Logged)
      /\ Len(newest) = IF Len(entries) > EntryCap THEN EntryCap ELSE Len(entries)
  BY NewestFacts
<1>3. ASSUME NEW t \in Seq(Logged) PROVE SubSeq(t, 1, Len(t)) = t
  <2>1. Len(t) \in Nat /\ \A i \in 1..Len(t) : t[i] \in Logged
    OBVIOUS
  <2>2. /\ SubSeq(t, 1, Len(t)) \in Seq(Logged) /\ Len(SubSeq(t, 1, Len(t))) = Len(t)
        /\ \A i \in 1..Len(t) : SubSeq(t, 1, Len(t))[i] = t[i]
    BY <2>1, SubSeqProperties
  <2> QED BY <2>2, SeqEqual
<1>4. output = newest
  BY <1>2, <1>3
<1>5. ASSUME Len(newest) < EntryCap PROVE newest = entries
  <2>1. ~(Len(entries) > EntryCap)
    BY <1>1, <1>2, <1>5
  <2> QED BY <1>3, <2>1 DEF Newest
<1> QED BY <1>4, <1>5

\* What a run reads below the cap is all it was given to read.
LEMMA ReadAllIsBelow ==
  ASSUME NEW r, NEW number \in Nat, NEW printed \in Nat, number <= printed,
         r.count = number, r.capped <=> r.count >= EntryCap, ReadAll(r, printed - number)
  PROVE  printed < EntryCap
<1>1. EntryCap \in Nat /\ number < EntryCap
  BY JournalAssumption DEF ReadAll
<1>2. printed - number > 0 => number + (printed - number) < EntryCap
  BY DEF ReadAll
<1> QED BY <1>1, <1>2

\* A report that says no more than the entries hold, and just what is legible of them
\* if it read them all.
SaysTheWhole(entries, r, short) ==
  /\ r.count + short <= Len(entries)
  /\ ReadAll(r, short) =>
       /\ r.count + short = Len(entries)
       /\ \A e \in r.by_unit, u \in Sources :
            /\ e.unit \in Sources /\ e.count = Errors(entries, e.unit)
            /\ (\A f \in r.by_unit : f.unit # u) => Errors(entries, u) <= e.count

\* What is made of the whole output says no more than there is, and just what is
\* legible of it when it was below the cap.
LEMMA CountedWhole ==
  ASSUME NEW entries \in Seq(Logged), NEW output, NEW r, NEW short,
         output = SubSeq(Newest(entries), 1, Len(Newest(entries))),
         short = Len(output) - Cardinality(Legible(output)),
         r \in Counted(output, TRUE)
  PROVE  SaysTheWhole(entries, r, short)
<1> DEFINE number == Cardinality(Legible(output))
<1>1. PICK listed \in SUBSET Sources :
        /\ Leading(output, listed)
        /\ r = [success |-> TRUE, count |-> number, capped |-> Capped(number),
                by_unit |-> {[unit |-> u, count |-> Errors(output, u)] : u \in listed}]
  BY DEF Counted
<1>2. /\ output = Newest(entries) /\ (Len(output) < EntryCap => output = entries)
  BY PrintedWhole
<1>3. /\ output \in Seq(Logged) /\ Len(output) <= Len(entries)
      /\ Len(output) \in Nat /\ Len(entries) \in Nat /\ EntryCap \in Nat
  <2>1. EntryCap \in Nat /\ Len(entries) \in Nat
    BY JournalAssumption
  <2> QED BY <1>2, <2>1, NewestFacts
<1>4. number \in Nat /\ number <= Len(output)
  <2>1. Cardinality(Legible(output)) \in 0..Len(output)
    BY <1>3, LegibleFacts
  <2> QED BY <1>3, <2>1
<1>5. r.by_unit = {[unit |-> u, count |-> Errors(output, u)] : u \in listed}
  BY <1>1
<1> HIDE DEF number
<1>6. r.count = number /\ (r.capped <=> r.count >= EntryCap) /\ short = Len(output) - number
  BY <1>1 DEF Capped, number
<1>7. r.count + short = Len(output)
  BY <1>3, <1>4, <1>6
<1>8. SUFFICES ASSUME ReadAll(r, short), NEW e \in r.by_unit, NEW u \in Sources
               PROVE  /\ output = entries
                      /\ e.unit \in Sources /\ e.count = Errors(entries, e.unit)
                      /\ (\A f \in r.by_unit : f.unit # u) => Errors(entries, u) <= e.count
  <2>1. ReadAll(r, short) => output = entries
    BY <1>2, <1>3, <1>4, <1>6, ReadAllIsBelow
  <2> QED BY <1>3, <1>7, <2>1 DEF SaysTheWhole
<1>9. output = entries
  BY <1>2, <1>3, <1>4, <1>6, <1>8, ReadAllIsBelow
<1>10. PICK v \in listed : e = [unit |-> v, count |-> Errors(output, v)]
  BY <1>5, <1>8
<1>11. e.unit = v /\ e.count = Errors(entries, v) /\ v \in Sources
  BY <1>1, <1>9, <1>10
<1>12. ASSUME \A f \in r.by_unit : f.unit # u PROVE Errors(entries, u) <= e.count
  <2>1. u \notin listed
    <3>1. SUFFICES ASSUME u \in listed PROVE FALSE
      OBVIOUS
    <3>2. [unit |-> u, count |-> Errors(output, u)] \in r.by_unit
      BY <1>5, <3>1
    <3> QED BY <1>12, <3>2
  <2>2. CASE u \in {entries[i].unit : i \in Legible(entries)}
    <3>1. Errors(entries, v) >= Errors(entries, u)
      BY <1>1, <1>9, <2>1, <2>2 DEF Leading
    <3>2. Errors(entries, v) \in Nat /\ Errors(entries, u) \in Nat
      BY <1>3, ErrorsNumber
    <3> QED BY <1>11, <3>1, <3>2
  <2>3. CASE u \notin {entries[i].unit : i \in Legible(entries)}
    <3>1. Errors(entries, u) = 0 /\ Errors(entries, v) \in Nat
      BY <2>3, ErrorsNumber
    <3> QED BY <1>11, <3>1
  <2> QED BY <2>2, <2>3
<1> QED BY <1>9, <1>11, <1>12

LEMMA RunInv ==
  ASSUME JournalInv, NEW printed \in 0..EntryCap, NEW success \in BOOLEAN, Run(printed, success)
  PROVE  JournalInv'
<1> DEFINE newest == Newest(journal)
           output == SubSeq(newest, 1, printed)
           first  == Len(journal) - Len(newest)
           marked == [i \in DOMAIN journal |->
                        IF i \in first + 1 .. first + printed /\ journal[i].legible
                        THEN CountedOnce(journal[i]) ELSE journal[i]]
<1>1. /\ since = Every /\ printed <= Len(newest) /\ (success => printed = Len(newest))
      /\ report' \in Counted(output, success)
      /\ journal' = IF Fails(report') THEN Append(marked, Entry(SystemdUnit, TRUE)) ELSE marked
      /\ since' = 0 /\ whole' = success /\ skipped' = printed - Cardinality(Legible(output))
      /\ truth' = [all |-> Len(journal), of |-> [u \in Sources |-> Errors(journal, u)]]
      /\ IF success /\ ReadAll(report', skipped')
         THEN gap' = 0 /\ missed' = FALSE ELSE gap' = gap /\ missed' = missed
      /\ troubled' = troubled
  BY DEF Run, Due
<1>2. /\ journal \in Seq(Logged) /\ Len(journal) \in Nat /\ DOMAIN journal = 1..Len(journal)
      /\ newest \in Seq(Logged) /\ Len(newest) \in Nat /\ Len(newest) <= Len(journal)
      /\ Len(newest) < EntryCap => Len(newest) = Len(journal)
  <2>1. journal \in Seq(Logged)
    BY DEF JournalInv, EntriesAccounted
  <2>2. /\ newest \in Seq(Logged)
        /\ Len(newest) = IF Len(journal) > EntryCap THEN EntryCap ELSE Len(journal)
    BY <2>1, NewestFacts
  <2>3. EntryCap \in Nat /\ Len(journal) \in Nat
    BY <2>1, JournalAssumption
  <2> QED BY <2>1, <2>2, <2>3
<1>3. EntryCap \in Nat \ {0} /\ Window \in Nat /\ Every \in Nat \ {0}
  BY JournalAssumption
<1> HIDE DEF newest
<1>4. output \in Seq(Logged) /\ Len(output) = printed
  <2>1. \A i \in 1..printed : newest[i] \in Logged
    BY <1>1, <1>2
  <2> QED BY <2>1, SubSeqProperties
<1> HIDE DEF output
<1> DEFINE number == Cardinality(Legible(output))
<1>5. /\ ReportTypeOK(report') /\ number \in 0..printed /\ skipped' = printed - number
      /\ success => report'.count = number /\ (report'.capped <=> report'.count >= EntryCap)
  BY <1>1, <1>3, <1>4, CountedType, LegibleFacts
<1> HIDE DEF number
<1>6. success /\ ReadAll(report', skipped') => DOMAIN journal \subseteq first + 1 .. first + printed
  <2> SUFFICES ASSUME success, ReadAll(report', skipped')
               PROVE  DOMAIN journal \subseteq first + 1 .. first + printed
    OBVIOUS
  <2>1. printed = Len(newest) /\ printed < EntryCap
    <3>1. printed \in Nat /\ number \in Nat /\ number <= printed
      BY <1>3, <1>5
    <3> QED BY <1>1, <1>5, <3>1, ReadAllIsBelow
  <2>2. printed = Len(journal) /\ first = 0
    <3>1. Len(newest) \in Nat /\ Len(journal) \in Nat
      BY <1>2
    <3>2. Len(newest) < EntryCap
      BY <1>3, <2>1, <3>1
    <3>3. Len(newest) = Len(journal)
      BY <1>2, <3>2
    <3> QED BY <2>1, <3>1, <3>3
  <2> QED BY <1>2, <2>2
<1>7. first + 1 .. first + printed \in SUBSET Nat
  BY <1>2, <1>3
<1>8. gap' \in {0, gap} /\ (gap' = 0 => gap = 0 \/ DOMAIN journal \subseteq first + 1 .. first + printed)
  BY <1>1, <1>6
<1> DEFINE those == first + 1 .. first + printed
<1> HIDE DEF first
<1>9. EntriesAccounted(marked, 0, gap')
  <2>1. EntriesAccounted(journal, Every, gap)
    BY <1>1 DEF JournalInv
  <2>2. marked = [i \in DOMAIN journal |->
                    IF i \in those /\ journal[i].legible
                    THEN CountedOnce(journal[i]) ELSE journal[i]]
    OBVIOUS
  <2>3. those \in SUBSET Nat /\ (gap' = 0 => gap = 0 \/ DOMAIN journal \subseteq those)
    BY <1>7, <1>8
  <2> HIDE DEF marked, those
  <2> QED BY <1>8, <2>1, <2>2, <2>3, MarkAccounted
<1> HIDE DEF marked
<1>10. gap' \in 0..Window + 1 /\ missed' \in BOOLEAN /\ (missed' => gap' > Window)
  <2>1. gap \in 0..Window + 1 /\ missed \in BOOLEAN /\ (missed => gap > Window)
    BY DEF JournalInv
  <2>2. \/ gap' = 0 /\ missed' = FALSE
        \/ gap' = gap /\ missed' = missed
    BY <1>1
  <2>3. CASE gap' = 0 /\ missed' = FALSE
    <3>1. 0 \in 0..Window + 1
      BY <1>3
    <3> QED BY <2>3, <3>1, Zenon
  <2>4. CASE gap' = gap /\ missed' = missed
    BY <2>1, <2>4
  <2> QED BY <2>2, <2>3, <2>4
<1>11. EntriesAccounted(journal', 0, gap')
  <2>1. 0 \in 0..Every /\ gap' \in Nat /\ SystemdUnit \in Sources
    BY <1>3, <1>10 DEF Sources
  <2>2. EntriesAccounted(Append(marked, Entry(SystemdUnit, TRUE)), 0, gap')
    BY <1>9, <2>1, AppendAccounted
  <2> QED BY <1>1, <1>9, <2>2
<1>12. /\ truth' \in [all : Nat, of : [Sources -> Nat]]
       /\ whole' \in BOOLEAN /\ troubled' \in BOOLEAN /\ skipped' \in 0..EntryCap
  <2>1. \A u \in Sources : Errors(journal, u) \in Nat
    BY <1>2, ErrorsNumber
  <2>2. skipped' \in 0..EntryCap
    BY <1>3, <1>5
  <2> QED BY <1>1, <1>2, <2>1, <2>2 DEF JournalInv
<1>13. UncutIsExact'
  <2> SUFFICES ASSUME success PROVE UncutIsExact'
    BY <1>1 DEF UncutIsExact
  <2>1. output = SubSeq(newest, 1, Len(newest))
    BY <1>1 DEF output
  <2>2. SaysTheWhole(journal, report', skipped')
    <3>1. report' \in Counted(output, TRUE)
      <4>1. success = TRUE
        OBVIOUS
      <4> QED BY <1>1, <4>1
    <3>2. output = SubSeq(Newest(journal), 1, Len(Newest(journal)))
      BY <2>1 DEF newest
    <3>3. skipped' = Len(output) - Cardinality(Legible(output))
      BY <1>1, <1>4 DEF output
    <3> HIDE DEF output
    <3>4. journal \in Seq(Logged)
      BY <1>2
    <3> QED BY <3>1, <3>2, <3>3, <3>4, CountedWhole
  <2>3. truth'.all = Len(journal) /\ \A u \in Sources : truth'.of[u] = Errors(journal, u)
    BY <1>1
  <2> QED BY <2>2, <2>3 DEF UncutIsExact, SaysTheWhole, ReadAll
<1>14. since' = 0 /\ 0 \in 0..Every
  BY <1>1, <1>3
<1>15. EntriesAccounted(journal', since', gap')
  BY <1>11, <1>14
<1>16. ReportTypeOK(report')
  BY <1>5
<1> QED BY <1>10, <1>12, <1>13, <1>14, <1>15, <1>16 DEF JournalInv, ReportTypeOK, EntriesAccounted

LEMMA LogInv ==
  ASSUME JournalInv, NEW unit \in Units, NEW legible \in BOOLEAN, Log(unit, legible)
  PROVE  JournalInv'
<1>1. /\ journal' = Append(journal, Entry(unit, legible)) /\ report' = report
      /\ skipped' = skipped /\ since' = since /\ gap' = gap /\ missed' = missed /\ troubled' = troubled /\ whole' = whole /\ truth' = truth
  BY DEF Log, journalHistory
<1>2. gap \in Nat /\ unit \in Sources
  BY JournalAssumption DEF JournalInv, Sources
<1>3. EntriesAccounted(Append(journal, Entry(unit, legible)), since, gap)
  BY <1>2, AppendAccounted DEF JournalInv
<1> QED BY <1>1, <1>3 DEF JournalInv, UncutIsExact, ReadAll

\* With a tick every error is a tick older, and so is the last run, until both are
\* as old as they are told apart.
LEMMA PassInv ==
  ASSUME JournalInv, Pass
  PROVE  JournalInv'
<1> DEFINE aged == [i \in DOMAIN journal |-> Older(journal[i])]
<1>1. PICK old \in 0..Len(journal) :
        /\ \A i \in DOMAIN journal : Kept(aged[i]) <=> i > old
        /\ journal' = SubSeq(aged, old + 1, Len(journal))
        /\ missed' = (missed \/ \E i \in 1..old : aged[i].legible /\ aged[i].counted = 0)
  BY DEF Pass
<1>2. /\ gap' = IF gap > Window THEN gap ELSE gap + 1
      /\ since' = IF since = Every THEN since ELSE since + 1
      /\ report' = report /\ troubled' = troubled /\ truth' = truth /\ whole' = whole
      /\ skipped' = skipped
  BY DEF Pass
<1>3. /\ journal \in Seq(Logged) /\ DOMAIN journal = 1..Len(journal) /\ Len(journal) \in Nat
      /\ \A i \in DOMAIN journal : AtPace(journal[i], since) /\ IsNew(journal[i], gap)
      /\ since \in 0..Every /\ gap \in 0..Window + 1 /\ Every \in Nat \ {0} /\ Window \in Nat
  BY JournalAssumption DEF JournalInv, EntriesAccounted
<1>4. since' \in 0..Every /\ gap' \in 0..Window + 1
  BY <1>2, <1>3
<1>5. ASSUME NEW i \in DOMAIN journal
      PROVE  /\ Kept(aged[i]) => aged[i] \in Logged /\ AtPace(aged[i], since') /\ IsNew(aged[i], gap')
             /\ ~Kept(aged[i]) /\ aged[i].legible /\ aged[i].counted = 0 => gap' > Window
  <2>1. /\ journal[i] \in Logged /\ aged[i] = Older(journal[i])
        /\ AtPace(journal[i], since) /\ IsNew(journal[i], gap)
    BY <1>3
  <2>2. /\ journal[i].age \in 0..Window /\ journal[i].counted \in Nat
        /\ aged[i].age = journal[i].age + 1 /\ aged[i].counted = journal[i].counted
        /\ aged[i].legible = journal[i].legible
        /\ Kept(aged[i]) => aged[i] \in Logged
    BY <2>1, LoggedFacts, EntryFacts
  <2>3. journal[i].counted * Every \in Nat
    BY <1>3, <2>2, OnceMore
  <2> HIDE DEF aged
  <2>4. AtPace(aged[i], since')
    <3>1. journal[i].counted * Every <= journal[i].age + Every - since
      BY <2>1 DEF AtPace
    <3>2. journal[i].age + Every - since <= journal[i].age + 1 + Every - since'
      BY <1>2, <1>3, <2>2
    <3>3. since' \in Nat /\ since \in Nat /\ journal[i].age \in Nat
      BY <1>3, <1>4, <2>2
    <3>4. journal[i].counted * Every <= journal[i].age + 1 + Every - since'
      BY <1>3, <2>3, <3>1, <3>2, <3>3
    <3> QED BY <2>2, <3>4 DEF AtPace
  <2>5. Kept(aged[i]) => IsNew(aged[i], gap')
    BY <1>2, <1>3, <2>1, <2>2 DEF IsNew, Kept
  <2>6. ~Kept(aged[i]) /\ aged[i].legible /\ aged[i].counted = 0 => gap' > Window
    BY <1>2, <1>3, <2>1, <2>2 DEF IsNew, Kept
  <2> QED BY <2>2, <2>4, <2>5, <2>6
<1>6. EntriesAccounted(journal', since', gap')
  <2>1. \A i \in old + 1 .. Len(journal) :
          aged[i] \in Logged /\ AtPace(aged[i], since') /\ IsNew(aged[i], gap')
    BY <1>1, <1>3, <1>5
  <2> HIDE DEF aged
  <2>2. /\ journal' \in Seq(Logged)
        /\ Len(journal') = IF old + 1 <= Len(journal) THEN Len(journal) - old ELSE 0
        /\ \A i \in 1 .. Len(journal) - old : journal'[i] = aged[old + i]
    <3>1. old + 1 \in Int /\ Len(journal) \in Int
      BY <1>3
    <3>2. /\ SubSeq(aged, old + 1, Len(journal)) \in Seq(Logged)
          /\ Len(SubSeq(aged, old + 1, Len(journal))) =
               IF old + 1 <= Len(journal) THEN Len(journal) - (old + 1) + 1 ELSE 0
          /\ \A i \in 1 .. Len(journal) - (old + 1) + 1 :
               SubSeq(aged, old + 1, Len(journal))[i] = aged[old + 1 + i - 1]
      BY <2>1, <3>1, SubSeqProperties
    <3>3. Len(journal) - (old + 1) + 1 = Len(journal) - old
      BY <1>3
    <3>4. \A i \in 1 .. Len(journal) - old : old + 1 + i - 1 = old + i
      BY <1>3
    <3> QED BY <1>1, <3>2, <3>3, <3>4
  <2>3. ASSUME NEW i \in DOMAIN journal'
        PROVE  AtPace(journal'[i], since') /\ IsNew(journal'[i], gap')
    <3>1. i \in 1 .. Len(journal) - old
      <4>1. DOMAIN journal' = 1 .. Len(journal')
        BY <2>2
      <4>2. i \in 1 .. (IF old + 1 <= Len(journal) THEN Len(journal) - old ELSE 0)
        BY <2>2, <4>1
      <4> QED BY <1>3, <4>2
    <3>2. old + i \in old + 1 .. Len(journal)
      BY <1>3, <3>1
    <3> QED BY <2>1, <2>2, <3>1, <3>2
  <2> QED BY <2>2, <2>3 DEF EntriesAccounted
<1>7. missed' => gap' > Window
  <2>1. CASE missed
    BY <1>2, <1>3, <2>1 DEF JournalInv
  <2>2. CASE \E i \in 1..old : aged[i].legible /\ aged[i].counted = 0
    <3>1. PICK i \in 1..old : aged[i].legible /\ aged[i].counted = 0
      BY <2>2
    <3>2. i \in DOMAIN journal /\ ~(i > old)
      BY <1>3
    <3> QED BY <1>1, <1>5, <3>1, <3>2
  <2> QED BY <1>1, <2>1, <2>2
<1>8. missed' \in BOOLEAN
  BY <1>1
<1> QED BY <1>2, <1>4, <1>6, <1>7, <1>8 DEF JournalInv, UncutIsExact, ReadAll

LEMMA JournalInvariant == JournalSpec => []JournalInv
<1>1. JournalInit => JournalInv
  <2> SUFFICES ASSUME JournalInit PROVE JournalInv
    OBVIOUS
  <2>1. EntriesAccounted(<<>>, since, gap)
    BY DEF EntriesAccounted
  <2>2. ReportTypeOK(Unavailable)
    BY JournalAssumption DEF ReportTypeOK, Unavailable
  <2>3. since \in 0..Every /\ gap \in 0..Window + 1 /\ missed \in BOOLEAN /\ (missed => gap > Window)
    <3>1. since \in 0..Every /\ gap = 0 /\ missed = FALSE
      BY DEF JournalInit
    <3>2. 0 \in 0..Window + 1
      BY JournalAssumption
    <3> QED BY <3>1, <3>2, Zenon
  <2>4. journal = <<>> /\ report = Unavailable
    BY DEF JournalInit
  <2>5. /\ troubled \in BOOLEAN /\ whole \in BOOLEAN /\ truth \in [all : Nat, of : [Sources -> Nat]]
        /\ skipped \in 0..EntryCap
    <3>1. 0 \in 0..EntryCap /\ 0 \in Nat
      BY JournalAssumption
    <3>2. troubled \in BOOLEAN /\ whole = FALSE /\ skipped = 0
      BY DEF JournalInit
    <3>3. truth = [all |-> 0, of |-> [u \in Sources |-> 0]]
      BY DEF JournalInit
    <3>4. truth \in [all : Nat, of : [Sources -> Nat]]
      BY <3>1, <3>3
    <3> QED BY <3>1, <3>2, <3>4
  <2>6. UncutIsExact
    BY <2>4 DEF UncutIsExact, Unavailable
  <2> QED BY <2>1, <2>2, <2>3, <2>4, <2>5, <2>6 DEF JournalInv
<1>2. JournalInv /\ [JournalNext]_journalVars => JournalInv'
  <2> SUFFICES ASSUME JournalInv, [JournalNext]_journalVars PROVE JournalInv'
    OBVIOUS
  <2>1. CASE RunAny
    BY <2>1, RunInv DEF RunAny
  <2>2. CASE Pass
    BY <2>2, PassInv
  <2>3. CASE Turn
    BY <2>3 DEF Turn, journalHistory, JournalInv, UncutIsExact, ReadAll
  <2>4. ASSUME NEW u \in Units, NEW legible \in BOOLEAN, Log(u, legible) PROVE JournalInv'
    BY <2>4, LogInv
  <2>5. CASE UNCHANGED journalVars
    BY <2>5 DEF journalVars, journalHistory, JournalInv, UncutIsExact, ReadAll
  <2> QED BY <2>1, <2>2, <2>3, <2>4, <2>5 DEF JournalNext
<1> QED BY <1>1, <1>2, PTL DEF JournalSpec

\* The types hold in every reachable state: the counts stay within the cap, whatever
\* part of its output journalctl printed.
THEOREM JournalTypeCorrect == JournalSpec => []JournalTypeOK
<1>1. JournalInv => JournalTypeOK
  <2> SUFFICES ASSUME JournalInv PROVE JournalTypeOK
    OBVIOUS
  <2>1. journal \in Seq(Logged)
    BY DEF JournalInv, EntriesAccounted
  <2>2. \A i \in DOMAIN journal :
          journal[i] \in [unit : Sources, legible : BOOLEAN, age : 0..Window, counted : Nat]
    <3>1. \A i \in DOMAIN journal : journal[i] \in Logged
      BY <2>1
    <3> QED BY <3>1 DEF Logged
  <2> QED BY <2>2 DEF JournalInv, JournalTypeOK, ReportTypeOK
<1> QED BY JournalInvariant, <1>1, PTL

\* A legible error that no run counted leaves the window only if more than a window
\* has passed since the last run that read all of it.
THEOREM MissedOnlyInGapCorrect == JournalSpec => []MissedOnlyInGap
<1>1. JournalInv => MissedOnlyInGap
  BY DEF JournalInv, MissedOnlyInGap
<1> QED BY JournalInvariant, <1>1, PTL

\* One error is counted by no more runs than fit into the window at the timer's pace.
THEOREM RecountBoundedCorrect == JournalSpec => []RecountBounded
<1>1. JournalInv => RecountBounded
  <2> SUFFICES ASSUME JournalInv, NEW i \in DOMAIN journal
               PROVE  journal[i].counted <= Window \div Every + 1
    BY DEF RecountBounded
  <2>1. journal[i] \in Logged /\ AtPace(journal[i], since)
    BY DEF JournalInv, EntriesAccounted
  <2>2. journal[i].age \in 0..Window /\ journal[i].counted \in Nat
    BY <2>1, LoggedFacts
  <2>3. since \in 0..Every /\ Every \in Nat \ {0} /\ Window \in Nat
    BY JournalAssumption DEF JournalInv
  <2>4. journal[i].counted * Every \in Nat
    BY <2>2, <2>3, OnceMore
  <2>5. journal[i].counted * Every <= Window + Every
    BY <2>1, <2>2, <2>3, <2>4 DEF AtPace
  <2> QED BY <2>2, <2>3, <2>5, FitsWindow
<1> QED BY JournalInvariant, <1>1, PTL

\* A report of a journalctl that did not stop half-way says no more errors than there
\* are, and below the cap lacks none but those skipped, whatever the list of units is
\* cut to.
THEOREM UncutIsExactCorrect == JournalSpec => []UncutIsExact
<1>1. JournalInv => UncutIsExact
  BY DEF JournalInv
<1> QED BY JournalInvariant, <1>1, PTL

-----------------------------------------------------------------------------
(* Fleet. *)

\* No node has lost the address more often than there were moves.
LossesAreMoves == \A n \in Nodes : lost[n] <= moves

FleetTypeInv == FleetTypeOK /\ LossesAreMoves

\* A node that was read as holding the address and has not lost it since has it still.
HeldSince(entry, n) == entry.lost <= lost[n] /\ (entry.held /\ entry.lost = lost[n] => n \in holds)

HeldInv == \A n \in Nodes : HeldSince(draft[n], n) /\ HeldSince(page[n], n)

-----------------------------------------------------------------------------
(* Type correctness. *)

LEMMA NobodyIsNone == Nobody \notin Nodes /\ Nobody \notin Devices /\ Nodes \subseteq Devices
BY FleetAssumption DEF Devices

\* What a run writes down first.
LEMMA DraftType ==
  ASSUME FleetTypeOK, NEW n \in Nodes, NEW held \in BOOLEAN
  PROVE  [held |-> held, answered_by |-> Nobody, answers |-> FALSE, lost |-> lost[n]] \in Entries
BY DEF FleetTypeOK, Entries

\* What it corrects later.
LEMMA EntryType ==
  ASSUME NEW e \in Entries, NEW d \in Devices \cup {Nobody}, NEW answers \in BOOLEAN
  PROVE  /\ [e EXCEPT !.answered_by = d] \in Entries
         /\ [e EXCEPT !.answered_by = d].held = e.held
         /\ [e EXCEPT !.answered_by = d].lost = e.lost
         /\ [e EXCEPT !.answered_by = d].answered_by = d
         /\ [e EXCEPT !.answers = answers] \in Entries
         /\ [e EXCEPT !.answers = answers].held = e.held
         /\ [e EXCEPT !.answers = answers].lost = e.lost
         /\ [e EXCEPT !.answers = answers].answered_by = e.answered_by
BY DEF Entries

LEMMA GoesType ==
  ASSUME FleetTypeOK, NEW n \in Nodes, NEW here,
         NEW there \in {"addresses", "neighbour", "probe", "publish"}, Goes(n, here, there)
  PROVE  step' \in [Nodes -> {"addresses", "neighbour", "probe", "publish"}]
BY DEF FleetTypeOK, Goes

LEMMA NoReportType == NoReport \in Entries
BY FleetAssumption DEF NoReport, Entries

LEMMA FleetTypeInit == FleetInit => FleetTypeInv
<1> SUFFICES ASSUME FleetInit PROVE FleetTypeInv
  OBVIOUS
<1>1. 0 \in 0..MaxMoves
  BY FleetAssumption
<1>2. NoReport \in Entries
  BY NoReportType
<1>3. holds \in SUBSET Devices
  BY DEF FleetInit, Devices
<1> QED BY <1>1, <1>2, <1>3 DEF FleetInit, FleetTypeInv, FleetTypeOK, LossesAreMoves

\* The probe sets one field of the draft.
LEMMA ProbeDraft ==
  ASSUME NEW n \in Nodes, Probe(n)
  PROVE  \E answers \in BOOLEAN : draft' = [draft EXCEPT ![n] = [draft[n] EXCEPT !.answers = answers]]
<1>1. CASE ~ProbesVip \/ n \in holds
  <2>1. draft' = [draft EXCEPT ![n] = [draft[n] EXCEPT !.answers = ProbesVip]]
    BY <1>1 DEF Probe
  <2> QED BY <2>1, FleetAssumption
<1>2. CASE ~(~ProbesVip \/ n \in holds)
  <2>1. PICK d : draft' = [draft EXCEPT ![n].answers = (d # Nobody)]
    BY <1>2 DEF Probe
  <2>2. CASE d = Nobody
    <3>1. draft' = [draft EXCEPT ![n] = [draft[n] EXCEPT !.answers = FALSE]]
      BY <2>1, <2>2
    <3> QED BY <3>1
  <2>3. CASE d # Nobody
    <3>1. draft' = [draft EXCEPT ![n] = [draft[n] EXCEPT !.answers = TRUE]]
      BY <2>1, <2>3
    <3> QED BY <3>1
  <2> QED BY <2>2, <2>3
<1> QED BY <1>1, <1>2

LEMMA RunType ==
  ASSUME FleetTypeInv, NEW n \in Nodes, RunStep(n)
  PROVE  FleetTypeInv'
<1> USE DEF FleetTypeInv, FleetTypeOK, LossesAreMoves, fleetHistory
<1>1. CASE ReadAddresses(n)
  <2>1. step' \in [Nodes -> {"addresses", "neighbour", "probe", "publish"}]
    BY <1>1, GoesType DEF ReadAddresses
  <2>2. [held |-> n \in holds, answered_by |-> Nobody, answers |-> FALSE, lost |-> lost[n]] \in Entries
    <3>1. (n \in holds) \in BOOLEAN
      OBVIOUS
    <3> QED BY <3>1, DraftType
  <2> QED BY <1>1, <2>1, <2>2 DEF ReadAddresses
<1>2. CASE ReadNeighbour(n)
  <2>1. step' \in [Nodes -> {"addresses", "neighbour", "probe", "publish"}]
    BY <1>2, GoesType DEF ReadNeighbour
  <2>2. [draft[n] EXCEPT !.answered_by = neighbour[n]] \in Entries
    BY EntryType
  <2>3. draft' = [draft EXCEPT ![n] = [draft[n] EXCEPT !.answered_by = neighbour[n]]]
    BY <1>2 DEF ReadNeighbour
  <2> QED BY <1>2, <2>1, <2>2, <2>3 DEF ReadNeighbour
<1>3. CASE Probe(n)
  <2>1. step' \in [Nodes -> {"addresses", "neighbour", "probe", "publish"}]
    BY <1>3, GoesType DEF Probe
  <2>2. PICK answers \in BOOLEAN : draft' = [draft EXCEPT ![n] = [draft[n] EXCEPT !.answers = answers]]
    BY <1>3, ProbeDraft
  <2>3. draft' \in [Nodes -> Entries]
    <3>1. [draft[n] EXCEPT !.answers = answers] \in Entries
      BY EntryType, NobodyIsNone
    <3> QED BY <2>2, <3>1
  <2>4. neighbour' \in [Nodes -> Devices \cup {Nobody}] /\ recent' \in [Nodes -> SUBSET Devices]
    BY <1>3 DEF Probe
  <2> QED BY <1>3, <2>1, <2>3, <2>4 DEF Probe
<1>4. CASE Publish(n)
  <2>1. step' \in [Nodes -> {"addresses", "neighbour", "probe", "publish"}]
    BY <1>4, GoesType DEF Publish
  <2> QED BY <1>4, <2>1 DEF Publish
<1> QED BY <1>1, <1>2, <1>3, <1>4 DEF RunStep

\* A node that gives the address up counts one more loss, in a move of its own.
LEMMA LosesType ==
  ASSUME FleetTypeInv, NEW d \in Devices, Move, Loses(d)
  PROVE  /\ holds' \in SUBSET Devices /\ moves' \in 0..MaxMoves
         /\ lost' \in [Nodes -> 0..MaxMoves] /\ LossesAreMoves'
<1>1. moves' = moves + 1 /\ moves' \in 0..MaxMoves
  BY FleetAssumption DEF Move, FleetTypeInv, FleetTypeOK
<1>2. \A n \in Nodes : lost'[n] \in 0..moves'
  BY <1>1, FleetAssumption DEF Loses, FleetTypeInv, FleetTypeOK, LossesAreMoves
<1>3. DOMAIN lost' = Nodes /\ lost' = [n \in Nodes |-> lost'[n]]
  BY DEF Loses
<1>4. \A n \in Nodes : lost'[n] \in 0..MaxMoves /\ lost'[n] <= moves'
  BY <1>1, <1>2, FleetAssumption
<1> QED BY <1>1, <1>3, <1>4 DEF Loses, FleetTypeInv, FleetTypeOK, LossesAreMoves

LEMMA SegmentType ==
  ASSUME FleetTypeInv,
         \/ \E n \in Nodes : ReadFails(n) \/ Abort(n) \/ Crash(n)
         \/ \E d \in Devices : Take(d) \/ Drop(d)
  PROVE  FleetTypeInv'
<1>1. ASSUME NEW n \in Nodes, Abort(n) PROVE FleetTypeInv'
  BY <1>1, FleetAssumption DEF Abort, Move, FleetTypeInv, FleetTypeOK, LossesAreMoves, fleetHistory
<1>2. ASSUME NEW n \in Nodes, Crash(n) PROVE FleetTypeInv'
  BY <1>2, LosesType, NobodyIsNone DEF Crash, FleetTypeInv, FleetTypeOK
<1>3. ASSUME NEW d \in Devices, Take(d) PROVE FleetTypeInv'
  <2>1. moves' \in 0..MaxMoves /\ \A n \in Nodes : lost'[n] <= moves'
    BY <1>3, FleetAssumption DEF Take, Move, FleetTypeInv, FleetTypeOK, LossesAreMoves
  <2>2. neighbour' \in [Nodes -> Devices \cup {Nobody}] /\ recent' \in [Nodes -> SUBSET Devices]
    BY <1>3 DEF Take, FleetTypeInv, FleetTypeOK
  <2>3. holds' \in SUBSET Devices
    BY <1>3 DEF Take, FleetTypeInv, FleetTypeOK
  <2> QED BY <1>3, <2>1, <2>2, <2>3 DEF Take, FleetTypeInv, FleetTypeOK, LossesAreMoves
<1>4. ASSUME NEW d \in Devices, Drop(d) PROVE FleetTypeInv'
  BY <1>4, LosesType DEF Drop, FleetTypeInv, FleetTypeOK
<1>5. ASSUME NEW n \in Nodes, ReadFails(n) PROVE FleetTypeInv'
  <2>1. moves' \in 0..MaxMoves /\ \A m \in Nodes : lost'[m] <= moves'
    BY <1>5, FleetAssumption
       DEF ReadFails, Move, FleetTypeInv, FleetTypeOK, LossesAreMoves, fleetHistory
  <2>2. draft' \in [Nodes -> Entries]
    BY <1>5, NoReportType DEF ReadFails, FleetTypeInv, FleetTypeOK
  <2>3. step' \in [Nodes -> {"addresses", "neighbour", "probe", "publish"}]
    BY <1>5 DEF ReadFails, FleetTypeInv, FleetTypeOK
  <2> QED BY <1>5, <2>1, <2>2, <2>3
          DEF ReadFails, FleetTypeInv, FleetTypeOK, LossesAreMoves, fleetHistory
<1> QED BY <1>1, <1>2, <1>3, <1>4, <1>5

LEMMA FleetTypeInvariant == FleetSpec => []FleetTypeInv
<1>1. FleetTypeInv /\ [FleetNext]_fleetVars => FleetTypeInv'
  <2> SUFFICES ASSUME FleetTypeInv, [FleetNext]_fleetVars PROVE FleetTypeInv'
    OBVIOUS
  <2>1. CASE \E n \in Nodes : RunStep(n)
    BY <2>1, RunType
  <2>2. CASE \/ \E n \in Nodes : ReadFails(n) \/ Abort(n) \/ Crash(n)
             \/ \E d \in Devices : Take(d) \/ Drop(d)
    BY <2>2, SegmentType
  <2>3. CASE UNCHANGED fleetVars
    BY <2>3 DEF fleetVars, fleetHistory, FleetTypeInv, FleetTypeOK, LossesAreMoves
  <2> QED BY <2>1, <2>2, <2>3 DEF FleetNext
<1> QED BY FleetTypeInit, <1>1, PTL DEF FleetSpec

\* The types hold in every reachable state: whatever moves the address and whatever
\* interrupts the runs, a run can always publish what it has read.
THEOREM FleetTypeCorrect == FleetSpec => []FleetTypeOK
<1>1. FleetTypeInv => FleetTypeOK
  BY DEF FleetTypeInv
<1> QED BY FleetTypeInvariant, <1>1, PTL

-----------------------------------------------------------------------------
(* Who holds the address. *)

\* A step of a run reads what is held now, or copies what was read before.
LEMMA RunHeld ==
  ASSUME FleetTypeInv, HeldInv, NEW n \in Nodes, RunStep(n)
  PROVE  HeldInv'
<1>0. holds' = holds /\ lost' = lost
  BY DEF RunStep, ReadAddresses, ReadNeighbour, Probe, Publish, fleetHistory
<1>1. ASSUME \A m \in Nodes : HeldSince(draft'[m], m) /\ HeldSince(page'[m], m)
      PROVE  HeldInv'
  BY <1>0, <1>1 DEF HeldInv, HeldSince
<1> USE DEF FleetTypeInv, FleetTypeOK
<1>2. CASE ReadAddresses(n)
  <2> DEFINE read == [held |-> n \in holds, answered_by |-> Nobody, answers |-> FALSE, lost |-> lost[n]]
  <2>1. HeldSince(read, n)
    <3>1. lost[n] \in Nat
      OBVIOUS
    <3>2. read.lost = lost[n]
      OBVIOUS
    <3>3. read.held => n \in holds
      BY Zenon
    <3> HIDE DEF read
    <3> QED BY <3>1, <3>2, <3>3 DEF HeldSince
  <2> QED BY <1>1, <1>2, <2>1 DEF ReadAddresses, HeldInv
<1>3. CASE ReadNeighbour(n)
  <2>1. draft' = [draft EXCEPT ![n] = [draft[n] EXCEPT !.answered_by = neighbour[n]]]
    BY <1>3 DEF ReadNeighbour
  <2>2. HeldSince([draft[n] EXCEPT !.answered_by = neighbour[n]], n)
    BY EntryType DEF HeldInv, HeldSince
  <2> QED BY <1>1, <1>3, <2>1, <2>2 DEF ReadNeighbour, HeldInv
<1>4. CASE Probe(n)
  <2>1. PICK answers \in BOOLEAN : draft' = [draft EXCEPT ![n] = [draft[n] EXCEPT !.answers = answers]]
    BY <1>4, ProbeDraft
  <2>2. HeldSince([draft[n] EXCEPT !.answers = answers], n)
    BY EntryType DEF HeldInv, HeldSince
  <2> QED BY <1>1, <1>4, <2>1, <2>2 DEF Probe, HeldInv
<1>5. CASE Publish(n)
  BY <1>1, <1>5 DEF Publish, HeldInv
<1> QED BY <1>2, <1>3, <1>4, <1>5 DEF RunStep

\* A device that gives the address up leaves no entry behind that is still current.
LEMMA LosesHeld ==
  ASSUME FleetTypeInv, HeldInv, NEW d \in Devices, Loses(d), draft' = draft, page' = page
  PROVE  HeldInv'
<1> SUFFICES ASSUME NEW n \in Nodes, NEW e \in {draft[n], page[n]}
             PROVE  /\ e.lost <= lost'[n]
                    /\ e.held /\ e.lost = lost'[n] => n \in holds'
  BY DEF HeldInv, HeldSince
<1>1. e \in Entries /\ e.lost \in Nat /\ lost[n] \in Nat
  BY DEF FleetTypeInv, FleetTypeOK, Entries
<1>2. e.lost <= lost[n] /\ (e.held /\ e.lost = lost[n] => n \in holds)
  BY DEF HeldInv, HeldSince
<1>3. CASE n = d /\ n \in holds
  <2>1. lost'[n] = lost[n] + 1
    BY <1>3 DEF Loses
  <2> QED BY <1>1, <1>2, <2>1
<1>4. CASE ~(n = d /\ n \in holds)
  <2>1. lost'[n] = lost[n] /\ (n \in holds => n \in holds')
    BY <1>4 DEF Loses
  <2> QED BY <1>2, <2>1
<1> QED BY <1>3, <1>4

LEMMA SegmentHeld ==
  ASSUME FleetTypeInv, HeldInv,
         \/ \E n \in Nodes : ReadFails(n) \/ Abort(n) \/ Crash(n)
         \/ \E d \in Devices : Take(d) \/ Drop(d)
  PROVE  HeldInv'
<1>1. ASSUME NEW n \in Nodes, Abort(n) PROVE HeldInv'
  BY <1>1 DEF Abort, HeldInv, HeldSince, fleetHistory
<1>2. ASSUME NEW n \in Nodes, Crash(n) PROVE HeldInv'
  BY <1>2, LosesHeld, NobodyIsNone DEF Crash
<1>3. ASSUME NEW d \in Devices, Take(d) PROVE HeldInv'
  BY <1>3 DEF Take, HeldInv, HeldSince
<1>4. ASSUME NEW d \in Devices, Drop(d) PROVE HeldInv'
  BY <1>4, LosesHeld DEF Drop
<1>5. ASSUME NEW n \in Nodes, ReadFails(n) PROVE HeldInv'
  <2>1. \A m \in Nodes : HeldSince(NoReport, m)
    BY DEF HeldSince, NoReport, FleetTypeInv, FleetTypeOK
  <2>2. \A m \in Nodes : draft'[m] \in {draft[m], NoReport}
    BY <1>5 DEF ReadFails, FleetTypeInv, FleetTypeOK
  <2>3. /\ holds' = holds /\ lost' = lost /\ page' = page
    BY <1>5 DEF ReadFails, fleetHistory
  <2>4. \A m \in Nodes : HeldSince(draft'[m], m) /\ HeldSince(page[m], m)
    BY <2>1, <2>2 DEF HeldInv
  <2> QED BY <2>3, <2>4 DEF HeldInv, HeldSince
<1> QED BY <1>1, <1>2, <1>3, <1>4, <1>5

\* Two pages that both say `held' are split-brain right now, unless one of the nodes
\* has lost the address since its page was read.
THEOREM HeldPagesCollideCorrect == FleetSpec => []HeldPagesCollide
<1>1. FleetInit => HeldInv
  BY FleetAssumption DEF FleetInit, HeldInv, HeldSince, NoReport
<1>2. FleetTypeInv /\ HeldInv /\ [FleetNext]_fleetVars => HeldInv'
  <2> SUFFICES ASSUME FleetTypeInv, HeldInv, [FleetNext]_fleetVars PROVE HeldInv'
    OBVIOUS
  <2>1. CASE \E n \in Nodes : RunStep(n)
    BY <2>1, RunHeld
  <2>2. CASE \/ \E n \in Nodes : ReadFails(n) \/ Abort(n) \/ Crash(n)
             \/ \E d \in Devices : Take(d) \/ Drop(d)
    BY <2>2, SegmentHeld
  <2>3. CASE UNCHANGED fleetVars
    BY <2>3 DEF fleetVars, fleetHistory, HeldInv, HeldSince
  <2> QED BY <2>1, <2>2, <2>3 DEF FleetNext
<1>3. HeldInv => HeldPagesCollide
  BY DEF HeldInv, HeldSince, HeldPagesCollide
<1> QED BY FleetTypeInvariant, <1>1, <1>2, <1>3, PTL DEF FleetSpec

-----------------------------------------------------------------------------
(* Who answered for the address. *)

\* A run that has still to read the cache names nobody.
NamesNobody == \A n \in Nodes : step[n] = "neighbour" => draft[n].answered_by = Nobody

ResponderInv == ResponderIsRecent /\ NamesNobody

LEMMA RunRecent ==
  ASSUME FleetTypeInv, ResponderInv, NEW n \in Nodes, RunStep(n)
  PROVE  ResponderInv'
<1> USE DEF FleetTypeInv, FleetTypeOK, ResponderInv, ResponderIsRecent, NamesNobody, Goes, fleetHistory
<1>1. CASE ReadAddresses(n)
  BY <1>1 DEF ReadAddresses
<1>2. CASE ReadNeighbour(n)
  <2>1. draft' = [draft EXCEPT ![n] = [draft[n] EXCEPT !.answered_by = neighbour[n]]]
    BY <1>2 DEF ReadNeighbour
  <2>2. [draft[n] EXCEPT !.answered_by = neighbour[n]].answered_by = neighbour[n]
    BY EntryType
  <2>3. draft'[n].answered_by = neighbour[n]
    BY <2>1, <2>2
  <2> QED BY <1>2, <2>1, <2>3 DEF ReadNeighbour
<1>3. CASE Probe(n)
  <2>1. step'[n] = "publish" /\ \A m \in Nodes \ {n} : step'[m] = step[m] /\ draft'[m] = draft[m]
    BY <1>3, ProbeDraft DEF Probe
  <2>2. /\ neighbour'[n] \in recent'[n] \cup {Nobody}
        /\ \A m \in Nodes \ {n} : neighbour'[m] = neighbour[m] /\ recent'[m] = recent[m]
    BY <1>3 DEF Probe
  <2> QED BY <2>1, <2>2
<1>4. CASE Publish(n)
  BY <1>4 DEF Publish
<1> QED BY <1>1, <1>2, <1>3, <1>4 DEF RunStep

LEMMA SegmentRecent ==
  ASSUME FleetTypeInv, ResponderInv,
         \/ \E n \in Nodes : ReadFails(n) \/ Abort(n) \/ Crash(n)
         \/ \E d \in Devices : Take(d) \/ Drop(d)
  PROVE  ResponderInv'
<1> USE DEF FleetTypeInv, FleetTypeOK, ResponderInv, ResponderIsRecent, NamesNobody, fleetHistory
<1>1. ASSUME NEW n \in Nodes, Abort(n) PROVE ResponderInv'
  BY <1>1 DEF Abort
<1>2. ASSUME NEW n \in Nodes, Crash(n) PROVE ResponderInv'
  BY <1>2 DEF Crash
<1>3. ASSUME NEW d \in Devices, Take(d) PROVE ResponderInv'
  <2>1. \A n \in Nodes : recent[n] \subseteq recent'[n] /\ d \in recent'[n]
    BY <1>3 DEF Take
  <2>2. \A n \in Nodes : neighbour'[n] \in {neighbour[n], d}
    BY <1>3 DEF Take
  <2> QED BY <1>3, <2>1, <2>2 DEF Take
<1>4. ASSUME NEW d \in Devices, Drop(d) PROVE ResponderInv'
  BY <1>4 DEF Drop
<1>5. ASSUME NEW n \in Nodes, ReadFails(n) PROVE ResponderInv'
  <2>1. draft'[n].answered_by = Nobody
    BY <1>5 DEF ReadFails, NoReport
  <2>2. \A m \in Nodes \ {n} : draft'[m] = draft[m] /\ step'[m] = step[m]
    BY <1>5 DEF ReadFails
  <2>3. neighbour' = neighbour /\ recent' = recent /\ step'[n] = "probe"
    BY <1>5 DEF ReadFails
  <2> QED BY <2>1, <2>2, <2>3
<1> QED BY <1>1, <1>2, <1>3, <1>4, <1>5

\* The device named as the responder held the address at some time since the node
\* last asked another device for the page behind it.
THEOREM ResponderIsRecentCorrect == FleetSpec => []ResponderIsRecent
<1>1. FleetInit => ResponderInv
  BY DEF FleetInit, ResponderInv, ResponderIsRecent, NamesNobody
<1>2. FleetTypeInv /\ ResponderInv /\ [FleetNext]_fleetVars => ResponderInv'
  <2> SUFFICES ASSUME FleetTypeInv, ResponderInv, [FleetNext]_fleetVars
               PROVE  ResponderInv'
    OBVIOUS
  <2>1. CASE \E n \in Nodes : RunStep(n)
    BY <2>1, RunRecent
  <2>2. CASE \/ \E n \in Nodes : ReadFails(n) \/ Abort(n) \/ Crash(n)
             \/ \E d \in Devices : Take(d) \/ Drop(d)
    BY <2>2, SegmentRecent
  <2>3. CASE UNCHANGED fleetVars
    BY <2>3 DEF fleetVars, fleetHistory, ResponderInv, ResponderIsRecent, NamesNobody
  <2> QED BY <2>1, <2>2, <2>3 DEF FleetNext
<1>3. ResponderInv => ResponderIsRecent
  BY DEF ResponderInv
<1> QED BY FleetTypeInvariant, <1>1, <1>2, <1>3, PTL DEF FleetSpec
=============================================================================
