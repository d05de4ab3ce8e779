---------------------------- MODULE ReportProofs ----------------------------
(* Proofs about the time a run takes and the way of its report to a reader:      *)
(* CollectionBudget, for any host and any number of troubles, and ReportView,    *)
(* for any levels and limits of the filesystems.                                 *)
EXTENDS CollectionBudget, ReportView, SequenceTheorems, FiniteSetTheorems, TLAPS

-----------------------------------------------------------------------------
(* CollectionBudget: the questions. *)

\* Everything a run may ask.
HostQuestions ==
  {Question("df_root", "disk", Timeout), Question("df", "disk", 10),
   Question("nproc", "kernel", Timeout), Question("ss", "kernel", Timeout),
   Question("addresses", "kernel", Timeout), Question("neighbour", "kernel", Timeout),
   Question("self", "kernel", Timeout),
   Question("show", "systemd", Timeout), Question("failed", "systemd", Timeout),
   Question("time_service", "systemd", Timeout),
   Question("docker", "docker", Timeout), Question("podman", "podman", Timeout),
   Question("du", "logs", 30), Question("walk", "logs", 0),
   Question("journal", "journald", 15), Question("clock", "timedated", Timeout),
   Question("zone", "firewalld", Timeout), Question("reboot", "packages", 30)}

UnitQuestions == {Question(FIREWALL_UNITS[i], "systemd", Timeout) : i \in DOMAIN FIREWALL_UNITS}
EndpointQuestions == {Question(e, e, 2) : e \in Endpoints}
Questions == HostQuestions \cup UnitQuestions \cup EndpointQuestions

\* The longest timeout of a party's questions
LimitOf(party) ==
  IF party \in {"logs", "packages"} THEN 30
  ELSE IF party = "journald" THEN 15 ELSE IF party = "disk" THEN 10 ELSE 3

\* How often a party is asked, /var/log aside
TimesAsked(party) ==
  IF party = "systemd" THEN Cardinality(Watched) + 10
  ELSE IF party = "kernel" THEN Addresses + 4 ELSE IF party = "disk" THEN 2 ELSE 1

\* How many questions of a sequence a party is asked
CountOf(s, party) == Cardinality({i \in DOMAIN s : s[i].whom = party})

\* No time service is asked for before the clock is.
ClockFirst(s) ==
  \A i \in DOMAIN s : s[i].what = "time_service" => \E j \in 1..i - 1 : s[j].what = "clock"

\* The first n questions that go to a party, and how many of them are over
AskedOf(n, party) == {i \in 1..n : Programme[i].whom = party}
AskedSoFar(party) == Cardinality(AskedOf(asked, party))

\* While at most one party has stalled, only its own timeouts have passed, each at
\* most as often as it was asked.
OnlyOneWaits ==
  \A party \in Parties : faltered \subseteq {party} =>
    elapsed <= LimitOf(party) * AskedSoFar(party)

\* A question that is over was answered if it never failed, whom it was asked of never
\* stalled and nothing else kept it from being asked; podman is asked only for want of docker, the
\* time service for want of nothing but the clock.
Concluded(q) ==
  /\ /\ q.whom \notin faltered /\ q.what \notin denied
     /\ q.what \notin Dependent \cup Missing \cup {"podman"}
     /\ (q.what = "self" => Endpoints # {})
     => q.what \in heard
  /\ q.what = "podman" /\ "podman" \in Runtimes \ (faltered \cup denied)
     => {"docker", "podman"} \cap heard # {}
  /\ /\ q.what = "time_service" /\ {"systemd", "timedated"} \cap faltered = {}
     /\ {"clock", "time_service"} \cap denied = {}
     => "time_service" \in heard

\* A run that is over has asked them all.
BudgetInv ==
  /\ BudgetTypeOK
  /\ stalled \subseteq faltered
  /\ OnlyOneWaits
  /\ \A i \in 1..asked : Concluded(Programme[i])
  /\ outcome = "reported" => asked = Len(Programme)

LEMMA UnitNumbers ==
  /\ DOMAIN FIREWALL_UNITS = 1..4
  /\ FIREWALL_UNITS[1] = "firewalld" /\ FIREWALL_UNITS[2] = "ufw"
  /\ FIREWALL_UNITS[3] = "nftables" /\ FIREWALL_UNITS[4] = "iptables"
BY DEF FIREWALL_UNITS

LEMMA QuestionFields ==
  ASSUME NEW what, NEW whom, NEW limit
  PROVE  /\ Question(what, whom, limit).what = what
         /\ Question(what, whom, limit).whom = whom
         /\ Question(what, whom, limit).limit = limit
BY DEF Question

\* What a question is about, whom it is asked of and how long it may take belong together.
LEMMA HostQuestionFacts ==
  ASSUME NEW q \in HostQuestions
  PROVE  /\ q.limit \in Nat /\ q.limit <= LimitOf(q.whom)
         /\ q.what = "walk" => q.whom = "logs"
         /\ q.what = "docker" => q.whom = "docker"
         /\ q.what = "podman" => q.whom = "podman"
         /\ q.what = "time_service" => q.whom = "systemd"
         /\ q.what = "clock" => q.whom = "timedated"
         /\ q.what \in OtherNames /\ q.whom \in OtherNames
<1> DEFINE names ==
      {"df_root", "df", "disk", "nproc", "ss", "addresses", "neighbour", "self", "kernel",
       "show", "failed", "time_service", "systemd", "docker", "podman", "du", "walk", "logs",
       "journal", "journald", "clock", "timedated", "zone", "reboot", "packages", "firewalld"}
<1>1. q.what \in OtherNames /\ q.whom \in OtherNames
  <2>1. q.what \in names /\ q.whom \in names
    BY DEF HostQuestions, Question
  <2>2. "firewalld" \in {FIREWALL_UNITS[i] : i \in DOMAIN FIREWALL_UNITS}
    BY UnitNumbers
  <2>3. names \subseteq OtherNames
    BY <2>2 DEF OtherNames
  <2> HIDE DEF names
  <2> QED BY <2>1, <2>3
<1>2. q.limit \in Nat /\ q.limit <= LimitOf(q.whom)
  BY DEF HostQuestions, Question, Timeout, LimitOf
<1>3. /\ q.what = "walk" => q.whom = "logs"
      /\ q.what = "docker" => q.whom = "docker"
      /\ q.what = "podman" => q.whom = "podman"
      /\ q.what = "time_service" => q.whom = "systemd"
      /\ q.what = "clock" => q.whom = "timedated"
  BY DEF HostQuestions, Question
<1> QED BY <1>1, <1>2, <1>3

LEMMA QuestionFacts ==
  ASSUME NEW q \in Questions
  PROVE  /\ q.limit \in Nat /\ q.limit <= LimitOf(q.whom)
         /\ q.what = "walk" => q.whom = "logs"
         /\ q.what = "docker" => q.whom = "docker"
         /\ q.what = "podman" => q.whom = "podman"
         /\ q.what = "time_service" => q.whom = "systemd"
         /\ q.what = "clock" => q.whom = "timedated"
<1>1. CASE q \in HostQuestions
  BY <1>1, HostQuestionFacts
<1>2. CASE q \in UnitQuestions
  <2>1. PICK i \in DOMAIN FIREWALL_UNITS : q = Question(FIREWALL_UNITS[i], "systemd", Timeout)
    BY <1>2 DEF UnitQuestions
  <2>2. q.what \in {"firewalld", "ufw", "nftables", "iptables"} /\ q.whom = "systemd" /\ q.limit = 3
    BY <2>1, UnitNumbers, QuestionFields DEF Timeout
  <2> QED BY <2>2 DEF LimitOf
<1>3. CASE q \in EndpointQuestions
  <2>1. PICK e \in Endpoints : q = Question(e, e, 2)
    BY <1>3 DEF EndpointQuestions
  <2>2. q.what = e /\ q.whom = e /\ q.limit = 2
    BY <2>1, QuestionFields
  <2>3. e \notin {"walk", "docker", "podman", "time_service", "clock"}
    BY BudgetAssumption DEF OtherNames
  <2> QED BY <2>2, <2>3 DEF LimitOf
<1> QED BY <1>1, <1>2, <1>3 DEF Questions

LEMMA LimitNumber == \A party : LimitOf(party) \in Nat
BY DEF LimitOf

-----------------------------------------------------------------------------
(* Sequences of questions. *)

LEMMA CountNumber ==
  ASSUME NEW s \in Seq(Questions), NEW party
  PROVE  /\ IsFiniteSet({i \in DOMAIN s : s[i].whom = party})
         /\ CountOf(s, party) \in Nat
<1> DEFINE those == {i \in DOMAIN s : s[i].whom = party}
<1>1. IsFiniteSet(DOMAIN s)
  <2>1. DOMAIN s = 1..Len(s) /\ Len(s) \in Nat
    OBVIOUS
  <2> QED BY <2>1, FS_Interval
<1>2. those \in SUBSET DOMAIN s /\ CountOf(s, party) = Cardinality(those)
  BY DEF CountOf
<1> HIDE DEF those
<1>3. IsFiniteSet(those)
  BY <1>1, <1>2, FS_Subset
<1> QED BY <1>2, <1>3, FS_CardinalityType DEF those

\* A set that is within an interval, or within one or two numbers, is no larger.
LEMMA Within ==
  ASSUME NEW S, NEW a, NEW b, NEW n \in Nat
  PROVE  /\ S \subseteq 1..n => Cardinality(S) <= n
         /\ S \subseteq {a, b} => Cardinality(S) <= 2
         /\ S \subseteq {a} => Cardinality(S) <= 1
         /\ S = {} => Cardinality(S) = 0
<1>1. IsFiniteSet(1..n) /\ Cardinality(1..n) = n
  BY FS_Interval
<1>2. IsFiniteSet({a}) /\ Cardinality({a}) = 1
  BY FS_Singleton
<1>3. IsFiniteSet({a, b}) /\ Cardinality({a, b}) <= 2
  <2>1. {a, b} = {a} \cup {b}
    OBVIOUS
  <2>2. IsFiniteSet({a} \cup {b}) /\ Cardinality({a} \cup {b}) \in {1, 2}
    BY <1>2, FS_AddElement
  <2> QED BY <2>1, <2>2
<1>4. S \subseteq 1..n => Cardinality(S) <= n
  BY <1>1, FS_Subset
<1>5. S \subseteq {a, b} => Cardinality(S) <= 2
  <2> SUFFICES ASSUME S \in SUBSET {a, b} PROVE Cardinality(S) <= 2
    OBVIOUS
  <2>1. IsFiniteSet(S) /\ Cardinality(S) <= Cardinality({a, b})
    BY <1>3, FS_Subset
  <2>2. Cardinality(S) \in Nat /\ Cardinality({a, b}) \in Nat
    BY <1>3, <2>1, FS_CardinalityType
  <2> QED BY <1>3, <2>1, <2>2
<1>6. S \subseteq {a} => Cardinality(S) <= 1
  BY <1>2, FS_Subset
<1> QED BY <1>4, <1>5, <1>6, FS_EmptySet

\* The first part of a concatenation stays where it is, the second one follows it.
LEMMA ConcatFacts ==
  ASSUME NEW s \in Seq(Questions), NEW t \in Seq(Questions)
  PROVE  /\ s \o t \in Seq(Questions) /\ Len(s \o t) = Len(s) + Len(t)
         /\ Len(s) \in Nat /\ Len(t) \in Nat
         /\ DOMAIN s = 1..Len(s) /\ DOMAIN t = 1..Len(t) /\ DOMAIN (s \o t) = 1..Len(s) + Len(t)
         /\ \A i \in DOMAIN s : i \in DOMAIN (s \o t) /\ (s \o t)[i] = s[i]
         /\ \A i \in DOMAIN t : Len(s) + i \in DOMAIN (s \o t) /\ (s \o t)[Len(s) + i] = t[i]
         /\ \A i \in DOMAIN (s \o t) :
              \/ i \in DOMAIN s /\ (s \o t)[i] = s[i]
              \/ i - Len(s) \in DOMAIN t /\ (s \o t)[i] = t[i - Len(s)]
<1>1. /\ s \o t \in Seq(Questions) /\ Len(s \o t) = Len(s) + Len(t)
      /\ \A i \in 1 .. Len(s) + Len(t) : (s \o t)[i] = IF i <= Len(s) THEN s[i] ELSE t[i - Len(s)]
  BY ConcatProperties
<1>2. /\ Len(s) \in Nat /\ Len(t) \in Nat
      /\ DOMAIN s = 1..Len(s) /\ DOMAIN t = 1..Len(t) /\ DOMAIN (s \o t) = 1..Len(s) + Len(t)
  BY <1>1
<1>3. ASSUME NEW i \in DOMAIN s PROVE i \in DOMAIN (s \o t) /\ (s \o t)[i] = s[i]
  BY <1>1, <1>2
<1>4. ASSUME NEW i \in DOMAIN t PROVE Len(s) + i \in DOMAIN (s \o t) /\ (s \o t)[Len(s) + i] = t[i]
  <2>1. Len(s) + i \in 1..Len(s) + Len(t) /\ ~(Len(s) + i <= Len(s)) /\ Len(s) + i - Len(s) = i
    BY <1>2
  <2> QED BY <1>1, <1>2, <2>1
<1>5. ASSUME NEW i \in DOMAIN (s \o t)
      PROVE  \/ i \in DOMAIN s /\ (s \o t)[i] = s[i]
             \/ i - Len(s) \in DOMAIN t /\ (s \o t)[i] = t[i - Len(s)]
  BY <1>1, <1>2
<1> QED BY <1>1, <1>2, <1>3, <1>4, <1>5

\* Every question of the parts is in the concatenation.
LEMMA ConcatKeeps ==
  ASSUME NEW s \in Seq(Questions), NEW t \in Seq(Questions)
  PROVE  /\ \A i \in DOMAIN s : \E j \in DOMAIN (s \o t) : (s \o t)[j] = s[i]
         /\ \A i \in DOMAIN t : \E j \in DOMAIN (s \o t) : (s \o t)[j] = t[i]
<1>1. \A i \in DOMAIN s : i \in DOMAIN (s \o t) /\ (s \o t)[i] = s[i]
  BY ConcatFacts
<1>2. \A i \in DOMAIN t : Len(s) + i \in DOMAIN (s \o t) /\ (s \o t)[Len(s) + i] = t[i]
  BY ConcatFacts
<1> QED BY <1>1, <1>2

\* Parties are asked in a concatenation as often as in its parts.
LEMMA CountConcat ==
  ASSUME NEW s \in Seq(Questions), NEW t \in Seq(Questions), NEW party
  PROVE  CountOf(s \o t, party) <= CountOf(s, party) + CountOf(t, party)
<1> DEFINE those(u) == {i \in DOMAIN u : u[i].whom = party}
           moved == those(s \o t) \ those(s)
           back  == [i \in moved |-> i - Len(s)]
<1>1. s \o t \in Seq(Questions) /\ Len(s) \in Nat /\ DOMAIN t = 1..Len(t) /\ Len(t) \in Nat
      /\ DOMAIN (s \o t) = 1..Len(s) + Len(t)
  BY ConcatFacts
<1>2. /\ IsFiniteSet(those(s)) /\ IsFiniteSet(those(t)) /\ IsFiniteSet(those(s \o t))
      /\ Cardinality(those(s)) \in Nat /\ Cardinality(those(t)) \in Nat
  BY <1>1, CountNumber, FS_CardinalityType
<1>3. back \in Injection(moved, those(t))
  <2>1. ASSUME NEW i \in moved PROVE back[i] \in those(t) /\ i \in Nat
    <3>1. i \in DOMAIN (s \o t) /\ (s \o t)[i].whom = party /\ back[i] = i - Len(s)
      OBVIOUS
    <3>2. i \in Nat
      BY <1>1, <3>1
    <3> QED BY <3>1, <3>2, ConcatFacts
  <2>2. ASSUME NEW i \in moved, NEW j \in moved, back[i] = back[j] PROVE i = j
    <3>1. i \in Nat /\ j \in Nat /\ i - Len(s) = j - Len(s)
      BY <2>1, <2>2
    <3> QED BY <1>1, <3>1
  <2> HIDE DEF moved, those
  <2>3. back \in [moved -> those(t)]
    BY <2>1
  <2> QED BY <2>2, <2>3 DEF Injection, IsInjective
<1>4. those(s \o t) \subseteq those(s) \cup moved
  OBVIOUS
<1> HIDE DEF moved, back, those
<1>5. IsFiniteSet(moved) /\ Cardinality(moved) <= Cardinality(those(t)) /\ Cardinality(moved) \in Nat
  BY <1>2, <1>3, FS_Injection, FS_CardinalityType
<1>6. /\ IsFiniteSet(those(s) \cup moved)
      /\ Cardinality(those(s) \cup moved)
           = Cardinality(those(s)) + Cardinality(moved) - Cardinality(those(s) \cap moved)
      /\ Cardinality(those(s) \cap moved) \in Nat
  BY <1>2, <1>5, FS_Union, FS_Intersection, FS_CardinalityType
<1>7. Cardinality(those(s \o t)) <= Cardinality(those(s) \cup moved) /\ Cardinality(those(s \o t)) \in Nat
  BY <1>2, <1>4, <1>6, FS_Subset, FS_CardinalityType
<1>8. Cardinality(those(s \o t)) <= Cardinality(those(s)) + Cardinality(those(t))
  BY <1>2, <1>5, <1>6, <1>7
<1> QED BY <1>8 DEF CountOf, those

LEMMA FirstConcat ==
  ASSUME NEW s \in Seq(Questions), NEW t \in Seq(Questions), ClockFirst(s), ClockFirst(t)
  PROVE  ClockFirst(s \o t)
<1> SUFFICES ASSUME NEW i \in DOMAIN (s \o t), (s \o t)[i].what = "time_service"
             PROVE  \E j \in 1..i - 1 : (s \o t)[j].what = "clock"
  BY DEF ClockFirst
<1>1. /\ Len(s) \in Nat /\ Len(t) \in Nat /\ DOMAIN s = 1..Len(s) /\ DOMAIN t = 1..Len(t)
      /\ DOMAIN (s \o t) = 1..Len(s) + Len(t)
  BY ConcatFacts
<1>2. CASE i \in DOMAIN s /\ (s \o t)[i] = s[i]
  <2>1. PICK j \in 1..i - 1 : s[j].what = "clock"
    BY <1>2 DEF ClockFirst
  <2>2. j \in DOMAIN s
    BY <1>1, <1>2
  <2> QED BY <2>1, <2>2, ConcatFacts
<1>3. CASE i - Len(s) \in DOMAIN t /\ (s \o t)[i] = t[i - Len(s)]
  <2>1. PICK j \in 1..(i - Len(s)) - 1 : t[j].what = "clock"
    BY <1>3 DEF ClockFirst
  <2>2. j \in DOMAIN t /\ Len(s) + j \in 1..i - 1
    BY <1>1, <1>3
  <2>3. (s \o t)[Len(s) + j].what = "clock"
    BY <2>1, <2>2, ConcatFacts
  <2> QED BY <2>2, <2>3
<1> QED BY <1>2, <1>3, ConcatFacts

\* The same question several times.
LEMMA RepeatedFacts ==
  ASSUME NEW n \in Nat, NEW what, NEW whom, Question(what, whom, Timeout) \in Questions
  PROVE  /\ Repeated(n, what, whom) \in Seq(Questions) /\ Len(Repeated(n, what, whom)) = n
         /\ \A i \in 1..n : Repeated(n, what, whom)[i] = Question(what, whom, Timeout)
         /\ \A party : CountOf(Repeated(n, what, whom), party) <= IF party = whom THEN n ELSE 0
<1> DEFINE s == Repeated(n, what, whom)
<1>1. s = [i \in 1..n |-> Question(what, whom, Timeout)]
  BY DEF Repeated
<1>2. s \in Seq(Questions) /\ Len(s) = n /\ DOMAIN s = 1..n
  BY <1>1
<1> HIDE DEF s
<1>3. ASSUME NEW party PROVE CountOf(s, party) <= IF party = whom THEN n ELSE 0
  <2> DEFINE those == {i \in DOMAIN s : s[i].whom = party}
  <2>1. those \subseteq 1..n /\ (party # whom => those = {})
    BY <1>1, <1>2, QuestionFields
  <2>2. CountOf(s, party) = Cardinality(those)
    BY DEF CountOf
  <2> HIDE DEF those
  <2> QED BY <2>1, <2>2, Within
<1> QED BY <1>1, <1>2, <1>3 DEF s

\* Parties that at most one question of a sequence, or none, is asked of.
LEMMA AskedOnce ==
  ASSUME NEW s \in Seq(Questions), NEW party
  PROVE  /\ (\A i, j \in DOMAIN s : s[i].whom = party /\ s[j].whom = party => i = j)
              => CountOf(s, party) <= 1
         /\ (\A i \in DOMAIN s : s[i].whom # party) => CountOf(s, party) = 0
<1> DEFINE those == {i \in DOMAIN s : s[i].whom = party}
<1>1. CountOf(s, party) = Cardinality(those)
  BY DEF CountOf
<1>2. CASE those = {}
  <2> HIDE DEF those
  <2>1. CountOf(s, party) = 0
    BY <1>1, <1>2, FS_EmptySet
  <2> QED BY <2>1
<1>3. CASE those # {}
  <2>1. PICK i \in DOMAIN s : s[i].whom = party
    BY <1>3
  <2> SUFFICES ASSUME \A k, j \in DOMAIN s : s[k].whom = party /\ s[j].whom = party => k = j
               PROVE  CountOf(s, party) <= 1
    BY <2>1
  <2>2. those \subseteq {i}
    BY <2>1
  <2> HIDE DEF those
  <2> QED BY <1>1, <2>2, Within
<1> QED BY <1>2, <1>3

-----------------------------------------------------------------------------
(* The programme. *)

LEMMA HostAsked == HostQuestions \subseteq Questions
BY DEF Questions

LEMMA MetricPart ==
  /\ MetricQuestions \in Seq(Questions) /\ ClockFirst(MetricQuestions)
  /\ \A party : CountOf(MetricQuestions, party) <=
       IF party = "disk" THEN 2 ELSE IF party = "kernel" THEN 1 ELSE 0
<1> DEFINE s == MetricQuestions
<1>1. s = <<Question("df_root", "disk", Timeout), Question("df", "disk", 10),
            Question("nproc", "kernel", Timeout)>>
  BY DEF MetricQuestions
<1>2. /\ Question("df_root", "disk", Timeout) \in Questions /\ Question("df", "disk", 10) \in Questions
      /\ Question("nproc", "kernel", Timeout) \in Questions
  BY HostAsked DEF HostQuestions
<1>3. s \in Seq(Questions) /\ DOMAIN s = 1..3
  BY <1>1, <1>2
<1>4. /\ s[1].whom = "disk" /\ s[2].whom = "disk" /\ s[3].whom = "kernel"
      /\ s[1].what = "df_root" /\ s[2].what = "df" /\ s[3].what = "nproc"
  BY <1>1, QuestionFields
<1> HIDE DEF s
<1>5. ClockFirst(s)
  BY <1>3, <1>4 DEF ClockFirst
<1>6. ASSUME NEW party
      PROVE  CountOf(s, party) <= IF party = "disk" THEN 2 ELSE IF party = "kernel" THEN 1 ELSE 0
  <2> DEFINE those == {i \in DOMAIN s : s[i].whom = party}
  <2>1. /\ party = "disk" => those \subseteq {1, 2}
        /\ party = "kernel" => those \subseteq {3}
        /\ party \notin {"disk", "kernel"} => those = {}
    BY <1>3, <1>4
  <2>2. CountOf(s, party) = Cardinality(those)
    BY DEF CountOf
  <2> HIDE DEF those
  <2> QED BY <2>1, <2>2, Within
<1> QED BY <1>3, <1>5, <1>6 DEF s

LEMMA ContextPart ==
  /\ ContextQuestions \in Seq(Questions) /\ ClockFirst(ContextQuestions)
  /\ \A what \in {"docker", "podman"} : \E i \in DOMAIN ContextQuestions : ContextQuestions[i].what = what
  /\ \A party : party # "logs" => CountOf(ContextQuestions, party) <=
       IF party = "systemd" THEN Cardinality(Watched) + 1
       ELSE IF party \in {"kernel", "docker", "podman"} THEN 1 ELSE 0
<1> DEFINE r == Repeated(Cardinality(Watched), "show", "systemd")
           s == <<Question("failed", "systemd", Timeout), Question("docker", "docker", Timeout),
                  Question("podman", "podman", Timeout), Question("ss", "kernel", Timeout),
                  Question("du", "logs", 30), Question("walk", "logs", 0)>>
<1>0. ContextQuestions = r \o s
  BY DEF ContextQuestions
<1>1. Cardinality(Watched) \in Nat
  BY BudgetAssumption, FS_CardinalityType
<1>2. /\ Question("show", "systemd", Timeout) \in Questions
      /\ Question("failed", "systemd", Timeout) \in Questions
      /\ Question("docker", "docker", Timeout) \in Questions
      /\ Question("podman", "podman", Timeout) \in Questions
      /\ Question("ss", "kernel", Timeout) \in Questions
      /\ Question("du", "logs", 30) \in Questions /\ Question("walk", "logs", 0) \in Questions
  BY HostAsked DEF HostQuestions
<1>3. s \in Seq(Questions) /\ DOMAIN s = 1..6
  BY <1>2
<1>4. /\ s[1].whom = "systemd" /\ s[2].whom = "docker" /\ s[3].whom = "podman"
      /\ s[4].whom = "kernel" /\ s[5].whom = "logs" /\ s[6].whom = "logs"
      /\ s[1].what = "failed" /\ s[2].what = "docker" /\ s[3].what = "podman"
      /\ s[4].what = "ss" /\ s[5].what = "du" /\ s[6].what = "walk"
  BY QuestionFields
<1>5. /\ r \in Seq(Questions) /\ DOMAIN r = 1..Cardinality(Watched)
      /\ \A i \in DOMAIN r : r[i].what = "show"
      /\ \A party : CountOf(r, party) <= IF party = "systemd" THEN Cardinality(Watched) ELSE 0
  <2> HIDE DEF s
  <2>1. /\ r \in Seq(Questions) /\ Len(r) = Cardinality(Watched)
        /\ \A i \in 1..Cardinality(Watched) : r[i] = Question("show", "systemd", Timeout)
        /\ \A party : CountOf(r, party) <= IF party = "systemd" THEN Cardinality(Watched) ELSE 0
    BY <1>1, <1>2, RepeatedFacts
  <2> HIDE DEF r
  <2>2. DOMAIN r = 1..Cardinality(Watched)
    BY <2>1
  <2> QED BY <2>1, <2>2, QuestionFields
<1> HIDE DEF r, s
<1>6. r \o s \in Seq(Questions) /\ ClockFirst(r \o s)
  <2>1. ClockFirst(r) /\ ClockFirst(s)
    BY <1>3, <1>4, <1>5 DEF ClockFirst
  <2> QED BY <1>3, <1>5, <2>1, ConcatFacts, FirstConcat
<1>7. ASSUME NEW what \in {"docker", "podman"} PROVE \E i \in DOMAIN (r \o s) : (r \o s)[i].what = what
  <2>1. PICK i \in DOMAIN s : s[i].what = what
    BY <1>3, <1>4
  <2>2. Len(r) + i \in DOMAIN (r \o s) /\ (r \o s)[Len(r) + i] = s[i]
    BY <1>3, <1>5, ConcatFacts
  <2> QED BY <2>1, <2>2
<1>8. ASSUME NEW party, party # "logs"
      PROVE  CountOf(r \o s, party) <=
               IF party = "systemd" THEN Cardinality(Watched) + 1
               ELSE IF party \in {"kernel", "docker", "podman"} THEN 1 ELSE 0
  <2> DEFINE those == {i \in DOMAIN s : s[i].whom = party}
  <2>1. /\ party = "systemd" => those \subseteq {1}
        /\ party = "docker" => those \subseteq {2}
        /\ party = "podman" => those \subseteq {3}
        /\ party = "kernel" => those \subseteq {4}
        /\ party \notin {"systemd", "docker", "podman", "kernel"} => those = {}
    BY <1>3, <1>4, <1>8
  <2>2. CountOf(s, party) = Cardinality(those)
    BY DEF CountOf
  <2> HIDE DEF those
  <2>3. CountOf(s, party) <= IF party \in {"systemd", "docker", "podman", "kernel"} THEN 1 ELSE 0
    BY <2>1, <2>2, Within
  <2>4. CountOf(r \o s, party) <= CountOf(r, party) + CountOf(s, party)
    BY <1>3, <1>5, CountConcat
  <2>5. CountOf(r, party) \in Nat /\ CountOf(s, party) \in Nat /\ CountOf(r \o s, party) \in Nat
    BY <1>3, <1>5, <1>6, CountNumber
  <2>6. CountOf(r, party) <= IF party = "systemd" THEN Cardinality(Watched) ELSE 0
    BY <1>5
  <2> QED BY <1>1, <2>3, <2>4, <2>5, <2>6
<1> QED BY <1>0, <1>6, <1>7, <1>8

\* SetToSeq lists the endpoints, each once.
LEMMA EndpointsListed ==
  LET s == SetToSeq(Endpoints)
      n == Cardinality(Endpoints)
  IN  n \in Nat /\ s \in [1..n -> Endpoints] /\ \A i, j \in 1..n : s[i] = s[j] => i = j
<1> DEFINE n == Cardinality(Endpoints)
<1>1. n \in Nat /\ ExistsBijection(1..n, Endpoints)
  BY BudgetAssumption, FS_CardinalityType
<1>2. \E f \in [1..n -> Endpoints] : IsInjective(f)
  <2>1. PICK f \in Bijection(1..n, Endpoints) : TRUE
    BY <1>1 DEF ExistsBijection
  <2>2. f \in [1..n -> Endpoints] /\ IsInjective(f)
    BY <2>1 DEF Bijection, Injection, IsInjective
  <2> QED BY <2>2
<1>3. SetToSeq(Endpoints) \in [1..n -> Endpoints] /\ IsInjective(SetToSeq(Endpoints))
  BY <1>2 DEF SetToSeq
<1> QED BY <1>1, <1>3 DEF IsInjective

LEMMA AppPart ==
  /\ AppQuestions \in Seq(Questions) /\ ClockFirst(AppQuestions)
  /\ \A party : CountOf(AppQuestions, party) <=
       IF party = "kernel" \/ party \in Endpoints THEN 1 ELSE 0
<1> DEFINE n == Cardinality(Endpoints)
           e == SetToSeq(Endpoints)
           r == [i \in 1..n |-> Question(e[i], e[i], 2)]
           s == <<Question("self", "kernel", Timeout)>>
<1>0. AppQuestions = r \o s
  BY DEF AppQuestions
<1>1. n \in Nat /\ e \in [1..n -> Endpoints] /\ \A i, j \in 1..n : e[i] = e[j] => i = j
  BY EndpointsListed
<1> HIDE DEF e
<1>2. Question("self", "kernel", Timeout) \in Questions
  BY HostAsked DEF HostQuestions
<1>3. s \in Seq(Questions) /\ DOMAIN s = {1} /\ s[1].whom = "kernel" /\ s[1].what = "self"
  BY <1>2, QuestionFields
<1>4. \A i \in 1..n : Question(e[i], e[i], 2) \in Questions
  BY <1>1 DEF Questions, EndpointQuestions
<1>5. r \in Seq(Questions) /\ DOMAIN r = 1..n
  BY <1>1, <1>4
<1>6. \A i \in 1..n : r[i].whom = e[i] /\ r[i].what = e[i]
  BY QuestionFields
<1>7. Endpoints \cap {"time_service", "clock", "kernel"} = {}
  BY BudgetAssumption DEF OtherNames
<1> HIDE DEF n, r, s
<1>8. r \o s \in Seq(Questions) /\ ClockFirst(r \o s)
  <2>1. ClockFirst(r) /\ ClockFirst(s)
    BY <1>1, <1>3, <1>5, <1>6, <1>7 DEF ClockFirst
  <2> QED BY <1>3, <1>5, <2>1, ConcatFacts, FirstConcat
<1>9. ASSUME NEW party
      PROVE  CountOf(r \o s, party) <= IF party = "kernel" \/ party \in Endpoints THEN 1 ELSE 0
  <2>1. CountOf(s, party) <= IF party = "kernel" THEN 1 ELSE 0
    <3> DEFINE those == {i \in DOMAIN s : s[i].whom = party}
    <3>1. those \subseteq {1} /\ (party # "kernel" => those = {})
      BY <1>3
    <3>2. CountOf(s, party) = Cardinality(those)
      BY DEF CountOf
    <3> HIDE DEF those
    <3> QED BY <3>1, <3>2, Within
  <2>2. CountOf(r, party) <= IF party \in Endpoints THEN 1 ELSE 0
    <3> DEFINE those == {i \in DOMAIN r : r[i].whom = party}
    <3>1. CountOf(r, party) = Cardinality(those)
      BY DEF CountOf
    <3>2. CASE those = {}
      BY <3>1, <3>2, FS_EmptySet
    <3>3. CASE those # {}
      <4>1. PICK i \in 1..n : e[i] = party
        BY <1>5, <1>6, <3>3
      <4>2. those \subseteq {i} /\ party \in Endpoints
        BY <1>1, <1>5, <1>6, <4>1
      <4> HIDE DEF those
      <4> QED BY <3>1, <4>2, Within
    <3> QED BY <3>2, <3>3
  <2>3. CountOf(r \o s, party) <= CountOf(r, party) + CountOf(s, party)
    BY <1>3, <1>5, CountConcat
  <2>4. CountOf(r, party) \in Nat /\ CountOf(s, party) \in Nat /\ CountOf(r \o s, party) \in Nat
    BY <1>3, <1>5, <1>8, CountNumber
  <2> QED BY <1>7, <2>1, <2>2, <2>3, <2>4
<1> QED BY <1>0, <1>8, <1>9
LEMMA PosturePart ==
  /\ PostureQuestions \in Seq(Questions) /\ ClockFirst(PostureQuestions)
  /\ \E i \in DOMAIN PostureQuestions : PostureQuestions[i].what = "time_service"
  /\ \A k \in DOMAIN FIREWALL_UNITS : \E i \in DOMAIN PostureQuestions :
       PostureQuestions[i].what = FIREWALL_UNITS[k] /\ PostureQuestions[i].whom = "systemd"
  /\ \A party : CountOf(PostureQuestions, party) <=
       IF party = "systemd" THEN 9 ELSE IF party = "kernel" THEN Addresses + 1
       ELSE IF party \in {"journald", "timedated", "firewalld", "packages"} THEN 1 ELSE 0
<1> DEFINE a == <<Question("journal", "journald", 15), Question("clock", "timedated", Timeout)>>
           b == Repeated(5, "time_service", "systemd")
           c == [i \in DOMAIN FIREWALL_UNITS |-> Question(FIREWALL_UNITS[i], "systemd", Timeout)]
           d == <<Question("zone", "firewalld", Timeout), Question("addresses", "kernel", Timeout)>>
           e == Repeated(Addresses, "neighbour", "kernel")
           f == <<Question("reboot", "packages", 30)>>
<1>0. PostureQuestions = a \o b \o c \o d \o e \o f
  BY DEF PostureQuestions
<1>1. Addresses \in Nat
  BY BudgetAssumption
<1>2. /\ Question("journal", "journald", 15) \in Questions
      /\ Question("clock", "timedated", Timeout) \in Questions
      /\ Question("time_service", "systemd", Timeout) \in Questions
      /\ Question("zone", "firewalld", Timeout) \in Questions
      /\ Question("addresses", "kernel", Timeout) \in Questions
      /\ Question("neighbour", "kernel", Timeout) \in Questions
      /\ Question("reboot", "packages", 30) \in Questions
  BY HostAsked DEF HostQuestions
<1>3. a \in Seq(Questions) /\ DOMAIN a = 1..2 /\ Len(a) = 2
  BY <1>2
<1>4. /\ a[1].whom = "journald" /\ a[2].whom = "timedated"
      /\ a[1].what = "journal" /\ a[2].what = "clock"
  BY QuestionFields
<1>5. /\ b \in Seq(Questions) /\ Len(b) = 5
      /\ \A i \in 1..5 : b[i] = Question("time_service", "systemd", Timeout)
      /\ \A party : CountOf(b, party) <= IF party = "systemd" THEN 5 ELSE 0
  BY <1>2, RepeatedFacts
<1>6. \A i \in DOMAIN FIREWALL_UNITS : Question(FIREWALL_UNITS[i], "systemd", Timeout) \in Questions
  BY DEF Questions, UnitQuestions
<1>7. c \in Seq(Questions) /\ DOMAIN c = 1..4 /\ Len(c) = 4
  BY <1>6, UnitNumbers
<1>8. \A i \in 1..4 : c[i].whom = "systemd" /\ c[i].what = FIREWALL_UNITS[i]
  BY UnitNumbers, QuestionFields
<1>9. d \in Seq(Questions) /\ DOMAIN d = 1..2
  BY <1>2
<1>10. /\ d[1].whom = "firewalld" /\ d[2].whom = "kernel"
       /\ d[1].what = "zone" /\ d[2].what = "addresses"
  BY QuestionFields
<1>11. /\ e \in Seq(Questions) /\ Len(e) = Addresses
       /\ \A i \in 1..Addresses : e[i] = Question("neighbour", "kernel", Timeout)
       /\ \A party : CountOf(e, party) <= IF party = "kernel" THEN Addresses ELSE 0
  BY <1>1, <1>2, RepeatedFacts
<1>12. f \in Seq(Questions) /\ DOMAIN f = {1} /\ f[1].whom = "packages" /\ f[1].what = "reboot"
  BY <1>2, QuestionFields
<1> HIDE DEF a, b, c, d, e, f
<1>13. /\ DOMAIN b = 1..5 /\ \A i \in 1..5 : b[i].what = "time_service"
       /\ DOMAIN e = 1..Addresses /\ \A i \in 1..Addresses : e[i].what = "neighbour"
  <2>1. DOMAIN b = 1..5 /\ DOMAIN e = 1..Addresses
    BY <1>5, <1>11
  <2> QED BY <1>5, <1>11, <2>1, QuestionFields
<1>14. a \o b \in Seq(Questions) /\ ClockFirst(a \o b)
  <2>0. a \o b \in Seq(Questions) /\ DOMAIN (a \o b) = 1..Len(a) + Len(b)
    BY <1>3, <1>5, ConcatFacts
  <2>1. a \o b \in Seq(Questions) /\ DOMAIN (a \o b) = 1..7
    BY <1>3, <1>5, <2>0
  <2>2. \A i \in DOMAIN a : (a \o b)[i] = a[i]
    BY <1>3, <1>5, ConcatFacts
  <2>3. (a \o b)[1] = a[1] /\ (a \o b)[2] = a[2]
    <3>1. 1 \in DOMAIN a /\ 2 \in DOMAIN a
      BY <1>3
    <3> QED BY <2>2, <3>1
  <2> QED BY <1>4, <2>1, <2>3 DEF ClockFirst
<1>15. \E i \in DOMAIN (a \o b) : (a \o b)[i].what = "time_service"
  <2>1. \A i \in DOMAIN b : Len(a) + i \in DOMAIN (a \o b) /\ (a \o b)[Len(a) + i] = b[i]
    BY <1>3, <1>5, ConcatFacts
  <2>2. Len(a) + 1 \in DOMAIN (a \o b) /\ (a \o b)[Len(a) + 1] = b[1]
    BY <1>13, <2>1
  <2> QED BY <1>13, <2>2
<1>16. ClockFirst(c) /\ ClockFirst(d) /\ ClockFirst(e) /\ ClockFirst(f)
  BY <1>7, <1>8, <1>9, <1>10, <1>12, <1>13, UnitNumbers DEF ClockFirst
<1>17. /\ a \o b \o c \in Seq(Questions) /\ ClockFirst(a \o b \o c)
       /\ \E i \in DOMAIN (a \o b \o c) : (a \o b \o c)[i].what = "time_service"
       /\ \A k \in 1..4 : \E i \in DOMAIN (a \o b \o c) : (a \o b \o c)[i] = c[k]
  <2> DEFINE s == a \o b
  <2>1. s \in Seq(Questions) /\ ClockFirst(s) /\ \E i \in DOMAIN s : s[i].what = "time_service"
    BY <1>14, <1>15
  <2> HIDE DEF s
  <2>2. s \o c \in Seq(Questions) /\ ClockFirst(s \o c)
    BY <1>7, <1>16, <2>1, ConcatFacts, FirstConcat
  <2>3. \A i \in DOMAIN s : i \in DOMAIN (s \o c) /\ (s \o c)[i] = s[i]
    BY <1>7, <2>1, ConcatFacts
  <2>4. \E i \in DOMAIN (s \o c) : (s \o c)[i].what = "time_service"
    BY <2>1, <2>3
  <2>5. \A i \in DOMAIN c : Len(s) + i \in DOMAIN (s \o c) /\ (s \o c)[Len(s) + i] = c[i]
    BY <1>7, <2>1, ConcatFacts
  <2>6. \A k \in 1..4 : \E i \in DOMAIN (s \o c) : (s \o c)[i] = c[k]
    BY <1>7, <2>5
  <2> QED BY <2>2, <2>4, <2>6 DEF s
<1> DEFINE s == a \o b \o c
<1>18. ASSUME NEW t \in Seq(Questions), ClockFirst(t), NEW u \in Seq(Questions), ClockFirst(u)
       PROVE  /\ t \o u \in Seq(Questions) /\ ClockFirst(t \o u)
              /\ \A i \in DOMAIN t : \E j \in DOMAIN (t \o u) : (t \o u)[j] = t[i]
  BY <1>18, ConcatFacts, FirstConcat
<1>19. /\ s \o d \o e \o f \in Seq(Questions) /\ ClockFirst(s \o d \o e \o f)
       /\ s \o d \in Seq(Questions) /\ s \o d \o e \in Seq(Questions) /\ s \in Seq(Questions)
       /\ \A i \in DOMAIN s : \E j \in DOMAIN (s \o d \o e \o f) : (s \o d \o e \o f)[j] = s[i]
  <2>1. s \in Seq(Questions) /\ ClockFirst(s)
    BY <1>17
  <2> HIDE DEF s
  <2> DEFINE t == s \o d
             u == t \o e
  <2>2. /\ t \in Seq(Questions) /\ ClockFirst(t)
        /\ \A i \in DOMAIN s : \E j \in DOMAIN t : t[j] = s[i]
    BY <1>9, <1>16, <1>18, <2>1
  <2> HIDE DEF t
  <2>3. /\ u \in Seq(Questions) /\ ClockFirst(u)
        /\ \A i \in DOMAIN t : \E j \in DOMAIN u : u[j] = t[i]
    BY <1>11, <1>16, <1>18, <2>2
  <2> HIDE DEF u
  <2>4. /\ u \o f \in Seq(Questions) /\ ClockFirst(u \o f)
        /\ \A i \in DOMAIN u : \E j \in DOMAIN (u \o f) : (u \o f)[j] = u[i]
    BY <1>12, <1>16, <1>18, <2>3
  <2>5. \A i \in DOMAIN s : \E j \in DOMAIN (u \o f) : (u \o f)[j] = s[i]
    BY <2>2, <2>3, <2>4
  <2> QED BY <2>1, <2>2, <2>3, <2>4, <2>5 DEF t, u
<1>20. ASSUME NEW party
       PROVE  CountOf(s \o d \o e \o f, party) <=
                IF party = "systemd" THEN 9 ELSE IF party = "kernel" THEN Addresses + 1
                ELSE IF party \in {"journald", "timedated", "firewalld", "packages"} THEN 1 ELSE 0
  <2>1. CountOf(a, party) <= IF party \in {"journald", "timedated"} THEN 1 ELSE 0
    BY <1>3, <1>4, AskedOnce
  <2>2. CountOf(b, party) <= IF party = "systemd" THEN 5 ELSE 0
    BY <1>5
  <2>3. CountOf(c, party) <= IF party = "systemd" THEN 4 ELSE 0
    <3> DEFINE those == {i \in DOMAIN c : c[i].whom = party}
    <3>1. those \subseteq 1..4 /\ (party # "systemd" => those = {})
      BY <1>7, <1>8
    <3>2. CountOf(c, party) = Cardinality(those)
      BY DEF CountOf
    <3> HIDE DEF those
    <3> QED BY <3>1, <3>2, Within
  <2>4. CountOf(d, party) <= IF party \in {"firewalld", "kernel"} THEN 1 ELSE 0
    BY <1>9, <1>10, AskedOnce
  <2>5. CountOf(e, party) <= IF party = "kernel" THEN Addresses ELSE 0
    BY <1>11
  <2>6. CountOf(f, party) <= IF party = "packages" THEN 1 ELSE 0
    BY <1>12, AskedOnce
  <2>7. /\ CountOf(a, party) \in Nat /\ CountOf(b, party) \in Nat /\ CountOf(c, party) \in Nat
        /\ CountOf(d, party) \in Nat /\ CountOf(e, party) \in Nat /\ CountOf(f, party) \in Nat
    BY <1>3, <1>5, <1>7, <1>9, <1>11, <1>12, CountNumber
  <2>8. CountOf(a \o b, party) <= CountOf(a, party) + CountOf(b, party)
    BY <1>3, <1>5, CountConcat
  <2>9. CountOf(s, party) <= CountOf(a \o b, party) + CountOf(c, party)
    BY <1>7, <1>14, CountConcat
  <2>10. /\ CountOf(a \o b, party) \in Nat /\ CountOf(s, party) \in Nat
         /\ CountOf(s \o d, party) \in Nat /\ CountOf(s \o d \o e, party) \in Nat
         /\ CountOf(s \o d \o e \o f, party) \in Nat
    BY <1>14, <1>19, CountNumber
  <2> HIDE DEF s
  <2>11. CountOf(s \o d, party) <= CountOf(s, party) + CountOf(d, party)
    BY <1>9, <1>19, CountConcat
  <2>12. CountOf(s \o d \o e, party) <= CountOf(s \o d, party) + CountOf(e, party)
    BY <1>11, <1>19, CountConcat
  <2>13. CountOf(s \o d \o e \o f, party) <= CountOf(s \o d \o e, party) + CountOf(f, party)
    BY <1>12, <1>19, CountConcat
  <2>14. CountOf(s \o d \o e \o f, party)
           <= CountOf(a, party) + CountOf(b, party) + CountOf(c, party)
              + CountOf(d, party) + CountOf(e, party) + CountOf(f, party)
    BY <2>7, <2>8, <2>9, <2>10, <2>11, <2>12, <2>13
  <2> QED BY <1>1, <2>1, <2>2, <2>3, <2>4, <2>5, <2>6, <2>7, <2>10, <2>14
<1>21. PostureQuestions = s \o d \o e \o f
  BY <1>0
<1>22. \E i \in DOMAIN s : s[i].what = "time_service"
  BY <1>17
<1>23. \A k \in 1..4 : \E i \in DOMAIN s : s[i] = c[k]
  BY <1>17
<1> HIDE DEF s
<1>24. \E i \in DOMAIN PostureQuestions : PostureQuestions[i].what = "time_service"
  BY <1>19, <1>21, <1>22
<1>25. \A k \in DOMAIN FIREWALL_UNITS : \E i \in DOMAIN PostureQuestions :
         PostureQuestions[i].what = FIREWALL_UNITS[k] /\ PostureQuestions[i].whom = "systemd"
  <2> TAKE k \in DOMAIN FIREWALL_UNITS
  <2>1. k \in 1..4
    BY UnitNumbers
  <2>2. \E i \in DOMAIN PostureQuestions : PostureQuestions[i] = c[k]
    BY <1>19, <1>21, <1>23, <2>1
  <2> QED BY <1>8, <2>1, <2>2
<1>26. PostureQuestions \in Seq(Questions) /\ ClockFirst(PostureQuestions)
  BY <1>19, <1>21
<1>27. \A party : CountOf(PostureQuestions, party) <=
         IF party = "systemd" THEN 9 ELSE IF party = "kernel" THEN Addresses + 1
         ELSE IF party \in {"journald", "timedated", "firewalld", "packages"} THEN 1 ELSE 0
  BY <1>20, <1>21
<1> QED BY <1>24, <1>25, <1>26, <1>27

LEMMA ProgrammeFacts ==
  /\ Programme \in Seq(Questions) /\ ClockFirst(Programme)
  /\ \A what \in {"docker", "podman", "time_service"} :
       \E i \in DOMAIN Programme : Programme[i].what = what
  /\ \A k \in DOMAIN FIREWALL_UNITS : \E i \in DOMAIN Programme :
       Programme[i].what = FIREWALL_UNITS[k] /\ Programme[i].whom = "systemd"
  /\ \A party : party # "logs" => CountOf(Programme, party) <= TimesAsked(party)
<1> DEFINE m == MetricQuestions
           c == ContextQuestions
           p == PostureQuestions
           a == AppQuestions
           mc == m \o c
           mcp == mc \o p
<1>0. Programme = mcp \o a
  BY DEF Programme
<1>1. /\ m \in Seq(Questions) /\ ClockFirst(m) /\ c \in Seq(Questions) /\ ClockFirst(c)
      /\ p \in Seq(Questions) /\ ClockFirst(p) /\ a \in Seq(Questions) /\ ClockFirst(a)
  BY MetricPart, ContextPart, PosturePart, AppPart
<1> HIDE DEF m, c, p, a
<1>2. mc \in Seq(Questions) /\ ClockFirst(mc)
  <2>1. mc \in Seq(Questions)
    BY <1>1, ConcatFacts
  <2>2. ClockFirst(mc)
    BY <1>1, FirstConcat
  <2> QED BY <2>1, <2>2
<1>3. \A i \in DOMAIN c : \E j \in DOMAIN mc : mc[j] = c[i]
  BY <1>1, ConcatKeeps
<1> HIDE DEF mc
<1>4. mcp \in Seq(Questions) /\ ClockFirst(mcp)
  <2>1. mcp \in Seq(Questions)
    BY <1>1, <1>2, ConcatFacts
  <2>2. ClockFirst(mcp)
    BY <1>1, <1>2, FirstConcat
  <2> QED BY <2>1, <2>2
<1>5. \A i \in DOMAIN mc : \E j \in DOMAIN mcp : mcp[j] = mc[i]
  BY <1>1, <1>2, ConcatKeeps
<1>6. \A i \in DOMAIN p : \E j \in DOMAIN mcp : mcp[j] = p[i]
  BY <1>1, <1>2, ConcatKeeps
<1> HIDE DEF mcp
<1>7. Programme \in Seq(Questions) /\ ClockFirst(Programme)
  BY <1>0, <1>1, <1>4, ConcatFacts, FirstConcat
<1>8. \A i \in DOMAIN mcp : \E j \in DOMAIN Programme : Programme[j] = mcp[i]
  BY <1>0, <1>1, <1>4, ConcatKeeps
<1>9. \A i \in DOMAIN c : \E j \in DOMAIN Programme : Programme[j] = c[i]
  BY <1>3, <1>5, <1>8
<1>10. \A i \in DOMAIN p : \E j \in DOMAIN Programme : Programme[j] = p[i]
  BY <1>6, <1>8
<1>11. \A what \in {"docker", "podman", "time_service"} :
         \E i \in DOMAIN Programme : Programme[i].what = what
  <2>1. \A what \in {"docker", "podman"} : \E i \in DOMAIN c : c[i].what = what
    BY ContextPart DEF c
  <2>2. \E i \in DOMAIN p : p[i].what = "time_service"
    BY PosturePart DEF p
  <2> QED BY <1>9, <1>10, <2>1, <2>2
<1>12. \A k \in DOMAIN FIREWALL_UNITS : \E i \in DOMAIN Programme :
         Programme[i].what = FIREWALL_UNITS[k] /\ Programme[i].whom = "systemd"
  <2> TAKE k \in DOMAIN FIREWALL_UNITS
  <2>1. \E i \in DOMAIN p : p[i].what = FIREWALL_UNITS[k] /\ p[i].whom = "systemd"
    BY PosturePart DEF p
  <2> QED BY <1>10, <2>1
<1>13. ASSUME NEW party, party # "logs" PROVE CountOf(Programme, party) <= TimesAsked(party)
  <2>1. CountOf(m, party) <= IF party = "disk" THEN 2 ELSE IF party = "kernel" THEN 1 ELSE 0
    BY MetricPart DEF m
  <2>2. CountOf(c, party) <= IF party = "systemd" THEN Cardinality(Watched) + 1
                             ELSE IF party \in {"kernel", "docker", "podman"} THEN 1 ELSE 0
    BY <1>13, ContextPart DEF c
  <2>3. CountOf(p, party) <=
          IF party = "systemd" THEN 9 ELSE IF party = "kernel" THEN Addresses + 1
          ELSE IF party \in {"journald", "timedated", "firewalld", "packages"} THEN 1 ELSE 0
    BY PosturePart DEF p
  <2>4. CountOf(a, party) <= IF party = "kernel" \/ party \in Endpoints THEN 1 ELSE 0
    BY AppPart DEF a
  <2>5. /\ CountOf(m, party) \in Nat /\ CountOf(c, party) \in Nat /\ CountOf(p, party) \in Nat
        /\ CountOf(a, party) \in Nat /\ CountOf(mc, party) \in Nat /\ CountOf(mcp, party) \in Nat
        /\ CountOf(Programme, party) \in Nat
    BY <1>1, <1>2, <1>4, <1>7, CountNumber
  <2>6. CountOf(mc, party) <= CountOf(m, party) + CountOf(c, party)
    BY <1>1, CountConcat DEF mc
  <2>7. CountOf(mcp, party) <= CountOf(mc, party) + CountOf(p, party)
    BY <1>1, <1>2, CountConcat DEF mcp
  <2>8. CountOf(Programme, party) <= CountOf(mcp, party) + CountOf(a, party)
    BY <1>0, <1>1, <1>4, CountConcat
  <2>9. CountOf(Programme, party)
          <= CountOf(m, party) + CountOf(c, party) + CountOf(p, party) + CountOf(a, party)
    BY <2>5, <2>6, <2>7, <2>8
  <2>10. party \in Endpoints => party \notin
           {"disk", "kernel", "systemd", "docker", "podman", "journald", "timedated", "firewalld",
            "packages"}
    <3>1. "firewalld" \in {FIREWALL_UNITS[i] : i \in DOMAIN FIREWALL_UNITS}
      BY UnitNumbers
    <3> QED BY <3>1, BudgetAssumption DEF OtherNames
  <2>11. Cardinality(Watched) \in Nat /\ Addresses \in Nat
    BY BudgetAssumption, FS_CardinalityType
  <2> QED BY <2>1, <2>2, <2>3, <2>4, <2>5, <2>9, <2>10, <2>11 DEF TimesAsked
<1> QED BY <1>7, <1>11, <1>12, <1>13
LEMMA PartiesFinite == IsFiniteSet(Parties)
<1> DEFINE n == Len(Programme)
           f == [i \in 1..n |-> Programme[i].whom]
<1>1. Programme \in Seq(Questions) /\ n \in Nat /\ DOMAIN Programme = 1..n
  BY ProgrammeFacts
<1>2. f \in Surjection(1..n, Parties)
  BY <1>1 DEF Surjection, Parties
<1> HIDE DEF f
<1> QED BY <1>1, <1>2, FS_Interval, FS_Surjection

\* The question a run is about to ask is one of the programme's.
LEMMA ThePresent ==
  ASSUME asked \in Nat, asked < Len(Programme)
  PROVE  /\ Len(Programme) \in Nat /\ asked + 1 \in DOMAIN Programme /\ Present = Programme[asked + 1]
         /\ Present \in Questions /\ Present.whom \in Parties
         /\ Present.what \in {Programme[i].what : i \in DOMAIN Programme}
<1>1. Programme \in Seq(Questions)
  BY ProgrammeFacts
<1>2. Len(Programme) \in Nat /\ DOMAIN Programme = 1..Len(Programme)
  BY <1>1
<1>3. asked + 1 \in DOMAIN Programme
  BY <1>2
<1>4. Programme[asked + 1] \in Questions
  BY <1>1, <1>3
<1> QED BY <1>2, <1>3, <1>4 DEF Present, Parties

\* A party waited for once more has been asked once more.
LEMMA AskedNumber ==
  ASSUME NEW n \in Nat, NEW party
  PROVE  /\ Cardinality(AskedOf(n, party)) \in Nat /\ Cardinality(AskedOf(n + 1, party)) \in Nat
         /\ Cardinality(AskedOf(n, party)) <= Cardinality(AskedOf(n + 1, party))
         /\ Programme[n + 1].whom = party =>
              Cardinality(AskedOf(n + 1, party)) = Cardinality(AskedOf(n, party)) + 1
<1> DEFINE before == AskedOf(n, party)
           now    == AskedOf(n + 1, party)
<1>1. IsFiniteSet(1..n) /\ IsFiniteSet(1..n + 1)
  BY FS_Interval
<1>2. before \in SUBSET (1..n) /\ now \in SUBSET (1..n + 1) /\ before \in SUBSET now
  BY DEF AskedOf
<1>3. Programme[n + 1].whom = party => now = before \cup {n + 1} /\ n + 1 \notin before
  BY DEF AskedOf
<1> HIDE DEF before, now
<1>4. IsFiniteSet(before) /\ IsFiniteSet(now)
  BY <1>1, <1>2, FS_Subset
<1>5. Cardinality(before) \in Nat /\ Cardinality(now) \in Nat /\ Cardinality(before) <= Cardinality(now)
  BY <1>2, <1>4, FS_CardinalityType, FS_Subset
<1>6. Programme[n + 1].whom = party => Cardinality(now) = Cardinality(before) + 1
  BY <1>3, <1>4, FS_AddElement
<1> QED BY <1>4, <1>5, <1>6 DEF before, now

-----------------------------------------------------------------------------
(* The invariant. *)

LEMMA BudgetInitially == BudgetInit => BudgetInv
<1> SUFFICES ASSUME BudgetInit PROVE BudgetInv
  OBVIOUS
<1>1. Len(Programme) \in Nat
  BY ProgrammeFacts
<1>2. BudgetTypeOK
  BY <1>1, BudgetAssumption DEF BudgetInit, BudgetTypeOK
<1>3. OnlyOneWaits
  <2> SUFFICES ASSUME NEW party \in Parties
               PROVE  elapsed <= LimitOf(party) * AskedSoFar(party)
    BY DEF OnlyOneWaits
  <2>1. AskedOf(asked, party) = {}
    BY DEF AskedOf, BudgetInit
  <2>2. AskedSoFar(party) = 0 /\ LimitOf(party) \in Nat /\ elapsed = 0
    BY <2>1, FS_EmptySet, LimitNumber DEF BudgetInit, AskedSoFar
  <2> QED BY <2>2
<1> QED BY <1>2, <1>3 DEF BudgetInit, BudgetInv

\* A concluded question stays so while more is heard and more falters or fails.
LEMMA ConcludedStays ==
  ASSUME NEW q, Concluded(q), heard \subseteq heard', faltered \subseteq faltered',
         denied \subseteq denied'
  PROVE  Concluded(q)'
BY DEF Concluded

\* The run moves on to its next question.
LEMMA MovesOn ==
  ASSUME NEW q, q = Present, BudgetInv, Moves, outcome = "under_way", asked < Len(Programme),
         heard \subseteq heard', heard' \subseteq heard \cup {q.what}, Concluded(q)',
         denied \subseteq denied', denied' \subseteq denied \cup {q.what}
  PROVE  /\ asked' \in 0..Len(Programme) /\ heard' \subseteq {Programme[i].what : i \in DOMAIN Programme}
         /\ denied' \subseteq {Programme[i].what : i \in DOMAIN Programme}
         /\ (\A i \in 1..asked : Concluded(Programme[i]))'
         /\ (outcome = "reported" => asked = Len(Programme))'
         /\ stalled' \subseteq faltered'
<1>1. asked \in Nat /\ asked' = asked + 1 /\ faltered' = faltered
  BY DEF BudgetInv, BudgetTypeOK, Moves
<1>2. /\ asked' \in 0..Len(Programme) /\ heard' \subseteq {Programme[i].what : i \in DOMAIN Programme}
      /\ denied' \subseteq {Programme[i].what : i \in DOMAIN Programme}
  BY <1>1, ThePresent DEF BudgetInv, BudgetTypeOK
<1>3. ASSUME NEW i \in 1..asked' PROVE Concluded(Programme[i])'
  <2>1. CASE i \in 1..asked
    <3>1. Concluded(Programme[i])
      BY <2>1 DEF BudgetInv
    <3> QED BY <1>1, <3>1, ConcludedStays
  <2>2. CASE i = asked + 1
    <3>1. q = Programme[i]
      BY <1>1, <2>2, ThePresent
    <3> QED BY <3>1
  <2> QED BY <1>1, <2>1, <2>2
<1>4. outcome' = "under_way" /\ stalled' = stalled
  BY DEF Moves
<1> QED BY <1>1, <1>2, <1>3, <1>4 DEF BudgetInv
\* Before the time services the clock was asked for, so they are only skipped when it
\* did not answer.
LEMMA SkipsConcluded ==
  ASSUME NEW q, q = Present, BudgetInv, outcome = "under_way", asked < Len(Programme), ~IsAsked(q)
  PROVE  Concluded(q)
<1>1. /\ asked \in Nat /\ asked + 1 \in DOMAIN Programme /\ q = Programme[asked + 1]
      /\ Len(Programme) \in Nat
  BY ThePresent DEF BudgetInv, BudgetTypeOK
<1>2. Missing \subseteq {"docker", "podman"}
  BY DEF Missing
<1>3. q.what # "time_service" =>
        q.what \in {"podman", "walk", "zone", "neighbour", "self", "reboot"}
  BY DEF IsAsked
<1>4. q.what = "podman" => "docker" \in heard
  BY DEF IsAsked
<1>5. q.what = "self" => Endpoints = {}
  BY DEF IsAsked
<1>6. ~(/\ q.what = "time_service" /\ {"systemd", "timedated"} \cap faltered = {}
        /\ {"clock", "time_service"} \cap denied = {})
  <2> SUFFICES ASSUME q.what = "time_service", {"systemd", "timedated"} \cap faltered = {},
                      {"clock", "time_service"} \cap denied = {}
               PROVE  FALSE
    OBVIOUS
  <2>1. "clock" \notin heard
    BY DEF IsAsked
  <2>2. PICK j \in 1..(asked + 1) - 1 : Programme[j].what = "clock"
    BY <1>1, ProgrammeFacts DEF ClockFirst
  <2>3. j \in 1..asked
    BY <1>1, <2>2
  <2>4. Programme[j] \in Questions
    <3>1. Programme \in Seq(Questions) /\ j \in 1..Len(Programme)
      BY <1>1, <2>3, ProgrammeFacts
    <3> QED BY <3>1
  <2>5. Programme[j].whom = "timedated"
    BY <2>2, <2>4, QuestionFacts
  <2>6. Concluded(Programme[j])
    BY <2>3 DEF BudgetInv
  <2> QED BY <1>2, <2>1, <2>2, <2>5, <2>6 DEF Concluded, Dependent
<1> QED BY <1>3, <1>4, <1>5, <1>6 DEF Concluded, Dependent

\* All but the waiting: a step that takes no time.
LEMMA WaitsStay ==
  ASSUME BudgetInv, elapsed' = elapsed, asked' \in {asked, asked + 1}, faltered \subseteq faltered'
  PROVE  OnlyOneWaits'
<1> SUFFICES ASSUME NEW party \in Parties, faltered' \subseteq {party}
             PROVE  elapsed' <= LimitOf(party) * AskedSoFar(party)'
  BY DEF OnlyOneWaits
<1>1. elapsed <= LimitOf(party) * AskedSoFar(party)
  BY DEF BudgetInv, OnlyOneWaits
<1>2. elapsed \in Nat /\ asked \in Nat
  BY BudgetAssumption DEF BudgetInv, BudgetTypeOK
<1> DEFINE c == AskedSoFar(party)
           d == AskedSoFar(party)'
<1>3. c \in Nat /\ d \in Nat /\ c <= d
  <2>1. c = Cardinality(AskedOf(asked, party)) /\ d = Cardinality(AskedOf(asked', party))
    BY DEF AskedSoFar, AskedOf
  <2>2. c \in Nat
    BY <1>2, <2>1, AskedNumber
  <2>3. CASE asked' = asked
    BY <2>1, <2>2, <2>3
  <2>4. CASE asked' = asked + 1
    <3>1. d = Cardinality(AskedOf(asked + 1, party))
      BY <2>1, <2>4
    <3> HIDE DEF c, d
    <3> QED BY <1>2, <2>1, <3>1, AskedNumber
  <2> QED BY <2>3, <2>4
<1>4. LimitOf(party) \in Nat
  BY LimitNumber
<1> HIDE DEF c, d
<1>5. LimitOf(party) * c <= LimitOf(party) * d /\ LimitOf(party) * c \in Int /\ LimitOf(party) * d \in Int
  <2> DEFINE l == LimitOf(party)
  <2>1. l \in Nat
    BY <1>4
  <2> HIDE DEF l
  <2>2. l * c <= l * d /\ l * c \in Int /\ l * d \in Int
    BY <1>3, <2>1
  <2> QED BY <2>2 DEF l
<1>6. elapsed <= LimitOf(party) * c
  BY <1>1 DEF c
<1> QED BY <1>2, <1>5, <1>6 DEF d

\* Only one party waited for: its questions and their timeouts bound the time.
LEMMA WaitsMore ==
  ASSUME BudgetInv, TimeRunsOut
  PROVE  OnlyOneWaits'
<1> SUFFICES ASSUME NEW party \in Parties, faltered' \subseteq {party}
             PROVE  elapsed' <= LimitOf(party) * AskedSoFar(party)'
  BY DEF OnlyOneWaits
<1>1. /\ elapsed' = elapsed + Present.limit /\ asked' = asked + 1 /\ faltered' = faltered
      /\ Present.whom \in stalled /\ asked < Len(Programme)
  BY DEF TimeRunsOut, Moves, Asking, Waits
<1>2. elapsed \in Nat /\ asked \in Nat
  BY BudgetAssumption DEF BudgetInv, BudgetTypeOK
<1>3. Present = Programme[asked + 1] /\ Present \in Questions
  BY <1>1, <1>2, ThePresent
<1>4. Present.whom = party
  BY <1>1 DEF BudgetInv
<1>5. Present.limit \in Nat /\ Present.limit <= LimitOf(party)
  BY <1>3, <1>4, QuestionFacts
<1>6. elapsed <= LimitOf(party) * AskedSoFar(party)
  BY <1>1 DEF BudgetInv, OnlyOneWaits
<1> DEFINE c == AskedSoFar(party)
           d == AskedSoFar(party)'
           l == LimitOf(party)
           m == Present.limit
<1>7. c \in Nat /\ d = c + 1
  <2>1. c = Cardinality(AskedOf(asked, party)) /\ d = Cardinality(AskedOf(asked', party))
    BY DEF AskedSoFar, AskedOf
  <2>2. d = Cardinality(AskedOf(asked + 1, party)) /\ Programme[asked + 1].whom = party
    BY <1>1, <1>3, <1>4, <2>1
  <2> HIDE DEF c, d
  <2> QED BY <1>2, <2>1, <2>2, AskedNumber
<1>8. l \in Nat /\ m \in Nat /\ m <= l /\ elapsed <= l * c /\ elapsed' = elapsed + m
  BY <1>1, <1>5, <1>6, LimitNumber
<1> HIDE DEF c, d, l, m
<1>9. l * d = l * c + l /\ l * c \in Int
  BY <1>7, <1>8
<1>10. elapsed' <= l * d
  BY <1>2, <1>8, <1>9
<1> QED BY <1>10 DEF l, d

LEMMA BudgetStep == BudgetInv /\ [BudgetNext]_budgetVars => BudgetInv'
<1> SUFFICES ASSUME BudgetInv, [BudgetNext]_budgetVars PROVE BudgetInv'
  OBVIOUS
<1>0. asked \in Nat /\ elapsed \in Nat /\ Len(Programme) \in Nat
  BY BudgetAssumption, ProgrammeFacts DEF BudgetInv, BudgetTypeOK
<1>a. PICK q : q = Present
  OBVIOUS
<1>1. ASSUME Moves, outcome = "under_way", asked < Len(Programme), heard \subseteq heard',
             heard' \subseteq heard \cup {q.what}, Concluded(q)', OnlyOneWaits', elapsed' \in 0..StartLimit - 1,
             denied \subseteq denied', denied' \subseteq denied \cup {q.what}, turns' \in 0..MaxTurns
      PROVE  BudgetInv'
  <2>1. BudgetTypeOK'
    BY <1>a, <1>1, MovesOn DEF BudgetInv, BudgetTypeOK, Moves
  <2> QED BY <1>a, <1>1, <2>1, MovesOn DEF BudgetInv
<1>2. CASE Skips
  <2>1. /\ Moves /\ outcome = "under_way" /\ asked < Len(Programme) /\ ~IsAsked(q)
        /\ heard' = heard /\ elapsed' = elapsed /\ faltered' = faltered /\ asked' = asked + 1
        /\ denied' = denied /\ turns' = turns
    BY <1>2, <1>a DEF Skips, Moves
  <2>2. Concluded(q)'
    BY <1>a, <2>1, SkipsConcluded, ConcludedStays
  <2>3. OnlyOneWaits' /\ elapsed' \in 0..StartLimit - 1 /\ turns' \in 0..MaxTurns
    BY <2>1, WaitsStay DEF BudgetInv, BudgetTypeOK
  <2> QED BY <1>1, <2>1, <2>2, <2>3
<1>3. CASE Answers
  <2>1. /\ Moves /\ outcome = "under_way" /\ asked < Len(Programme)
        /\ heard' = heard \cup ({q.what} \ Missing) /\ elapsed' = elapsed /\ faltered' = faltered
        /\ asked' = asked + 1 /\ denied' = denied /\ turns' = turns
    BY <1>3, <1>a DEF Answers, Asking, Moves
  <2>2. Concluded(q)'
    BY <2>1 DEF Concluded, Missing
  <2>3. OnlyOneWaits' /\ elapsed' \in 0..StartLimit - 1 /\ turns' \in 0..MaxTurns
    BY <2>1, WaitsStay DEF BudgetInv, BudgetTypeOK
  <2> QED BY <1>1, <2>1, <2>2, <2>3
<1>4. CASE TimeRunsOut
  <2>1. /\ Moves /\ outcome = "under_way" /\ asked < Len(Programme)
        /\ heard \subseteq heard' /\ heard' \subseteq heard \cup {q.what}
        /\ elapsed' = elapsed + q.limit /\ elapsed + q.limit < StartLimit
        /\ faltered' = faltered /\ q.whom \in stalled /\ denied' = denied /\ turns' = turns
    BY <1>4, <1>a DEF TimeRunsOut, Asking, Moves, Waits, Fits
  <2>2. q.whom \in faltered' /\ q \in Questions
    BY <1>0, <1>a, <2>1, ThePresent DEF BudgetInv
  <2>3. /\ q.what = "podman" => q.whom = "podman"
        /\ q.what = "time_service" => q.whom = "systemd"
        /\ q.limit \in Nat
    BY <2>2, QuestionFacts
  <2>4. Concluded(q)'
    BY <2>2, <2>3 DEF Concluded
  <2>5. OnlyOneWaits'
    BY <1>4, WaitsMore
  <2>6. elapsed' \in 0..StartLimit - 1 /\ turns' \in 0..MaxTurns
    BY <1>0, <2>1, <2>3, BudgetAssumption DEF BudgetInv, BudgetTypeOK
  <2> QED BY <1>1, <2>1, <2>4, <2>5, <2>6
<1>b. CASE AtOnce
  <2>1. /\ Moves /\ outcome = "under_way" /\ asked < Len(Programme)
        /\ heard' = heard /\ elapsed' = elapsed /\ faltered' = faltered /\ asked' = asked + 1
        /\ denied' = denied \cup {q.what} /\ turns' = turns + 1 /\ turns < MaxTurns
    BY <1>a, <1>b DEF AtOnce, Asking, Moves
  <2>2. Concluded(q)'
    BY <2>1 DEF Concluded
  <2>3. OnlyOneWaits' /\ elapsed' \in 0..StartLimit - 1
    BY <2>1, WaitsStay DEF BudgetInv, BudgetTypeOK
  <2>4. turns' \in 0..MaxTurns
    BY <2>1, BudgetAssumption DEF BudgetInv, BudgetTypeOK
  <2> QED BY <1>1, <2>1, <2>2, <2>3, <2>4
<1>5. ASSUME UNCHANGED <<asked, heard, elapsed, denied>>, faltered \subseteq faltered', stalled' \subseteq faltered',
             BudgetTypeOK', (outcome = "reported" => asked = Len(Programme))'
      PROVE  BudgetInv'
  <2>1. OnlyOneWaits'
    BY <1>5, WaitsStay
  <2>2. ASSUME NEW i \in 1..asked' PROVE Concluded(Programme[i])'
    <3>1. Concluded(Programme[i])
      BY <1>5, <2>2 DEF BudgetInv
    <3> QED BY <1>5, <3>1, ConcludedStays
  <2> QED BY <1>5, <2>1, <2>2 DEF BudgetInv
<1>6. CASE IsKilled \/ Finishes
  <2>1. BudgetTypeOK' /\ (outcome = "reported" => asked = Len(Programme))'
    BY <1>6 DEF IsKilled, Finishes, BudgetInv, BudgetTypeOK
  <2> QED BY <1>5, <1>6, <2>1 DEF IsKilled, Finishes, BudgetInv
<1>7. CASE Again
  <2>1. BudgetInit'
    BY <1>7 DEF Again, BudgetInit
  <2>2. BudgetInit' => BudgetInv'
    BY BudgetInitially, PTL
  <2> QED BY <2>1, <2>2
<1>8. ASSUME NEW party \in Parties, Turns(party)
      PROVE  BudgetInv'
  <2>1. BudgetTypeOK'
    BY <1>8, BudgetAssumption DEF Turns, BudgetInv, BudgetTypeOK
  <2>2. stalled' \subseteq faltered' /\ (outcome = "reported" => asked = Len(Programme))'
    BY <1>8 DEF Turns, BudgetInv
  <2> QED BY <1>5, <1>8, <2>1, <2>2 DEF Turns
<1>9. CASE UNCHANGED budgetVars
  <2>1. BudgetTypeOK' /\ stalled' \subseteq faltered' /\ (outcome = "reported" => asked = Len(Programme))'
    BY <1>9 DEF budgetVars, BudgetInv, BudgetTypeOK
  <2> QED BY <1>5, <1>9, <2>1 DEF budgetVars
<1> QED BY <1>2, <1>3, <1>4, <1>b, <1>6, <1>7, <1>8, <1>9 DEF BudgetNext

LEMMA BudgetInvariant == BudgetSpec => []BudgetInv
BY BudgetInitially, BudgetStep, PTL DEF BudgetSpec

\* Type correctness: in particular, a run that still asks has time left.
THEOREM BudgetTypeCorrect == BudgetSpec => []BudgetTypeOK
<1>1. BudgetInv => BudgetTypeOK
  BY DEF BudgetInv
<1> QED BY <1>1, BudgetInvariant, PTL

-----------------------------------------------------------------------------
(* What is read, and what has a run killed. *)

\* What stalls or fails costs the report its own answers and no others, whatever the
\* host and however often things stall, recover and fail.
THEOREM StillReadsCorrect == BudgetSpec => []StillReads
<1>1. BudgetInv => StillReads
  <2> SUFFICES ASSUME BudgetInv, outcome = "reported" PROVE StillReads
    BY DEF StillReads
  <2>1. Programme \in Seq(Questions) /\ DOMAIN Programme = 1..Len(Programme)
    BY ProgrammeFacts
  <2>2. \A i \in DOMAIN Programme : Programme[i] \in Questions /\ Concluded(Programme[i])
    BY <2>1 DEF BudgetInv
  <2>3. ASSUME NEW i \in DOMAIN Programme,
               Programme[i].whom \notin faltered, Programme[i].what \notin denied,
               Programme[i].what \notin {"docker", "podman"} \cup Dependent,
               Programme[i].what = "self" => Endpoints # {}
        PROVE  Programme[i].what \in heard
    BY <2>2, <2>3 DEF Concluded, Missing
  <2>4. ASSUME Runtimes \ (faltered \cup denied) # {} PROVE {"docker", "podman"} \cap heard # {}
    <3>1. CASE "docker" \in Runtimes \ (faltered \cup denied)
      <4>1. PICK i \in DOMAIN Programme : Programme[i].what = "docker"
        BY ProgrammeFacts
      <4>2. Programme[i].whom = "docker"
        BY <2>2, <4>1, QuestionFacts
      <4> QED BY <2>2, <3>1, <4>1, <4>2 DEF Concluded, Missing, Dependent
    <3>2. CASE "podman" \in Runtimes \ (faltered \cup denied)
      <4>1. PICK i \in DOMAIN Programme : Programme[i].what = "podman"
        BY ProgrammeFacts
      <4> QED BY <2>2, <3>2, <4>1 DEF Concluded
    <3> QED BY <2>4, <3>1, <3>2, BudgetAssumption
  <2>5. ASSUME {"systemd", "timedated"} \cap faltered = {}, {"clock", "time_service"} \cap denied = {}
        PROVE  "time_service" \in heard
    <3>1. PICK i \in DOMAIN Programme : Programme[i].what = "time_service"
      BY ProgrammeFacts
    <3> QED BY <2>2, <2>5, <3>1 DEF Concluded
  <2>6. ASSUME \A u \in Firewalls : ~Active(u), ~(Firewalls \subseteq denied)
        PROVE  "systemd" \in faltered
    <3>1. PICK u \in Firewalls : u \notin heard /\ u \notin denied
      BY <2>6 DEF Active
    <3>2. PICK k \in DOMAIN FIREWALL_UNITS : u = FIREWALL_UNITS[k]
      BY BudgetAssumption
    <3>3. PICK i \in DOMAIN Programme : Programme[i].what = u /\ Programme[i].whom = "systemd"
      BY <3>2, ProgrammeFacts
    <3>4. u \in {"firewalld", "ufw", "nftables", "iptables"}
      BY <3>2, UnitNumbers
    <3> QED BY <2>3, <3>1, <3>3, <3>4 DEF Dependent
  <2> QED BY <2>3, <2>4, <2>5, <2>6 DEF StillReads
<1> QED BY <1>1, BudgetInvariant, PTL

\* One party that stalls, and that its timeouts bound, cannot use up the time.
LEMMA OnePartyFits ==
  ASSUME OneFits, BudgetInv, asked < Len(Programme), NEW party, Present.whom = party,
         party # "logs", faltered \subseteq {party}
  PROVE  Fits
<1>1. asked \in Nat /\ elapsed \in Nat
  BY BudgetAssumption DEF BudgetInv, BudgetTypeOK
<1>2. /\ Present = Programme[asked + 1] /\ Present \in Questions /\ party \in Parties
      /\ asked + 1 \in DOMAIN Programme /\ Len(Programme) \in Nat
  BY <1>1, ThePresent
<1> DEFINE c == AskedSoFar(party)
           n == CountOf(Programme, party)
           t == TimesAsked(party)
           l == LimitOf(party)
           m == Present.limit
<1>3. elapsed <= l * c
  BY <1>2 DEF BudgetInv, OnlyOneWaits
<1>4. l \in Nat /\ m \in Nat /\ m <= l
  BY <1>2, QuestionFacts, LimitNumber
<1>5. c \in Nat /\ n \in Nat /\ c + 1 <= n
  <2> DEFINE now == AskedOf(asked + 1, party)
             all == {i \in DOMAIN Programme : Programme[i].whom = party}
  <2>1. c \in Nat /\ Cardinality(now) = c + 1
    BY <1>1, <1>2, AskedNumber DEF AskedSoFar
  <2>2. Programme \in Seq(Questions) /\ DOMAIN Programme = 1..Len(Programme)
    BY ProgrammeFacts
  <2>3. IsFiniteSet(all) /\ n \in Nat /\ n = Cardinality(all)
    BY <2>2, CountNumber DEF CountOf
  <2>4. now \in SUBSET all
    BY <1>1, <1>2, <2>2 DEF AskedOf
  <2> HIDE DEF c, n, now, all
  <2>5. Cardinality(now) <= Cardinality(all)
    BY <2>3, <2>4, FS_Subset
  <2> QED BY <2>1, <2>3, <2>5
<1>6. n <= t
  BY ProgrammeFacts
<1>7. t \in Nat /\ l * t < StartLimit
  <2>1. Cardinality(Watched) \in Nat /\ Addresses \in Nat /\ StartLimit \in Nat
    BY BudgetAssumption, FS_CardinalityType
  <2> QED BY <2>1 DEF OneFits, TimesAsked, LimitOf, Timeout
<1>8. StartLimit \in Nat /\ (Fits <=> elapsed + m < StartLimit)
  BY BudgetAssumption DEF Fits
<1> HIDE DEF c, n, t, l, m
<1>9. l * c + l <= l * t /\ l * c \in Int /\ l * t \in Int
  <2>1. c + 1 <= t
    BY <1>5, <1>6, <1>7
  <2>2. l * c + l = l * (c + 1) /\ l * (c + 1) <= l * t
    BY <1>4, <1>5, <1>7, <2>1
  <2> QED BY <1>4, <1>5, <1>7, <2>2
<1> QED BY <1>1, <1>3, <1>4, <1>7, <1>8, <1>9

\* A run is killed only when two things stalled in it, or one that no timeout bounds:
\* for every host whose units and virtual addresses are few enough for OneFits.
THEOREM KilledMeansTwoTroublesCorrect == OneFits => (BudgetSpec => []KilledMeansTwoTroubles)
<1> SUFFICES ASSUME OneFits PROVE BudgetSpec => []KilledMeansTwoTroubles
  OBVIOUS
<1>1. BudgetInit => KilledMeansTwoTroubles
  BY DEF BudgetInit, KilledMeansTwoTroubles
<1>2. BudgetInv /\ KilledMeansTwoTroubles /\ [BudgetNext]_budgetVars => KilledMeansTwoTroubles'
  <2> SUFFICES ASSUME BudgetInv, KilledMeansTwoTroubles, [BudgetNext]_budgetVars,
                      outcome' = "killed"
               PROVE  (Cardinality(faltered) >= 2 \/ faltered \cap (Endless \cup {"logs"}) # {})'
    BY DEF KilledMeansTwoTroubles
  <2>1. CASE outcome = "killed" /\ faltered' = faltered
    BY <2>1 DEF KilledMeansTwoTroubles
  <2>2. CASE IsKilled
    <3> DEFINE party == Present.whom
    <3>1. /\ asked < Len(Programme) /\ party \in stalled /\ (Unbounded \/ ~Fits)
          /\ faltered' = faltered
      BY <2>2 DEF IsKilled, Asking, Waits
    <3>2. party \in faltered /\ asked \in Nat
      BY <3>1 DEF BudgetInv, BudgetTypeOK
    <3>3. IsFiniteSet(faltered) /\ Cardinality(faltered) \in Nat
      <4>1. faltered \in SUBSET Parties
        BY DEF BudgetInv, BudgetTypeOK
      <4> QED BY <4>1, PartiesFinite, FS_Subset, FS_CardinalityType
    <3>4. Present \in Questions
      BY <3>1, <3>2, ThePresent
    <3>5. Present.what = "walk" => party = "logs"
      BY <3>4, QuestionFacts
    <3>6. CASE party \in Endless \cup {"logs"}
      BY <3>1, <3>2, <3>6
    <3>7. CASE party \notin Endless \cup {"logs"}
      <4>1. ~Fits
        BY <3>1, <3>5, <3>7 DEF Unbounded
      <4>2. ~(faltered \subseteq {party})
        BY <3>1, <3>7, <4>1, OnePartyFits
      <4>3. PICK other \in faltered : other # party
        BY <4>2
      <4>4. {party, other} \in SUBSET faltered /\ Cardinality({party, other}) = 2
        <5>1. IsFiniteSet({party}) /\ Cardinality({party}) = 1
          BY FS_Singleton
        <5>2. {party, other} = {party} \cup {other} /\ other \notin {party}
          BY <4>3
        <5> HIDE DEF party
        <5>3. Cardinality({party} \cup {other}) = 2
          BY <5>1, <5>2, FS_AddElement
        <5> QED BY <3>2, <4>3, <5>2, <5>3
      <4> HIDE DEF party
      <4>5. 2 <= Cardinality(faltered)
        BY <3>3, <4>4, FS_Subset
      <4> QED BY <3>1, <3>3, <4>5
    <3> QED BY <3>6, <3>7
  <2>3. CASE ~IsKilled
    <3>1. outcome = "killed" /\ faltered' = faltered
      BY <2>3 DEF BudgetNext, Skips, Answers, AtOnce, TimeRunsOut, Finishes, Again, Turns, Moves,
                  budgetVars
    <3> QED BY <2>1, <3>1
  <2> QED BY <2>2, <2>3
<1> QED BY <1>1, <1>2, BudgetInvariant, PTL DEF BudgetSpec

-----------------------------------------------------------------------------
(* ReportView: the way of a report to its reader. *)

\* What build_view makes of the report.
Built == InMode(options.mode) \cap collected.fields

\* What is in the view when it is written, and how often it was formatted by then.
InView ==
  IF options.human /\ "uptime_seconds" \in Built
  THEN (Built \ {"uptime_seconds"}) \cup {"uptime"} ELSE Built

TheView == [f \in InView |-> IF options.human THEN 1 ELSE 0]

\* The output of the command's kind, the row's colour and the exit code follow from it.
TheOutput ==
  IF options.html
  THEN [f \in InView \ {"uptime"} |-> IF options.human \/ f \in OnPage THEN 1 ELSE 0]
  ELSE TheView

TheColour ==
  IF options.html /\ ~options.human /\ FilesystemFields \subseteq Built
  THEN Colour(collected.level, 0) ELSE "none"

ViewInv ==
  /\ options \in Options /\ collected \in Collections
  /\ doing_main \in {"build", "humanize", "write", "exit", "over"}
  /\ doing_main = "build" => view = <<>>
  /\ doing_main = "humanize" => view = [f \in Built |-> 0]
  /\ doing_main \in {"write", "exit", "over"} => view = TheView
  /\ IF Written THEN output = TheOutput /\ colour = TheColour ELSE output = <<>> /\ colour = "none"
  /\ exit_code = IF doing_main = "over" /\ options.exits THEN Code(collected.status) ELSE 0

LEMMA ModeFields ==
  ASSUME NEW mode \in {"simple", "default", "all"}
  PROVE  /\ InMode(mode) \subseteq InMode("all") /\ InMode(mode) \subseteq Fields
         /\ Core \subseteq InMode(mode) /\ "uptime" \in Fields
         /\ "uptime" \notin InMode(mode) /\ "uptime" \notin Core
<1>1. "uptime" \notin Core
  BY DEF Core, Required, DiskIO, FilesystemFields, Pressure
<1>2. "uptime" \notin Core \cup {"uptime_seconds", "size_bytes"} \cup Processes
  BY <1>1 DEF Processes
<1>3. CASE mode = "simple"
  BY <1>1, <1>2, <1>3 DEF InMode, Fields
<1>4. CASE mode = "default"
  BY <1>1, <1>2, <1>4 DEF InMode, Fields
<1>5. CASE mode = "all"
  BY <1>1, <1>2, <1>5 DEF InMode, Fields
<1> QED BY <1>3, <1>4, <1>5

\* The fields of the file systems are missing only if both are, and then the verdict
\* is not about them.
LEMMA CollectionFacts ==
  ASSUME NEW c \in Collections
  PROVE  /\ c.level \in 0..100 /\ c.limits.warn \in 0..100 /\ c.limits.crit \in 0..100
         /\ c.status \in {"HEALTHY", "WARNING", "CRITICAL"}
         /\ FilesystemFields \subseteq c.fields => c.status = Verdict(c.level, c.limits)
<1>1. PICK level \in DiskLevels, limits \in DiskLimits, missing \in SUBSET Sometimes :
        c = Collection(level, limits, missing)
  BY DEF Collections
<1>2. /\ c.fields = InMode("all") \ UNION missing /\ c.level = level /\ c.limits = limits
      /\ c.status = IF FilesystemFields \in missing THEN "HEALTHY" ELSE Verdict(level, limits)
  BY <1>1 DEF Collection
<1>3. level \in 0..100 /\ limits.warn \in 0..100 /\ limits.crit \in 0..100
  BY ViewAssumption
<1>4. FilesystemFields \subseteq c.fields => FilesystemFields \notin missing
  BY <1>2 DEF FilesystemFields
<1>5. Verdict(level, limits) \in {"HEALTHY", "WARNING", "CRITICAL"}
  BY DEF Verdict
<1> QED BY <1>2, <1>3, <1>4, <1>5

LEMMA OptionFacts ==
  ASSUME NEW o \in Options
  PROVE  /\ o.mode \in {"simple", "default", "all"} /\ o.human \in BOOLEAN
         /\ o.html \in BOOLEAN /\ o.exits \in BOOLEAN
BY DEF Options

\* The command and its report do not change on the way.
LEMMA SameCommand ==
  ASSUME UNCHANGED <<options, collected>>
  PROVE  Built' = Built /\ InView' = InView /\ TheView' = TheView /\ TheOutput' = TheOutput
         /\ TheColour' = TheColour
BY DEF Built, InView, TheView, TheOutput, TheColour

LEMMA HumanizeInv ==
  ASSUME ViewInv, HumanizeView \/ KeepView
  PROVE  ViewInv'
<1> USE DEF Stage
<1>1. /\ doing_main = "humanize" /\ doing_main' = "write" /\ view = [f \in Built |-> 0]
      /\ UNCHANGED <<options, collected, output, colour, exit_code>>
  BY DEF HumanizeView, KeepView, ViewInv
<1>2. options \in Options /\ "uptime" \notin Built
  BY OptionFacts, ModeFields DEF ViewInv, Built
<1>3. CASE KeepView
  <2>1. view' = view /\ ~options.human
    BY <1>3 DEF KeepView
  <2>2. view' = TheView
    BY <1>1, <2>1 DEF TheView, InView
  <2> QED BY <1>1, <2>2, SameCommand DEF ViewInv, Written
<1>4. CASE HumanizeView
  <2> DEFINE renamed == {"uptime_seconds"} \cap DOMAIN view
             fields  == (DOMAIN view \ renamed) \cup (IF renamed = {} THEN {} ELSE {"uptime"})
  <2>1. /\ options.human
        /\ view' = [f \in fields |->
                      IF f = "uptime" THEN Formatted(view["uptime_seconds"]) ELSE Formatted(view[f])]
    BY <1>4 DEF HumanizeView
  <2>2. DOMAIN view = Built /\ \A f \in Built : view[f] = 0
    BY <1>1
  <2>3. fields = InView
    BY <2>1, <2>2 DEF InView
  <2>4. ASSUME NEW f \in InView
        PROVE  (IF f = "uptime" THEN Formatted(view["uptime_seconds"]) ELSE Formatted(view[f])) = 1
    <3>1. CASE f = "uptime"
      <4>1. "uptime_seconds" \in Built
        BY <1>2, <3>1 DEF InView
      <4> QED BY <2>2, <3>1, <4>1 DEF Formatted
    <3>2. CASE f # "uptime"
      <4>1. f \in Built
        BY <3>2 DEF InView
      <4> QED BY <2>2, <3>2, <4>1 DEF Formatted
    <3> QED BY <3>1, <3>2
  <2> HIDE DEF fields
  <2>5. view' = TheView
    BY <2>1, <2>3, <2>4 DEF TheView
  <2> QED BY <1>1, <2>5, SameCommand DEF ViewInv, Written
<1> QED BY <1>3, <1>4

LEMMA WriteInv ==
  ASSUME ViewInv, PrintJson \/ GenerateHtml
  PROVE  ViewInv'
<1> USE DEF Stage
<1>1. /\ doing_main = "write" /\ doing_main' = "exit" /\ view = TheView
      /\ UNCHANGED <<options, collected, view, exit_code>> /\ colour = "none"
  BY DEF PrintJson, GenerateHtml, ViewInv, Written
<1>2. options.mode \in {"simple", "default", "all"} /\ "uptime" \notin Built
  BY OptionFacts, ModeFields DEF ViewInv, Built
<1>3. CASE PrintJson
  <2>1. output' = view /\ colour' = colour /\ ~options.html
    BY <1>3 DEF PrintJson
  <2>2. output' = TheOutput /\ colour' = TheColour
    BY <1>1, <2>1 DEF TheOutput, TheColour
  <2> QED BY <1>1, <2>2, SameCommand DEF ViewInv, Written
<1>4. CASE GenerateHtml
  <2> DEFINE fields == [f \in DOMAIN view \ {"uptime"} |-> view[f]]
  <2>1. /\ options.html /\ output' = Format(fields, OnPage)
        /\ colour' = IF FilesystemFields \subseteq DOMAIN view
                     THEN Colour(collected.level, view["fs_used_percent"]) ELSE "none"
    BY <1>4 DEF GenerateHtml
  <2>2. DOMAIN view = InView /\ \A f \in InView : view[f] = IF options.human THEN 1 ELSE 0
    BY <1>1 DEF TheView
  <2>3. output' = TheOutput
    <3>1. fields = [f \in InView \ {"uptime"} |-> IF options.human THEN 1 ELSE 0]
      BY <2>2
    <3> HIDE DEF fields
    <3>2. Format(fields, OnPage)
            = [f \in InView \ {"uptime"} |-> IF options.human \/ f \in OnPage THEN 1 ELSE 0]
      BY <3>1 DEF Format, Formatted
    <3> QED BY <2>1, <3>2 DEF TheOutput
  <2>4. colour' = TheColour
    <3>1. FilesystemFields \subseteq InView <=> FilesystemFields \subseteq Built
      BY <1>2 DEF InView, FilesystemFields
    <3>2. FilesystemFields \subseteq InView =>
            view["fs_used_percent"] = IF options.human THEN 1 ELSE 0
      BY <2>2 DEF FilesystemFields
    <3>3. \A level : Colour(level, 1) = "none"
      BY DEF Colour
    <3> QED BY <2>1, <2>2, <3>1, <3>2, <3>3 DEF TheColour
  <2> QED BY <1>1, <2>3, <2>4, SameCommand DEF ViewInv, Written
<1> QED BY <1>3, <1>4

LEMMA ViewInvariant == ViewSpec => []ViewInv
<1>1. ViewInit => ViewInv
  BY DEF ViewInit, ViewInv, Written
<1>2. ViewInv /\ [ViewNext]_viewVars => ViewInv'
  <2> SUFFICES ASSUME ViewInv, [ViewNext]_viewVars PROVE ViewInv'
    OBVIOUS
  <2> USE DEF Stage
  <2>1. CASE BuildView
    BY <2>1, SameCommand DEF BuildView, ViewInv, Written, Built
  <2>2. CASE HumanizeView \/ KeepView
    BY <2>2, HumanizeInv
  <2>3. CASE PrintJson \/ GenerateHtml
    BY <2>3, WriteInv
  <2>4. CASE ExitMain
    BY <2>4, SameCommand DEF ExitMain, ViewInv, Written
  <2>5. CASE NextMain
    BY <2>5 DEF NextMain, ViewInv, Written
  <2>6. CASE UNCHANGED viewVars
    BY <2>6, SameCommand DEF viewVars, ViewInv, Written
  <2> QED BY <2>1, <2>2, <2>3, <2>4, <2>5, <2>6 DEF ViewNext
<1> QED BY <1>1, <1>2, PTL DEF ViewSpec

\* What the invariant says of the view that is written.
LEMMA InViewFacts ==
  ASSUME ViewInv
  PROVE  /\ Built \subseteq InMode(options.mode) /\ Built \subseteq Fields /\ InView \subseteq Fields
         /\ "uptime" \notin Built /\ DOMAIN TheView = InView
         /\ DOMAIN TheOutput = IF options.html THEN InView \ {"uptime"} ELSE InView
<1>1. options.mode \in {"simple", "default", "all"}
  BY OptionFacts DEF ViewInv
<1>2. InMode(options.mode) \subseteq Fields /\ "uptime" \notin InMode(options.mode) /\ "uptime" \in Fields
  BY <1>1, ModeFields
<1>3. DOMAIN TheView = InView /\ DOMAIN TheOutput = IF options.html THEN InView \ {"uptime"} ELSE InView
  BY DEF TheView, TheOutput
<1> QED BY <1>2, <1>3 DEF Built, InView

\* The types hold in every reachable state.
THEOREM ViewTypeCorrect == ViewSpec => []ViewTypeOK
<1>1. ViewInv => ViewTypeOK
  <2> SUFFICES ASSUME ViewInv PROVE ViewTypeOK
    OBVIOUS
  <2>1. DOMAIN view \subseteq Fields
    <3>1. DOMAIN << >> = {}
      OBVIOUS
    <3> QED BY <3>1, InViewFacts DEF ViewInv
  <2>2. DOMAIN output \subseteq Fields
    <3>1. DOMAIN << >> = {}
      OBVIOUS
    <3> QED BY <3>1, InViewFacts DEF ViewInv
  <2>3. colour \in {"none", "good", "warn", "bad"}
    BY DEF ViewInv, TheColour, Colour
  <2>4. exit_code \in 0..2
    BY CollectionFacts DEF ViewInv, Code
  <2> QED BY <2>1, <2>2, <2>3, <2>4 DEF ViewInv, ViewTypeOK
<1> QED BY ViewInvariant, <1>1, PTL

\* No number is formatted twice on its way, and JSON has them all raw or all readable.
THEOREM FormattedOnceCorrect == ViewSpec => []FormattedOnce
<1>1. ViewInv => FormattedOnce
  <2> SUFFICES ASSUME ViewInv, Written, NEW f \in DOMAIN output
               PROVE  output[f] = IF options.human \/ (options.html /\ f \in OnPage) THEN 1 ELSE 0
    BY DEF FormattedOnce
  <2>1. output = TheOutput
    BY DEF ViewInv
  <2> QED BY <2>1 DEF TheOutput, TheView
<1> QED BY ViewInvariant, <1>1, PTL

\* What was collected and belongs to the mode reaches the reader, but for the uptime on
\* a page made with -H.
THEOREM ReachesReaderCorrect == ViewSpec => []ReachesReader
<1>1. ViewInv => ReachesReader
  <2> SUFFICES ASSUME ViewInv, Written, NEW f \in Built
               PROVE  \/ f \in DOMAIN output
                      \/ f = "uptime_seconds" /\ options.human
                         /\ (options.html \/ "uptime" \in DOMAIN output)
    BY DEF ReachesReader, Built
  <2>1. output = TheOutput
    BY DEF ViewInv
  <2> QED BY <2>1, InViewFacts DEF InView
<1> QED BY ViewInvariant, <1>1, PTL

\* At the default limits the colours of the page say what the exit code says, and the
\* exit code is that of the report's verdict whatever the view shows of it.
THEOREM PageAgreesCorrect == ViewSpec => []PageAgreesWithExit
<1>1. ViewInv => PageAgreesWithExit
  <2> SUFFICES ASSUME ViewInv PROVE PageAgreesWithExit
    OBVIOUS
  <2>1. doing_main = "over" /\ options.exits => exit_code = Code(collected.status)
    BY DEF ViewInv
  <2>2. ASSUME Written, options.html, ~options.human, collected.limits = DefaultLimits,
               FilesystemFields \subseteq collected.fields
        PROVE  colour = CASE collected.status = "HEALTHY"  -> "good"
                          [] collected.status = "WARNING"  -> "warn"
                          [] collected.status = "CRITICAL" -> "bad"
    <3>1. FilesystemFields \subseteq Built
      <4>1. options.mode \in {"simple", "default", "all"}
        BY OptionFacts DEF ViewInv
      <4>2. FilesystemFields \subseteq InMode(options.mode)
        BY <4>1, ModeFields DEF Core
      <4> QED BY <2>2, <4>2 DEF Built
    <3>2. colour = Colour(collected.level, 0)
      BY <2>2, <3>1 DEF ViewInv, TheColour
    <3>3. collected.level \in 0..100 /\ collected.status = Verdict(collected.level, collected.limits)
      BY <2>2, CollectionFacts DEF ViewInv
    <3>4. collected.limits.warn = 80 /\ collected.limits.crit = 90
      BY <2>2 DEF DefaultLimits
    <3>5. CASE collected.level > 90
      BY <3>2, <3>3, <3>4, <3>5 DEF Colour, Verdict
    <3>6. CASE ~(collected.level > 90) /\ collected.level > 80
      BY <3>2, <3>3, <3>4, <3>6 DEF Colour, Verdict
    <3>7. CASE ~(collected.level > 90) /\ ~(collected.level > 80)
      BY <3>2, <3>3, <3>4, <3>7 DEF Colour, Verdict
    <3> QED BY <3>5, <3>6, <3>7
  <2> QED BY <2>1, <2>2 DEF PageAgreesWithExit
<1> QED BY ViewInvariant, <1>1, PTL
=============================================================================
