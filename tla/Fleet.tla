------------------------------- MODULE Fleet -------------------------------
(* The active/passive pair the monitor is deployed on.  One virtual address     *)
(* (HEALTH_VIP) floats between two nodes; each node's runs say whether they     *)
(* hold it and, if not, who answered for it, and a reader puts the two report   *)
(* pages side by side.  A run reads the node's addresses, then the kernel's     *)
(* neighbour cache, then asks the address for its health page, and only then    *)
(* leaves its report: the address may move between any two of these, the cache  *)
(* may be behind, and the two pages are never of the same moment.               *)
EXTENDS Naturals, FiniteSets

CONSTANTS
  Nodes,           \* the pair
  Strangers,       \* other devices of the segment, which may claim the address
  ProbesVip,       \* whether an endpoint of HEALTH_APP_ENDPOINTS is at the address
  MaxMoves         \* bound on what happens to the address and to the runs: so reads
                   \* that fail and runs that are killed come to an end

VARIABLES
  holds,           \* the devices that have the address configured
  neighbour,       \* of each node: the device its cache has for the address
  step,            \* of each node: what its run does next
  draft,           \* of each node: what its run has read
  page,            \* of each node: the report of its last finished run
  recent,          \* history, of each node: the devices that held the address at
                   \* some time since it last asked another device for its page
  lost,            \* history, of each node: how often it lost the address
  moves            \* at most MaxMoves

fleetHistory == <<recent, lost>>
fleetVars == <<holds, neighbour, step, draft, page, recent, lost, moves>>

Devices == Nodes \cup Strangers
Nobody == "nobody"

ASSUME FleetAssumption ==
  /\ Nodes \cap Strangers = {} /\ Nobody \notin Devices
  /\ ProbesVip \in BOOLEAN /\ MaxMoves \in Nat

\* answered_by is None for a node that holds the address; `lost' is history.
Entries ==
  [held : BOOLEAN, answered_by : Devices \cup {Nobody}, answers : BOOLEAN, lost : 0..MaxMoves]

\* Says nothing of the address.
NoReport == [held |-> FALSE, answered_by |-> Nobody, answers |-> FALSE, lost |-> 0]

-----------------------------------------------------------------------------
(* A run on node n. *)

Goes(n, here, there) == step[n] = here /\ step' = [step EXCEPT ![n] = there]

\* Mutated: an address nobody is known to answer for counts as this node's.
ReadAddresses_Claims(n) ==
  LET held == n \in holds \/ neighbour[n] = Nobody
  IN  /\ Goes(n, "addresses", IF held THEN "probe" ELSE "neighbour")
      /\ draft' = [draft EXCEPT ![n] =
                     [held |-> held, answered_by |-> Nobody, answers |-> FALSE, lost |-> lost[n]]]
      /\ UNCHANGED <<holds, neighbour, page, fleetHistory, moves>>

\* `ip addr': what the kernel has configured now, not what keepalived believes
ReadAddresses(n) ==
  /\ Goes(n, "addresses", IF n \in holds THEN "probe" ELSE "neighbour")
  /\ draft' = [draft EXCEPT ![n] =
                 [held |-> n \in holds, answered_by |-> Nobody, answers |-> FALSE, lost |-> lost[n]]]
  /\ UNCHANGED <<holds, neighbour, page, fleetHistory, moves>>

\* Mutated: an empty cache is made up for by the last report.
ReadNeighbour_Remembers(n) ==
  /\ Goes(n, "neighbour", "probe")
  /\ draft' = [draft EXCEPT ![n].answered_by =
                 IF neighbour[n] = Nobody THEN page[n].answered_by ELSE neighbour[n]]
  /\ UNCHANGED <<holds, neighbour, page, fleetHistory, moves>>

\* `ip neigh': passive, whatever the entry's age
ReadNeighbour(n) ==
  /\ Goes(n, "neighbour", "probe")
  /\ draft' = [draft EXCEPT ![n].answered_by = neighbour[n]]
  /\ UNCHANGED <<holds, neighbour, page, fleetHistory, moves>>

\* The GET of the address, in get_app_checks: the node itself answers if it holds
\* it, else the device the cache names.  Only an empty cache makes the kernel ask
\* around; an entry that leads nowhere fails the GET and is given up.
Probe(n) ==
  /\ Goes(n, "probe", "publish")
  /\ IF ~ProbesVip \/ n \in holds
     THEN /\ draft' = [draft EXCEPT ![n].answers = ProbesVip]
          /\ UNCHANGED <<neighbour, recent>>
     ELSE /\ \E d \in holds \cup {Nobody} :
               /\ d = Nobody => holds = {} \/ neighbour[n] \notin holds \cup {Nobody}
               /\ d # Nobody => neighbour[n] \in {d, Nobody}
               /\ neighbour' = [neighbour EXCEPT ![n] = d]
               /\ draft' = [draft EXCEPT ![n].answers = (d # Nobody)]
          /\ recent' = [recent EXCEPT ![n] = holds]
  /\ UNCHANGED <<holds, page, lost, moves>>

\* Mutated: a node that once held the address goes on saying so.
Publish_Sticky(n) ==
  /\ Goes(n, "publish", "addresses")
  /\ page' = [page EXCEPT ![n] = [draft[n] EXCEPT !.held = @ \/ page[n].held]]
  /\ UNCHANGED <<holds, neighbour, draft, fleetHistory, moves>>

\* Mutated: a report that cannot be written is the node's last.
Publish_Fails(n) ==
  /\ Goes(n, "publish", "failed")
  /\ UNCHANGED <<holds, neighbour, draft, page, fleetHistory, moves>>

\* write_output; until then the page is the last run's
Publish(n) ==
  /\ Goes(n, "publish", "addresses")
  /\ page' = [page EXCEPT ![n] = draft[n]]
  /\ UNCHANGED <<holds, neighbour, draft, fleetHistory, moves>>

-----------------------------------------------------------------------------
(* The segment. *)

Move == moves < MaxMoves /\ moves' = moves + 1

\* keepalived, or a stranger, configures the address and announces it; a node
\* that hears the announcement corrects the entry it has.
Take(d) ==
  /\ Move /\ d \notin holds
  /\ holds' = holds \cup {d}
  /\ recent' = [n \in Nodes |-> recent[n] \cup {d}]
  /\ \E heard \in SUBSET (Nodes \ {d}) :
       neighbour' = [n \in Nodes |-> IF n \in heard /\ neighbour[n] # Nobody
                                     THEN d ELSE neighbour[n]]
  /\ UNCHANGED <<step, draft, page, lost>>

Loses(d) ==
  /\ holds' = holds \ {d}
  /\ lost' = [n \in Nodes |-> IF n = d /\ n \in holds THEN lost[n] + 1 ELSE lost[n]]

Drop(d) ==
  /\ Move /\ d \in holds /\ Loses(d)
  /\ UNCHANGED <<neighbour, step, draft, page, recent>>

\* A read that fails (`ip' is missing, fails or times out) leaves the report without
\* what it would have said; the run goes on.
ReadFails(n) ==
  /\ Move /\ step[n] \in {"addresses", "neighbour"}
  /\ step' = [step EXCEPT ![n] = "probe"]
  /\ draft' = [draft EXCEPT ![n] = IF step[n] = "addresses" THEN NoReport ELSE @]
  /\ UNCHANGED <<holds, neighbour, page, fleetHistory>>

\* A run that is killed leaves the page of the last one.
Abort(n) ==
  /\ Move /\ step[n] # "addresses"
  /\ step' = [step EXCEPT ![n] = "addresses"]
  /\ UNCHANGED <<holds, neighbour, draft, page, fleetHistory>>

\* So does a reboot, which empties the cache.
Crash(n) ==
  /\ Move /\ Loses(n)
  /\ step' = [step EXCEPT ![n] = "addresses"]
  /\ neighbour' = [neighbour EXCEPT ![n] = Nobody]
  /\ UNCHANGED <<draft, page, recent>>

-----------------------------------------------------------------------------

FleetInit ==
  /\ holds \in {{n} : n \in Nodes}
  /\ neighbour = [n \in Nodes |-> Nobody]
  /\ step = [n \in Nodes |-> "addresses"]
  /\ draft = [n \in Nodes |-> NoReport] /\ page = [n \in Nodes |-> NoReport]
  /\ recent = [n \in Nodes |-> holds] /\ lost = [n \in Nodes |-> 0]
  /\ moves = 0

RunStep(n) == ReadAddresses(n) \/ ReadNeighbour(n) \/ Probe(n) \/ Publish(n)

FleetNext ==
  \/ \E n \in Nodes : RunStep(n) \/ ReadFails(n) \/ Abort(n) \/ Crash(n)
  \/ \E d \in Devices : Take(d) \/ Drop(d)

\* The timer starts one run after another, and a run gets on.
FleetFairness == \A n \in Nodes : WF_fleetVars(RunStep(n))

FleetSpec == FleetInit /\ [][FleetNext]_fleetVars
FleetFairSpec == FleetSpec /\ FleetFairness

-----------------------------------------------------------------------------
(* Properties. *)

\* Type correctness of the segment, the runs and the pages.
FleetTypeOK ==
  /\ holds \in SUBSET Devices
  /\ neighbour \in [Nodes -> Devices \cup {Nobody}]
  /\ step \in [Nodes -> {"addresses", "neighbour", "probe", "publish"}]
  /\ draft \in [Nodes -> Entries] /\ page \in [Nodes -> Entries]
  /\ recent \in [Nodes -> SUBSET Devices] /\ lost \in [Nodes -> 0..MaxMoves]
  /\ moves \in 0..MaxMoves

\* Two pages that both say `held' are split-brain right now, unless one of the two
\* nodes has lost the address since its page was read: a failover between the two
\* reads is the only false alarm, however runs, moves and crashes interleave.
HeldPagesCollide ==
  \A m, n \in Nodes :
    /\ m # n /\ page[m].held /\ page[n].held
    /\ page[m].lost = lost[m] /\ page[n].lost = lost[n]
    => {m, n} \subseteq holds

\* The device a report names as the responder held the address at some time since
\* this node last asked another device for the page behind it; it need not hold
\* it now, and a node that held the address meanwhile asked nobody.
ResponderIsRecent ==
  \A n \in Nodes :
    /\ neighbour[n] \in recent[n] \cup {Nobody}
    /\ step[n] = "probe" => draft[n].answered_by \in recent[n] \cup {Nobody}

\* What the pages say of an address that the devices H hold
Settled(H) ==
  \A n \in Nodes :
    /\ page[n].held = (n \in H)
    /\ n \notin H => page[n].answered_by \in (IF H = {} THEN {Nobody} ELSE H)
    /\ page[n].answers = (H # {})

\* Once the address stays where it is, the pages come to tell who has it, and go
\* on doing so: a split-brain that lasts is shown as two `held', a failover that
\* is over as one, a stranger as none with that stranger's name on both, and an
\* address nobody has as one that does not answer.
PagesSettle ==
  ProbesVip => \A H \in SUBSET Devices : <>[](holds = H) => <>[]Settled(H)
=============================================================================
