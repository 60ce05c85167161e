----------------------------- MODULE Placement -----------------------------
(***************************************************************************)
(* Where the scheduler puts a service: the snapshot of the fleet           *)
(* (scheduler/snapshot.ts), the hard constraints and the decision          *)
(* (scheduler/placement.ts), and the insert of the row by the caller, which *)
(* is a later statement; and the rows that come back without a decision,   *)
(* when a node returns (scheduler/reclaim.ts) or by a rollback.            *)
(*                                                                         *)
(* What no other service can change about a node (architecture, platform,  *)
(* GPU, tier, tags, a pin, a volume) is one constant, Suits.  The ranking  *)
(* is left out: any eligible node may win.  Sizes are in units of RAM.     *)
(***************************************************************************)
EXTENDS Naturals, FiniteSets

CONSTANTS Workloads,      \* the services of the fleet, by name
          Machines,       \* its nodes
          Nowhere,        \* no machine
          Suits,          \* [Workloads -> SUBSET Machines]
          Ram,            \* [Workloads -> Nat]: requestRamMb
          Capacity,       \* [Machines -> Nat]: ramMb, or what the engine has
          Apart,          \* [Workloads -> SUBSET Workloads]: anti_affinity, as declared
          With,           \* [Workloads -> SUBSET Workloads]: affinity, as declared
          Home,           \* [Workloads -> Machines \cup {Nowhere}]: pinnedNodeId, of a
                          \* service that is pinned or is to be reclaimed eagerly
          MaxPlaced       \* bound: rows ever inserted, and changes of a node

ASSUME PlacementAssumption ==
  /\ Suits \in [Workloads -> SUBSET Machines] /\ Nowhere \notin Machines
  /\ Ram \in [Workloads -> Nat] /\ Capacity \in [Machines -> Nat]
  /\ Apart \in [Workloads -> SUBSET Workloads] /\ With \in [Workloads -> SUBSET Workloads]
  /\ Home \in [Workloads -> Machines \cup {Nowhere}]
  /\ MaxPlaced \in Nat

VARIABLES rows,        \* the rows deploying or running, as [of, on]; those of one
                       \* service on one node count as one
          held,        \* those held as pinned_unavailable
          machine,     \* nodes.status
          returning,   \* the nodes whose return is being dealt with
          deciding,    \* per service, where its deploy has decided to go
          placed,
          raced,       \* history: decisions taken before a row that was inserted since
          unchecked    \* history: rows that came without a decision, or came back

placementVars == <<rows, held, machine, returning, deciding, placed, raced, unchecked>>

RowOf == [of : Workloads, on : Machines]

PlacementTypeOK ==
  /\ rows \subseteq RowOf /\ held \subseteq RowOf
  /\ returning \subseteq Machines
  /\ machine \in [Machines -> {"online", "offline", "cordoned"}]
  /\ deciding \in [Workloads -> Machines \cup {Nowhere}]
  /\ placed \in 0..MaxPlaced
  /\ raced \subseteq RowOf /\ unchecked \subseteq RowOf

PlacementInit ==
  /\ rows = {} /\ held = {} /\ returning = {} /\ machine = [m \in Machines |-> "online"]
  /\ deciding = [w \in Workloads |-> Nowhere] /\ placed = 0
  /\ raced = {} /\ unchecked = {}

-----------------------------------------------------------------------------
\* The units of RAM that some rows ask for.
Load(some) == Cardinality(UNION {{r} \X (1..Ram[r.of]) : r \in some})

RowsAt(m) == {r \in rows : r.on = m}

\* committedRamMb: what the rows there were promised, the service's own included
\* and those held left out (and, in the code, what builds reserve there).
Committed(m) == Load(RowsAt(m))

\* Mutation of Room: what is already promised fits, whatever is asked for.
RoomLeft(w, m) == Committed(m) <= Capacity[m]

Room(w, m) == Committed(m) + Ram[w] <= Capacity[m]

\* placements: one node for each name that has a row, the one read last.
Placements ==
  LET at(w) == {r.on : r \in {x \in rows : x.of = w}}
  IN {p \in [Workloads -> Machines \cup {Nowhere}] :
        \A w \in Workloads : IF at(w) = {} THEN p[w] = Nowhere ELSE p[w] \in at(w)}

\* This service says keep away, or something already there said it of this one.
KeepsAway(w, m, p) ==
  \A o \in Workloads : p[o] = m => o \notin Apart[w] /\ w \notin Apart[o]

\* A service goes where those it declares affinity with are, if they are anywhere.
JoinsOthers(w, m, p) == \A o \in With[w] : p[o] \in {Nowhere, m}

Eligible(w, p) ==
  {m \in Suits[w] : /\ machine[m] = "online"
                    /\ Room(w, m)
                    /\ KeepsAway(w, m, p)
                    /\ JoinsOthers(w, m, p)}

-----------------------------------------------------------------------------
\* place, on the snapshot read now.  With no eligible node the deploy fails and
\* nothing is written.
ChooseNode(w) ==
  \E p \in Placements : \E m \in Eligible(w, p) :
    /\ deciding[w] = Nowhere
    /\ deciding' = [deciding EXCEPT ![w] = m]
    /\ raced' = raced \ {[of |-> w, on |-> m]}
    /\ UNCHANGED <<rows, held, machine, returning, placed, unchecked>>

\* The row goes live where it was decided.  The release before it stays beside
\* it, or is ended by it (a volume, a push, a move).
InsertRow(w) ==
  /\ deciding[w] # Nowhere /\ placed < MaxPlaced
  /\ placed' = placed + 1
  /\ \E kept \in {{r \in rows : r.of = w}, {}} :
       rows' = {r \in rows : r.of # w} \cup kept \cup {[of |-> w, on |-> deciding[w]]}
  /\ unchecked' = unchecked \ {[of |-> w, on |-> deciding[w]]}
  /\ deciding' = [deciding EXCEPT ![w] = Nowhere]
  /\ raced' = raced \cup {[of |-> o, on |-> deciding[o]] :
                            o \in {x \in Workloads \ {w} : deciding[x] # Nowhere}}
  /\ UNCHANGED <<held, machine, returning>>

\* A row ends: stopped, failed, or superseded by the row beside it.
EndRow(r) ==
  /\ rows' = rows \ {r} /\ unchecked' = unchecked \ {r}
  /\ UNCHANGED <<held, machine, returning, deciding, placed, raced>>

\* A node falls silent, is heard again, or is cordoned.
SetMachine(m, status) ==
  /\ placed < MaxPlaced /\ placed' = placed + 1
  /\ machine[m] # status /\ machine' = [machine EXCEPT ![m] = status]
  /\ returning' = IF machine[m] = "offline" /\ status = "online" THEN returning \cup {m} ELSE returning
  /\ UNCHANGED <<rows, held, deciding, raced, unchecked>>

-----------------------------------------------------------------------------
(* What happens to rows without a decision of place.                       *)

Pinned(w) == Suits[w] = {Home[w]}

\* rescheduleFromNode: the row of a pinned service waits for its node.
HoldRow(r) ==
  /\ Pinned(r.of) /\ machine[r.on] = "offline"
  /\ rows' = rows \ {r} /\ held' = held \cup {r} /\ unchecked' = unchecked \ {r}
  /\ UNCHANGED <<machine, returning, deciding, placed, raced>>

\* reclaimToNode: the rows held for the node are live again.
ResumeRow(r) ==
  /\ r.on \in returning
  /\ rows' = rows \cup {r} /\ held' = held \ {r}
  /\ unchecked' = unchecked \cup {r}
  /\ UNCHANGED <<machine, returning, deciding, placed, raced>>

\* A row that is elsewhere is ended, and a new one is inserted on the node.
ReclaimEagerly(r) ==
  LET back == [of |-> r.of, on |-> Home[r.of]]
  IN /\ placed < MaxPlaced /\ placed' = placed + 1
     /\ back.on \in returning /\ r # back
     /\ rows' = (rows \ {r}) \cup {back}
     /\ unchecked' = unchecked \cup {back}
     /\ UNCHANGED <<held, machine, returning, deciding, raced>>

ReturnDealtWith(m) ==
  /\ returning' = returning \ {m}
  /\ UNCHANGED <<rows, held, machine, deciding, placed, raced, unchecked>>

\* The rollback of a service that runs nowhere: to the node of the release.
RollBack(w, m) ==
  /\ placed < MaxPlaced /\ placed' = placed + 1
  /\ m \in Suits[w] /\ \A r \in rows : r.of # w
  /\ rows' = rows \cup {[of |-> w, on |-> m]}
  /\ unchecked' = unchecked \cup {[of |-> w, on |-> m]}
  /\ UNCHANGED <<held, machine, returning, deciding, raced>>

PlacementNext ==
  \/ \E w \in Workloads : ChooseNode(w)
  \/ \E w \in Workloads : InsertRow(w)
  \/ \E r \in rows : EndRow(r)
  \/ \E m \in Machines, s \in {"online", "offline", "cordoned"} : SetMachine(m, s)
  \/ \E r \in rows : HoldRow(r)
  \/ \E r \in held : ResumeRow(r)
  \/ \E r \in rows : ReclaimEagerly(r)
  \/ \E m \in returning : ReturnDealtWith(m)
  \/ \E w \in Workloads, m \in Machines : RollBack(w, m)

PlacementSpec == PlacementInit /\ [][PlacementNext]_placementVars

-----------------------------------------------------------------------------
\* "What the scheduler must not overcommit is what it has promised": a node that
\* promises more than it has carries a row whose decision another insert had
\* overtaken, or one that came without a decision (resumed, reclaimed, rolled back).
NotOvercommitted ==
  \A m \in Machines :
    Committed(m) <= Capacity[m] \/ RowsAt(m) \cap (raced \cup unchecked) # {}
=============================================================================
