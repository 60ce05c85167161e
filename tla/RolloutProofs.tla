---------------------------- MODULE RolloutProofs ----------------------------
(* What is proved of Rollout, for every fleet, every service and any number *)
(* of deploys, faults and operations.                                       *)
EXTENDS Rollout, TLAPS

USE PlaceAssumption, ImageAssumption, RowsAssumption, FaultsAssumption, OperatorAssumption

-----------------------------------------------------------------------------
(* Types.                                                                   *)

(* What the modules write is a row, a container, a pass or a handler.       *)
LEMMA DeployingRow ==
  ASSUME NEW n \in Node, NEW i \in Image \union {NoImage}, NEW p \in 0..MaxRows
  PROVE  Deploying(n, i, p) \in Release
  BY DEF Deploying, Release, Status

LEMMA RowChanges ==
  ASSUME NEW row \in Release
  PROVE  /\ \A s \in Status : [row EXCEPT !.status = s] \in Release
         /\ [row EXCEPT !.age = "late"] \in Release
         /\ [row EXCEPT !.status = "deploying", !.age = "new"] \in Release
         /\ \A n \in Node : [row EXCEPT !.status = "preparing", !.node = n] \in Release
         /\ \A i \in Image, p \in Row, age \in {"new", "spent"} :
              [row EXCEPT !.status = "deploying", !.image = i, !.port = p, !.age = age] \in Release
<1>1. ASSUME NEW i \in Image, NEW p \in Row, NEW age \in {"new", "spent"}
      PROVE  [row EXCEPT !.status = "deploying", !.image = i, !.port = p, !.age = age] \in Release
  <2>1. p \in 0..MaxRows
    BY DEF Row
  <2> QED
    BY <2>1 DEF Release, Status
<1>2. \A n \in Node : [row EXCEPT !.status = "preparing", !.node = n] \in Release
  BY DEF Release, Status
<1> QED
  BY <1>1, <1>2 DEF Release, Status

LEMMA SupersedeTyped ==
  ASSUME rows \in [Row -> Release], NEW set PROVE Supersede(set) \in [Row -> Release]
  BY DEF Supersede, Release, Status

LEMMA InitTyped == Init => TypeOK
<1> SUFFICES ASSUME Init PROVE TypeOK
  OBVIOUS
<1>1. 1 \in Row /\ 1 \in 0..MaxRows /\ 0 \in 0..MaxRows
  BY DEF Row
<1>2. Deploying(Home, FirstImage, 1) \in Release /\ NoRelease \in Release
  BY <1>1, DeployingRow DEF NoRelease, Release, Status
<1>3. [Deploying(Home, FirstImage, 1) EXCEPT !.status = "running", !.age = "late"] \in Release
  BY <1>2 DEF Release, Status
<1>4. StoreTypeOK
  BY <1>2, <1>3 DEF Init, StoreInit, StoreTypeOK, Seen
<1>5. AgentTypeOK
  BY DEF Init, AgentInit, AgentTypeOK, Pass, Rest, Handling, Handled
<1>6. ReleasesTypeOK
  BY DEF Init, ReleasesInit, ReleasesTypeOK, Sweep, Asleep
<1> QED
  BY <1>4, <1>5, <1>6 DEF TypeOK


LEMMA OnwardTyped ==
  ASSUME AgentTypeOK, NEW n \in Node, NEW left \in Pass, Onward(n, left)
  PROVE  pass' \in [Node -> Pass] /\ settled' \in [Node -> BOOLEAN]
<1>1. Rest \in Pass
  BY DEF Rest, Pass
<1> QED
  BY <1>1 DEF AgentTypeOK, Onward

LEMMA ReceiveTyped ==
  ASSUME StoreTypeOK, AgentTypeOK, NEW n \in Node, NEW seen \in [Row -> Seen], Receive(n, seen)
  PROVE  /\ report' \in [Node -> [Row -> Seen]]
         /\ silence' \in [Node -> {"fresh", "stale", "expired"}]
         /\ heartbeat' \in [Node -> Handling]
<1>1. \A last \in Row : [at |-> "promote", rows |-> Promotable(n, seen, last)] \in Handling
  BY DEF Handling, Promotable, On
<1> QED
  BY <1>1 DEF StoreTypeOK, AgentTypeOK, Receive

LEMMA AgentStepTyped ==
  ASSUME TypeOK, AgentNext, UNCHANGED <<operator, sweep>> PROVE TypeOK'
<1> USE DEF TypeOK
<1>0. ReleasesTypeOK'
  BY DEF ReleasesTypeOK, operator
<1>1. ASSUME NEW kind, Fault(kind) PROVE faults' \in 0..MaxFaults
  BY <1>1 DEF Fault, AgentTypeOK
<1>2. ASSUME NEW n \in Node, NEW r \in Row
      PROVE  /\ [pass[n] EXCEPT !.todo = @ \ {r}] \in Pass
             /\ [pass[n] EXCEPT !.gone = @ \ {r}] \in Pass
  BY DEF AgentTypeOK, Pass
<1>3. ASSUME NEW n \in Node PROVE pass[n] \in Pass /\ pass[n].todo \subseteq Row /\ pass[n].gone \subseteq Row
  BY DEF AgentTypeOK, Pass
<1>4. ASSUME NEW n \in Node PROVE Tracked(n) \in [Row -> {"none", "unhealthy", "healthy"}]
  BY DEF AgentTypeOK, Tracked
<1>5. ASSUME NEW n \in Node, Fetch(n) \/ FetchFails(n) PROVE TypeOK'
  <2>1. Listing(n) \in Pass
    BY DEF Listing, Pass, Wanted, On
  <2> QED
    BY <1>0, <1>1, <1>4, <1>5, <2>1, OnwardTyped DEF Fetch, FetchFails, store, StoreTypeOK, AgentTypeOK
<1>6. ASSUME NEW n \in Node, StartRow(n) \/ StartFails(n) PROVE TypeOK'
  <2>1. PICK r \in pass[n].todo : Onward(n, [pass[n] EXCEPT !.todo = @ \ {r}])
    BY <1>6 DEF StartRow, StartFails
  <2>2. pass' \in [Node -> Pass] /\ settled' \in [Node -> BOOLEAN]
    BY <1>2, <1>3, <2>1, OnwardTyped
  <2>3. box' \in [Row -> {"none", "down", "up"}] /\ faults' \in 0..MaxFaults
    BY <1>1, <1>6 DEF StartRow, StartFails, AgentTypeOK
  <2>4. UNCHANGED <<store, verdict, connected, heartbeat>>
    BY <1>6 DEF StartRow, StartFails
  <2> QED
    BY <1>0, <2>2, <2>3, <2>4 DEF store, StoreTypeOK, AgentTypeOK
<1>7. ASSUME NEW n \in Node, RemoveRow(n) \/ RemoveFails(n) PROVE TypeOK'
  <2>1. PICK r \in pass[n].gone : Onward(n, [pass[n] EXCEPT !.gone = @ \ {r}])
    BY <1>7 DEF RemoveRow, RemoveFails
  <2>2. pass' \in [Node -> Pass] /\ settled' \in [Node -> BOOLEAN]
    BY <1>2, <1>3, <2>1, OnwardTyped
  <2>3. box' \in [Row -> {"none", "down", "up"}] /\ faults' \in 0..MaxFaults
    BY <1>1, <1>7 DEF RemoveRow, RemoveFails, AgentTypeOK
  <2>4. UNCHANGED <<store, verdict, connected, heartbeat>>
    BY <1>7 DEF RemoveRow, RemoveFails
  <2> QED
    BY <1>0, <2>2, <2>3, <2>4 DEF store, StoreTypeOK, AgentTypeOK
<1>8. ASSUME NEW n \in Node, NEW due, Beat(n, due) PROVE TypeOK'
  <2>1. verdict' \in [Row -> {"none", "unhealthy", "healthy"}]
    BY <1>8 DEF Beat, Probed, AgentTypeOK
  <2> DEFINE seen == [r \in Row |-> IF r \in On(n) THEN SeenAs(r, verdict'[r]) ELSE "absent"]
  <2>2. seen \in [Row -> Seen]
    BY <2>1 DEF SeenAs, Seen
  <2>3. Receive(n, seen)
    BY <1>8 DEF Beat
  <2> HIDE DEF seen
  <2> QED
    BY <1>0, <1>8, <2>1, <2>2, <2>3, ReceiveTyped DEF Beat, StoreTypeOK, AgentTypeOK
<1>9. ASSUME NEW n \in Node, BeatBlind(n) PROVE TypeOK'
  <2> DEFINE seen == [r \in Row |-> "absent"]
  <2>1. seen \in [Row -> Seen] /\ Receive(n, seen)
    BY <1>9 DEF BeatBlind, Seen
  <2> HIDE DEF seen
  <2> QED
    BY <1>0, <1>1, <1>9, <2>1, ReceiveTyped DEF BeatBlind, agents, StoreTypeOK, AgentTypeOK
<1>10. ASSUME NEW n \in Node, AgentRestart(n) PROVE TypeOK'
  <2>1. Rest \in Pass
    BY DEF Rest, Pass
  <2> QED
    BY <1>0, <1>1, <1>10, <2>1 DEF AgentRestart, store, StoreTypeOK, AgentTypeOK
<1>11. ASSUME NEW n \in Node, Disconnect(n) \/ Reconnect(n) PROVE TypeOK'
  BY <1>0, <1>1, <1>11 DEF Disconnect, Reconnect, store, StoreTypeOK, AgentTypeOK
<1>12. ASSUME NEW n \in Node, Silence(n) PROVE TypeOK'
  BY <1>0, <1>12 DEF Silence, agents, StoreTypeOK, AgentTypeOK, Seen
<1>13. ASSUME NEW r \in Row, Exit(r) PROVE TypeOK'
  BY <1>0, <1>1, <1>13 DEF Exit, store, StoreTypeOK, AgentTypeOK
<1> QED
  BY <1>5, <1>6, <1>7, <1>8, <1>9, <1>10, <1>11, <1>12, <1>13 DEF AgentNext, PassStep


(* The control plane writes rows only; what else it does is bookkeeping.    *)
LEMMA ReleasesStepTyped ==
  ASSUME TypeOK, ReleasesNext PROVE TypeOK'
<1> USE DEF TypeOK
<1>0. /\ rows \in [Row -> Release]
      /\ \A r \in Row : rows[r].image \in Image \union {NoImage} /\ rows[r].port \in 0..MaxRows
                        /\ rows[r].node \in Node
  BY DEF StoreTypeOK, Release
<1>1. Fresh \subseteq Row /\ LiveRows \subseteq Row /\ Eligible \subseteq Node /\ Row \subseteq 0..MaxRows
  BY DEF Fresh, LiveRows, Eligible, Online, Row
<1>2. ASSUME rows' \in [Row -> Release], UNCHANGED <<pinned, nodeStatus, report, silence>>
      PROVE  StoreTypeOK'
  BY <1>2 DEF StoreTypeOK
<1>3. ASSUME UNCHANGED <<agents, faults>>, heartbeat' \in [Node -> Handling] PROVE AgentTypeOK'
  BY <1>3 DEF agents, AgentTypeOK
<1>4. ASSUME operations' \in 0..MaxOperations, calls' \subseteq Call, sweep' \in Sweep
      PROVE  ReleasesTypeOK'
  BY <1>4 DEF ReleasesTypeOK
<1>5. /\ heartbeat \in [Node -> Handling] /\ \A n \in Node : heartbeat[n].rows \subseteq Row
      /\ operations \in 0..MaxOperations /\ calls \subseteq Call /\ sweep \in Sweep
  BY DEF AgentTypeOK, ReleasesTypeOK, Handling
<1>6. ASSUME NEW n \in Node, NEW at \in {"none", "promote", "recover", "held", "resume", "stranded", "place"},
             NEW set \in SUBSET Row, Proceed(n, at, set)
      PROVE  heartbeat' \in [Node -> Handling]
  BY <1>5, <1>6 DEF Proceed, Handling
<1>7. ASSUME NEW kind, Operate(kind) PROVE operations' \in 0..MaxOperations
  BY <1>5, <1>7 DEF Operate
<1>8. \A set : Supersede(set) \in [Row -> Release]
  BY <1>0, SupersedeTyped
<1>9. ASSUME NEW set, NEW r \in Row, NEW row \in Release
      PROVE  [Supersede(set) EXCEPT ![r] = row] \in [Row -> Release]
  BY <1>8
<1>10. ASSUME NEW r \in Row, NEW s \in Status PROVE [rows EXCEPT ![r].status = s] \in [Row -> Release]
  BY <1>0, RowChanges
<1>11. {"preparing", "deploying", "running", "superseded", "failed", "stranded", "held"} \subseteq Status
  BY DEF Status
<1>12. ASSUME Open PROVE TypeOK'
  <2>1. PICK r \in Row, n \in Node : rows' = [rows EXCEPT ![r].status = "preparing", ![r].node = n]
    BY <1>1, <1>12 DEF Open
  <2>2. rows' \in [Row -> Release]
    BY <1>0, <2>1, RowChanges
  <2> QED
    BY <1>2, <1>3, <1>4, <1>5, <1>7, <1>12, <2>2 DEF Open
<1>13. ASSUME NEW r \in Row, FailPreparing(r) PROVE TypeOK'
  BY <1>2, <1>3, <1>4, <1>5, <1>10, <1>11, <1>13 DEF FailPreparing, operator
<1>14. ASSUME NEW r \in Row, GoLive(r) PROVE TypeOK'
  <2>1. PICK i \in Image, age \in {"new", "spent"} :
          rows' = [Supersede(Replaced) EXCEPT ![r].status = "deploying", ![r].image = i,
                                              ![r].port = r, ![r].age = age]
    BY <1>14 DEF GoLive
  <2>2. rows' \in [Row -> Release]
    <3> DEFINE row == Supersede(Replaced)[r]
    <3>1. row \in Release /\ rows' = [Supersede(Replaced) EXCEPT
            ![r] = [row EXCEPT !.status = "deploying", !.image = i, !.port = r, !.age = age]]
      BY <1>8, <2>1
    <3>2. [row EXCEPT !.status = "deploying", !.image = i, !.port = r, !.age = age] \in Release
      BY <3>1, RowChanges
    <3> HIDE DEF row
    <3> QED
      BY <1>9, <3>1, <3>2
  <2> QED
    BY <1>2, <1>3, <1>4, <1>5, <1>14, <2>2 DEF GoLive, operator
<1>15. ASSUME BeginRestart \/ BeginStop PROVE TypeOK'
  <2>1. PICK kind \in {"restart", "stop"}, set \in SUBSET Row : BeginCall(kind, set)
    BY <1>1, <1>15 DEF BeginRestart, BeginStop
  <2>2. [kind |-> kind, rows |-> set] \in Call
    BY DEF Call
  <2> QED
    BY <1>2, <1>3, <1>4, <1>5, <1>7, <2>1, <2>2 DEF BeginCall, store, StoreTypeOK
<1>16. ASSUME EndRestart PROVE TypeOK'
  <2>1. PICK r \in Row, new \in Row :
          rows' = [Supersede({r}) EXCEPT ![new] = Deploying(rows[r].node, rows[r].image, rows[r].port)]
    BY <1>1, <1>16 DEF EndRestart
  <2>2. rows' \in [Row -> Release]
    BY <1>0, <1>9, <2>1, DeployingRow
  <2>3. calls' \subseteq calls
    BY <1>16 DEF EndRestart
  <2> QED
    BY <1>2, <1>3, <1>4, <1>5, <1>16, <2>2, <2>3 DEF EndRestart
<1>17. ASSUME EndStop PROVE TypeOK'
  BY <1>2, <1>3, <1>4, <1>5, <1>8, <1>17 DEF EndStop
<1>18. ASSUME NEW n \in Node, Promote(n) PROVE TypeOK'
  <2>1. PICK r \in Row : /\ rows' = [Supersede(LiveRows \ {r}) EXCEPT ![r].status = "running"]
                         /\ Proceed(n, "promote", heartbeat[n].rows \ {r})
    BY <1>5, <1>18 DEF Promote
  <2>2. rows' \in [Row -> Release]
    BY <1>8, <1>11, <2>1, RowChanges
  <2>3. heartbeat' \in [Node -> Handling]
    BY <1>5, <1>6, <2>1
  <2> QED
    BY <1>2, <1>3, <1>4, <1>5, <1>18, <2>2, <2>3 DEF Promote, operator
<1>19. ASSUME NEW n \in Node, Recover(n) PROVE TypeOK'
  <2>1. heartbeat' \in [Node -> Handling]
    BY <1>6, <1>19 DEF Recover
  <2> QED
    BY <1>3, <1>4, <1>5, <1>19, <2>1 DEF Recover, operator, StoreTypeOK
<1>20. ASSUME NEW n \in Node, ReadHeld(n) PROVE TypeOK'
  <2>1. heartbeat' \in [Node -> Handling]
    BY <1>6, <1>20 DEF ReadHeld, On
  <2> QED
    BY <1>3, <1>4, <1>5, <1>20, <2>1 DEF ReadHeld, operator, StoreTypeOK, store
<1>21. ASSUME NEW n \in Node, Resume(n) PROVE TypeOK'
  <2>1. PICK r \in Row : /\ rows' = [rows EXCEPT ![r].status = "deploying", ![r].age = "new"]
                         /\ Proceed(n, "resume", heartbeat[n].rows \ {r})
    BY <1>5, <1>21 DEF Resume
  <2>2. rows' \in [Row -> Release]
    BY <1>0, <2>1, RowChanges
  <2> QED
    BY <1>2, <1>3, <1>4, <1>5, <1>6, <1>21, <2>1, <2>2 DEF Resume, operator
<1>22. ASSUME NEW n \in Node, ReadStranded(n) PROVE TypeOK'
  <2>1. heartbeat' \in [Node -> Handling]
    BY <1>6, <1>22 DEF ReadStranded
  <2> QED
    BY <1>3, <1>4, <1>5, <1>22, <2>1 DEF ReadStranded, operator, StoreTypeOK, store
<1>23. ASSUME NEW n \in Node, Place(n) PROVE TypeOK'
  <2>1. rows' \in [Row -> Release]
    <3>1. PICK r \in Row : \/ rows' = rows
                           \/ \E new \in Fresh, to \in Eligible :
                                rows' = [rows EXCEPT ![new] = Deploying(to, rows[r].image, new)]
      BY <1>5, <1>23 DEF Place
    <3> QED
      BY <1>0, <1>1, <3>1, DeployingRow
  <2>2. heartbeat' \in [Node -> Handling]
    BY <1>6, <1>23 DEF Place
  <2> QED
    BY <1>2, <1>3, <1>4, <1>5, <1>23, <2>1, <2>2 DEF Place, operator
<1>24. ASSUME SweepStalled \/ MarkDown \/ ReadAffected \/ MovedAll PROVE TypeOK'
  <2>1. Judged \subseteq Row /\ \A n \in Node : Wanted(n) \subseteq Row
    BY DEF Judged, Overdue, Wanted, On
  <2>2. sweep' \in Sweep
    <3>1. CASE SweepStalled
      BY <2>1, <3>1 DEF SweepStalled, Sweep, Asleep
    <3>2. CASE MarkDown
      BY <3>2 DEF MarkDown, Sweep, Asleep, Online
    <3>3. CASE ReadAffected
      <4>1. PICK n \in Node : sweep' = [sweep EXCEPT !.at = "move", !.nodes = @ \ {n}, !.rows = Wanted(n)]
        BY <1>5, <3>3 DEF ReadAffected, Sweep
      <4>2. Wanted(n) \in SUBSET Row
        BY <2>1
      <4> QED
        BY <1>5, <4>1, <4>2 DEF Sweep
    <3>4. CASE MovedAll
      BY <1>5, <3>4 DEF MovedAll, Sweep, Asleep
    <3> QED
      BY <1>24, <3>1, <3>2, <3>3, <3>4
  <2>3. nodeStatus' \in [Node -> {"online", "offline"}]
    BY <1>24 DEF SweepStalled, MarkDown, ReadAffected, MovedAll, store, StoreTypeOK
  <2>4. UNCHANGED <<rows, pinned, report, silence, agents, heartbeat, faults, operator>>
    BY <1>24 DEF SweepStalled, MarkDown, ReadAffected, MovedAll, store
  <2> QED
    BY <1>3, <1>4, <1>5, <2>2, <2>3, <2>4 DEF operator, StoreTypeOK
<1>25. ASSUME Rescue \/ FailStalled PROVE TypeOK'
  <2>1. sweep.rescue \subseteq Row /\ sweep.fail \subseteq Row
    BY <1>5 DEF Sweep
  <2>2. rows' \in [Row -> Release]
    <3>1. PICK r \in Row, s \in {"running", "failed"} : rows' = [rows EXCEPT ![r].status = s]
      BY <1>25, <2>1 DEF Rescue, FailStalled
    <3> QED
      BY <1>10, <1>11, <3>1
  <2>3. sweep' \in Sweep
    BY <1>5, <1>25, <2>1 DEF Rescue, FailStalled, Sweep
  <2> QED
    BY <1>2, <1>3, <1>4, <1>5, <1>25, <2>2, <2>3 DEF Rescue, FailStalled, operator
<1>26. ASSUME NEW r \in Row, Move(r) PROVE TypeOK'
  <2>1. ASSUME NEW s \in {"held", "stranded"}, rows' = [rows EXCEPT ![r].status = s]
        PROVE  rows' \in [Row -> Release]
    BY <1>10, <1>11, <2>1
  <2>2. ASSUME NEW new \in Fresh, NEW to \in Targets(r),
               rows' = [Supersede({r}) EXCEPT ![new] = Deploying(to, rows[r].image, new)]
        PROVE  rows' \in [Row -> Release]
    <3>1. new \in Row /\ new \in 0..MaxRows /\ to \in Node
      BY <1>1 DEF Targets, Online
    <3> QED
      BY <1>0, <1>9, <2>2, <3>1, DeployingRow
  <2>3. rows' \in [Row -> Release]
    BY <1>26, <2>1, <2>2 DEF Move
  <2>4. sweep' \in Sweep
    BY <1>5, <1>26 DEF Move, Sweep
  <2> QED
    BY <1>2, <1>3, <1>4, <1>5, <1>26, <2>3, <2>4 DEF Move, operator
<1>27. ASSUME NEW r \in Row, RunsLate(r) PROVE TypeOK'
  <2>1. rows' \in [Row -> Release]
    BY <1>0, <1>27, RowChanges DEF RunsLate
  <2> QED
    BY <1>2, <1>3, <1>4, <1>5, <1>27, <2>1 DEF RunsLate, operator
<1>28. ASSUME ControlRestart PROVE TypeOK'
  <2>1. Handled \in Handling /\ Asleep \in Sweep
    BY DEF Handled, Handling, Asleep, Sweep
  <2>2. faults' \in 0..MaxFaults
    BY <1>28 DEF ControlRestart, Fault, AgentTypeOK
  <2> QED
    BY <1>4, <1>5, <1>28, <2>1, <2>2 DEF ControlRestart, store, agents, StoreTypeOK, AgentTypeOK
<1> QED
  BY <1>12, <1>13, <1>14, <1>15, <1>16, <1>17, <1>18, <1>19, <1>20, <1>21, <1>22, <1>23, <1>24, <1>25,
     <1>26, <1>27, <1>28 DEF ReleasesNext, HandlerStep, SweepStep

LEMMA StepTyped == TypeOK /\ [Next]_vars => TypeOK'
<1>1. ASSUME TypeOK, UNCHANGED vars PROVE TypeOK'
  BY <1>1 DEF vars, TypeOK, StoreTypeOK, AgentTypeOK, ReleasesTypeOK, store, agents, operator
<1> QED
  BY <1>1, AgentStepTyped, ReleasesStepTyped DEF Next

(* Every variable of the rollout keeps its type.                            *)
THEOREM RolloutTyped == Spec => []TypeOK
  BY InitTyped, StepTyped, PTL DEF Spec


-----------------------------------------------------------------------------
(* Rows that have been read, and what is written of them later.             *)

(* The rows that a handler, a call or the sweep has in hand.                *)
Named == {r \in Row :
  \/ \E n \in Node : r \in heartbeat[n].rows
  \/ \E c \in calls : r \in c.rows
  \/ r \in sweep.rescue \union sweep.fail \union sweep.rows}

Kept == Live \union {"held", "stranded"}

(* A row has an image from when it goes live, and only such rows are in     *)
(* anybody's hands.                                                         *)
Imaged ==
  /\ \A r \in Row : rows[r].status \in {"absent", "preparing"} =>
       rows[r].image = NoImage /\ rows[r].age = "new"
  /\ \A r \in Row : rows[r].status \in Kept \union {"superseded"} => rows[r].image # NoImage
  /\ \A r \in Named : rows[r].image # NoImage
  /\ \A c \in calls : c.kind \in Operations

(* The writes to the rows, of all the actions: a deploy opens and goes      *)
(* live, a release starts elsewhere in place of others, ...                 *)
Opens == \E r \in Fresh, n \in Node :
  rows' = [rows EXCEPT ![r].status = "preparing", ![r].node = n]
Drops == \E r \in Row :
  rows[r].status = "preparing" /\ rows' = [rows EXCEPT ![r].status = "failed"]
Enters == \E r \in Row, i \in Image, age \in {"new", "spent"} :
  /\ rows[r].status = "preparing"
  /\ rows' = [Supersede(Replaced) EXCEPT ![r].status = "deploying", ![r].image = i,
                                         ![r].port = r, ![r].age = age]
Starts == \E old \in SUBSET Named, new \in Fresh, n \in Node, r \in Named, p \in 0..MaxRows :
  rows' = [Supersede(old) EXCEPT ![new] = Deploying(n, rows[r].image, p)]
Stops == \E c \in calls : c.kind = "stop" /\ rows' = Supersede(c.rows)
Promotes == \E n \in Node : \E r \in heartbeat[n].rows :
  /\ heartbeat[n].at = "promote"
  /\ rows' = [Supersede(LiveRows \ {r}) EXCEPT ![r].status = "running"]
Decides == \E r \in Named, s \in {"running", "held", "stranded"} :
  /\ s = "held" => sweep.at = "move"
  /\ rows' = [rows EXCEPT ![r].status = s]
GivesUp == \E r \in sweep.fail : rows' = [rows EXCEPT ![r].status = "failed"]
Resumes == \E n \in Node : \E r \in heartbeat[n].rows :
  /\ heartbeat[n].at = "resume"
  /\ heartbeat' = [heartbeat EXCEPT ![n] = [at |-> "resume", rows |-> heartbeat[n].rows \ {r}]]
  /\ rows' = [rows EXCEPT ![r].status = "deploying", ![r].age = "new"]
Ages == \E r \in Row : RunsLate(r)

RowWrite ==
  \/ rows' = rows
  \/ Opens \/ Drops \/ Enters \/ Starts \/ Stops
  \/ Promotes \/ Decides \/ GivesUp \/ Resumes \/ Ages

LEMMA SupersedeNone ==
  ASSUME rows \in [Row -> Release] PROVE Supersede({}) = rows
  BY DEF Supersede

LEMMA Names ==
  ASSUME TypeOK
  PROVE  /\ heartbeat \in [Node -> Handling] /\ sweep \in Sweep
         /\ \A n \in Node : heartbeat[n].rows \subseteq Named
         /\ \A c \in calls : c.rows \subseteq Named
         /\ sweep.rescue \subseteq Named /\ sweep.fail \subseteq Named /\ sweep.rows \subseteq Named
<1>1. heartbeat \in [Node -> Handling] /\ \A n \in Node : heartbeat[n].rows \subseteq Row
  BY DEF TypeOK, AgentTypeOK, Handling
<1>2. \A c \in calls : c.rows \subseteq Row
  BY DEF TypeOK, ReleasesTypeOK, Call
<1>3. sweep \in Sweep /\ sweep.rescue \subseteq Row /\ sweep.fail \subseteq Row /\ sweep.rows \subseteq Row
  BY DEF TypeOK, ReleasesTypeOK, Sweep
<1> QED
  BY <1>1, <1>2, <1>3 DEF Named

LEMMA StepWrites == TypeOK /\ [Next]_vars => RowWrite
<1> SUFFICES ASSUME TypeOK, [Next]_vars PROVE RowWrite
  OBVIOUS
<1>0. rows \in [Row -> Release] /\ Named \subseteq Row
  BY DEF TypeOK, StoreTypeOK, Named
<1>1. \A r \in Row : rows[r].node \in Node /\ rows[r].port \in 0..MaxRows
  BY <1>0 DEF Release
<1>2. Fresh \subseteq 0..MaxRows /\ Eligible \subseteq Node
  BY DEF Fresh, Row, Eligible, Online
<1>3. CASE UNCHANGED vars \/ AgentNext
  BY <1>3 DEF vars, store, AgentNext, PassStep, Fetch, FetchFails, StartRow, StartFails, RemoveRow,
     RemoveFails, Beat, BeatBlind, AgentRestart, Exit, Disconnect, Reconnect, Silence, RowWrite
<1>4. CASE Open
  BY <1>2, <1>4 DEF Open, RowWrite, Opens
<1>5. CASE \E r \in Row : FailPreparing(r) \/ GoLive(r) \/ RunsLate(r)
  BY <1>5 DEF FailPreparing, GoLive, GoesLive, RowWrite, Drops, Enters, Ages
<1>6. CASE BeginRestart \/ BeginStop \/ ControlRestart
  BY <1>6 DEF BeginRestart, BeginStop, BeginCall, ControlRestart, store, RowWrite
<1>7. CASE EndRestart
  <2>1. PICK c \in calls, r \in Row, new \in Fresh :
          /\ c.rows = {r}
          /\ rows' = [Supersede({r}) EXCEPT ![new] = Deploying(rows[r].node, rows[r].image, rows[r].port)]
    BY <1>7 DEF EndRestart
  <2>2. r \in Named
    BY <2>1, Names
  <2> QED
    BY <1>1, <2>1, <2>2 DEF RowWrite, Starts
<1>8. CASE EndStop
  BY <1>8 DEF EndStop, RowWrite, Stops
<1>9. ASSUME NEW n \in Node, Promote(n) \/ Recover(n) PROVE RowWrite
  BY <1>9 DEF Promote, Recover, RowWrite, Promotes
<1>10. ASSUME NEW n \in Node, ReadHeld(n) \/ Resume(n) \/ ReadStranded(n) PROVE RowWrite
  BY <1>10 DEF ReadHeld, Resume, ReadStranded, Proceed, store, RowWrite, Resumes
<1>11. ASSUME NEW n \in Node, Place(n) PROVE RowWrite
  <2>1. CASE rows' = rows
    BY <2>1 DEF RowWrite
  <2>2. CASE rows' # rows
    <3>1. PICK r \in heartbeat[n].rows, new \in Fresh, to \in Eligible :
            rows' = [rows EXCEPT ![new] = Deploying(to, rows[r].image, new)]
      BY <1>11, <2>2 DEF Place
    <3>2. r \in Named /\ to \in Node /\ new \in 0..MaxRows
      BY <1>2, <3>1, Names
    <3>3. rows' = [Supersede({}) EXCEPT ![new] = Deploying(to, rows[r].image, new)]
      BY <1>0, <3>1, SupersedeNone
    <3> QED
      BY <3>2, <3>3 DEF RowWrite, Starts
  <2> QED
    BY <2>1, <2>2
<1>12. CASE SweepStalled \/ MarkDown \/ ReadAffected \/ MovedAll
  BY <1>12 DEF SweepStalled, MarkDown, ReadAffected, MovedAll, store, RowWrite
<1>13. CASE Rescue \/ FailStalled
  BY <1>13, Names DEF Rescue, FailStalled, RowWrite, Decides, GivesUp
<1>14. ASSUME NEW r \in Row, Move(r) PROVE RowWrite
  <2>1. r \in Named
    BY <1>14, Names DEF Move
  <2>2. ASSUME NEW new \in Fresh, NEW to \in Targets(r),
               rows' = [Supersede({r}) EXCEPT ![new] = Deploying(to, rows[r].image, new)]
        PROVE  RowWrite
    <3>1. to \in Node /\ new \in 0..MaxRows
      BY <1>2 DEF Targets, Online
    <3> QED
      BY <2>1, <2>2, <3>1 DEF RowWrite, Starts
  <2> QED
    BY <1>14, <2>1, <2>2 DEF Move, RowWrite, Decides
<1> QED
  BY <1>3, <1>4, <1>5, <1>6, <1>7, <1>8, <1>9, <1>10, <1>11, <1>12, <1>13, <1>14
     DEF Next, ReleasesNext, HandlerStep, SweepStep

(* Nobody gets hold of a row that is not live, held or stranded.            *)
LEMMA StepNames ==
  ASSUME TypeOK, [Next]_vars
  PROVE  /\ \A r \in Named' : r \in Named \/ (r \in Row /\ rows[r].status \in Kept)
         /\ \A c \in calls' : c \in calls \/ c.kind \in Operations
<1> DEFINE Reads == \A r \in Named' : r \in Named \/ (r \in Row /\ rows[r].status \in Kept)
<1>0. /\ heartbeat \in [Node -> Handling] /\ sweep \in Sweep
      /\ \A n \in Node : heartbeat[n].rows \subseteq Named
      /\ \A c \in calls : c.rows \subseteq Named
      /\ sweep.rescue \subseteq Named /\ sweep.fail \subseteq Named /\ sweep.rows \subseteq Named
  BY Names
<1>1. ASSUME UNCHANGED <<heartbeat, calls, sweep>> PROVE Named' = Named
  BY <1>1 DEF Named
<1>2. ASSUME UNCHANGED <<calls, sweep>>, NEW n \in Node, NEW h, heartbeat' = [heartbeat EXCEPT ![n] = h],
             \A r \in h.rows : r \in Named \/ (r \in Row /\ rows[r].status \in Kept)
      PROVE  Reads
  <2>1. \A m \in Node : heartbeat'[m] = IF m = n THEN h ELSE heartbeat[m]
    BY <1>0, <1>2
  <2> QED
    BY <1>0, <1>2, <2>1 DEF Named
<1>3. ASSUME UNCHANGED <<heartbeat, calls>>,
             \A r \in sweep'.rescue \union sweep'.fail \union sweep'.rows :
               r \in Named \/ (r \in Row /\ rows[r].status \in Kept)
      PROVE  Reads
  BY <1>3 DEF Named, Reads
<1>4. ASSUME UNCHANGED <<heartbeat, sweep>>,
             \A c \in calls' : c \in calls \/
               \A r \in c.rows : r \in Named \/ (r \in Row /\ rows[r].status \in Kept)
      PROVE  Reads
  BY <1>0, <1>4 DEF Named, Reads
<1> HIDE DEF Reads
<1>5. CASE UNCHANGED vars
  BY <1>1, <1>5 DEF vars, operator, Reads
<1>6. ASSUME NEW n \in Node, NEW seen, NEW last \in Row,
             heartbeat' = [heartbeat EXCEPT ![n] = [at |-> "promote", rows |-> Promotable(n, seen, last)]],
             UNCHANGED <<operator, sweep>>
      PROVE  Reads /\ calls' = calls
  <2> DEFINE h == [at |-> "promote", rows |-> Promotable(n, seen, last)]
  <2>1. \A r \in h.rows : r \in Row /\ rows[r].status \in Kept
    BY DEF Promotable, On, Kept, Live
  <2>2. heartbeat' = [heartbeat EXCEPT ![n] = h] /\ UNCHANGED <<calls, sweep>>
    BY <1>6 DEF operator
  <2> HIDE DEF h
  <2> QED
    BY <1>2, <2>1, <2>2
<1>7. CASE AgentNext /\ UNCHANGED <<operator, sweep>>
  <2>1. ASSUME heartbeat' = heartbeat PROVE Reads /\ calls' = calls
    BY <1>1, <1>7, <2>1 DEF operator, Reads
  <2>2. \/ heartbeat' = heartbeat
        \/ \E n \in Node, last \in Row : \E seen :
             heartbeat' = [heartbeat EXCEPT ![n] = [at |-> "promote", rows |-> Promotable(n, seen, last)]]
    BY <1>7 DEF AgentNext, PassStep, Fetch, FetchFails, StartRow, StartFails, RemoveRow,
       RemoveFails, Beat, BeatBlind, Receive, AgentRestart, Exit, Disconnect, Reconnect, Silence, agents
  <2> QED
    BY <1>6, <1>7, <2>1, <2>2 DEF Reads
<1>8. CASE Open \/ \E r \in Row : FailPreparing(r) \/ GoLive(r) \/ RunsLate(r)
  BY <1>1, <1>8 DEF Open, FailPreparing, GoLive, RunsLate, operator, Reads
<1>9. ASSUME NEW kind, NEW set \in SUBSET LiveRows, BeginCall(kind, set) PROVE Reads /\ kind \in Operations
  <2>1. \A r \in set : r \in Row /\ rows[r].status \in Kept
    BY DEF LiveRows, Kept
  <2> QED
    BY <1>4, <1>9, <2>1 DEF BeginCall, Operate
<1>10. CASE BeginRestart \/ BeginStop
  <2>1. PICK kind \in {"restart", "stop"}, set \in SUBSET LiveRows : BeginCall(kind, set)
    BY <1>10 DEF BeginRestart, BeginStop
  <2>2. \A c \in calls' : c \in calls \/ c.kind = kind
    BY <2>1 DEF BeginCall
  <2> QED
    BY <1>9, <2>1, <2>2 DEF Reads
<1>11. CASE EndRestart \/ EndStop
  <2>1. UNCHANGED <<heartbeat, sweep>> /\ calls' \subseteq calls
    BY <1>11 DEF EndRestart, EndStop
  <2> QED
    BY <1>4, <2>1 DEF Reads
<1>12. ASSUME NEW n \in Node, HandlerStep(n) PROVE Reads /\ calls' = calls
  <2>1. PICK at, set : Proceed(n, at, set) /\ \A r \in set : r \in Named \/ (r \in Row /\ rows[r].status \in Kept)
    <3>1. CASE Promote(n) \/ Resume(n)
      <4>1. PICK at, r : Proceed(n, at, heartbeat[n].rows \ {r})
        BY <3>1 DEF Promote, Resume
      <4> QED
        BY <1>0, <4>1
    <3>2. CASE ReadHeld(n) \/ Recover(n) \/ Place(n)
      BY <3>2 DEF ReadHeld, Recover, Place, On, Kept
    <3>3. CASE ReadStranded(n)
      BY <3>3 DEF ReadStranded, Kept
    <3> QED
      BY <1>12, <3>1, <3>2, <3>3 DEF HandlerStep
  <2>2. UNCHANGED <<calls, sweep>>
    BY <1>12 DEF HandlerStep, Promote, Recover, ReadHeld, Resume, ReadStranded, Place, operator
  <2> DEFINE h == [at |-> at, rows |-> set]
  <2>3. heartbeat' = [heartbeat EXCEPT ![n] = h] /\ h.rows = set
    BY <2>1 DEF Proceed
  <2> HIDE DEF h
  <2> QED
    BY <1>2, <2>1, <2>2, <2>3
<1>13. CASE SweepStep
  <2>1. UNCHANGED <<heartbeat, calls>>
    BY <1>13 DEF SweepStep, SweepStalled, Rescue, FailStalled, MarkDown, ReadAffected, MovedAll, Move, operator
  <2>2. ASSUME SweepStalled \/ MarkDown \/ ReadAffected PROVE Reads
    <3>1. \A r \in sweep'.rescue \union sweep'.fail \union sweep'.rows :
            r \in Named \/ (r \in Row /\ rows[r].status \in Kept)
      <4>1. CASE SweepStalled
        BY <4>1 DEF SweepStalled, Asleep, Judged, Overdue, Kept, Live
      <4>2. CASE MarkDown
        BY <4>2 DEF MarkDown, Asleep
      <4>3. CASE ReadAffected
        BY <1>0, <4>3 DEF ReadAffected, Sweep, Wanted, On, Kept
      <4> QED
        BY <2>2, <4>1, <4>2, <4>3
    <3> QED
      BY <1>3, <2>1, <3>1
  <2>3. ASSUME Rescue \/ FailStalled \/ MovedAll \/ \E r \in Row : Move(r) PROVE Reads
    <3>1. /\ sweep'.rescue \subseteq sweep.rescue /\ sweep'.fail \subseteq sweep.fail
          /\ sweep'.rows \subseteq sweep.rows
      <4>1. CASE Rescue \/ FailStalled
        BY <1>0, <4>1 DEF Rescue, FailStalled, Sweep
      <4>2. CASE MovedAll
        BY <1>0, <4>2 DEF MovedAll, Sweep, Asleep
      <4>3. CASE \E r \in Row : Move(r)
        BY <1>0, <4>3 DEF Move, Sweep
      <4> QED
        BY <2>3, <4>1, <4>2, <4>3
    <3> QED
      BY <1>0, <1>3, <2>1, <3>1
  <2> QED
    BY <1>13, <2>1, <2>2, <2>3 DEF SweepStep, Reads
<1>14. CASE ControlRestart
  BY <1>14 DEF ControlRestart, Handled, Asleep, Named, Reads
<1> QED
  BY <1>5, <1>7, <1>8, <1>10, <1>11, <1>12, <1>13, <1>14 DEF Next, ReleasesNext, Reads


-----------------------------------------------------------------------------
(* What the writes do to one row.                                           *)

Keeps(r) ==
  rows'[r].image = rows[r].image /\ rows'[r].node = rows[r].node /\ rows'[r].port = rows[r].port

(* A return of its node makes it young again.                               *)
Renewed(r) ==
  /\ rows'[r].age = "new"
  /\ \E n \in Node : heartbeat[n].at = "resume" /\ r \in heartbeat[n].rows \ heartbeat'[n].rows

Inserted(r) ==
  /\ rows[r].status = "absent" /\ rows'[r].age = "new"
  /\ \/ rows'[r].status = "preparing" /\ rows'[r].image = NoImage
     \/ rows'[r].status = "deploying" /\ rows'[r].image # NoImage

Prepared(r) ==
  /\ rows[r].status = "preparing" /\ rows'[r].node = rows[r].node /\ rows'[r].age # "late"
  /\ \/ rows'[r].status = "failed" /\ Keeps(r)
     \/ rows'[r].status = "deploying" /\ rows'[r].image # NoImage

Decided(r) ==
  /\ rows[r].image # NoImage /\ Keeps(r)
  /\ rows'[r].status \notin {"absent", "preparing"}
  /\ rows'[r].status = "failed" => rows[r].status = "failed" \/ r \in sweep.fail
  /\ rows'[r].status = "held" => rows[r].status = "held" \/ sweep.at = "move"
  /\ rows'[r].status = "deploying" => rows[r].status = "deploying" \/ Renewed(r)
  /\ rows'[r].age = rows[r].age \/ RunsLate(r) \/ Renewed(r)

LEMMA Superseded ==
  ASSUME TypeOK, Imaged, NEW set, NEW r \in Row, r \in set => rows[r].image # NoImage
  PROVE  /\ Supersede(set)[r] = rows[r] \/ (r \in set /\ Supersede(set)[r] = [rows[r] EXCEPT !.status = "superseded"])
         /\ rows'[r] = Supersede(set)[r] => rows'[r] = rows[r] \/ Decided(r)
<1>1. rows[r] \in Release
  BY DEF TypeOK, StoreTypeOK
<1> QED
  BY <1>1 DEF Supersede, Decided, Keeps, Release

LEMMA RowTurns ==
  ASSUME TypeOK, Imaged, RowWrite, NEW r \in Row
  PROVE  rows'[r] = rows[r] \/ Inserted(r) \/ Prepared(r) \/ Decided(r)
<1>0. rows \in [Row -> Release] /\ Named \subseteq Row /\ Fresh \subseteq Row
  BY DEF TypeOK, StoreTypeOK, Named, Fresh
<1>1. \A set : Supersede(set) \in [Row -> Release]
  BY <1>0, SupersedeTyped
<1>2. \A s \in Row : rows[s].status \in Live => rows[s].image # NoImage
  BY DEF Imaged, Kept
<1>3. \A s \in Fresh : rows[s].status = "absent" /\ rows[s].image = NoImage /\ rows[s].age = "new"
  BY <1>0 DEF Fresh, Imaged
<1>4. \A s \in Named : rows[s].image # NoImage
  BY DEF Imaged
<1>5. CASE Opens
  <2>1. PICK s \in Fresh, n \in Node : rows' = [rows EXCEPT ![s].status = "preparing", ![s].node = n]
    BY <1>5 DEF Opens
  <2>2. rows[s] \in Release /\ rows'[s] = [rows[s] EXCEPT !.status = "preparing", !.node = n]
    BY <1>0, <2>1
  <2>3. Inserted(s)
    BY <1>3, <2>2 DEF Inserted, Release
  <2> QED
    BY <1>0, <2>1, <2>3
<1>6. CASE Drops
  <2>1. PICK s \in Row : rows[s].status = "preparing" /\ rows' = [rows EXCEPT ![s].status = "failed"]
    BY <1>6 DEF Drops
  <2>2. rows[s] \in Release /\ rows'[s] = [rows[s] EXCEPT !.status = "failed"] /\ rows[s].age = "new"
    BY <1>0, <2>1 DEF Imaged
  <2>3. Prepared(s)
    BY <2>1, <2>2 DEF Prepared, Keeps, Release
  <2> QED
    BY <1>0, <2>1, <2>3
<1>7. CASE Enters
  <2>1. PICK s \in Row, i \in Image, age \in {"new", "spent"} :
          /\ rows[s].status = "preparing"
          /\ rows' = [Supersede(Replaced) EXCEPT ![s].status = "deploying", ![s].image = i,
                                                 ![s].port = s, ![s].age = age]
    BY <1>7 DEF Enters
  <2>2. s \notin Replaced /\ \A t \in Replaced : t \in Row => rows[t].image # NoImage
    BY <1>2, <2>1 DEF Replaced, LiveRows, Live, Imaged
  <2>3. Supersede(Replaced)[s] = rows[s] /\ rows[s] \in Release
    BY <1>0, <2>2 DEF Supersede
  <2>4. rows'[s] = [rows[s] EXCEPT !.status = "deploying", !.image = i, !.port = s, !.age = age]
    BY <1>1, <2>1, <2>3
  <2>5. Prepared(s)
    <3>1. /\ rows'[s].status = "deploying" /\ rows'[s].image = i
          /\ rows'[s].node = rows[s].node /\ rows'[s].age = age
      BY <2>3, <2>4 DEF Release
    <3> QED
      BY <2>1, <2>2, <3>1 DEF Prepared
  <2>6. r # s => rows'[r] = Supersede(Replaced)[r]
    BY <1>1, <2>1
  <2> QED
    BY <2>2, <2>5, <2>6, Superseded
<1>8. CASE Starts
  <2>1. PICK old \in SUBSET Named, new \in Fresh, n \in Node, s \in Named, p \in 0..MaxRows :
          rows' = [Supersede(old) EXCEPT ![new] = Deploying(n, rows[s].image, p)]
    BY <1>8 DEF Starts
  <2>2. Inserted(new)
    BY <1>0, <1>1, <1>3, <1>4, <2>1 DEF Inserted, Deploying
  <2>3. r # new => rows'[r] = Supersede(old)[r]
    BY <1>1, <2>1
  <2> QED
    BY <1>4, <2>1, <2>2, <2>3, Superseded
<1>9. CASE Stops
  <2>1. PICK c \in calls : rows' = Supersede(c.rows)
    BY <1>9 DEF Stops
  <2>2. r \in c.rows => rows[r].image # NoImage
    BY <1>4, <2>1, Names
  <2> QED
    BY <2>1, <2>2, Superseded
<1>10. CASE Promotes
  <2>1. PICK s \in Named : rows' = [Supersede(LiveRows \ {s}) EXCEPT ![s].status = "running"]
    BY <1>10, Names DEF Promotes
  <2>2. Supersede(LiveRows \ {s})[s] = rows[s] /\ rows[s] \in Release /\ s \in Row
    BY <1>0, <2>1 DEF Supersede
  <2>3. rows'[s] = [rows[s] EXCEPT !.status = "running"]
    BY <1>1, <2>1, <2>2
  <2>4. Decided(s)
    BY <1>4, <2>1, <2>2, <2>3 DEF Decided, Keeps, Release
  <2>5. r # s => rows'[r] = Supersede(LiveRows \ {s})[r]
    BY <1>1, <2>1
  <2>6. r \in LiveRows => rows[r].image # NoImage
    BY <1>2 DEF LiveRows
  <2> QED
    BY <2>4, <2>5, <2>6, Superseded
<1>11. CASE Decides \/ GivesUp
  <2>1. PICK s \in Named, status \in {"running", "held", "stranded", "failed"} :
          /\ rows' = [rows EXCEPT ![s].status = status]
          /\ status = "failed" => s \in sweep.fail
          /\ status = "held" => sweep.at = "move"
    BY <1>11, Names DEF Decides, GivesUp
  <2>2. rows[s] \in Release /\ rows'[s] = [rows[s] EXCEPT !.status = status]
    BY <1>0, <2>1
  <2>3. Decided(s)
    <3>1. rows'[s].status = status /\ rows'[s].age = rows[s].age /\ Keeps(s)
      BY <2>2 DEF Keeps, Release
    <3> QED
      BY <1>4, <2>1, <3>1 DEF Decided
  <2> QED
    BY <1>0, <2>1, <2>3
<1>12. CASE Resumes
  <2>1. PICK n \in Node, s \in Named :
          /\ heartbeat[n].at = "resume" /\ s \in heartbeat[n].rows
          /\ heartbeat' = [heartbeat EXCEPT ![n] = [at |-> "resume", rows |-> heartbeat[n].rows \ {s}]]
          /\ rows' = [rows EXCEPT ![s].status = "deploying", ![s].age = "new"]
    BY <1>12, Names DEF Resumes
  <2>2. rows[s] \in Release /\ rows'[s] = [rows[s] EXCEPT !.status = "deploying", !.age = "new"]
    BY <1>0, <2>1
  <2>3. Decided(s)
    <3>1. rows'[s].status = "deploying" /\ rows'[s].age = "new" /\ Keeps(s)
      BY <2>2 DEF Keeps, Release
    <3>2. heartbeat'[n].rows = heartbeat[n].rows \ {s}
      BY <2>1, Names
    <3> QED
      BY <1>4, <2>1, <3>1, <3>2 DEF Decided, Renewed
  <2> QED
    BY <1>0, <2>1, <2>3
<1>13. CASE Ages
  <2>1. PICK s \in Row : RunsLate(s)
    BY <1>13 DEF Ages
  <2>2. rows[s] \in Release /\ rows' = [rows EXCEPT ![s].age = "late"] /\ rows[s].status = "deploying"
    BY <1>0, <2>1 DEF RunsLate
  <2>3. rows'[s] = [rows[s] EXCEPT !.age = "late"] /\ rows[s].image # NoImage
    BY <1>0, <1>2, <2>2 DEF Live
  <2>4. Decided(s)
    BY <2>1, <2>2, <2>3 DEF Decided, Keeps, Release
  <2> QED
    BY <1>0, <2>2, <2>4
<1> QED
  BY <1>5, <1>6, <1>7, <1>8, <1>9, <1>10, <1>11, <1>12, <1>13 DEF RowWrite

LEMMA InitImaged == Init => Imaged
<1> SUFFICES ASSUME Init PROVE Imaged
  OBVIOUS
<1>1. /\ rows[1].status = "running" /\ rows[1].image = FirstImage
      /\ \A r \in Row \ {1} : rows[r] = NoRelease
  BY DEF Init, StoreInit, Deploying, Row
<1>2. Named = {} /\ calls = {}
  BY DEF Init, AgentInit, ReleasesInit, Named, Handled, Asleep
<1> QED
  BY <1>1, <1>2 DEF Imaged, NoRelease, Kept, Live

LEMMA StepImaged == TypeOK /\ Imaged /\ [Next]_vars => Imaged'
<1> SUFFICES ASSUME TypeOK, Imaged, [Next]_vars PROVE Imaged'
  OBVIOUS
<1>1. \A r \in Row : rows'[r] = rows[r] \/ Inserted(r) \/ Prepared(r) \/ Decided(r)
  BY StepWrites, RowTurns
<1>2. ASSUME NEW r \in Row
      PROVE  /\ rows'[r].status \in {"absent", "preparing"} => rows'[r].image = NoImage /\ rows'[r].age = "new"
             /\ rows'[r].status \in Kept \union {"superseded"} => rows'[r].image # NoImage
             /\ rows[r].image # NoImage => rows'[r].image # NoImage
  BY <1>1 DEF Imaged, Inserted, Prepared, Decided, Keeps, Kept, Live
<1>3. \A r \in Named' : r \in Row /\ (r \in Named \/ rows[r].status \in Kept)
  BY StepNames DEF Named
<1> QED
  BY <1>2, <1>3, StepNames DEF Imaged

LEMMA Imaging == Spec => [](TypeOK /\ Imaged)
  BY InitTyped, StepTyped, InitImaged, StepImaged, PTL DEF Spec

(* A deployment that failed or was cancelled before it had an image never   *)
(* goes live, whoever holds which rows from which select: GoLive reads the  *)
(* status under its lock, and what the other writers name has an image.     *)
THEOREM CancelledForGood == Spec => CancelledNeverLive
<1>1. TypeOK /\ Imaged /\ [Next]_vars =>
        [\A r \in Row : rows[r].status = "failed" /\ rows[r].image = NoImage => rows'[r] = rows[r]]_vars
  <2> SUFFICES ASSUME TypeOK, Imaged, [Next]_vars, NEW r \in Row,
                      rows[r].status = "failed", rows[r].image = NoImage
               PROVE  rows'[r] = rows[r]
    OBVIOUS
  <2> QED
    BY StepWrites, RowTurns DEF Inserted, Prepared, Decided
<1> QED
  BY Imaging, <1>1, PTL DEF Spec, CancelledNeverLive


-----------------------------------------------------------------------------
(* When containers neither exit nor are refused by the daemon, and ten      *)
(* minutes are enough for a node, no rollout is given up but one whose      *)
(* build had used the ten minutes up.                                       *)

Calm == faults = 0 \/ Faults \subseteq {"link", "agent", "control"}

(* A pass is about the rows of its node, and starts what is not running.    *)
PassesOwn == \A n \in Node :
  /\ pass[n].todo \subseteq On(n) /\ pass[n].gone \subseteq On(n)
  /\ \A r \in pass[n].todo : box[r] # "up"

Late(r) == rows[r].status = "deploying" /\ rows[r].age = "late"

(* The container of an overdue rollout runs, will not be removed, and was   *)
(* seen by the last heartbeat if there is one.                              *)
LateRuns(r) ==
  /\ box[r] = "up" /\ r \notin pass[rows[r].node].gone
  /\ silence[rows[r].node] = "expired" \/ SeenOf(r) \in Up

NoneGivenUp == \A r \in Row :
  /\ Late(r) => LateRuns(r)
  /\ r \in sweep.fail => rows[r].age = "spent"

(* The rows that a returned node resumes were held; none is being failed.   *)
(* Verdicts are carried out before the sweeper holds rows.                  *)
HeldApart ==
  /\ \A n \in Node : heartbeat[n].at = "resume" => \A r \in heartbeat[n].rows :
       rows[r].node = n /\ rows[r].status # "deploying" /\ r \notin sweep.fail
  /\ \A r \in sweep.fail : rows[r].status # "held"
  /\ sweep.at # "stalled" => sweep.fail = {}

LEMMA Apart ==
  ASSUME [Next]_vars
  PROVE  \/ AgentNext /\ UNCHANGED <<rows, operator, sweep>>
         \/ ReleasesNext /\ UNCHANGED <<agents, report, silence>>
         \/ UNCHANGED vars
<1>1. CASE AgentNext /\ UNCHANGED <<operator, sweep>>
  BY <1>1 DEF AgentNext, PassStep, Fetch, FetchFails, StartRow, StartFails, RemoveRow, RemoveFails,
     Beat, BeatBlind, AgentRestart, Exit, Disconnect, Reconnect, Silence, store
<1>2. CASE UNCHANGED vars
  BY <1>2
<1>3. CASE ReleasesNext
  BY <1>3 DEF ReleasesNext, Open, BeginRestart, BeginStop, BeginCall, EndRestart, EndStop, FailPreparing,
     GoLive, RunsLate, HandlerStep, Promote, Recover, ReadHeld, Resume, ReadStranded, Place, SweepStep,
     SweepStalled, Rescue, FailStalled, MarkDown, ReadAffected, MovedAll, Move, ControlRestart, store
<1> QED
  BY <1>1, <1>2, <1>3 DEF Next

LEMMA Belongs ==
  ASSUME TypeOK, TypeOK', Imaged, [Next]_vars, NEW n \in Node PROVE On(n) \subseteq On(n)'
<1>1. \A r \in Row : rows'[r] = rows[r] \/ Inserted(r) \/ Prepared(r) \/ Decided(r)
  BY StepWrites, RowTurns
<1> QED
  BY <1>1 DEF On, Inserted, Prepared, Decided, Keeps

(* What a step of an agent does to the passes and the containers.           *)
LEMMA OnwardLeaves ==
  ASSUME TypeOK, NEW n \in Node, NEW left \in Pass, Onward(n, left)
  PROVE  /\ pass'[n] = left \/ pass'[n] = Rest
         /\ \A m \in Node \ {n} : pass'[m] = pass[m]
  BY DEF Onward, TypeOK, AgentTypeOK

Passing(n) ==
  /\ \A m \in Node \ {n} : pass'[m] = pass[m]
  /\ \/ box' = box /\ pass'[n].todo = {r \in pass'[n].todo : r \in Wanted(n) /\ box[r] # "up"}
                   /\ pass'[n].gone \subseteq On(n) \ Wanted(n)
     \/ \E r \in pass[n].todo :
          /\ \A s \in Row \ {r} : box'[s] = box[s]
          /\ pass'[n].todo \subseteq pass[n].todo \ {r} /\ pass'[n].gone \subseteq pass[n].gone
     \/ \E r \in pass[n].gone :
          /\ \A s \in Row \ {r} : box'[s] = box[s]
          /\ box'[r] # "up" \/ box'[r] = box[r]
          /\ pass'[n].todo \subseteq pass[n].todo /\ pass'[n].gone \subseteq pass[n].gone

LEMMA PassSteps ==
  ASSUME TypeOK, NEW n \in Node,
         \/ Fetch(n) \/ FetchFails(n) \/ StartRow(n) \/ StartFails(n)
         \/ RemoveRow(n) \/ RemoveFails(n) \/ AgentRestart(n)
  PROVE  Passing(n)
<1>0. /\ box \in [Row -> {"none", "down", "up"}] /\ pass \in [Node -> Pass]
      /\ pass[n] \in Pass /\ pass[n].todo \subseteq Row /\ pass[n].gone \subseteq Row
      /\ Rest.todo = {} /\ Rest.gone = {}
  BY DEF TypeOK, AgentTypeOK, Pass, Rest
<1>1. CASE Fetch(n)
  <2>1. Listing(n) \in Pass /\ Onward(n, Listing(n)) /\ box' = box
    BY <1>1 DEF Fetch, Listing, Pass, Wanted, On
  <2>2. /\ Listing(n).todo = {r \in Wanted(n) : box[r] # "up"}
        /\ Listing(n).gone \subseteq On(n) \ Wanted(n)
    BY DEF Listing
  <2> QED
    BY <1>0, <2>1, <2>2, OnwardLeaves DEF Passing
<1>2. CASE FetchFails(n)
  BY <1>0, <1>2 DEF FetchFails, Passing
<1>3. CASE StartRow(n) \/ StartFails(n)
  <2>1. PICK r \in pass[n].todo : /\ Onward(n, [pass[n] EXCEPT !.todo = @ \ {r}])
                                  /\ \E b : box' = [box EXCEPT ![r] = b]
    BY <1>3 DEF StartRow, StartFails
  <2>2. /\ [pass[n] EXCEPT !.todo = @ \ {r}] \in Pass
        /\ [pass[n] EXCEPT !.todo = @ \ {r}].todo = pass[n].todo \ {r}
        /\ [pass[n] EXCEPT !.todo = @ \ {r}].gone = pass[n].gone
    BY <1>0 DEF Pass
  <2>3. /\ pass'[n].todo \subseteq pass[n].todo \ {r} /\ pass'[n].gone \subseteq pass[n].gone
        /\ \A m \in Node \ {n} : pass'[m] = pass[m]
    BY <1>0, <2>1, <2>2, OnwardLeaves
  <2> QED
    BY <1>0, <2>1, <2>3 DEF Passing
<1>4. CASE RemoveRow(n) \/ RemoveFails(n)
  <2>1. PICK r \in pass[n].gone : /\ Onward(n, [pass[n] EXCEPT !.gone = @ \ {r}])
                                  /\ box' = box \/ box' = [box EXCEPT ![r] = "none"]
    BY <1>4 DEF RemoveRow, RemoveFails
  <2>2. /\ [pass[n] EXCEPT !.gone = @ \ {r}] \in Pass
        /\ [pass[n] EXCEPT !.gone = @ \ {r}].todo = pass[n].todo
        /\ [pass[n] EXCEPT !.gone = @ \ {r}].gone = pass[n].gone \ {r}
    BY <1>0 DEF Pass
  <2>3. /\ pass'[n].todo \subseteq pass[n].todo /\ pass'[n].gone \subseteq pass[n].gone
        /\ \A m \in Node \ {n} : pass'[m] = pass[m]
    BY <1>0, <2>1, <2>2, OnwardLeaves
  <2> QED
    BY <1>0, <2>1, <2>3 DEF Passing
<1>5. CASE AgentRestart(n)
  BY <1>0, <1>5 DEF AgentRestart, Passing
<1> QED
  BY <1>1, <1>2, <1>3, <1>4, <1>5

(* The other steps of an agent leave its passes alone, and the containers   *)
(* but for the one that exits.                                              *)
LEMMA AgentSteps ==
  ASSUME TypeOK, AgentNext
  PROVE  \/ \E n \in Node : Passing(n) /\ UNCHANGED <<report, silence>>
         \/ \E r \in Row : Exit(r)
         \/ \E n \in Node : /\ UNCHANGED <<box, pass>>
                            /\ (\E due : Beat(n, due)) \/ BeatBlind(n) \/ Silence(n)
         \/ UNCHANGED <<box, pass, report, silence>>
<1>1. ASSUME NEW n \in Node,
             \/ Fetch(n) \/ FetchFails(n) \/ StartRow(n) \/ StartFails(n)
             \/ RemoveRow(n) \/ RemoveFails(n) \/ AgentRestart(n)
      PROVE  Passing(n) /\ UNCHANGED <<report, silence>>
  BY <1>1, PassSteps DEF Fetch, FetchFails, StartRow, StartFails, RemoveRow, RemoveFails, AgentRestart, store
<1>2. ASSUME NEW n \in Node, (\E due : Beat(n, due)) \/ BeatBlind(n) \/ Silence(n)
      PROVE  UNCHANGED <<box, pass>>
  BY <1>2 DEF Beat, BeatBlind, Silence, agents
<1>3. ASSUME NEW n \in Node, Disconnect(n) \/ Reconnect(n)
      PROVE  UNCHANGED <<box, pass, report, silence>>
  BY <1>3 DEF Disconnect, Reconnect, store
<1> QED
  BY <1>1, <1>2, <1>3 DEF AgentNext, PassStep

LEMMA InitPasses == Init => PassesOwn
  BY DEF Init, AgentInit, PassesOwn, Rest

LEMMA StepPasses ==
  ASSUME TypeOK, TypeOK', Imaged, PassesOwn, [Next]_vars PROVE PassesOwn'
<1>0. \A n \in Node : On(n) \subseteq On(n)'
  BY Belongs
<1>1. CASE UNCHANGED <<box, pass>>
  BY <1>0, <1>1 DEF PassesOwn
<1>2. ASSUME NEW n \in Node, Passing(n), rows' = rows PROVE PassesOwn'
  <2>1. \A m \in Node \ {n} : \A r \in pass[n].todo \union pass[n].gone : r \notin pass[m].todo
    BY DEF PassesOwn, On
  <2>2. /\ pass'[n].todo \subseteq On(n) /\ pass'[n].gone \subseteq On(n)
        /\ \A r \in pass'[n].todo : box'[r] # "up"
    BY <1>2 DEF Passing, PassesOwn, On, Wanted
  <2>3. \A m \in Node \ {n} : \A r \in pass[m].todo : box'[r] # "up"
    BY <1>2, <2>1 DEF Passing, PassesOwn, On
  <2> QED
    BY <1>0, <1>2, <2>2, <2>3 DEF Passing, PassesOwn
<1>3. ASSUME NEW s \in Row, Exit(s) PROVE PassesOwn'
  BY <1>0, <1>3 DEF Exit, PassesOwn, TypeOK, AgentTypeOK, On
<1>4. CASE AgentNext /\ rows' = rows
  BY <1>1, <1>2, <1>3, <1>4, AgentSteps
<1> QED
  BY <1>1, <1>4, Apart DEF vars, agents


(* What a step reads to be failed or to be resumed.                         *)
LEMMA Reading ==
  ASSUME TypeOK, [Next]_vars
  PROVE  /\ \A r \in sweep'.fail : r \in sweep.fail \/ (SweepStalled /\ r \in Judged /\ SeenOf(r) \notin Up)
         /\ sweep'.at # "stalled" /\ (sweep.at # "stalled" => sweep.fail = {}) => sweep'.fail = {}
         /\ \A n \in Node : heartbeat'[n].at = "resume" => \A r \in heartbeat'[n].rows :
              \/ heartbeat[n].at = "resume" /\ r \in heartbeat[n].rows
              \/ ReadHeld(n) /\ r \in On(n) /\ rows[r].status = "held"
<1>0. sweep \in Sweep /\ heartbeat \in [Node -> Handling]
  BY DEF TypeOK, ReleasesTypeOK, AgentTypeOK
<1>1. /\ \A r \in sweep'.fail : r \in sweep.fail \/ (SweepStalled /\ r \in Judged /\ SeenOf(r) \notin Up)
      /\ sweep'.at # "stalled" /\ (sweep.at # "stalled" => sweep.fail = {}) => sweep'.fail = {}
  <2>1. CASE SweepStalled
    BY <2>1 DEF SweepStalled, Asleep
  <2>2. CASE Rescue \/ FailStalled
    BY <1>0, <2>2 DEF Rescue, FailStalled, Sweep
  <2>3. CASE MarkDown
    BY <2>3 DEF MarkDown, Asleep
  <2>4. CASE ReadAffected
    BY <1>0, <2>4 DEF ReadAffected, Sweep
  <2>5. CASE MovedAll
    BY <1>0, <2>5 DEF MovedAll, Asleep, Sweep
  <2>6. CASE \E r \in Row : Move(r)
    BY <1>0, <2>6 DEF Move, Sweep
  <2>7. CASE ControlRestart
    BY <2>7 DEF ControlRestart, Asleep
  <2>8. CASE sweep' = sweep
    BY <2>8
  <2> QED
    BY <2>1, <2>2, <2>3, <2>4, <2>5, <2>6, <2>7, <2>8 DEF Next, vars, ReleasesNext, Open, BeginRestart,
       BeginStop, BeginCall, EndRestart, EndStop, FailPreparing, GoLive, RunsLate, HandlerStep, Promote,
       Recover, ReadHeld, Resume, ReadStranded, Place, SweepStep
<1>2. ASSUME NEW n \in Node, heartbeat'[n].at = "resume", NEW r \in heartbeat'[n].rows
      PROVE  \/ heartbeat[n].at = "resume" /\ r \in heartbeat[n].rows
             \/ ReadHeld(n) /\ r \in On(n) /\ rows[r].status = "held"
  <2>1. ASSUME heartbeat' = heartbeat PROVE heartbeat[n].at = "resume" /\ r \in heartbeat[n].rows
    BY <1>2, <2>1
  <2>2. ASSUME NEW m \in Node, NEW h, heartbeat' = [heartbeat EXCEPT ![m] = h]
        PROVE  heartbeat'[n] = IF n = m THEN h ELSE heartbeat[n]
    BY <1>0, <2>2
  <2>3. CASE AgentNext
    <3>1. \/ heartbeat' = heartbeat
          \/ \E m \in Node : \E set : heartbeat' = [heartbeat EXCEPT ![m] = [at |-> "promote", rows |-> set]]
      BY <2>3 DEF AgentNext, PassStep, Fetch, FetchFails, StartRow, StartFails, RemoveRow,
         RemoveFails, Beat, BeatBlind, Receive, AgentRestart, Exit, Disconnect, Reconnect, Silence, agents
    <3> QED
      BY <1>2, <2>1, <2>2, <3>1
  <2>4. ASSUME NEW m \in Node, HandlerStep(m) PROVE \/ heartbeat[n].at = "resume" /\ r \in heartbeat[n].rows
                                                    \/ ReadHeld(n) /\ r \in On(n) /\ rows[r].status = "held"
    <3>1. PICK at, set : Proceed(m, at, set) /\ (at = "resume" =>
            \/ heartbeat[m].at = "resume" /\ set \subseteq heartbeat[m].rows
            \/ ReadHeld(m) /\ set = {s \in On(m) : rows[s].status = "held"})
      <4>1. CASE Promote(m)
        BY <4>1 DEF Promote
      <4>2. CASE Resume(m)
        BY <4>2 DEF Resume
      <4>3. CASE ReadHeld(m)
        BY <4>3 DEF ReadHeld
      <4>4. CASE Recover(m) \/ Place(m)
        <5>1. \E at \in {"held", "none"} : Proceed(m, at, {})
          BY <4>4 DEF Recover, Place
        <5> QED
          BY <5>1
      <4>5. CASE ReadStranded(m)
        <5>1. \E at \in {"place", "none"} : \E set : Proceed(m, at, set)
          BY <4>5 DEF ReadStranded
        <5> QED
          BY <5>1
      <4> QED
        BY <2>4, <4>1, <4>2, <4>3, <4>4, <4>5 DEF HandlerStep
    <3>2. heartbeat'[n] = IF n = m THEN [at |-> at, rows |-> set] ELSE heartbeat[n]
      BY <2>2, <3>1 DEF Proceed
    <3> QED
      BY <1>2, <3>1, <3>2
  <2>5. CASE ControlRestart
    BY <1>2, <2>5 DEF ControlRestart, Handled
  <2> QED
    BY <2>1, <2>3, <2>4, <2>5 DEF Next, vars, ReleasesNext, Open, BeginRestart, BeginStop, BeginCall, EndRestart,
       EndStop, FailPreparing, GoLive, RunsLate, SweepStep, SweepStalled, Rescue, FailStalled, MarkDown,
       ReadAffected, MovedAll, Move
<1> QED
  BY <1>1, <1>2

LEMMA InitApart == Init => HeldApart
  BY DEF Init, AgentInit, ReleasesInit, Handled, Asleep, HeldApart

LEMMA StepApart ==
  ASSUME TypeOK, Imaged, HeldApart, [Next]_vars PROVE HeldApart'
<1>0. \A r \in Row : rows'[r] = rows[r] \/ Inserted(r) \/ Prepared(r) \/ Decided(r)
  BY StepWrites, RowTurns
<1>1. /\ \A r \in sweep.fail : r \in Row /\ rows[r].image # NoImage
      /\ \A n \in Node : \A r \in heartbeat[n].rows : r \in Row /\ rows[r].image # NoImage
  BY Names DEF Imaged, Named
<1>2. \A r \in Row : rows[r].image # NoImage => rows'[r] = rows[r] \/ Decided(r)
  BY <1>0 DEF Imaged, Inserted, Prepared
<1>3. \A n \in Node : (SweepStalled \/ ReadHeld(n)) => rows' = rows /\ (SweepStalled => heartbeat' = heartbeat)
                      /\ (ReadHeld(n) => sweep' = sweep)
  BY DEF SweepStalled, ReadHeld, store
<1>4. ASSUME NEW n \in Node, heartbeat'[n].at = "resume", NEW r \in heartbeat'[n].rows
      PROVE  rows'[r].node = n /\ rows'[r].status # "deploying" /\ r \notin sweep'.fail
  <2>1. CASE ReadHeld(n) /\ r \in On(n) /\ rows[r].status = "held"
    <3>1. rows' = rows /\ sweep' = sweep
      BY <1>3, <2>1
    <3>2. r \notin sweep.fail
      BY <2>1 DEF HeldApart
    <3> QED
      BY <2>1, <3>1, <3>2 DEF On
  <2>2. CASE heartbeat[n].at = "resume" /\ r \in heartbeat[n].rows
    <3>1. rows[r].node = n /\ rows[r].status # "deploying" /\ r \notin sweep.fail
      BY <2>2 DEF HeldApart
    <3>2. r \notin sweep'.fail
      BY <3>1, Reading DEF Judged, Overdue
    <3>3. rows'[r] = rows[r] \/ Decided(r)
      BY <1>1, <1>2, <2>2
    <3>4. ~Renewed(r)
      BY <1>4, <3>1 DEF Renewed, HeldApart
    <3> QED
      BY <3>1, <3>2, <3>3, <3>4 DEF Decided, Keeps
  <2> QED
    BY <1>4, <2>1, <2>2, Reading
<1>5. ASSUME NEW r \in sweep'.fail PROVE rows'[r].status # "held"
  <2>1. CASE r \in sweep.fail
    BY <1>1, <1>2, <2>1 DEF HeldApart, Decided
  <2>2. CASE SweepStalled /\ r \in Judged
    BY <2>2 DEF SweepStalled, store, Judged, Overdue
  <2> QED
    BY <2>1, <2>2, Reading
<1> QED
  BY <1>4, <1>5, Reading DEF HeldApart


(* The step of the sweeper's verdict, and every other.                      *)
LEMMA StepGivesUpNone ==
  ASSUME TypeOK, TypeOK', Imaged, PassesOwn, HeldApart, Prompt, Calm', NoneGivenUp, [Next]_vars
  PROVE  NoneGivenUp'
<1>0. /\ rows \in [Row -> Release] /\ box \in [Row -> {"none", "down", "up"}]
      /\ \A r \in Row : rows[r].node \in Node
      /\ silence \in [Node -> {"fresh", "stale", "expired"}] /\ report \in [Node -> [Row -> Seen]]
      /\ verdict' \in [Row -> {"none", "unhealthy", "healthy"}]
  BY DEF TypeOK, StoreTypeOK, AgentTypeOK, Release
<1>1. ~Fault("exit") /\ ~Fault("docker")
  BY DEF Calm, Fault, TypeOK, AgentTypeOK
<1>2. CASE UNCHANGED vars
  BY <1>2 DEF vars, store, agents, NoneGivenUp, Late, LateRuns, SeenOf
<1>3. ASSUME ReleasesNext, UNCHANGED <<agents, report, silence>> PROVE NoneGivenUp'
  <2>1. ASSUME NEW r \in Row, Late(r)' PROVE LateRuns(r) /\ rows'[r].node = rows[r].node
    <3>1. rows'[r] = rows[r] \/ Inserted(r) \/ Prepared(r) \/ Decided(r)
      BY StepWrites, RowTurns
    <3>2. rows'[r].node = rows[r].node /\ (RunsLate(r) \/ Late(r))
      BY <2>1, <3>1 DEF Late, Inserted, Prepared, Decided, Renewed, RunsLate, Keeps
    <3>3. RunsLate(r) => LateRuns(r)
      BY DEF RunsLate, LateRuns
    <3> QED
      BY <3>2, <3>3 DEF NoneGivenUp
  <2>2. ASSUME NEW r \in Row, r \in sweep'.fail PROVE rows'[r].age = "spent"
    <3>1. CASE r \in sweep.fail
      <4>1. rows[r].age = "spent" /\ ~Renewed(r)
        BY <3>1 DEF NoneGivenUp, HeldApart, Renewed
      <4>2. rows'[r] = rows[r] \/ Inserted(r) \/ Prepared(r) \/ Decided(r)
        BY StepWrites, RowTurns
      <4> QED
        BY <4>1, <4>2 DEF Imaged, Inserted, Prepared, Decided, RunsLate
    <3>2. CASE SweepStalled /\ r \in Judged /\ SeenOf(r) \notin Up
      <4>1. ~Late(r)
        BY <3>2 DEF Judged, Forgotten, NoneGivenUp, LateRuns
      <4>2. rows[r].age \in {"late", "spent"}
        BY <1>0, <3>2 DEF Judged, Overdue, Release
      <4> QED
        BY <3>2, <4>1, <4>2 DEF SweepStalled, store, Late, Judged, Overdue
    <3> QED
      BY <2>2, <3>1, <3>2, Reading
  <2> QED
    BY <1>3, <2>1, <2>2 DEF NoneGivenUp, LateRuns, SeenOf, agents
<1>4. ASSUME AgentNext, UNCHANGED <<rows, operator, sweep>>, NEW r \in Row, Late(r) PROVE LateRuns(r)'
  <2> DEFINE m == rows[r].node
  <2>0. LateRuns(r) /\ m \in Node /\ r \in Wanted(m)
    BY <1>0, <1>4 DEF NoneGivenUp, Late, Wanted, On, Live
  <2>1. ASSUME NEW n \in Node, Passing(n) PROVE box'[r] = "up" /\ r \notin pass'[m].gone
    <3>1. m # n => pass'[m] = pass[m] /\ r \notin pass[n].todo \union pass[n].gone
      BY <2>0, <2>1 DEF Passing, PassesOwn, On
    <3>2. r \notin pass[n].todo /\ r \notin pass[n].gone
      BY <2>0, <3>1 DEF PassesOwn, LateRuns
    <3> QED
      BY <2>0, <2>1, <3>1, <3>2 DEF Passing, LateRuns
  <2>2. ASSUME NEW n \in Node, NEW due, Beat(n, due), UNCHANGED <<box, pass>> PROVE LateRuns(r)'
    <3> DEFINE seen == [s \in Row |-> IF s \in On(n) THEN SeenAs(s, verdict'[s]) ELSE "absent"]
    <3>1. report' = [report EXCEPT ![n] = seen] /\ silence' = [silence EXCEPT ![n] = "fresh"]
      BY <2>2 DEF Beat, Receive
    <3>2. m = n => seen[r] \in Up
      BY <1>0, <2>0 DEF Wanted, SeenAs, LateRuns, Up
    <3> HIDE DEF seen
    <3> QED
      BY <1>0, <1>4, <2>0, <2>2, <3>1, <3>2 DEF LateRuns, SeenOf
  <2>3. ASSUME NEW n \in Node, Silence(n), UNCHANGED <<box, pass>> PROVE LateRuns(r)'
    BY <1>0, <1>4, <2>0, <2>3 DEF Silence, LateRuns, SeenOf
  <2>4. ASSUME UNCHANGED <<report, silence>>, box'[r] = "up" /\ r \notin pass'[m].gone PROVE LateRuns(r)'
    BY <1>4, <2>0, <2>4 DEF LateRuns, SeenOf
  <2>5. ~(\E s \in Row : Exit(s)) /\ ~(\E n \in Node : BeatBlind(n))
    BY <1>1 DEF Exit, BeatBlind
  <2>6. LateRuns(r) => box[r] = "up" /\ r \notin pass[m].gone
    BY DEF LateRuns
  <2> HIDE DEF m
  <2> QED
    BY <1>4, <2>0, <2>1, <2>2, <2>3, <2>4, <2>5, <2>6, AgentSteps
<1>5. ASSUME AgentNext, UNCHANGED <<rows, operator, sweep>> PROVE NoneGivenUp'
  BY <1>4, <1>5 DEF NoneGivenUp, Late
<1> QED
  BY <1>2, <1>3, <1>5, Apart

LEMMA InitGivesUpNone == Init => NoneGivenUp
  BY DEF Init, StoreInit, ReleasesInit, Asleep, NoneGivenUp, Late, Deploying, NoRelease, Row

LEMMA CalmBefore == TypeOK /\ [Next]_vars /\ Calm' => Calm
<1> SUFFICES ASSUME TypeOK, [Next]_vars, faults' = 0 PROVE faults = 0
  BY DEF Calm
<1>1. faults' = faults \/ \E kind : Fault(kind)
  BY DEF Next, AgentNext, PassStep, Fetch, FetchFails, StartRow, StartFails, RemoveRow, RemoveFails,
     Beat, BeatBlind, AgentRestart, Exit, Disconnect, Reconnect, Silence, ReleasesNext, Open, BeginRestart,
     BeginStop, BeginCall, EndRestart, EndStop, FailPreparing, GoLive, RunsLate, HandlerStep, Promote,
     Recover, ReadHeld, Resume, ReadStranded, Place, SweepStep, SweepStalled, Rescue, FailStalled,
     MarkDown, ReadAffected, MovedAll, Move, ControlRestart, vars
<1> QED
  BY <1>1 DEF Fault, TypeOK, AgentTypeOK

Steady == TypeOK /\ Imaged /\ PassesOwn /\ HeldApart /\ (Calm => NoneGivenUp)

LEMMA Steadily == ASSUME Prompt PROVE Spec => []Steady
<1>1. Init => Steady
  BY InitTyped, InitImaged, InitPasses, InitApart, InitGivesUpNone DEF Steady
<1>2. Steady /\ [Next]_vars => Steady'
  BY StepTyped, StepImaged, StepPasses, StepApart, StepGivesUpNone, CalmBefore DEF Steady
<1> QED
  BY <1>1, <1>2, PTL DEF Spec

(* A rollout whose container runs and answers is not failed, for any number *)
(* of deploys, restarts and stops and however often links, agents and the   *)
(* control plane fail, unless it went live with its window used up: of no   *)
(* other does failStalledRollouts() then have a verdict of failure to carry *)
(* out, however late it carries it out.                                     *)
THEOREM WorkingRolloutsStay ==
  ASSUME Prompt, Faults \subseteq {"link", "agent", "control"}
  PROVE  Spec => WorkingNotFailed
<1>1. Steady /\ [Next]_vars => [\A r \in Row :
        rows[r].status \in Live /\ rows[r].age # "spent" /\ Answering(r) => rows'[r].status # "failed"]_vars
  <2> SUFFICES ASSUME Steady, [Next]_vars, NEW r \in Row,
                      rows[r].status \in Live, rows[r].age # "spent"
               PROVE  rows'[r].status # "failed"
    OBVIOUS
  <2>1. rows'[r] = rows[r] \/ Inserted(r) \/ Prepared(r) \/ Decided(r)
    BY StepWrites, RowTurns DEF Steady
  <2>2. r \notin sweep.fail
    BY DEF Steady, Calm, NoneGivenUp
  <2> QED
    BY <2>1, <2>2 DEF Inserted, Prepared, Decided, Live
<1> QED
  BY Steadily, <1>1, PTL DEF Spec, WorkingNotFailed

LEMMA StepNotLost ==
  ASSUME Steady, NotLost, Calm, "stop" \notin Operations, [Next]_vars PROVE NotLost'
<1>0. /\ rows \in [Row -> Release] /\ Named \subseteq Row /\ Fresh \subseteq Row
      /\ \A set : Supersede(set) \in [Row -> Release]
  BY SupersedeTyped DEF Steady, TypeOK, StoreTypeOK, Named, Fresh
<1>1. PICK k \in Row : rows[k].status \in Kept \/ (rows[k].status = "failed" /\ rows[k].age = "spent")
  BY DEF NotLost, Kept
<1>2. ASSUME NEW r \in Row, rows'[r].status \in Kept \/ (rows'[r].status = "failed" /\ rows'[r].age = "spent")
      PROVE  NotLost'
  BY <1>2 DEF NotLost, Kept
<1>3. CASE rows' = rows
  BY <1>1, <1>2, <1>3
<1>4. CASE Opens \/ Drops
  <2>1. PICK r \in Row : /\ rows[r].status \in {"absent", "preparing"}
                         /\ \A s \in Row \ {r} : rows'[s] = rows[s]
    BY <1>0, <1>4 DEF Opens, Drops, Fresh, Kept, Live
  <2> QED
    BY <1>1, <1>2, <2>1 DEF Kept, Live
<1>5. CASE Enters \/ Starts \/ Promotes \/ Decides \/ Resumes
  <2>1. \E r \in Row : rows'[r].status \in {"deploying", "running", "held", "stranded"}
    <3>1. CASE Enters
      BY <1>0, <3>1 DEF Enters, Release
    <3>2. CASE Starts
      BY <1>0, <3>2 DEF Starts, Deploying
    <3>3. CASE Promotes
      BY <1>0, <3>3, Names DEF Promotes, Release, Steady
    <3>4. CASE Decides
      BY <1>0, <3>4 DEF Decides, Release
    <3>5. CASE Resumes
      BY <1>0, <3>5, Names DEF Resumes, Release, Steady
    <3> QED
      BY <1>5, <3>1, <3>2, <3>3, <3>4, <3>5
  <2> QED
    BY <1>2, <2>1 DEF Kept, Live
<1>6. ~Stops
  BY DEF Stops, Steady, Imaged
<1>8. CASE GivesUp
  <2>1. PICK r \in sweep.fail : rows' = [rows EXCEPT ![r].status = "failed"]
    BY <1>8 DEF GivesUp
  <2>2. r \in Row /\ rows[r].age = "spent"
    BY <1>0, Names DEF Steady, NoneGivenUp
  <2>3. rows'[r].status = "failed" /\ rows'[r].age = "spent"
    BY <1>0, <2>1, <2>2 DEF Release
  <2> QED
    BY <1>2, <2>2, <2>3
<1>7. CASE Ages
  BY <1>0, <1>1, <1>2, <1>7 DEF Ages, RunsLate, Release, Kept, Live
<1> QED
  BY <1>3, <1>4, <1>5, <1>6, <1>7, <1>8, StepWrites DEF RowWrite, Steady

(* Unless it is stopped, no order of deploys, restarts, failovers and       *)
(* returns loses a service, pinned or not, with a volume or without, while  *)
(* links, agents and the control plane fail, but by failing a rollout that  *)
(* went live with its window used up: every other write that takes a row    *)
(* out of service puts another one in, holds it or strands it.              *)
THEOREM NeverLost ==
  ASSUME Prompt, Faults \subseteq {"link", "agent", "control"}, "stop" \notin Operations
  PROVE  Spec => []NotLost
<1>1. Init => NotLost
  <2>1. 1 \in Row
    BY DEF Row
  <2>2. ASSUME Init PROVE rows[1] = [Deploying(Home, FirstImage, 1) EXCEPT !.status = "running", !.age = "late"]
    BY <2>1, <2>2 DEF Init, StoreInit
  <2>3. ASSUME Init PROVE rows[1].status = "running"
    BY <2>2, <2>3 DEF Deploying
  <2> QED
    BY <2>1, <2>3 DEF NotLost, Live
<1>2. Steady /\ NotLost /\ [Next]_vars => NotLost'
  BY StepNotLost DEF Calm
<1> QED
  BY Steadily, <1>1, <1>2, PTL DEF Spec


-----------------------------------------------------------------------------
(* A deploy, while nothing fails.                                           *)

Quiet == faults = 0 /\ operations <= 1

(* There is the release the service had and at most one that follows it.    *)
OneFollows ==
  /\ calls = {}
  /\ \A r \in Row \ {1, 2} : rows[r].status = "absent"
  /\ operations = 0 => \A r \in Row \ {1} : rows[r].status = "absent"
  /\ rows[1].status \in {"running", "superseded"} /\ rows[1].image = FirstImage
  /\ rows[1].node = Home /\ rows[1].port = 1
  /\ \A r \in Row \ {1} : /\ rows[r].status \in {"absent", "preparing", "failed"} \union Live
                          /\ rows[r].status \in Live => rows[r].port = r

NothingDown ==
  /\ \A n \in Node : /\ nodeStatus[n] = "online" /\ silence[n] = "fresh" /\ connected[n]
                     /\ heartbeat[n].at \in {"none", "promote"}
  /\ sweep.at \in {"rest", "stalled"} /\ sweep.nodes = {} /\ sweep.rows = {}

(* Only the release that follows is about to be promoted or rescued; where  *)
(* its container was not seen, the one taken for it is on the same node.    *)
InHand ==
  /\ \A n \in Node : \A r \in heartbeat[n].rows :
       /\ r # 1 /\ rows[r].status \in Live /\ rows[r].node = n
       /\ box[r] = "up" \/ n = Home
  /\ \A r \in sweep.rescue : r # 1 /\ rows[r].status \in Live

(* The next release runs, or is started on the old one's node before that   *)
(* is removed.                                                              *)
Relieved(r) ==
  /\ rows[r].status = "running"
  /\ \/ box[r] = "up"
     \/ box[1] = "up" /\ rows[r].node = Home /\ (1 \in pass[Home].gone => r \in pass[Home].todo)

OneServes ==
  /\ \A r \in Row \ {1} :
       /\ rows[r].status \notin Live => box[r] = "none"
       /\ \A n \in Node : r \notin pass[n].gone /\ (r \in pass[n].todo => rows[r].status \in Live)
  /\ \A n \in Node : 1 \notin pass[n].todo /\ (1 \in pass[n].gone => rows[1].status = "superseded")
  /\ rows[1].status = "running" => box[1] = "up"
  /\ rows[1].status = "superseded" => \E r \in Row \ {1} : Relieved(r)

Deployed == OneFollows /\ NothingDown /\ InHand /\ OneServes

LEMMA QuietBefore ==
  ASSUME TypeOK, [Next]_vars, Quiet'
  PROVE  Quiet /\ \A kind : ~Fault(kind)
<1>1. faults' = faults \/ \E kind : Fault(kind)
  BY DEF Next, AgentNext, PassStep, Fetch, FetchFails, StartRow, StartFails, RemoveRow, RemoveFails,
     Beat, BeatBlind, AgentRestart, Exit, Disconnect, Reconnect, Silence, ReleasesNext, Open, BeginRestart,
     BeginStop, BeginCall, EndRestart, EndStop, FailPreparing, GoLive, RunsLate, HandlerStep, Promote,
     Recover, ReadHeld, Resume, ReadStranded, Place, SweepStep, SweepStalled, Rescue, FailStalled,
     MarkDown, ReadAffected, MovedAll, Move, ControlRestart, vars
<1>2. operations' = operations \/ \E kind : Operate(kind)
  BY DEF Next, ReleasesNext, Open, BeginRestart,
     BeginStop, BeginCall, EndRestart, EndStop, FailPreparing, GoLive, RunsLate, HandlerStep, Promote,
     Recover, ReadHeld, Resume, ReadStranded, Place, SweepStep, SweepStalled, Rescue, FailStalled,
     MarkDown, ReadAffected, MovedAll, Move, ControlRestart, vars, operator
<1>3. faults \in Nat /\ operations \in Nat
  BY DEF TypeOK, AgentTypeOK, ReleasesTypeOK
<1> QED
  BY <1>1, <1>2, <1>3 DEF Fault, Operate, Quiet

LEMMA AgentStepDeployed ==
  ASSUME Steady, Deployed, \A kind : ~Fault(kind), AgentNext, UNCHANGED <<rows, operator, sweep>>
  PROVE  Deployed'
<1> USE DEF Deployed
<1>0. /\ rows \in [Row -> Release] /\ box \in [Row -> {"none", "down", "up"}]
      /\ pass \in [Node -> Pass] /\ heartbeat \in [Node -> Handling]
      /\ silence \in [Node -> {"fresh", "stale", "expired"}]
      /\ 1 \in Row /\ Home \in Node /\ Rest.todo = {} /\ Rest.gone = {}
  BY DEF Steady, TypeOK, StoreTypeOK, AgentTypeOK, Row, Rest
<1>1. PassesOwn /\ TypeOK
  BY DEF Steady
<1>2. OneFollows'
  BY DEF OneFollows, operator
<1>3. \E n \in Node : PassStep(n) \/ \E due : Beat(n, due)
  BY DEF AgentNext, FetchFails, StartFails, RemoveFails, BeatBlind, AgentRestart, Disconnect, Exit,
     Reconnect, Silence, NothingDown
<1>4. ASSUME UNCHANGED <<nodeStatus, silence, connected, heartbeat>>,
             \A r \in Row \ {1} : box[r] = "up" => box'[r] = "up"
      PROVE  NothingDown' /\ InHand'
  <2>1. \A n \in Node : \A r \in heartbeat[n].rows : r \in Row
    BY <1>0 DEF Handling
  <2> QED
    BY <1>4, <2>1 DEF NothingDown, InHand
<1>5. ASSUME NEW n \in Node, Fetch(n) PROVE Deployed'
  <2>1. Listing(n) \in Pass /\ Onward(n, Listing(n))
    BY <1>5 DEF Fetch, Listing, Pass, Wanted, On
  <2>2. /\ \A m \in Node \ {n} : pass'[m] = pass[m]
        /\ pass'[n] = Rest \/ pass'[n] = Listing(n)
    BY <1>1, <2>1, OnwardLeaves
  <2>3. /\ Listing(n).todo = {r \in Wanted(n) : box[r] # "up"}
        /\ Listing(n).gone = {r \in On(n) \ Wanted(n) : box[r] # "none"}
    BY DEF Listing
  <2>4. UNCHANGED <<box, nodeStatus, silence, connected, heartbeat>>
    BY <1>5 DEF Fetch, store
  <2>5. ASSUME NEW r \in Row \ {1}, Relieved(r) PROVE Relieved(r)'
    <3>1. r \in Listing(Home).todo \/ box[r] = "up" \/ rows[r].node # Home
      BY <2>3, <2>5 DEF Relieved, Listing, Wanted, On, Live
    <3> QED
      BY <1>0, <2>2, <2>4, <2>5, <3>1 DEF Relieved
  <2>6. \A r \in Row \ {1} : \A m \in Node :
          r \notin pass'[m].gone /\ (r \in pass'[m].todo => rows[r].status \in Live)
    BY <1>0, <2>2, <2>3 DEF OneServes, Wanted, On
  <2>7. \A m \in Node : 1 \notin pass'[m].todo /\ (1 \in pass'[m].gone => rows[1].status = "superseded")
    BY <1>0, <2>2, <2>3 DEF OneServes, OneFollows, Wanted, On, Live
  <2>8. OneServes'
    BY <2>4, <2>5, <2>6, <2>7 DEF OneServes
  <2> QED
    BY <1>2, <1>4, <2>4, <2>8
<1>6. ASSUME NEW n \in Node, StartRow(n) PROVE Deployed'
  <2>1. PICK r \in pass[n].todo : /\ Onward(n, [pass[n] EXCEPT !.todo = @ \ {r}])
                                  /\ box' = [box EXCEPT ![r] = IF PortFree(r) THEN "up" ELSE "down"]
    BY <1>6 DEF StartRow
  <2>2. r \in On(n) /\ r # 1 /\ r \in Row /\ rows[r].status \in Live
    BY <1>1, <2>1 DEF PassesOwn, OneServes, On
  <2>3. PortFree(r)
    <3>1. \A s \in On(n) \ {r} : s = 1
      BY <2>2 DEF On, OneFollows, Live
    <3>2. rows[n].port = rows[n].port /\ rows[r].port = r /\ rows[1].port = 1
      BY <2>2 DEF OneFollows
    <3> QED
      BY <2>2, <3>1, <3>2 DEF PortFree, On
  <2>4. box' = [box EXCEPT ![r] = "up"] /\ UNCHANGED <<nodeStatus, silence, connected, heartbeat>>
    BY <1>6, <2>1, <2>3 DEF StartRow, store
  <2>5. [pass[n] EXCEPT !.todo = @ \ {r}] \in Pass
    BY <1>0 DEF Pass
  <2>6. /\ \A m \in Node \ {n} : pass'[m] = pass[m]
        /\ pass'[n].todo \subseteq pass[n].todo /\ pass'[n].gone \subseteq pass[n].gone
        /\ \A s \in pass[n].todo \ {r} : s \in pass'[n].todo \/ pass'[n] = Rest
    BY <1>0, <1>1, <2>1, <2>5, OnwardLeaves DEF Pass
  <2>7. \A s \in Row \ {1} : Relieved(s) => Relieved(s)'
    BY <1>0, <2>2, <2>4, <2>6 DEF Relieved
  <2>8. OneServes'
    BY <1>0, <2>2, <2>4, <2>6, <2>7 DEF OneServes
  <2> QED
    BY <1>0, <1>2, <1>4, <2>4, <2>8
<1>7. ASSUME NEW n \in Node, RemoveRow(n) PROVE Deployed'
  <2>1. PICK r \in pass[n].gone : /\ Onward(n, [pass[n] EXCEPT !.gone = @ \ {r}])
                                  /\ box' = [box EXCEPT ![r] = "none"] /\ pass[n].todo = {}
    BY <1>7 DEF RemoveRow
  <2>2. r = 1 /\ n = Home /\ rows[1].status = "superseded"
    BY <1>1, <2>1 DEF PassesOwn, OneServes, OneFollows, On
  <2>3. UNCHANGED <<nodeStatus, silence, connected, heartbeat>>
    BY <1>7 DEF RemoveRow, store
  <2>4. [pass[n] EXCEPT !.gone = @ \ {r}] \in Pass
    BY <1>0 DEF Pass
  <2>5. /\ \A m \in Node \ {n} : pass'[m] = pass[m]
        /\ pass'[n].todo \subseteq pass[n].todo /\ pass'[n].gone \subseteq pass[n].gone
    BY <1>0, <1>1, <2>1, <2>4, OnwardLeaves DEF Pass
  <2>6. \A s \in Row \ {1} : Relieved(s) => Relieved(s)'
    BY <1>0, <2>1, <2>2 DEF Relieved
  <2>7. OneServes'
    BY <1>0, <2>1, <2>2, <2>5, <2>6 DEF OneServes
  <2> QED
    BY <1>0, <1>2, <1>4, <2>1, <2>2, <2>3, <2>7
<1>8. ASSUME NEW n \in Node, NEW due, Beat(n, due) PROVE Deployed'
  <2> DEFINE seen == [r \in Row |-> IF r \in On(n) THEN SeenAs(r, verdict'[r]) ELSE "absent"]
  <2>1. PICK last \in Row :
          /\ ByName(seen, last)
          /\ heartbeat' = [heartbeat EXCEPT ![n] = [at |-> "promote", rows |-> Promotable(n, seen, last)]]
          /\ silence' = [silence EXCEPT ![n] = "fresh"]
          /\ UNCHANGED <<nodeStatus, box, pass, connected>>
    BY <1>8 DEF Beat, Receive
  <2>2. ASSUME NEW r \in Promotable(n, seen, last)
        PROVE  r # 1 /\ rows[r].status \in Live /\ rows[r].node = n /\ (box[r] = "up" \/ n = Home)
    <3>1. r \in On(n) /\ rows[r].status = "deploying" /\ r # 1
      BY <2>2 DEF Promotable, OneFollows, On
    <3>2. CASE seen[r] \in {"healthy", "unprobed"}
      BY <1>0, <3>1, <3>2 DEF SeenAs, Live, On, OneServes
    <3>3. ASSUME NEW s \in Row, seen[s] # "absent", s # r PROVE s = 1 /\ n = Home
      BY <3>1, <3>3 DEF OneFollows, On
    <3>4. CASE seen[r] = "absent" /\ seen[last] \in {"healthy", "unprobed"}
      BY <3>1, <3>3, <3>4 DEF Live, On
    <3> QED
      BY <2>2, <3>2, <3>4, <3>1 DEF Promotable, Evidence, On, Live
  <2> HIDE DEF seen
  <2>3. NothingDown' /\ InHand'
    <3>1. heartbeat'[n] = [at |-> "promote", rows |-> Promotable(n, seen, last)]
      BY <1>0, <2>1
    <3>2. \A m \in Node \ {n} : heartbeat'[m] = heartbeat[m]
      BY <1>0, <2>1
    <3>3. \A m \in Node : silence'[m] = "fresh"
      BY <1>0, <2>1 DEF NothingDown
    <3> QED
      BY <2>1, <2>2, <3>1, <3>2, <3>3 DEF NothingDown, InHand
  <2> QED
    BY <1>2, <2>1, <2>3 DEF OneServes, Relieved
<1> QED
  BY <1>3, <1>5, <1>6, <1>7, <1>8 DEF PassStep


LEMMA HeldBack ==
  ASSUME HasVolume = FALSE, rows \in [Row -> Release] PROVE Supersede(Replaced) = rows
  BY SupersedeNone DEF Replaced

(* Of the control plane's steps, a few are possible.                        *)
LEMMA ControlSteps ==
  ASSUME Deployed, sweep.fail = {}, \A kind : ~Fault(kind), Operations \subseteq {"deploy"}, ReleasesNext
  PROVE  \/ Open \/ \E r \in Row : FailPreparing(r) \/ GoLive(r) \/ RunsLate(r)
         \/ \E n \in Node : Promote(n) \/ Recover(n)
         \/ SweepStalled \/ Rescue \/ MarkDown
<1> USE DEF Deployed
<1>1. ~BeginRestart /\ ~BeginStop /\ ~ControlRestart
  BY DEF BeginRestart, BeginStop, BeginCall, Operate, ControlRestart
<1>2. ~EndRestart /\ ~EndStop
  BY DEF EndRestart, EndStop, OneFollows
<1>3. \A n \in Node : ~ReadHeld(n) /\ ~Resume(n) /\ ~ReadStranded(n) /\ ~Place(n)
  <2>1. ASSUME NEW n \in Node, ReadStranded(n) PROVE heartbeat[n].at = "resume"
    BY <2>1 DEF ReadStranded
  <2> QED
    BY <2>1 DEF ReadHeld, Resume, Place, NothingDown
<1>4. ~FailStalled /\ ~ReadAffected /\ ~MovedAll /\ \A r \in Row : ~Move(r)
  BY DEF FailStalled, ReadAffected, MovedAll, Move, NothingDown
<1> QED
  BY <1>1, <1>2, <1>3, <1>4 DEF ReleasesNext, HandlerStep, SweepStep

LEMMA ControlStepDeployed ==
  ASSUME Steady, Deployed, sweep.fail = {}, \A kind : ~Fault(kind), Quiet',
         Operations \subseteq {"deploy"}, HasVolume = FALSE,
         ReleasesNext, UNCHANGED <<agents, report, silence>>
  PROVE  Deployed'
<1> USE DEF Deployed
<1>0. /\ rows \in [Row -> Release] /\ heartbeat \in [Node -> Handling] /\ sweep \in Sweep
      /\ \A n \in Node : heartbeat[n].rows \subseteq Row
      /\ nodeStatus \in [Node -> {"online", "offline"}] /\ operations \in Nat
      /\ 1 \in Row /\ Home \in Node /\ sweep.rescue \subseteq Row
  BY DEF Steady, TypeOK, StoreTypeOK, AgentTypeOK, ReleasesTypeOK, Handling, Sweep, Row
<1>1. \A r \in Row \ {1} : rows[r].status # "absent" => r = 2
  BY DEF OneFollows
<1>2. UNCHANGED <<box, pass, connected>>
  BY DEF agents
(* What has to hold of the row that a step changes, the next release's.     *)
<1>3. ASSUME NEW r \in Row \ {1}, r = 2, rows'[1] = rows[1] \/ rows'[1] = [rows[1] EXCEPT !.status = "superseded"],
             \A s \in Row \ {1, r} : rows'[s] = rows[s],
             calls' = calls, operations' # 0 \/ rows[r].status # "absent",
             rows'[r].status \in {"preparing", "failed"} \union Live,
             rows'[r].status \in Live => rows'[r].port = r,
             rows[r].status \in Live => rows'[r].status \in Live /\ rows'[r].node = rows[r].node,
             rows[r].status = "running" => rows'[r].status = "running",
             operations \in {operations', 0}
      PROVE  /\ OneFollows'
             /\ \A s \in Row \ {1} : Relieved(s) => Relieved(s)'
             /\ rows'[1] = rows[1] => OneServes'
  <2>1. rows[1] \in Release
    BY <1>0
  <2>2. /\ rows'[1].status \in {"running", "superseded"} /\ rows'[1].image = FirstImage
        /\ rows'[1].node = Home /\ rows'[1].port = 1
    BY <1>3, <2>1 DEF OneFollows, Release
  <2>3. OneFollows'
    BY <1>0, <1>3, <2>2 DEF OneFollows
  <2>4. ASSUME NEW s \in Row \ {1}, Relieved(s) PROVE Relieved(s)'
    BY <1>2, <1>3, <2>4 DEF Relieved, Live
  <2> QED
    BY <1>2, <1>3, <2>3, <2>4 DEF OneServes
<1>4. ASSUME UNCHANGED <<rows, calls, operations>> PROVE OneFollows' /\ OneServes'
  BY <1>2, <1>4 DEF OneFollows, OneServes, Relieved
<1>5. ASSUME UNCHANGED <<nodeStatus, heartbeat, sweep>> PROVE NothingDown'
  BY <1>2, <1>5 DEF NothingDown
<1>6. ASSUME UNCHANGED <<heartbeat, sweep>>,
             \A r \in Row \ {1} : rows[r].status \in Live => rows'[r].status \in Live /\ rows'[r].node = rows[r].node
      PROVE  InHand'
  BY <1>0, <1>2, <1>6 DEF InHand
<1>7. CASE Open
  <2>1. PICK r \in Fresh, n \in Node : /\ rows' = [rows EXCEPT ![r].status = "preparing", ![r].node = n]
                                       /\ operations' = operations + 1
    BY <1>7 DEF Open, Operate, Eligible, Online
  <2>2. operations = 0 /\ operations' = 1
    BY <1>0, <2>1 DEF Quiet
  <2>3. r \in Row /\ r # 1 /\ rows[r].status = "absent"
    BY <1>0, <2>1 DEF Fresh, OneFollows
  <2>4. r = 2
    <3>1. r > 2 => 2 \in 1..(r - 1) /\ 2 \in Row
      BY <2>3 DEF Row
    <3>2. ~(r > 2)
      BY <2>1, <2>2, <3>1 DEF Fresh, OneFollows
    <3> QED
      BY <2>3, <3>2 DEF Row
  <2>5. rows'[r] = [rows[r] EXCEPT !.status = "preparing", !.node = n] /\ \A s \in Row \ {r} : rows'[s] = rows[s]
    BY <1>0, <2>1, <2>3
  <2>6. rows'[r].status = "preparing"
    BY <1>0, <2>3, <2>5 DEF Release
  <2>7. OneFollows' /\ OneServes'
    BY <1>0, <1>3, <1>7, <2>2, <2>3, <2>4, <2>5, <2>6 DEF Open, Live
  <2> QED
    BY <1>5, <1>6, <1>7, <2>3, <2>5, <2>7 DEF Open, Live
<1>8. ASSUME NEW r \in Row, FailPreparing(r) \/ GoLive(r) PROVE Deployed'
  <2>1. rows[r].status = "preparing" /\ r # 1 /\ r = 2
    BY <1>1, <1>8 DEF FailPreparing, GoLive, GoesLive, OneFollows
  <2>2. /\ \/ rows'[r] = [rows[r] EXCEPT !.status = "failed"]
           \/ \E i \in Image, age \in {"new", "spent"} :
                rows'[r] = [rows[r] EXCEPT !.status = "deploying", !.image = i, !.port = r, !.age = age]
        /\ \A s \in Row \ {r} : rows'[s] = rows[s]
    <3>1. CASE FailPreparing(r)
      BY <1>0, <3>1 DEF FailPreparing
    <3>2. ASSUME NEW i \in Image, NEW age \in {"new", "spent"},
                 rows' = [rows EXCEPT ![r].status = "deploying", ![r].image = i, ![r].port = r, ![r].age = age]
          PROVE  /\ rows'[r] = [rows[r] EXCEPT !.status = "deploying", !.image = i, !.port = r, !.age = age]
                 /\ \A s \in Row \ {r} : rows'[s] = rows[s]
      BY <1>0, <3>2
    <3>3. ASSUME GoLive(r)
          PROVE  \E i \in Image, age \in {"new", "spent"} :
                   rows' = [rows EXCEPT ![r].status = "deploying", ![r].image = i, ![r].port = r, ![r].age = age]
      BY <1>0, <3>3, HeldBack DEF GoLive
    <3> QED
      BY <1>8, <3>1, <3>2, <3>3
  <2>3. rows'[r].status = "failed" \/ (rows'[r].status = "deploying" /\ rows'[r].port = r)
    <3>1. rows[r] \in Release
      BY <1>0
    <3>2. CASE rows'[r] = [rows[r] EXCEPT !.status = "failed"]
      BY <3>1, <3>2 DEF Release
    <3>3. ASSUME NEW i \in Image, NEW age \in {"new", "spent"},
                 rows'[r] = [rows[r] EXCEPT !.status = "deploying", !.image = i, !.port = r, !.age = age]
          PROVE  rows'[r].status = "deploying" /\ rows'[r].port = r
      BY <3>1, <3>3 DEF Release
    <3> QED
      BY <2>2, <3>2, <3>3
  <2>4. UNCHANGED <<nodeStatus, heartbeat, operations, calls, sweep>>
    BY <1>8 DEF FailPreparing, GoLive, operator
  <2>5. OneFollows' /\ OneServes'
    BY <1>0, <1>3, <2>1, <2>2, <2>3, <2>4 DEF Live
  <2> QED
    BY <1>5, <1>6, <2>1, <2>2, <2>4, <2>5 DEF Live
<1>9. ASSUME NEW r \in Row, RunsLate(r) PROVE Deployed'
  <2>1. rows[r].status = "deploying" /\ r # 1 /\ r = 2
    BY <1>1, <1>9 DEF RunsLate, OneFollows
  <2>2. rows'[r] = [rows[r] EXCEPT !.age = "late"] /\ \A s \in Row \ {r} : rows'[s] = rows[s]
    BY <1>0, <1>9 DEF RunsLate
  <2>3. rows'[r].status = "deploying" /\ rows'[r].port = r /\ rows'[r].node = rows[r].node
    <3>1. rows[r].port = r
      BY <2>1 DEF OneFollows, Live
    <3> QED
      BY <1>0, <2>1, <2>2, <3>1 DEF Release
  <2>4. UNCHANGED <<nodeStatus, heartbeat, operations, calls, sweep>>
    BY <1>9 DEF RunsLate, operator
  <2>5. OneFollows' /\ OneServes'
    BY <1>0, <1>3, <2>1, <2>2, <2>3, <2>4 DEF Live
  <2> QED
    BY <1>5, <1>6, <2>1, <2>2, <2>3, <2>4, <2>5 DEF Live
<1>10. ASSUME NEW n \in Node, Promote(n) PROVE Deployed'
  <2>1. PICK r \in heartbeat[n].rows :
          /\ rows' = [Supersede(LiveRows \ {r}) EXCEPT ![r].status = "running"]
          /\ heartbeat' = [heartbeat EXCEPT ![n] = [at |-> "promote", rows |-> heartbeat[n].rows \ {r}]]
    BY <1>10 DEF Promote, Proceed
  <2>2. /\ r \in Row /\ r # 1 /\ rows[r].status \in Live /\ rows[r].node = n
        /\ box[r] = "up" \/ n = Home
    BY <1>0, <2>1 DEF InHand
  <2>3. r = 2
    BY <1>1, <2>2 DEF Live
  <2>4. UNCHANGED <<nodeStatus, operations, calls, sweep>>
    BY <1>10 DEF Promote, operator
  <2>5. /\ rows'[r] = [rows[r] EXCEPT !.status = "running"]
        /\ \A s \in Row \ {r} : rows'[s] = Supersede(LiveRows \ {r})[s]
    BY <1>0, <2>1, <2>2, SupersedeTyped DEF Supersede
  <2>6. rows'[r].status = "running" /\ rows'[r].node = n /\ rows'[r].port = r
    BY <1>0, <2>2, <2>5 DEF Release, OneFollows
  <2>7. \A s \in Row \ {1, r} : rows'[s] = rows[s]
    BY <1>1, <2>3, <2>5 DEF Supersede, LiveRows, Live
  <2>8. rows'[1] = rows[1] \/ rows'[1] = [rows[1] EXCEPT !.status = "superseded"]
    BY <1>0, <2>2, <2>5 DEF Supersede
  <2>9. OneFollows' /\ \A s \in Row \ {1} : Relieved(s) => Relieved(s)'
    BY <1>0, <1>3, <2>2, <2>3, <2>4, <2>6, <2>7, <2>8 DEF Live
  <2>10. \E s \in Row \ {1} : Relieved(s)'
    <3>1. CASE rows[1].status = "superseded"
      BY <2>9, <3>1 DEF OneServes
    <3>2. CASE rows[1].status = "running"
      <4>1. box[1] = "up" /\ 1 \notin pass[Home].gone
        BY <1>0, <3>2 DEF OneServes
      <4>2. Relieved(r)'
        BY <1>2, <2>2, <2>6, <4>1 DEF Relieved
      <4> QED
        BY <2>2, <4>2
    <3> QED
      BY <3>1, <3>2 DEF OneFollows
  <2>11. OneServes'
    <3>1. rows'[1].status = "superseded"
      <4>1. rows[1] \in Release
        BY <1>0
      <4>2. rows[1].status \in Live => 1 \in LiveRows \ {r}
        BY <1>0, <2>2 DEF LiveRows
      <4>3. rows'[1] = Supersede(LiveRows \ {r})[1]
        BY <1>0, <2>2, <2>5
      <4> QED
        BY <1>0, <4>1, <4>2, <4>3 DEF Supersede, Release, OneFollows, Live
    <3> QED
      BY <1>2, <2>2, <2>6, <2>7, <2>10, <3>1 DEF OneServes, Live
  <2>12. NothingDown' /\ InHand'
    <3>1. /\ heartbeat'[n].at = "promote" /\ heartbeat'[n].rows \subseteq heartbeat[n].rows
          /\ \A m \in Node \ {n} : heartbeat'[m] = heartbeat[m]
      BY <1>0, <2>1
    <3>2. \A s \in Row \ {1} : rows[s].status \in Live => rows'[s].status \in Live /\ rows'[s].node = rows[s].node
      BY <2>2, <2>6, <2>7 DEF Live
    <3> QED
      BY <1>0, <1>2, <2>4, <3>1, <3>2 DEF NothingDown, InHand
  <2> QED
    BY <2>9, <2>11, <2>12
<1>11. ASSUME NEW n \in Node, Recover(n) PROVE Deployed'
  <2>1. nodeStatus' = nodeStatus
    BY <1>0, <1>11 DEF Recover, NothingDown
  <2>2. heartbeat' = [heartbeat EXCEPT ![n] = [at |-> "none", rows |-> {}]]
    BY <1>11 DEF Recover, Proceed, NothingDown
  <2>3. UNCHANGED <<rows, operations, calls, sweep>>
    BY <1>11 DEF Recover, operator
  <2>4. NothingDown' /\ InHand'
    BY <1>0, <1>2, <2>1, <2>2, <2>3 DEF NothingDown, InHand
  <2> QED
    BY <1>4, <2>3, <2>4
<1>12. CASE SweepStalled \/ MarkDown
  <2>1. UNCHANGED <<rows, operations, calls, heartbeat>>
    BY <1>12 DEF SweepStalled, MarkDown, store, operator
  <2>2. /\ sweep'.at \in {"rest", "stalled"} /\ sweep'.nodes = {} /\ sweep'.rows = {}
        /\ sweep'.rescue \subseteq Judged /\ nodeStatus' = nodeStatus
    <3>1. CASE SweepStalled
      BY <3>1 DEF SweepStalled, Asleep, store
    <3>2. CASE MarkDown
      <4>1. {n \in Online : silence[n] # "fresh"} = {}
        BY DEF Online, NothingDown
      <4> QED
        BY <1>0, <3>2, <4>1 DEF MarkDown, Asleep
    <3> QED
      BY <1>12, <3>1, <3>2
  <2>3. \A r \in Judged : r # 1 /\ rows[r].status \in Live
    BY DEF Judged, Overdue, OneFollows, Live
  <2>4. NothingDown' /\ InHand'
    BY <1>0, <1>2, <2>1, <2>2, <2>3 DEF NothingDown, InHand
  <2> QED
    BY <1>4, <2>1, <2>4
<1>13. CASE Rescue
  <2>1. PICK r \in sweep.rescue : /\ rows' = [rows EXCEPT ![r].status = "running"]
                                  /\ sweep' = [sweep EXCEPT !.rescue = @ \ {r}]
    BY <1>13 DEF Rescue
  <2>2. r \in Row /\ r # 1 /\ rows[r].status \in Live
    BY <1>0, <2>1 DEF InHand
  <2>3. r = 2
    BY <1>1, <2>2 DEF Live
  <2>4. UNCHANGED <<nodeStatus, heartbeat, operations, calls>>
    BY <1>13 DEF Rescue, operator
  <2>5. /\ rows'[r] = [rows[r] EXCEPT !.status = "running"]
        /\ \A s \in Row \ {r} : rows'[s] = rows[s]
    BY <1>0, <2>1, <2>2
  <2>6. rows'[r].status = "running" /\ rows'[r].node = rows[r].node /\ rows'[r].port = r
    BY <1>0, <2>2, <2>5 DEF Release, OneFollows
  <2>7. OneFollows' /\ OneServes'
    BY <1>0, <1>3, <2>2, <2>3, <2>4, <2>5, <2>6 DEF Live
  <2>8. sweep'.rescue \subseteq sweep.rescue /\ sweep'.at = sweep.at /\ sweep'.nodes = sweep.nodes /\ sweep'.rows = sweep.rows
    BY <1>0, <2>1 DEF Sweep
  <2>9. NothingDown' /\ InHand'
    <3>1. \A s \in Row : rows[s].status \in Live => rows'[s].status \in Live /\ rows'[s].node = rows[s].node
      BY <2>2, <2>5, <2>6 DEF Live
    <3>2. NothingDown'
      BY <1>2, <2>4, <2>8 DEF NothingDown
    <3>3. InHand'
      BY <1>0, <1>2, <2>4, <2>8, <3>1 DEF InHand
    <3> QED
      BY <3>2, <3>3
  <2> QED
    BY <2>7, <2>9
<1> QED
  BY <1>7, <1>8, <1>9, <1>10, <1>11, <1>12, <1>13, ControlSteps

LEMMA InitDeployed == Init => Deployed
<1> SUFFICES ASSUME Init PROVE Deployed
  OBVIOUS
<1>1. /\ rows[1] = [Deploying(Home, FirstImage, 1) EXCEPT !.status = "running", !.age = "late"]
      /\ \A r \in Row \ {1} : rows[r] = NoRelease
  BY DEF Init, StoreInit, Row
<1>2. /\ rows[1].status = "running" /\ rows[1].image = FirstImage /\ rows[1].node = Home /\ rows[1].port = 1
      /\ \A r \in Row \ {1} : rows[r].status = "absent"
  BY <1>1 DEF Deploying, NoRelease
<1>3. box[1] = "up" /\ \A r \in Row \ {1} : box[r] = "none"
  BY DEF Init, AgentInit, Row
<1>4. \A n \in Node : pass[n] = Rest /\ heartbeat[n] = Handled /\ connected[n]
                      /\ nodeStatus[n] = "online" /\ silence[n] = "fresh"
  BY DEF Init, AgentInit, StoreInit
<1>5. sweep = Asleep /\ calls = {}
  BY DEF Init, ReleasesInit
<1> QED
  BY <1>2, <1>3, <1>4, <1>5 DEF Deployed, OneFollows, NothingDown, InHand, OneServes, Rest, Handled, Asleep, Live

(* Whether a window was used up is not forgotten while no node returns.     *)
InTime == \A r \in Row : rows[r].age # "spent"

LEMMA StepNothingDown ==
  ASSUME TypeOK, Imaged, NothingDown, \A kind : ~Fault(kind), [Next]_vars
  PROVE  NothingDown' /\ (InTime' => InTime)
<1>0. /\ nodeStatus \in [Node -> {"online", "offline"}] /\ connected \in [Node -> BOOLEAN]
      /\ heartbeat \in [Node -> Handling] /\ silence \in [Node -> {"fresh", "stale", "expired"}]
      /\ sweep \in Sweep
  BY DEF TypeOK, StoreTypeOK, AgentTypeOK, ReleasesTypeOK
<1>1. \A r \in Row : rows'[r] = rows[r] \/ Inserted(r) \/ Prepared(r) \/ Decided(r)
  BY StepWrites, RowTurns
<1>2. InTime' => InTime
  BY <1>1 DEF InTime, NothingDown, Imaged, Inserted, Prepared, Decided, RunsLate, Renewed
<1>3. ASSUME UNCHANGED <<nodeStatus, silence, connected, heartbeat, sweep>> PROVE NothingDown'
  BY <1>3 DEF NothingDown
<1>4. ASSUME UNCHANGED <<nodeStatus, connected, sweep>>, NEW n \in Node, NEW h,
             heartbeat' = [heartbeat EXCEPT ![n] = h], h.at \in {"none", "promote"},
             silence' = silence \/ silence' = [silence EXCEPT ![n] = "fresh"]
      PROVE  NothingDown'
  BY <1>0, <1>4 DEF NothingDown
<1>6. CASE AgentNext /\ UNCHANGED <<operator, sweep>>
  <2>1. ~(\E n \in Node : Disconnect(n) \/ Reconnect(n) \/ Silence(n))
    BY DEF Disconnect, Reconnect, Silence, NothingDown
  <2>2. \/ UNCHANGED <<nodeStatus, silence, connected, heartbeat>>
        \/ \E n \in Node : \E set :
             /\ heartbeat' = [heartbeat EXCEPT ![n] = [at |-> "promote", rows |-> set]]
             /\ silence' = [silence EXCEPT ![n] = "fresh"] /\ UNCHANGED <<nodeStatus, connected>>
    BY <1>6, <2>1 DEF AgentNext, PassStep, Fetch, FetchFails, StartRow, StartFails, RemoveRow, RemoveFails,
       Beat, BeatBlind, Receive, AgentRestart, Exit, agents, store
  <2>3. ASSUME NEW n \in Node, NEW set, UNCHANGED <<nodeStatus, connected>>,
               heartbeat' = [heartbeat EXCEPT ![n] = [at |-> "promote", rows |-> set]],
               silence' = [silence EXCEPT ![n] = "fresh"]
        PROVE  NothingDown'
    BY <1>0, <1>6, <2>3 DEF NothingDown
  <2> QED
    BY <1>2, <1>3, <1>6, <2>2, <2>3
<1>7. ASSUME NEW n \in Node, HandlerStep(n) PROVE NothingDown'
  <2>1. Promote(n) \/ Recover(n)
    <3>1. ~ReadHeld(n) /\ ~Resume(n) /\ ~ReadStranded(n) /\ ~Place(n)
      <4>1. ASSUME ReadStranded(n) PROVE heartbeat[n].at = "resume"
        BY <4>1 DEF ReadStranded
      <4> QED
        BY <4>1 DEF ReadHeld, Resume, Place, NothingDown
    <3> QED
      BY <1>7, <3>1 DEF HandlerStep
  <2>2. nodeStatus' = nodeStatus /\ UNCHANGED <<silence, connected, sweep>>
    <3>1. CASE Promote(n)
      BY <3>1 DEF Promote, agents
    <3>2. CASE Recover(n)
      BY <1>0, <3>2 DEF Recover, NothingDown, agents
    <3> QED
      BY <2>1, <3>1, <3>2
  <2>3. \E at \in {"none", "promote"} : \E set : heartbeat' = [heartbeat EXCEPT ![n] = [at |-> at, rows |-> set]]
    <3>1. CASE Promote(n)
      BY <3>1 DEF Promote, Proceed
    <3>2. CASE Recover(n)
      BY <3>2 DEF Recover, Proceed, NothingDown
    <3> QED
      BY <2>1, <3>1, <3>2
  <2> QED
    BY <1>4, <2>2, <2>3
<1>8. CASE SweepStep
  <2>1. UNCHANGED <<nodeStatus, silence, connected, heartbeat>>
    <3>1. CASE MarkDown
      <4>1. {n \in Online : silence[n] # "fresh"} = {}
        BY DEF Online, NothingDown
      <4> QED
        BY <1>0, <3>1, <4>1 DEF MarkDown, agents
    <3> QED
      BY <1>8, <3>1 DEF SweepStep, SweepStalled, Rescue, FailStalled, ReadAffected, MovedAll, Move, store, agents
  <2>2. sweep'.at \in {"rest", "stalled"} /\ sweep'.nodes = {} /\ sweep'.rows = {}
    <3>1. CASE SweepStalled
      BY <3>1 DEF SweepStalled, Asleep
    <3>2. CASE Rescue \/ FailStalled
      BY <1>0, <3>2 DEF Rescue, FailStalled, Sweep, NothingDown
    <3>3. CASE MarkDown
      <4>1. {n \in Online : silence[n] # "fresh"} = {}
        BY DEF Online, NothingDown
      <4> QED
        BY <3>3, <4>1 DEF MarkDown, Asleep
    <3>4. ~ReadAffected /\ ~MovedAll /\ \A r \in Row : ~Move(r)
      BY DEF ReadAffected, MovedAll, Move, NothingDown
    <3> QED
      BY <1>8, <3>1, <3>2, <3>3, <3>4 DEF SweepStep
  <2> QED
    BY <1>2, <2>1, <2>2 DEF NothingDown
<1>9. ~ControlRestart
  BY DEF ControlRestart
<1> QED
  BY <1>2, <1>3, <1>6, <1>7, <1>8, <1>9 DEF Next, vars, ReleasesNext, Open, BeginRestart, BeginStop, BeginCall,
     EndRestart, EndStop, FailPreparing, GoLive, RunsLate, store, agents

(* While nothing fails, a deploy of a service without a volume brings no    *)
(* downtime, on any fleet and wherever the new release is placed, although  *)
(* it may be promoted before its container is started: then it is taken for *)
(* the old one's, which its node removes only after starting the new.  The  *)
(* exception is a deploy whose build used its window up: it may be promoted *)
(* so, and then failed before its container is started.                     *)
THEOREM DeployKeepsServing ==
  ASSUME Prompt, Operations \subseteq {"deploy"}, HasVolume = FALSE
  PROVE  Spec => []KeepsServing
<1> DEFINE Goes == Quiet => NothingDown /\ (InTime => Deployed)
<1>1. Steady /\ Goes /\ [Next]_vars => Goes'
  <2> SUFFICES ASSUME Steady, Goes, [Next]_vars, Quiet' PROVE NothingDown' /\ (InTime' => Deployed')
    OBVIOUS
  <2>1. Quiet /\ NothingDown /\ \A kind : ~Fault(kind)
    BY QuietBefore DEF Steady
  <2>2. NothingDown' /\ (InTime' => InTime)
    BY <2>1, StepNothingDown DEF Steady
  <2>3. ASSUME InTime PROVE Deployed'
    <3>1. Deployed /\ sweep.fail = {}
      <4>1. \A r \in sweep.fail : r \in Row /\ rows[r].age = "spent"
        BY <2>1, Names DEF Steady, Quiet, Calm, NoneGivenUp, Named
      <4> QED
        BY <2>1, <2>3, <4>1 DEF InTime
    <3>2. CASE AgentNext /\ UNCHANGED <<rows, operator, sweep>>
      BY <2>1, <3>1, <3>2, AgentStepDeployed
    <3>3. CASE ReleasesNext /\ UNCHANGED <<agents, report, silence>>
      BY <2>1, <3>1, <3>3, ControlStepDeployed
    <3>4. CASE UNCHANGED vars
      BY <3>1, <3>4 DEF vars, store, agents, operator, Deployed, OneFollows, NothingDown, InHand, OneServes, Relieved
    <3> QED
      BY <3>2, <3>3, <3>4, Apart
  <2> QED
    BY <2>2, <2>3
<1>2. Steady /\ Goes => KeepsServing
  <2> SUFFICES ASSUME Steady, Deployed, \A r \in Row : rows[r].image \in Serving \union {NoImage}
               PROVE  \E r \in Row : Answering(r)
    BY DEF KeepsServing, Quiet, InTime
  <2>1. 1 \in Row
    BY DEF Row
  <2>2. box[1] = "up" => Answering(1)
    BY DEF Deployed, OneFollows, Answering
  <2>3. ASSUME NEW r \in Row \ {1}, Relieved(r), box[1] # "up" PROVE Answering(r)
    <3>1. rows[r].image # NoImage
      BY <2>3 DEF Relieved, Steady, Imaged, Kept, Live
    <3> QED
      BY <2>3, <3>1 DEF Relieved, Answering
  <2> QED
    BY <2>1, <2>2, <2>3 DEF Deployed, OneFollows, OneServes
<1>3. Init => Goes
  BY InitDeployed DEF Deployed
<1> QED
  BY Steadily, <1>1, <1>2, <1>3, PTL DEF Spec
=============================================================================
