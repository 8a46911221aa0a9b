---------------------------- MODULE GossipProofs ----------------------------
(***************************************************************************)
(* Proofs about Gossip for any number of peers, any death threshold and    *)
(* any number of reachability changes, aborts and transfers.               *)
(***************************************************************************)
EXTENDS Gossip, TLAPS

\* Every state variable keeps its type.
THEOREM TypeCorrect == Spec => []TypeOK
<1>1. Init => TypeOK
  <2> SUFFICES ASSUME Init
               PROVE  TypeOK
    OBVIOUS
  <2>1. reading \in BOOLEAN
    BY Zenon DEF Init
  <2>2. reach \in [Peers -> BOOLEAN]
    BY DEF Init
  <2>3. /\ status \in [Peers -> {"alive", "suspect", "dead"}]
        /\ missed \in [Peers -> 0 .. DeadAfter]
        /\ ping \in [Peers -> PingSteps]
        /\ transfers \in [Peers -> 0 .. MaxTransfers]
        /\ flips \in 0 .. MaxFlips /\ fatals \in 0 .. MaxFatals
    BY GossipAssumption DEF Init, PingSteps
  <2> QED
    BY <2>1, <2>2, <2>3 DEF Init, TypeOK
<1>2. ASSUME TypeOK, [Next]_vars
      PROVE  TypeOK'
  <2> USE <1>2, GossipAssumption DEF TypeOK, PingSteps
  <2>1. ASSUME NEW p \in Peers, Flip(p)
        PROVE  TypeOK'
    BY <2>1 DEF Flip, process
  <2>2. ASSUME NEW p \in Peers, PingReturns(p)
        PROVE  TypeOK'
    BY <2>2 DEF PingReturns
  <2>3. ASSUME NEW p \in Peers, Answered(p)
        PROVE  TypeOK'
    BY <2>3 DEF Answered
  <2>4. ASSUME NEW p \in Peers, Unanswered(p)
        PROVE  TypeOK'
    BY <2>4 DEF Unanswered
  <2>5. ASSUME NEW p \in Peers, WriteMap(p)
        PROVE  TypeOK'
    BY <2>5 DEF WriteMap
  <2>6. ASSUME NEW p \in Peers, WriteRing(p)
        PROVE  TypeOK'
    BY <2>6 DEF WriteRing
  <2>7. ASSUME NEW p \in Peers, TransferEnds(p)
        PROVE  TypeOK'
    BY <2>7 DEF TransferEnds
  <2>8. CASE Tick
    BY <2>8 DEF Tick
  <2>9. CASE BeginRead \/ EndRead
    BY <2>9 DEF BeginRead, EndRead
  <2>10. CASE Fatal
    <3>1. reading' \in BOOLEAN
      BY <2>10, Zenon DEF Fatal
    <3>2. /\ status' \in [Peers -> {"alive", "suspect", "dead"}]
          /\ missed' \in [Peers -> 0 .. DeadAfter]
          /\ ping' \in [Peers -> PingSteps]
          /\ transfers' \in [Peers -> 0 .. MaxTransfers]
          /\ fatals' \in 0 .. MaxFatals
      BY <2>10 DEF Fatal
    <3> QED
      BY <2>10, <3>1, <3>2 DEF Fatal
  <2>11. CASE UNCHANGED vars
    BY <2>11 DEF vars, process
  <2> QED
    BY <2>1, <2>2, <2>3, <2>4, <2>5, <2>6, <2>7, <2>8, <2>9, <2>10, <2>11
    DEF Next, Loop
<1> QED
  BY <1>1, <1>2, PTL DEF Spec

-----------------------------------------------------------------------------
(* The router follows the status *)

Quiet == {"idle", "sent", "pong", "none"}

\* What holds of peer p at each step of its goroutine.  An addition is of a
\* suspect, still in both sets, or of a dead peer, in neither.
Stage(p) ==
    /\ ping[p] \in Quiet => /\ p \in ring <=> status[p] # "dead"
                            /\ p \in addrs <=> status[p] # "dead"
    /\ ping[p] = "add" => /\ status[p] = "alive" /\ missed[p] = 0
                          /\ p \in ring <=> p \in addrs
    /\ ping[p] = "addRing" => /\ status[p] = "alive" /\ missed[p] = 0
                              /\ p \in addrs
    /\ ping[p] \in {"del", "delRing"} => /\ status[p] = "dead" /\ p \in ring
                                         /\ missed[p] = DeadAfter
                                         /\ p \in addrs <=> ping[p] = "del"

\* The lock is held exactly by a goroutine that updates the router.
Stages == OneWriter /\ \A p \in Peers : Stage(p)

\* One goroutine at a time updates the router, and each leaves it in agreement
\* with the status it wrote.
THEOREM StagesHold == Spec => []Stages
<1>1. Init => Stages
  BY DEF Init, Stages, Stage, Quiet, OneWriter
<1>2. ASSUME TypeOK, Stages, [Next]_vars
      PROVE  Stages'
  <2> USE <1>2, GossipAssumption DEF TypeOK, PingSteps, Stages, Stage, Quiet, OneWriter
  <2>1. ASSUME NEW p \in Peers, Flip(p)
        PROVE  Stages'
    BY <2>1 DEF Flip, process
  <2>2. ASSUME NEW p \in Peers, PingReturns(p)
        PROVE  Stages'
    BY <2>2 DEF PingReturns
  <2>3. ASSUME NEW p \in Peers, Answered(p)
        PROVE  Stages'
    BY <2>3 DEF Answered
  <2>4. ASSUME NEW p \in Peers, Unanswered(p)
        PROVE  Stages'
    BY <2>4 DEF Unanswered
  <2>5. ASSUME NEW p \in Peers, WriteMap(p)
        PROVE  Stages'
    BY <2>5 DEF WriteMap
  <2>6. ASSUME NEW p \in Peers, WriteRing(p)
        PROVE  Stages'
    BY <2>6 DEF WriteRing
  <2>7. ASSUME NEW p \in Peers, TransferEnds(p)
        PROVE  Stages'
    BY <2>7 DEF TransferEnds
  <2>8. CASE Tick
    BY <2>8 DEF Tick
  <2>9. CASE BeginRead \/ EndRead
    BY <2>9 DEF BeginRead, EndRead
  <2>10. CASE Fatal
    BY <2>10 DEF Fatal
  <2>11. CASE UNCHANGED vars
    BY <2>11 DEF vars, process
  <2> QED
    BY <2>1, <2>2, <2>3, <2>4, <2>5, <2>6, <2>7, <2>8, <2>9, <2>10, <2>11
    DEF Next, Loop
<1> QED
  BY <1>1, <1>2, TypeCorrect, PTL DEF Spec

\* Status, ring and address map agree on every peer that is not being moved.
THEOREM ViewsAgreeHolds == Spec => []ViewsAgree
<1>1. Stages => ViewsAgree
  BY DEF Stages, Stage, Quiet, ViewsAgree
<1> QED
  BY <1>1, StagesHold, PTL

\* A peer the ring routes to has an address until its removal is half done.
THEOREM RoutableHasAddressHolds == Spec => []RoutableHasAddress
<1>1. TypeOK /\ Stages => RoutableHasAddress
  BY DEF TypeOK, PingSteps, Stages, Stage, Quiet, RoutableHasAddress
<1> QED
  BY <1>1, TypeCorrect, StagesHold, PTL

\* The unlocked map has one writer at a time.
THEOREM OneWriterHolds == Spec => []OneWriter
<1>1. Stages => OneWriter
  BY DEF Stages
<1> QED
  BY <1>1, StagesHold, PTL

-----------------------------------------------------------------------------
(* The router's view refines Membership *)

\* A peer leaves the ring only after DeadAfter unanswered heartbeats in a row
\* and returns only when the last one was answered.
THEOREM ViewRefines == Spec => ViewSpec
<1>1. Init => View!Init
  BY DEF Init, View!Init
<1>2. ASSUME TypeOK, Stages, [Next]_vars
      PROVE  [View!Next]_<<ring, missed>>
  <2> USE <1>2, GossipAssumption DEF View!Next, View!Answer, View!Silence,
          View!Leave, View!Join, View!Forget
  <2>1. ASSUME NEW p \in Peers, Flip(p)
        PROVE  UNCHANGED <<ring, missed>>
    BY <2>1 DEF Flip, process
  <2>2. ASSUME NEW p \in Peers, PingReturns(p)
        PROVE  UNCHANGED <<ring, missed>>
    BY <2>2 DEF PingReturns
  <2>3. ASSUME NEW p \in Peers, Answered(p)
        PROVE  View!Answer(p)
    BY <2>3 DEF Answered
  <2>4. ASSUME NEW p \in Peers, Unanswered(p)
        PROVE  View!Silence(p)
    BY <2>4 DEF Unanswered
  <2>5. ASSUME NEW p \in Peers, WriteMap(p)
        PROVE  UNCHANGED <<ring, missed>>
    BY <2>5 DEF WriteMap
  <2>6. ASSUME NEW p \in Peers, WriteRing(p)
        PROVE  View!Leave(p) \/ View!Join(p) \/ UNCHANGED <<ring, missed>>
    BY <2>6 DEF WriteRing, Stages, Stage
  <2>7. ASSUME NEW p \in Peers, TransferEnds(p)
        PROVE  UNCHANGED <<ring, missed>>
    BY <2>7 DEF TransferEnds
  <2>8. CASE Tick \/ BeginRead \/ EndRead
    BY <2>8 DEF Tick, BeginRead, EndRead
  <2>9. CASE Fatal
    BY <2>9 DEF Fatal
  <2>10. CASE UNCHANGED vars
    BY <2>10 DEF vars, process
  <2> QED
    BY <2>1, <2>2, <2>3, <2>4, <2>5, <2>6, <2>7, <2>8, <2>9, <2>10 DEF Next, Loop
<1> QED
  BY <1>1, <1>2, TypeCorrect, StagesHold, PTL DEF Spec, ViewSpec, View!Spec
=============================================================================
