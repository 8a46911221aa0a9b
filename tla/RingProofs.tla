----------------------------- MODULE RingProofs -----------------------------
(***************************************************************************)
(* Proofs about Ring for every node set, number of virtual nodes, ring     *)
(* size and placement.                                                     *)
(***************************************************************************)
EXTENDS Ring, NatOrder, FiniteSetTheorems, TLAPS

-----------------------------------------------------------------------------
(* Lookups *)

\* A nonempty set of ring positions has a least element, the one Min picks.
LEMMA MinIsLeast ==
    ASSUME NEW S \in SUBSET Pos, S # {}
    PROVE  Min(S) \in S /\ \A q \in S : Min(S) <= q
<1>1. S \in SUBSET Nat
  BY RingAssumption DEF Pos
<1>2. PICK x \in S : \A y \in S : x <= y
  BY <1>1, LeastExists
<1> QED
  BY <1>2 DEF Min

\* The binary search with its wrap-around finds a position of S, the one at
\* the least clockwise distance from h.
LEMMA SearchIsNearest ==
    ASSUME NEW h \in Pos, NEW S \in SUBSET Pos, S # {}
    PROVE  /\ Search(h, S) \in S
           /\ \A q \in S : Dist(h, Search(h, S)) <= Dist(h, q)
<1> DEFINE after == {p \in S : p >= h}
<1>1. CASE after # {}
  <2>1. Min(after) \in after /\ \A q \in after : Min(after) <= q
    BY <1>1, MinIsLeast
  <2>2. Search(h, S) = Min(after)
    BY <1>1 DEF Search
  <2>3. \A q \in S : q \in after <=> q >= h
    OBVIOUS
  <2>4. Search(h, S) \in S /\ Search(h, S) >= h
    BY <2>1, <2>2
  <2>5. ASSUME NEW q \in S
        PROVE  Dist(h, Search(h, S)) <= Dist(h, q)
    <3> DEFINE p == Search(h, S)
    <3>1. p \in Pos /\ q \in Pos /\ h \in Pos /\ p >= h
      BY <2>4
    <3>2. q >= h => p <= q
      BY <2>1, <2>2, <2>3
    <3> HIDE DEF p
    <3>3. Dist(h, p) <= Dist(h, q)
      BY <3>1, <3>2, RingAssumption DEF Dist, Pos
    <3> QED
      BY <3>3 DEF p
  <2> QED
    BY <2>4, <2>5
<1>2. CASE after = {}
  <2>1. Min(S) \in S /\ \A q \in S : Min(S) <= q
    BY MinIsLeast
  <2>2. Search(h, S) = Min(S)
    BY <1>2 DEF Search
  <2>3. \A q \in S : q < h
    BY <1>2, RingAssumption DEF Pos
  <2>4. ASSUME NEW q \in S
        PROVE  Dist(h, Search(h, S)) <= Dist(h, q)
    <3> DEFINE p == Search(h, S)
    <3>1. p \in Pos /\ q \in Pos /\ p <= q /\ p < h /\ q < h
      BY <2>1, <2>2, <2>3
    <3> HIDE DEF p
    <3>2. Dist(h, p) <= Dist(h, q)
      BY <3>1, RingAssumption DEF Dist, Pos
    <3> QED
      BY <3>2 DEF p
  <2> QED
    BY <2>1, <2>2, <2>4
<1> QED
  BY <1>1, <1>2

\* Two positions at the same clockwise distance from h are one position.
LEMMA DistInjective ==
    ASSUME NEW h \in Pos, NEW p \in Pos, NEW q \in Pos, Dist(h, p) = Dist(h, q)
    PROVE  p = q
BY RingAssumption DEF Dist, Pos

-----------------------------------------------------------------------------
(* Type correctness, and owners that are members whatever collides *)

\* The number of a node's virtual nodes on one position.
LEMMA CopiesType ==
    ASSUME NEW T \in SUBSET VNodes
    PROVE  Cardinality(T) \in Nat /\ (T # {} => Cardinality(T) > 0)
<1>1. IsFiniteSet(T)
  BY RingAssumption, FS_Subset
<1>2. Cardinality(T) \in Nat /\ (Cardinality(T) = 0 <=> T = {})
  BY <1>1, FS_CardinalityType, FS_EmptySet
<1> QED
  BY <1>2

\* The slice, the map and the member set keep their types; no position is ever
\* removed more often than it was appended.
THEOREM TypeCorrect == Spec => []TypeOK
<1>1. Init => TypeOK
  BY RingAssumption DEF Init, TypeOK
<1>2. ASSUME TypeOK, [Next]_vars
      PROVE  TypeOK'
  <2>1. ASSUME NEW n \in Nodes, AddNode(n)
        PROVE  TypeOK'
    <3> DEFINE copies(p) == Cardinality({i \in VNodes : hash[n][i] = p})
    <3>1. \A p \in Pos : copies(p) \in Nat
      BY CopiesType
    <3>2. /\ \A p \in Pos : positions[p] + copies(p) <= MaxCopies
          /\ positions' = [p \in Pos |-> positions[p] + copies(p)]
      BY <2>1 DEF AddNode
    <3> HIDE DEF copies
    <3>3. positions' \in [Pos -> 0 .. MaxCopies]
      BY <3>1, <3>2, <1>2, RingAssumption DEF TypeOK
    <3>4. nodeMap' \in [Pos -> Nodes \cup {NoNode}]
      BY <2>1, <1>2 DEF AddNode, TypeOK
    <3> QED
      BY <3>3, <3>4, <2>1, <1>2 DEF AddNode, TypeOK
  <2>2. ASSUME NEW n \in Nodes, RemoveNode(n)
        PROVE  TypeOK'
    BY <2>2, <1>2, RingAssumption DEF RemoveNode, TypeOK
  <2>3. CASE UNCHANGED vars
    BY <2>3, <1>2 DEF vars, TypeOK
  <2> QED
    BY <2>1, <2>2, <2>3, <1>2 DEF Next
<1> QED
  BY <1>1, <1>2, PTL DEF Spec

\* Every entry of nodeMap names a member, and its position is in the slice.
MapInv ==
    \A p \in Pos : /\ nodeMap[p] \in nodes \cup {NoNode}
                   /\ nodeMap[p] # NoNode => positions[p] > 0

\* RemoveNode leaves no entry of the departed node: all its entries are at
\* positions the slice holds, so the loop meets each of them.
THEOREM MapHolds == Spec => []MapInv
<1>1. Init => MapInv
  BY DEF Init, MapInv
<1>2. ASSUME TypeOK, MapInv, [Next]_vars
      PROVE  MapInv'
  <2>1. ASSUME NEW n \in Nodes, AddNode(n), NEW p \in Pos
        PROVE  /\ nodeMap'[p] \in nodes' \cup {NoNode}
               /\ nodeMap'[p] # NoNode => positions'[p] > 0
    <3> DEFINE here == {i \in VNodes : hash[n][i] = p}
    <3>1. Cardinality(here) \in Nat /\ (here # {} => Cardinality(here) > 0)
      BY CopiesType
    <3>2. /\ positions'[p] = positions[p] + Cardinality(here)
          /\ nodeMap'[p] = IF here # {} THEN n ELSE nodeMap[p]
      BY <2>1 DEF AddNode
    <3>3. positions[p] \in Nat
      BY <1>2, RingAssumption DEF TypeOK
    <3> HIDE DEF here
    <3>4. nodeMap[p] # NoNode => positions[p] > 0
      BY <1>2 DEF MapInv
    <3>5. nodeMap'[p] \in nodes' \cup {NoNode}
      BY <3>2, <2>1, <1>2 DEF AddNode, MapInv
    <3> QED
      BY <3>1, <3>2, <3>3, <3>4, <3>5
  <2>2. ASSUME NEW n \in Nodes, RemoveNode(n)
        PROVE  MapInv'
    BY <2>2, <1>2, RingAssumption DEF RemoveNode, MapInv, TypeOK
  <2>3. CASE UNCHANGED vars
    BY <2>3, <1>2 DEF vars, MapInv
  <2> QED
    BY <2>1, <2>2, <2>3, <1>2 DEF Next, MapInv
<1> QED
  BY <1>1, <1>2, TypeCorrect, PTL DEF Spec

\* No lookup names a departed node, for colliding placements too.
THEOREM LiveOwnerHolds == Spec => []LiveOwner
<1>1. MapInv => LiveOwner
  <2> SUFFICES ASSUME MapInv, NEW h \in Pos, Support # {}
               PROVE  GetNode(h) \in nodes \cup {NoNode}
    BY DEF LiveOwner, GetNode
  <2>1. Search(h, Support) \in Pos
    BY SearchIsNearest DEF Support
  <2> QED
    BY <2>1 DEF MapInv, GetNode
<1> QED
  BY <1>1, MapHolds, PTL

-----------------------------------------------------------------------------
(* Routing without collisions *)

\* The slice and the map are determined by the member set: a position is in
\* the slice once if a member has a virtual node there, and not otherwise.
PlacementInv ==
    NoCollision =>
        \A p \in Pos :
            /\ \A n \in Nodes : nodeMap[p] = n <=>
                                 n \in nodes /\ \E i \in VNodes : hash[n][i] = p
            /\ positions[p] = IF nodeMap[p] = NoNode THEN 0 ELSE 1

\* Joins and departures keep PlacementInv.
THEOREM PlacementHolds == Spec => []PlacementInv
<1>1. Init => PlacementInv
  BY RingAssumption DEF Init, PlacementInv
<1>2. ASSUME TypeOK, PlacementInv, [Next]_vars
      PROVE  PlacementInv'
  <2>1. ASSUME NoCollision, NEW n \in Nodes, AddNode(n), NEW p \in Pos
        PROVE  /\ \A m \in Nodes : nodeMap'[p] = m <=>
                      m \in nodes' /\ \E i \in VNodes : hash'[m][i] = p
               /\ positions'[p] = IF nodeMap'[p] = NoNode THEN 0 ELSE 1
    <3> DEFINE here == {i \in VNodes : hash[n][i] = p}
    <3>1. /\ positions'[p] = positions[p] + Cardinality(here)
          /\ nodeMap'[p] = IF here # {} THEN n ELSE nodeMap[p]
          /\ nodes' = nodes \cup {n} /\ n \notin nodes
          /\ hash' = hash
      BY <2>1 DEF AddNode
    <3>2. /\ \A m \in Nodes : nodeMap[p] = m <=>
                   m \in nodes /\ \E i \in VNodes : hash[m][i] = p
          /\ positions[p] = IF nodeMap[p] = NoNode THEN 0 ELSE 1
          /\ nodeMap[p] \in Nodes \cup {NoNode}
      BY <1>2, <2>1 DEF PlacementInv, TypeOK
    <3>3. CASE here = {}
      <4>1. Cardinality(here) = 0
        BY <3>3, FS_EmptySet
      <4>2. nodeMap'[p] = nodeMap[p] /\ positions'[p] = positions[p]
        BY <3>1, <3>2, <3>3, <4>1
      <4> QED
        BY <3>1, <3>2, <3>3, <4>2
    <3>4. CASE here # {}
      <4>1. PICK i \in VNodes : hash[n][i] = p
        BY <3>4
      <4>2. \A m \in Nodes, j \in VNodes : hash[m][j] = p => m = n /\ j = i
        BY <2>1, <4>1 DEF NoCollision
      <4>3. here = {i}
        BY <4>1, <4>2
      <4>4. Cardinality(here) = 1
        BY <4>3, FS_Singleton
      <4>5. nodeMap[p] = NoNode
        BY <3>1, <3>2, <4>2
      <4> HIDE DEF here
      <4>6. nodeMap'[p] = n /\ positions'[p] = 1
        BY <3>1, <3>2, <3>4, <4>4, <4>5
      <4> QED
        BY <3>1, <4>1, <4>2, <4>6, RingAssumption
    <3> QED
      BY <3>3, <3>4
  <2>2. ASSUME NEW n \in Nodes, RemoveNode(n)
        PROVE  PlacementInv'
    <3> SUFFICES ASSUME NoCollision, NEW p \in Pos
                 PROVE  /\ \A m \in Nodes : nodeMap'[p] = m <=>
                             m \in nodes' /\ \E i \in VNodes : hash'[m][i] = p
                        /\ positions'[p] = IF nodeMap'[p] = NoNode THEN 0 ELSE 1
      BY <2>2 DEF PlacementInv, NoCollision, RemoveNode
    <3>1. /\ \A m \in Nodes : nodeMap[p] = m <=>
                   m \in nodes /\ \E i \in VNodes : hash[m][i] = p
          /\ positions[p] = IF nodeMap[p] = NoNode THEN 0 ELSE 1
          /\ nodeMap[p] \in Nodes \cup {NoNode}
      BY <1>2 DEF PlacementInv, TypeOK
    <3> QED
      BY <2>2, <3>1, RingAssumption DEF RemoveNode
  <2>3. CASE UNCHANGED vars
    BY <2>3, <1>2 DEF vars, PlacementInv, NoCollision
  <2>4. ASSUME NEW n \in Nodes, AddNode(n)
        PROVE  PlacementInv'
    <3>1. NoCollision' <=> NoCollision
      BY <2>4 DEF NoCollision, AddNode
    <3> QED
      BY <2>1, <2>4, <3>1 DEF PlacementInv
  <2> QED
    BY <2>2, <2>3, <2>4, <1>2 DEF Next
<1> QED
  BY <1>1, <1>2, TypeCorrect, PTL DEF Spec

RoutingInv == TypeOK /\ PlacementInv

\* The positions in the slice are those of the members' virtual nodes.
LEMMA SupportOfMembers ==
    ASSUME RoutingInv, NoCollision
    PROVE  /\ \A n \in nodes, i \in VNodes :
                 hash[n][i] \in Support /\ nodeMap[hash[n][i]] = n
           /\ \A p \in Support :
                 nodeMap[p] \in nodes /\ \E i \in VNodes : hash[nodeMap[p]][i] = p
           /\ nodes # {} <=> Support # {}
<1>1. ASSUME NEW n \in nodes, NEW i \in VNodes
      PROVE  hash[n][i] \in Support /\ nodeMap[hash[n][i]] = n
  <2>1. n \in Nodes /\ hash[n][i] \in Pos
    BY RingAssumption DEF RoutingInv, TypeOK
  <2>2. nodeMap[hash[n][i]] = n /\ n # NoNode
    BY <2>1, RingAssumption DEF RoutingInv, PlacementInv
  <2> QED
    BY <2>1, <2>2 DEF RoutingInv, PlacementInv, Support
<1>2. ASSUME NEW p \in Support
      PROVE  nodeMap[p] \in nodes /\ \E i \in VNodes : hash[nodeMap[p]][i] = p
  <2>1. p \in Pos /\ nodeMap[p] # NoNode
    BY DEF Support, RoutingInv, PlacementInv
  <2> QED
    BY <2>1 DEF RoutingInv, PlacementInv, TypeOK
<1> QED
  BY <1>1, <1>2, RingAssumption

\* Restricted to the positions of some of the members, the search finds the
\* one of them with the nearest virtual node.
LEMMA SearchAmong ==
    ASSUME RoutingInv, NoCollision, NEW live \in SUBSET nodes, live # {},
           NEW h \in Pos
    PROVE  LET S == {p \in Support : nodeMap[p] \in live}
           IN  /\ S # {}
               /\ nodeMap[Search(h, S)] \in live
               /\ Nearest(h, live, nodeMap[Search(h, S)])
<1> DEFINE S == {p \in Support : nodeMap[p] \in live}
           s == Search(h, S)
<1>1. \A n \in live, i \in VNodes : hash[n][i] \in S
  BY SupportOfMembers
<1>2. S # {}
  BY <1>1, RingAssumption
<1>3. S \in SUBSET Pos
  BY DEF Support
<1>4. s \in S /\ \A q \in S : Dist(h, s) <= Dist(h, q)
  <2> HIDE DEF S
  <2> QED
    BY <1>2, <1>3, SearchIsNearest
<1>5. nodeMap[s] \in live /\ s \in Support
  BY <1>4
<1>6. PICK i \in VNodes : hash[nodeMap[s]][i] = s
  BY <1>5, SupportOfMembers
<1>7. Nearest(h, live, nodeMap[s])
  BY <1>1, <1>4, <1>6 DEF Nearest
<1> QED
  BY <1>2, <1>5, <1>7

\* The owner is the member whose virtual node comes first clockwise.
THEOREM AgreementHolds == Spec => []Agreement
<1>1. RoutingInv => Agreement
  <2> SUFFICES ASSUME RoutingInv, NoCollision, nodes # {}, NEW h \in Pos
               PROVE  GetNode(h) \in nodes /\ Nearest(h, nodes, GetNode(h))
    BY DEF Agreement
  <2>1. {p \in Support : nodeMap[p] \in nodes} = Support
    BY SupportOfMembers
  <2>2. Support # {}
    BY SupportOfMembers
  <2> QED
    BY <2>1, <2>2, SearchAmong DEF GetNode
<1> QED
  BY <1>1, TypeCorrect, PlacementHolds, PTL DEF RoutingInv

\* The replica is a second member, and would own the key without the primary.
THEOREM ReplicaIsHeirHolds == Spec => []ReplicaIsHeir
<1>1. RoutingInv /\ Agreement => ReplicaIsHeir
  <2> SUFFICES ASSUME RoutingInv, Agreement, NoCollision,
                      NEW n \in nodes, NEW m \in nodes, n # m, NEW h \in Pos
               PROVE  LET pair == GetNodes(h)
                      IN  /\ Len(pair) = 2
                          /\ pair[1] = GetNode(h)
                          /\ pair[2] \in nodes \ {pair[1]}
                          /\ Nearest(h, nodes \ {pair[1]}, pair[2])
    BY DEF ReplicaIsHeir
  <2> DEFINE g == GetNode(h)
             live == nodes \ {g}
             others == {p \in Support : nodeMap[p] # g}
             r == nodeMap[Search(h, others)]
  <2>1. live # {} /\ live \in SUBSET nodes
    OBVIOUS
  <2>2. others = {p \in Support : nodeMap[p] \in live}
    BY SupportOfMembers
  <2>3. others # {} /\ r \in live /\ Nearest(h, live, r)
    <3> HIDE DEF live, g
    <3> QED
      BY <2>1, <2>2, SearchAmong
  <2>4. Support # {}
    BY <2>3
  <2>5. GetNodes(h) = <<g, r>>
    BY <2>3, <2>4 DEF GetNodes
  <2> QED
    BY <2>3, <2>5
<1> QED
  BY <1>1, TypeCorrect, PlacementHolds, AgreementHolds, PTL DEF RoutingInv

\* The member nearest to h is unique, so it is the one GetNode returns.
OwnerIsUnique ==
    NoCollision =>
        \A h \in Pos : \A n \in nodes :
            Nearest(h, nodes, n) => GetNode(h) = n

\* Two virtual nodes at one distance would be one position.
LEMMA OwnerUnique == RoutingInv /\ Agreement => OwnerIsUnique
<1> SUFFICES ASSUME RoutingInv, Agreement, NoCollision,
                    NEW h \in Pos, NEW n \in nodes, Nearest(h, nodes, n)
             PROVE  GetNode(h) = n
  BY DEF OwnerIsUnique
<1> DEFINE g == GetNode(h)
<1>1. g \in nodes /\ Nearest(h, nodes, g)
  BY DEF Agreement
<1>2. PICK i \in VNodes : \A m \in nodes, j \in VNodes :
         Dist(h, hash[n][i]) <= Dist(h, hash[m][j])
  BY DEF Nearest
<1>3. PICK k \in VNodes : \A m \in nodes, j \in VNodes :
         Dist(h, hash[g][k]) <= Dist(h, hash[m][j])
  <2> HIDE DEF g
  <2> QED
    BY <1>1 DEF Nearest
<1> HIDE DEF g
<1>4. n \in Nodes /\ g \in Nodes /\ hash[n][i] \in Pos /\ hash[g][k] \in Pos
  BY <1>1, RingAssumption DEF RoutingInv, TypeOK
<1>5. Dist(h, hash[n][i]) \in Int /\ Dist(h, hash[g][k]) \in Int
  BY <1>4, RingAssumption DEF Dist, Pos
<1>6. Dist(h, hash[n][i]) = Dist(h, hash[g][k])
  BY <1>1, <1>2, <1>3, <1>5
<1>7. hash[n][i] = hash[g][k]
  BY <1>4, <1>6, DistInjective
<1>8. g = n
  BY <1>4, <1>7 DEF NoCollision
<1> QED
  BY <1>8 DEF g

\* A ring without members has no positions (TestEmptyRing).
EmptyRing == NoCollision /\ nodes = {} => Support = {}

\* The support of a ring has only members, so an empty ring has none.
LEMMA EmptyRingHolds == RoutingInv => EmptyRing
BY SupportOfMembers DEF EmptyRing

\* What a lookup and a member set owe each other.
RoutingFacts ==
    RoutingInv /\ Agreement /\ ReplicaIsHeir /\ OwnerIsUnique /\ EmptyRing

\* A join moves keys only to the joining node; a departure moves only the keys
\* of the departing node, to their replicas.
THEOREM MinimalMovementHolds == Spec => MinimalMovement
<1>1. Spec => []RoutingFacts
  BY TypeCorrect, PlacementHolds, AgreementHolds, ReplicaIsHeirHolds,
     OwnerUnique, EmptyRingHolds, PTL DEF RoutingFacts, RoutingInv
<1>2. ASSUME RoutingFacts, RoutingFacts', [Next]_vars, NoCollision
      PROVE  Moves
  <2> SUFFICES ASSUME NEW h \in Pos
               PROVE  /\ \A n \in nodes' \ nodes : GetNode(h)' \in {GetNode(h), n}
                      /\ \A n \in nodes \ nodes' :
                            GetNode(h)' = IF GetNode(h) # n THEN GetNode(h)
                                          ELSE IF Len(GetNodes(h)) = 2
                                               THEN GetNodes(h)[2] ELSE NoNode
    BY DEF Moves
  <2> DEFINE Near(live, n) == \E i \in VNodes : \A m \in live, j \in VNodes :
                                 Dist(h, hash[n][i]) <= Dist(h, hash[m][j])
             g == GetNode(h)
             gNext == GetNode(h)'
             pair == GetNodes(h)
  <2>1. hash' = hash /\ NoCollision'
    BY <1>2 DEF Next, AddNode, RemoveNode, vars, NoCollision
  <2>2. nodes # {} => g \in nodes /\ Near(nodes, g)
    BY <1>2 DEF RoutingFacts, Agreement, Nearest
  <2>3. nodes' # {} => gNext \in nodes' /\ Near(nodes', gNext)
    BY <1>2, <2>1 DEF RoutingFacts, Agreement, Nearest
  <2>4. \A n \in nodes : Near(nodes, n) => g = n
    BY <1>2 DEF RoutingFacts, OwnerIsUnique, Nearest
  <2>5. \A n \in nodes' : Near(nodes', n) => gNext = n
    BY <1>2, <2>1 DEF RoutingFacts, OwnerIsUnique, Nearest
  <2>6. (\E n, m \in nodes : n # m) =>
           Len(pair) = 2 /\ pair[2] \in nodes \ {g} /\ Near(nodes \ {g}, pair[2])
    BY <1>2 DEF RoutingFacts, ReplicaIsHeir, Nearest
  <2>7. nodes' = {} => gNext = NoNode
    BY <1>2, <2>1 DEF RoutingFacts, EmptyRing, GetNode
  <2> HIDE DEF Near, g, gNext, pair
  <2>8. ASSUME NEW n \in nodes' \ nodes
        PROVE  gNext \in {g, n}
    <3>1. nodes' = nodes \cup {n}
      BY <1>2, <2>8 DEF Next, AddNode, RemoveNode, vars
    <3>2. gNext = n \/ (gNext \in nodes /\ Near(nodes, gNext))
      BY <2>3, <3>1 DEF Near
    <3> QED
      BY <2>4, <3>2
  <2>9. ASSUME NEW n \in nodes \ nodes'
        PROVE  gNext = IF g # n THEN g
                       ELSE IF Len(pair) = 2 THEN pair[2] ELSE NoNode
    <3>1. nodes' = nodes \ {n}
      BY <1>2, <2>9 DEF Next, AddNode, RemoveNode, vars
    <3>2. CASE g # n
      BY <2>2, <2>5, <2>9, <3>1, <3>2 DEF Near
    <3>3. CASE g = n /\ nodes' # {}
      BY <2>5, <2>6, <3>1, <3>3
    <3>4. CASE g = n /\ nodes' = {}
      <4>1. \A p \in Support : nodeMap[p] = g
        BY <1>2, <2>9, <3>1, <3>4, SupportOfMembers DEF RoutingFacts
      <4>2. Len(pair) # 2
        BY <4>1 DEF pair, GetNodes, g
      <4> QED
        BY <2>7, <3>4, <4>2
    <3> QED
      BY <3>2, <3>3, <3>4
  <2> QED
    BY <2>8, <2>9 DEF g, gNext, pair
<1> QED
  BY <1>1, <1>2, PTL DEF MinimalMovement, Spec
=============================================================================
