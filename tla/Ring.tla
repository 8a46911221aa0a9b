-------------------------------- MODULE Ring --------------------------------
(***************************************************************************)
(* The consistent-hash ring of cache/cluster/ring.go.                      *)
(*                                                                         *)
(* A Ring holds three pieces of state that must agree: the sorted slice    *)
(* `positions`, the map `nodeMap` from a position to the node placed       *)
(* there, and the set `nodes` of members.  A sorted slice is determined by *)
(* how often each value occurs in it, so `positions` is the multiplicity   *)
(* of each ring position; the binary search of the code becomes a minimum  *)
(* over the positions that occur.                                          *)
(*                                                                         *)
(* FNV-1a is a fixed function of "<node>:<i>".  The variable `hash` never  *)
(* changes and is chosen in Init from the constant set Hashes, so one run  *)
(* covers every placement of the virtual nodes in that set, with or        *)
(* without two virtual nodes on one position.                              *)
(***************************************************************************)
EXTENDS Integers, Sequences, FiniteSets, FiniteSetsExt

CONSTANTS
    Nodes,      \* node identifiers
    VNodes,     \* indices of a node's virtual nodes (0..149 in the code)
    RingSize,   \* number of ring positions (2^32 in the code)
    Hashes,     \* the placements to consider, each in [Nodes -> [VNodes -> Pos]]
    MaxCopies,  \* bound: copies of one position the slice may hold
    NoNode      \* the empty string: a lookup that found no node

Pos == 0 .. RingSize - 1

ASSUME RingAssumption ==
    /\ RingSize \in Nat \ {0}
    /\ MaxCopies \in Nat
    /\ NoNode \notin Nodes
    /\ VNodes # {} /\ IsFiniteSet(VNodes)
    /\ Hashes \subseteq [Nodes -> [VNodes -> Pos]]

VARIABLES
    hash,       \* where each virtual node hashes to; constant
    positions,  \* Ring.positions: how often each position occurs in the slice
    nodeMap,    \* Ring.nodeMap; an absent entry reads as NoNode, as in Go
    nodes       \* Ring.nodes

vars == <<hash, positions, nodeMap, nodes>>

-----------------------------------------------------------------------------
(* Lookups *)

Support == {p \in Pos : positions[p] > 0}

\* Mutant: a key past the last position stays there instead of wrapping to 0.
SearchNoWrap(h, S) ==
    LET after == {p \in S : p >= h}
    IN  IF after # {} THEN Min(after) ELSE Max(S)

\* sort.Search for the first position >= h, wrapping to the first of all.
Search(h, S) ==
    LET after == {p \in S : p >= h}
    IN  IF after # {} THEN Min(after) ELSE Min(S)

\* The node a key with hash h is routed to.
GetNode(h) == IF Support = {} THEN NoNode ELSE nodeMap[Search(h, Support)]

\* Mutant: the walk does not skip further positions of the primary.
GetNodesNoSeen(h) ==
    LET others == Support \ {Search(h, Support)}
    IN  CASE Support = {} -> <<>>
          [] Support # {} /\ others = {} -> <<GetNode(h)>>
          [] OTHER -> <<GetNode(h), nodeMap[Search(h, others)]>>

\* GetNodes(key, 2): the primary, then the first different node clockwise.
GetNodes(h) ==
    LET others == {p \in Support : nodeMap[p] # GetNode(h)}
    IN  CASE Support = {} -> <<>>
          [] Support # {} /\ others = {} -> <<GetNode(h)>>
          [] OTHER -> <<GetNode(h), nodeMap[Search(h, others)]>>

-----------------------------------------------------------------------------
(* Membership changes *)

\* A position two virtual nodes hash to is appended twice, and the later one
\* takes over its nodeMap entry.
AddNode(n) ==
    /\ n \notin nodes
    /\ LET copies(p) == Cardinality({i \in VNodes : hash[n][i] = p})
       IN  /\ \A p \in Pos : positions[p] + copies(p) <= MaxCopies
           /\ positions' = [p \in Pos |-> positions[p] + copies(p)]
    /\ nodeMap' = [p \in Pos |->
                     IF \E i \in VNodes : hash[n][i] = p THEN n ELSE nodeMap[p]]
    /\ nodes' = nodes \cup {n}
    /\ UNCHANGED hash

\* Mutant: the comparison that picks n's positions is inverted.
RemoveNodeInverted(n) ==
    /\ n \in nodes
    /\ positions' = [p \in Pos |-> IF nodeMap[p] # n
                                   THEN positions[p] - 1 ELSE positions[p]]
    /\ nodes' = nodes \ {n}
    /\ UNCHANGED <<hash, nodeMap>>

\* Mutant: the filtered slice is not stored back.
RemoveNodeNotKept(n) ==
    /\ n \in nodes
    /\ nodeMap' = [p \in Pos |-> IF nodeMap[p] = n THEN NoNode ELSE nodeMap[p]]
    /\ nodes' = nodes \ {n}
    /\ UNCHANGED <<hash, positions>>

\* Mutant: the nodeMap entry is not deleted.
RemoveNodeStaleMap(n) ==
    /\ n \in nodes
    /\ positions' = [p \in Pos |-> IF positions[p] > 0 /\ nodeMap[p] = n
                                   THEN positions[p] - 1 ELSE positions[p]]
    /\ nodes' = nodes \ {n}
    /\ UNCHANGED <<hash, nodeMap>>

\* The loop deletes the nodeMap entry at the first copy of a position, so the
\* further copies no longer read as n and are kept.
RemoveNode(n) ==
    /\ n \in nodes
    /\ positions' = [p \in Pos |-> IF positions[p] > 0 /\ nodeMap[p] = n
                                   THEN positions[p] - 1 ELSE positions[p]]
    /\ nodeMap' = [p \in Pos |-> IF positions[p] > 0 /\ nodeMap[p] = n
                                 THEN NoNode ELSE nodeMap[p]]
    /\ nodes' = nodes \ {n}
    /\ UNCHANGED hash

Init ==
    /\ hash \in Hashes
    /\ positions = [p \in Pos |-> 0]
    /\ nodeMap = [p \in Pos |-> NoNode]
    /\ nodes = {}

Next == \E n \in Nodes : AddNode(n) \/ RemoveNode(n)

Spec == Init /\ [][Next]_vars

-----------------------------------------------------------------------------
(* Reference definitions *)

\* How far clockwise position p lies from h.
Dist(h, p) == IF p >= h THEN p - h ELSE p - h + RingSize

\* No two virtual nodes share a position; so it is for the 450 virtual nodes
\* of node-a, node-b and node-c.
NoCollision ==
    \A n, m \in Nodes, i, j \in VNodes :
        hash[n][i] = hash[m][j] => n = m /\ i = j

\* Among the nodes of `live`, n has the virtual node nearest to h.
Nearest(h, live, n) ==
    \E i \in VNodes : \A m \in live, j \in VNodes :
        Dist(h, hash[n][i]) <= Dist(h, hash[m][j])

-----------------------------------------------------------------------------
(* Properties *)

TypeOK ==
    /\ hash \in Hashes
    /\ positions \in [Pos -> 0 .. MaxCopies]
    /\ nodeMap \in [Pos -> Nodes \cup {NoNode}]
    /\ nodes \subseteq Nodes

\* A lookup never names a node that has left, whatever collides.
LiveOwner == \A h \in Pos : GetNode(h) \in nodes \cup {NoNode}

\* Without collisions the owner depends on the member set alone, whatever the
\* order of joins and departures that led to it: it is the member whose
\* virtual node comes first clockwise.  Two servers with the same members
\* therefore route a key to the same node.
Agreement ==
    NoCollision /\ nodes # {} =>
        \A h \in Pos : /\ GetNode(h) \in nodes
                       /\ Nearest(h, nodes, GetNode(h))

\* The replica of a key is a second member, and the one that becomes the
\* owner when the primary leaves: GetNodes is what replication writes to and
\* GetNode is where reads go after a removal.
ReplicaIsHeir ==
    NoCollision /\ (\E n, m \in nodes : n # m) =>
        \A h \in Pos :
            LET pair == GetNodes(h)
            IN  /\ Len(pair) = 2
                /\ pair[1] = GetNode(h)
                /\ pair[2] \in nodes \ {pair[1]}
                /\ Nearest(h, nodes \ {pair[1]}, pair[2])

\* A join moves keys only to the joining node, and a departure moves only the
\* keys of the departing node, each to the replica it had.
Moves ==
    \A h \in Pos :
        /\ \A n \in nodes' \ nodes : GetNode(h)' \in {GetNode(h), n}
        /\ \A n \in nodes \ nodes' :
              GetNode(h)' = IF GetNode(h) # n THEN GetNode(h)
                            ELSE IF Len(GetNodes(h)) = 2 THEN GetNodes(h)[2]
                            ELSE NoNode

\* TestKeyMovementOnAdd and TestKeyMovementOnRemove for every placement.
MinimalMovement == [][NoCollision => Moves]_vars
=============================================================================
