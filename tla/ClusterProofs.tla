---------------------------- MODULE ClusterProofs ----------------------------
(***************************************************************************)
(* Proofs about Cluster for any number of servers, keys, clients and       *)
(* transfers and for every bound.                                          *)
(***************************************************************************)
EXTENDS Cluster, NatOrder, SequenceTheorems, FiniteSetTheorems, TLAPS

-----------------------------------------------------------------------------
(* Routing *)

\* Nearest picks a member of least rank.
LEMMA NearestIsLeast ==
    ASSUME NEW k \in Keys, NEW S \in SUBSET Nodes, S # {}
    PROVE  Nearest(S, k) \in S /\ \A m \in S : Rank[k][Nearest(S, k)] <= Rank[k][m]
<1> DEFINE ranks == {Rank[k][n] : n \in S}
<1>1. ranks \in SUBSET Nat /\ ranks # {}
  BY ClusterAssumption
<1>2. PICK x \in ranks : \A y \in ranks : x <= y
  <2> HIDE DEF ranks
  <2> QED
    BY <1>1, LeastExists
<1>3. PICK n \in S : x = Rank[k][n]
  OBVIOUS
<1>4. \A m \in S : Rank[k][n] <= Rank[k][m]
  BY <1>2, <1>3
<1> QED
  BY <1>4 DEF Nearest

\* A server that is not the owner itself takes for owner one that comes before
\* it, for it has itself on its ring.
LEMMA OwnerComesFirst ==
    ASSUME NEW n \in Nodes, NEW k \in Keys
    PROVE  /\ OwnerOf(n, k) \in Nodes
           /\ OwnerOf(n, k) # n => Rank[k][OwnerOf(n, k)] < Rank[k][n]
<1> DEFINE o == OwnerOf(n, k)
<1>1. View(n) \in SUBSET Nodes /\ n \in View(n)
  BY DEF View
<1>2. o \in View(n) /\ Rank[k][o] <= Rank[k][n]
  BY <1>1, NearestIsLeast DEF OwnerOf
<1>3. o \in Nodes
  BY <1>1, <1>2
<1>4. Rank[k][o] \in Nat /\ Rank[k][n] \in Nat
  BY <1>3, ClusterAssumption
<1>5. o # n => Rank[k][o] # Rank[k][n]
  BY <1>3, ClusterAssumption
<1> QED
  BY <1>2, <1>3, <1>4, <1>5

\* The replica is another server.
LEMMA ReplicasType ==
    ASSUME NEW n \in Nodes, NEW k \in Keys
    PROVE  Replicas(n, k) \in SUBSET Nodes
BY NearestIsLeast DEF Replicas, View

-----------------------------------------------------------------------------
(* Types *)

\* A request that is being served has a server that serves it.
Served == {r \in Requests : r.op # "idle" => r.path # <<>>}

\* A client without a request and a server without a transfer are well formed.
LEMMA IdleType == Idle \in Served /\ NoMover \in Transfers
<1>1. (CHOOSE k \in Keys : TRUE) \in Keys
  BY ClusterAssumption
<1>2. Idle \in Requests /\ Idle.op = "idle"
  BY <1>1 DEF Idle, Requests, Replies
<1>3. NoMover \in Transfers
  BY <1>1 DEF NoMover, Transfers, Empty
<1> QED
  BY <1>2, <1>3 DEF Served

\* A request that was answered is on no server any more.
LEMMA AnsweredEnds ==
    ASSUME NEW r \in Requests, NEW reply, NEW v
    PROVE  Answered(r, reply, v).op = "idle" /\ Answered(r, reply, v).path = <<>>
<1> DEFINE said == IF r.heard THEN reply ELSE r.reply
<1>1. Answered(r, reply, v) = [r EXCEPT !.op = "idle", !.path = <<>>, !.left = {},
                                        !.reply = said, !.value = v]
  BY DEF Answered
<1> HIDE DEF said
<1> QED
  BY <1>1 DEF Requests

\* Answering a request leaves a well-formed client.
LEMMA AnsweredType ==
    ASSUME NEW r \in Requests, NEW reply \in Replies, NEW v \in Nat
    PROVE  Answered(r, reply, v) \in Served
<1> DEFINE said == IF r.heard THEN reply ELSE r.reply
<1>1. said \in Replies
  BY DEF Requests
<1>2. Answered(r, reply, v) = [r EXCEPT !.op = "idle", !.path = <<>>, !.left = {},
                                        !.reply = said, !.value = v]
  BY DEF Answered
<1> HIDE DEF said
<1>3. <<>> \in Seq(Nodes)
  OBVIOUS
<1>4. [r EXCEPT !.op = "idle", !.path = <<>>, !.left = {},
                !.reply = said, !.value = v] \in Requests
  BY <1>1, <1>3 DEF Requests
<1> QED
  BY <1>2, <1>4, AnsweredEnds DEF Served

\* The last element of a request's path is the server that works on it.
LEMMA AtIsServer ==
    ASSUME NEW c \in Clients, client \in [Clients -> Served], client[c].op # "idle"
    PROVE  /\ At(c) \in Nodes
           /\ client[c] \in Requests /\ client[c].key \in Keys
           /\ client[c].path \in Seq(Nodes) /\ Len(client[c].path) \in Nat \ {0}
BY DEF Served, Requests, At

\* Part of a path is a path.
LEMMA PartOfPath ==
    ASSUME NEW p \in Seq(Nodes), NEW a \in 1 .. Len(p), NEW b \in a .. Len(p)
    PROVE  /\ SubSeq(p, a, b) \in Seq(Nodes) /\ SubSeq(p, a, b) # <<>>
           /\ Len(SubSeq(p, a, b)) = b - a + 1
           /\ \A i \in 1 .. b - a + 1 : SubSeq(p, a, b)[i] = p[a + i - 1]
<1>1. a \in 1 .. Len(p) + 1 /\ b \in a - 1 .. Len(p) /\ a <= b
  OBVIOUS
<1>2. /\ SubSeq(p, a, b) \in Seq(Nodes)
      /\ Len(SubSeq(p, a, b)) = b - a + 1
      /\ \A i \in 1 .. b - a + 1 : SubSeq(p, a, b)[i] = p[a + i - 1]
  BY <1>1, SubSeqProperties
<1>3. Len(SubSeq(p, a, b)) > 0
  BY <1>1, <1>2
<1> QED
  BY <1>2, <1>3

\* What a crash makes of a request is again a request that is served.
LEMMA AfterCrashType ==
    ASSUME NEW r \in Served, NEW n \in Nodes, store \in [Nodes -> [Keys -> Nat]]
    PROVE  AfterCrash(r, n) \in Served
<1> DEFINE through == {i \in 1 .. Len(r.path) : r.path[i] = n}
           i == CHOOSE j \in through : TRUE
           seen == [r EXCEPT !.whole = FALSE,
                             !.copies = IF r.copies > 0 /\ store[n][r.key] # 0
                                        THEN @ - 1 ELSE @]
           told == IF i = 1 THEN "down" ELSE "err"
           reply == IF r.heard THEN told ELSE seen.reply
<1>1. r \in Requests /\ r.path \in Seq(Nodes) /\ Len(r.path) \in Nat
  BY DEF Served, Requests
<1>2. seen \in Served
  <2>1. (IF r.copies > 0 /\ store[n][r.key] # 0 THEN r.copies - 1 ELSE r.copies) \in Nat
    BY <1>1 DEF Requests
  <2> QED
    BY <1>1, <2>1 DEF Served, Requests
<1>3. through # {} => i \in 1 .. Len(r.path)
  OBVIOUS
<1>4. seen.path = r.path /\ seen.op = r.op /\ seen \in Requests
  BY <1>1, <1>2 DEF Served, Requests
<1>5. CASE through = {}
  BY <1>2, <1>5 DEF AfterCrash
<1>6. CASE through # {} /\ r.op \in {"set", "del"} /\ i = Len(r.path)
  <2>1. AfterCrash(r, n) = Answered(seen, told, 0)
    BY <1>6 DEF AfterCrash
  <2> HIDE DEF seen, i
  <2> QED
    BY <2>1, <1>4, AnsweredType DEF Replies
<1>7. CASE through # {} /\ r.op \in {"set", "del"} /\ i # Len(r.path)
  <2> DEFINE rest == SubSeq(seen.path, i + 1, Len(seen.path))
  <2>1. AfterCrash(r, n) = [seen EXCEPT !.path = rest, !.heard = FALSE, !.reply = reply]
    BY <1>7 DEF AfterCrash
  <2>a. reply \in Replies
    BY <1>4 DEF Requests, Replies
  <2>2. i \in 1 .. Len(r.path) - 1
    BY <1>1, <1>3, <1>7
  <2> HIDE DEF i, seen
  <2>3. rest \in Seq(Nodes) /\ rest # <<>>
    <3>1. seen.path \in Seq(Nodes) /\ i + 1 \in 1 .. Len(seen.path)
      BY <1>1, <1>4, <2>2
    <3>2. Len(seen.path) \in i + 1 .. Len(seen.path)
      BY <3>1, <1>1, <1>4, <2>2
    <3> QED
      BY <3>1, <3>2, PartOfPath
  <2> HIDE DEF rest, reply
  <2> QED
    BY <2>1, <2>a, <2>3, <1>4 DEF Served, Requests
<1>8. CASE through # {} /\ r.op \notin {"set", "del"} /\ i = 1
  <2>1. AfterCrash(r, n) = Answered(seen, "down", 0)
    BY <1>8 DEF AfterCrash
  <2> HIDE DEF seen, i
  <2> QED
    BY <2>1, <1>4, AnsweredType DEF Replies
<1>9. CASE through # {} /\ r.op \notin {"set", "del"} /\ i # 1
  <2> DEFINE rest == SubSeq(seen.path, 1, i - 1)
  <2>1. AfterCrash(r, n) = [seen EXCEPT !.op = "self", !.path = rest, !.left = {}]
    BY <1>9 DEF AfterCrash
  <2>2. i \in 2 .. Len(r.path)
    BY <1>1, <1>3, <1>9
  <2> HIDE DEF i, seen
  <2>3. rest \in Seq(Nodes) /\ rest # <<>>
    <3>1. seen.path \in Seq(Nodes) /\ 1 \in 1 .. Len(seen.path)
      BY <1>1, <1>4, <2>2
    <3>2. i - 1 \in 1 .. Len(seen.path)
      BY <1>1, <1>4, <2>2
    <3> QED
      BY <3>1, <3>2, PartOfPath
  <2> HIDE DEF rest
  <2> QED
    BY <2>1, <2>3, <1>4 DEF Served, Requests
<1> QED
  BY <1>5, <1>6, <1>7, <1>8, <1>9

\* The type invariant with its two conjuncts about clients in one.
LEMMA ClientsServed ==
    TypeOK <=> /\ client \in [Clients -> Served]
               /\ up \in [Nodes -> BOOLEAN]
               /\ store \in [Nodes -> [Keys -> Nat]]
               /\ status \in [Nodes -> [Nodes -> Statuses]]
               /\ repl \subseteq [write : Nat, node : Nodes, key : Keys, value : Nat]
               /\ msgs \subseteq [to : Nodes, key : Keys, value : Nat, write : Nat,
                                 by : Movers \cup {NoNode}]
               /\ mover \in [Movers -> Transfers]
               /\ \A s \in Movers : mover[s].phase # "idle" => mover[s].node \in Nodes
               /\ latest \in [Keys -> Nat] /\ written \in Nat
               /\ dels \in Nat /\ crashes \in Nat /\ restarts \in Nat /\ misses \in Nat
<1>1. client \in [Clients -> Served]
        <=> /\ client \in [Clients -> Requests]
            /\ \A c \in Clients : client[c].op # "idle" => client[c].path # <<>>
  BY DEF Served
<1> QED
  BY <1>1 DEF TypeOK

\* A request step leaves a request that is served; these are the forms it takes.
LEMMA AnswerType ==
    ASSUME NEW c \in Clients, client \in [Clients -> Served],
           NEW reply \in Replies, NEW v \in Nat, Answer(c, reply, v)
    PROVE  client' \in [Clients -> Served]
<1>1. Answered(client[c], reply, v) \in Served
  BY AnsweredType DEF Served
<1> QED
  BY <1>1 DEF Answer

\* A request that its server turns to itself keeps its shape.
LEMMA SelfType ==
    ASSUME NEW c \in Clients, client \in [Clients -> Served], client[c].op # "idle",
           client' = [client EXCEPT ![c].op = "self"]
    PROVE  client' \in [Clients -> Served]
<1>1. [client[c] EXCEPT !.op = "self"] \in Served
  BY DEF Served, Requests
<1> QED
  BY <1>1

\* A scan only changes the servers that are left to ask.
LEMMA ScanType ==
    ASSUME NEW c \in Clients, client \in [Clients -> Served], client[c].op # "idle",
           NEW left \in SUBSET Nodes,
           \/ client' = [client EXCEPT ![c].left = left]
           \/ client' = [client EXCEPT ![c].op = "scan", ![c].left = left]
    PROVE  client' \in [Clients -> Served]
<1>1. client[c] \in Requests /\ client[c].path # <<>>
  BY DEF Served
<1>2. [client[c] EXCEPT !.left = left] \in Served
  BY <1>1 DEF Served, Requests
<1>3. [client[c] EXCEPT !.op = "scan", !.left = left] \in Served
  BY <1>1 DEF Served, Requests
<1> QED
  BY <1>2, <1>3

\* Every step keeps the types.
LEMMA TypeNext == TypeOK /\ [Next]_vars => TypeOK'
<1> SUFFICES ASSUME TypeOK, [Next]_vars
             PROVE  TypeOK'
  OBVIOUS
<1>a. client \in [Clients -> Served]
  BY ClientsServed
<1>b. ASSUME client' \in [Clients -> Served]
      PROVE  /\ client' \in [Clients -> Requests]
             /\ \A c \in Clients : client'[c].op # "idle" => client'[c].path # <<>>
  BY <1>b DEF Served
<1>1. ASSUME NEW c \in Clients, NEW op \in {"set", "del", "get"}, NEW n \in Nodes,
             NEW k \in Keys, Request(c, op, n, k)
      PROVE  TypeOK'
  <2> DEFINE copies == Cardinality(Holders(k))
             whole == Whole
             r == [Idle EXCEPT !.op = op, !.key = k, !.path = <<n>>,
                               !.floor = latest[k], !.copies = copies, !.whole = whole]
  <2>1. copies \in Nat
    BY FS_Subset, FS_CardinalityType, ClusterAssumption DEF Holders
  <2>2. whole \in BOOLEAN
    BY Zenon DEF Whole
  <2>3. latest[k] \in Nat /\ <<n>> \in Seq(Nodes) /\ <<n>> # <<>>
    BY DEF TypeOK
  <2>4. r \in Served
    <3> HIDE DEF copies, whole
    <3>1. Idle \in Requests
      BY IdleType DEF Served
    <3>2. r \in Requests
      BY <2>1, <2>2, <2>3, <3>1 DEF Requests
    <3>3. r.path = <<n>>
      BY <3>1 DEF Requests
    <3> QED
      BY <2>3, <3>2, <3>3 DEF Served
  <2> HIDE DEF r
  <2>5. client' \in [Clients -> Served]
    BY <1>1, <1>a, <2>4 DEF Request, r
  <2> QED
    BY <1>1, <1>b, <2>5 DEF Request, TypeOK
<1>2. ASSUME NEW c \in Clients, Forward(c)
      PROVE  TypeOK'
  <2> DEFINE owner == OwnerOf(At(c), client[c].key)
  <2>1. At(c) \in Nodes /\ client[c].path \in Seq(Nodes) /\ client[c].key \in Keys
    BY <1>2, <1>a, AtIsServer DEF Forward, Running
  <2>2. owner \in Nodes
    BY <2>1, OwnerComesFirst
  <2> HIDE DEF owner
  <2>3. Append(client[c].path, owner) \in Seq(Nodes) /\ Append(client[c].path, owner) # <<>>
    BY <2>1, <2>2
  <2>4. [client[c] EXCEPT !.path = Append(@, owner)] \in Served
    BY <1>a, <2>3 DEF Served, Requests
  <2>5. client' \in [Clients -> Served]
    BY <1>2, <1>a, <2>4 DEF Forward, owner
  <2> QED
    BY <1>2, <1>b, <2>5 DEF Forward, TypeOK, counts
<1>3. ASSUME NEW c \in Clients, ForwardFails(c)
      PROVE  TypeOK'
  <2>1. client' \in [Clients -> Served]
    <3>1. client[c].op # "idle" /\ 0 \in Nat /\ "err" \in Replies
      BY <1>3 DEF ForwardFails, Running, Replies
    <3> QED
      BY <1>3, <1>a, <3>1, SelfType, AnswerType DEF ForwardFails
  <2> QED
    BY <1>3, <1>b, <2>1 DEF ForwardFails, TypeOK, counts
<1>4. ASSUME NEW c \in Clients, Apply(c)
      PROVE  TypeOK'
  <2>1. At(c) \in Nodes /\ client[c].key \in Keys
    BY <1>4, <1>a, AtIsServer DEF Apply, Running
  <2>2. (IF client[c].op = "set" THEN written + 1 ELSE 0) \in Nat /\ written + 1 \in Nat
    BY DEF TypeOK
  <2>3. client' \in [Clients -> Served]
    BY <1>4, <1>a, <2>2, AnswerType DEF Apply, Replies
  <2>4. /\ store' \in [Nodes -> [Keys -> Nat]] /\ latest' \in [Keys -> Nat]
        /\ repl' \subseteq [write : Nat, node : Nodes, key : Keys, value : Nat]
    BY <1>4, <2>1, <2>2 DEF Apply, TypeOK
  <2> QED
    BY <1>4, <1>b, <2>2, <2>3, <2>4 DEF Apply, TypeOK, counts
<1>5. ASSUME NEW c \in Clients, GetLocal(c)
      PROVE  TypeOK'
  <2>1. store[At(c)][client[c].key] \in Nat
    <3>1. At(c) \in Nodes /\ client[c].key \in Keys
      BY <1>5, <1>a, AtIsServer DEF GetLocal, Running
    <3> QED
      BY <3>1 DEF TypeOK
  <2>2. client' \in [Clients -> Served]
    <3>1. client[c].op # "idle" /\ "hit" \in Replies
      BY <1>5 DEF GetLocal, Running, Replies
    <3> QED
      BY <1>5, <1>a, <2>1, <3>1, SelfType, AnswerType DEF GetLocal
  <2> QED
    BY <1>5, <1>b, <2>2 DEF GetLocal, TypeOK, counts
<1>6. ASSUME NEW c \in Clients, ReadSelf(c)
      PROVE  TypeOK'
  <2>1. store[At(c)][client[c].key] \in Nat
    <3>1. At(c) \in Nodes /\ client[c].key \in Keys
      BY <1>6, <1>a, AtIsServer DEF ReadSelf, Running
    <3> QED
      BY <3>1 DEF TypeOK
  <2>2. View(At(c)) \ {At(c)} \in SUBSET Nodes
    BY DEF View
  <2>3. client' \in [Clients -> Served]
    <3>1. client[c].op # "idle" /\ "hit" \in Replies
      BY <1>6 DEF ReadSelf, Running, Replies
    <3> QED
      BY <1>6, <1>a, <2>1, <2>2, <3>1, ScanType, AnswerType DEF ReadSelf
  <2> QED
    BY <1>6, <1>b, <2>3 DEF ReadSelf, TypeOK, counts
<1>7. ASSUME NEW c \in Clients, NEW p \in Nodes, ReadPeer(c, p)
      PROVE  TypeOK'
  <2>1. store[p][client[c].key] \in Nat
    <3>1. client[c].key \in Keys
      BY <1>7, <1>a, AtIsServer DEF ReadPeer, Running
    <3> QED
      BY <3>1 DEF TypeOK
  <2>2. client[c].left \ {p} \in SUBSET Nodes
    BY <1>a DEF Served, Requests
  <2>3. client' \in [Clients -> Served]
    <3>1. client[c].op # "idle" /\ "hit" \in Replies
      BY <1>7 DEF ReadPeer, Running, Replies
    <3>2. ReadPeer(c, p) =>
            \/ Answer(c, "hit", store[p][client[c].key])
            \/ client' = [client EXCEPT ![c].left = client[c].left \ {p}]
      BY <1>a DEF ReadPeer
    <3> QED
      BY <1>7, <1>a, <2>1, <2>2, <3>1, <3>2, ScanType, AnswerType
  <2> QED
    BY <1>7, <1>b, <2>3 DEF ReadPeer, TypeOK, counts
<1>8. ASSUME NEW c \in Clients, ReadMiss(c)
      PROVE  TypeOK'
  <2>1. client' \in [Clients -> Served]
    BY <1>8, <1>a, AnswerType DEF ReadMiss, Replies
  <2> QED
    BY <1>8, <1>b, <2>1 DEF ReadMiss, TypeOK, counts
<1>9. ASSUME NEW r \in repl, Replicate(r)
      PROVE  TypeOK'
  <2>1. r \in [write : Nat, node : Nodes, key : Keys, value : Nat]
    BY DEF TypeOK
  <2>2. \A p \in Replicas(r.node, r.key) :
           Command(p, r.key, r.value, r.write, NoNode)
             \in [to : Nodes, key : Keys, value : Nat, write : Nat, by : Movers \cup {NoNode}]
    BY <2>1, ReplicasType DEF Command
  <2> QED
    BY <1>9, <2>2 DEF Replicate, TypeOK, counts
<1>10. ASSUME NEW m \in msgs, Deliver(m)
       PROVE  TypeOK'
  <2>1. m \in [to : Nodes, key : Keys, value : Nat, write : Nat, by : Movers \cup {NoNode}]
    BY DEF TypeOK
  <2>2. store' \in [Nodes -> [Keys -> Nat]]
    BY <1>10, <2>1 DEF Deliver, TypeOK
  <2>3. /\ mover' \in [Movers -> Transfers]
        /\ \A s \in Movers : mover'[s].phase # "idle" => mover'[s].node \in Nodes
    <3>1. CASE mover' = mover
      BY <3>1 DEF TypeOK
    <3>2. CASE m.by \in Movers /\ mover[m.by].phase = "wait"
      <4>1. PICK ph \in {"del", "loop"} : mover' = [mover EXCEPT ![m.by].phase = ph]
        BY <1>10, <3>2 DEF Deliver
      <4>2. mover[m.by] \in Transfers /\ mover[m.by].node \in Nodes
        BY <3>2 DEF TypeOK
      <4>3. /\ [mover[m.by] EXCEPT !.phase = ph] \in Transfers
            /\ [mover[m.by] EXCEPT !.phase = ph].node \in Nodes
        BY <4>2 DEF Transfers
      <4> QED
        BY <4>1, <4>3, <3>2 DEF TypeOK
    <3> QED
      BY <1>10, <3>1, <3>2 DEF Deliver
  <2> QED
    BY <1>10, <2>2, <2>3 DEF Deliver, TypeOK, counts
<1>11. ASSUME NEW n \in Nodes, NEW s \in Movers, Migrate(n, s)
       PROVE  TypeOK'
  <2>1. Spawned(n, NoNode) \in Transfers /\ Spawned(n, NoNode).node = n
    BY IdleType DEF Spawned, Transfers
  <2> QED
    BY <1>11, <2>1 DEF Migrate, TypeOK, counts
<1>12. ASSUME NEW s \in Movers, MoverStart(s)
       PROVE  TypeOK'
  <2>1. mover[s].node \in Nodes /\ store[mover[s].node] \in [Keys -> Nat]
    BY <1>12 DEF MoverStart, TypeOK
  <2>2. {k \in Keys : store[mover[s].node][k] # 0} \in SUBSET Keys
    OBVIOUS
  <2> DEFINE t == [mover[s] EXCEPT !.phase = "loop", !.snap = store[mover[s].node],
                                   !.todo = {k \in Keys : store[mover[s].node][k] # 0}]
  <2>3. mover[s] \in Transfers
    BY DEF TypeOK
  <2>4. t \in Transfers /\ t.node = mover[s].node
    BY <2>1, <2>2, <2>3 DEF Transfers
  <2>5. mover' = [mover EXCEPT ![s] = t]
    BY <1>12 DEF MoverStart
  <2> HIDE DEF t
  <2>6. /\ mover' \in [Movers -> Transfers]
        /\ \A q \in Movers : mover'[q].phase # "idle" => mover'[q].node \in Nodes
    BY <2>1, <2>4, <2>5 DEF TypeOK
  <2> QED
    BY <1>12, <2>6 DEF MoverStart, TypeOK, counts
<1>13. ASSUME NEW s \in Movers, MoverDel(s)
       PROVE  TypeOK'
  <2>1. mover[s] \in Transfers /\ mover[s].node \in Nodes
    BY <1>13 DEF MoverDel, TypeOK
  <2> QED
    BY <1>13, <2>1 DEF MoverDel, TypeOK, Transfers, counts
<1>14. ASSUME NEW s \in Movers, MoverEnd(s)
       PROVE  TypeOK'
  <2>1. NoMover.phase = "idle"
    BY DEF NoMover
  <2> QED
    BY <1>14, <2>1, IdleType DEF MoverEnd, TypeOK, counts
<1>15. ASSUME NEW s \in Movers, NEW k \in Keys, MoverNext(s, k)
       PROVE  TypeOK'
  <2>1. mover[s] \in Transfers /\ mover[s].node \in Nodes
    BY <1>15 DEF MoverNext, TypeOK
  <2>2. OwnerOf(mover[s].node, k) \in Nodes /\ mover[s].snap[k] \in Nat
    BY <2>1, OwnerComesFirst DEF Transfers
  <2>3. msgs' \subseteq [to : Nodes, key : Keys, value : Nat, write : Nat,
                         by : Movers \cup {NoNode}]
    BY <1>15, <2>2 DEF MoverNext, Command, TypeOK
  <2>4. /\ mover' \in [Movers -> Transfers]
        /\ \A t \in Movers : mover'[t].phase # "idle" => mover'[t].node \in Nodes
    <3>1. mover[s].todo \ {k} \in SUBSET Keys
      BY <2>1 DEF Transfers
    <3>2. PICK t \in {[mover[s] EXCEPT !.phase = "wait", !.key = k, !.todo = @ \ {k}],
                      [mover[s] EXCEPT !.todo = @ \ {k}]} :
             mover' = [mover EXCEPT ![s] = t]
      BY <1>15 DEF MoverNext
    <3>3. t \in Transfers /\ t.node = mover[s].node
      BY <2>1, <3>1, <3>2 DEF Transfers
    <3> QED
      BY <2>1, <3>2, <3>3 DEF TypeOK
  <2> QED
    BY <1>15, <2>3, <2>4 DEF MoverNext, TypeOK, counts
<1>16. ASSUME NEW n \in Nodes, NEW p \in Nodes, Miss(n, p)
       PROVE  TypeOK'
  BY <1>16 DEF Miss, TypeOK, Statuses
<1>17. ASSUME NEW n \in Nodes, NEW p \in Nodes, NEW s \in Movers, Pong(n, p, s)
       PROVE  TypeOK'
  <2>1. Spawned(n, p) \in Transfers /\ Spawned(n, p).node = n
    BY IdleType DEF Spawned, Transfers
  <2> QED
    BY <1>17, <2>1 DEF Pong, TypeOK, Statuses, counts
<1>18. ASSUME NEW n \in Nodes, Crash(n)
       PROVE  TypeOK'
  <2>1. client' \in [Clients -> Served]
    BY <1>18, <1>a, AfterCrashType DEF Crash, TypeOK
  <2> DEFINE Msgs == [to : Nodes, key : Keys, value : Nat, write : Nat,
                      by : Movers \cup {NoNode}]
  <2>a. \A m \in Msgs : Orphaned(m, n) \in Msgs
    BY DEF Orphaned
  <2>b. msgs \subseteq Msgs /\ msgs' = {Orphaned(m, n) : m \in msgs}
    BY <1>18 DEF Crash, TypeOK
  <2>c. msgs' \subseteq Msgs
    BY <2>a, <2>b
  <2>2. store' \in [Nodes -> [Keys -> Nat]]
    BY <1>18 DEF Crash, TypeOK, Empty
  <2>3. /\ mover' \in [Movers -> Transfers]
        /\ \A s \in Movers : mover'[s].phase # "idle" => mover'[s].node \in Nodes
    <3>1. NoMover \in Transfers /\ NoMover.phase = "idle"
      BY IdleType DEF NoMover
    <3> QED
      BY <1>18, <3>1 DEF Crash, TypeOK
  <2> QED
    BY <1>18, <1>b, <2>1, <2>2, <2>c, <2>3 DEF Crash, TypeOK
<1>19. ASSUME NEW n \in Nodes, Restart(n)
       PROVE  TypeOK'
  BY <1>19 DEF Restart, TypeOK, Statuses
<1>20. CASE UNCHANGED vars
  BY <1>20 DEF vars, counts, TypeOK
<1> QED
  BY <1>1, <1>2, <1>3, <1>4, <1>5, <1>6, <1>7, <1>8, <1>9, <1>10, <1>11, <1>12, <1>13,
     <1>14, <1>15, <1>16, <1>17, <1>18, <1>19, <1>20 DEF Next, Serve, Move

\* The initial states have the types.
LEMMA TypeInit == Init => TypeOK
<1> SUFFICES ASSUME Init PROVE TypeOK
  OBVIOUS
<1>1. /\ client \in [Clients -> Requests]
      /\ \A c \in Clients : client[c].op # "idle" => client[c].path # <<>>
  BY IdleType DEF Init, Served
<1>2. /\ mover \in [Movers -> Transfers]
      /\ \A s \in Movers : mover[s].phase # "idle" => mover[s].node \in Nodes
  <2>1. NoMover.phase = "idle"
    BY DEF NoMover
  <2> QED
    BY <2>1, IdleType DEF Init
<1> QED
  BY <1>1, <1>2 DEF Init, TypeOK, Statuses, Empty

\* Whatever crashes, restarts or is suspected, every request, command and
\* transfer is well formed, and a request in service has a server.
THEOREM TypeCorrect == Spec => []TypeOK
BY TypeInit, TypeNext, PTL DEF Spec

-----------------------------------------------------------------------------
(* Requests do not travel in circles *)

\* A request's path goes clockwise towards the owner.
Descends(r) ==
    \A i, j \in 1 .. Len(r.path) :
        i < j => Rank[r.key][r.path[j]] < Rank[r.key][r.path[i]]

\* An answered request has no path.
LEMMA AnsweredDescends ==
    ASSUME NEW r \in Requests, NEW reply, NEW v
    PROVE  Descends(Answered(r, reply, v))
BY AnsweredEnds DEF Descends

\* The owner a server forwards to comes before the last server of the path, so
\* it comes before all of them.
LEMMA ForwardDescends ==
    ASSUME NEW c \in Clients, client \in [Clients -> Served], client[c].op # "idle",
           Descends(client[c]), ~ Owns(c)
    PROVE  Descends([client[c] EXCEPT !.path = Append(@, OwnerOf(At(c), client[c].key))])
<1> DEFINE p == client[c].path
           k == client[c].key
           o == OwnerOf(At(c), k)
           q == Append(p, o)
<1>1. p \in Seq(Nodes) /\ Len(p) \in Nat \ {0} /\ k \in Keys /\ client[c] \in Requests
  BY AtIsServer
<1>2. At(c) = p[Len(p)] /\ At(c) \in Nodes
  BY AtIsServer DEF At
<1>3. o \in Nodes /\ Rank[k][o] < Rank[k][p[Len(p)]]
  BY <1>1, <1>2, OwnerComesFirst DEF Owns
<1>4. \A i, j \in 1 .. Len(p) : i < j => Rank[k][p[j]] < Rank[k][p[i]]
  BY DEF Descends
<1> HIDE DEF p, o
<1>5. \A i \in 1 .. Len(p) : p[i] \in Nodes /\ Rank[k][p[i]] \in Nat
  BY <1>1, ClusterAssumption
<1>6. Rank[k][o] \in Nat
  BY <1>1, <1>3, ClusterAssumption
<1> HIDE DEF k
<1>7. ASSUME NEW i \in 1 .. Len(q), NEW j \in 1 .. Len(q), i < j
      PROVE  Rank[k][q[j]] < Rank[k][q[i]]
  <2>1. Len(q) = Len(p) + 1 /\ i \in 1 .. Len(p) /\ q[i] = p[i]
    BY <1>1, <1>3, <1>7
  <2>2. CASE j \in 1 .. Len(p)
    BY <1>1, <1>3, <1>4, <1>7, <2>1, <2>2
  <2>3. CASE j = Len(p) + 1
    <3>1. q[j] = o
      BY <1>1, <1>3, <2>3
    <3>2. Rank[k][p[Len(p)]] <= Rank[k][p[i]]
      BY <1>1, <1>4, <1>5, <2>1
    <3> QED
      BY <1>1, <1>3, <1>5, <1>6, <2>1, <3>1, <3>2
  <2> QED
    BY <1>1, <2>1, <2>2, <2>3
<1>8. [client[c] EXCEPT !.path = Append(@, OwnerOf(At(c), client[c].key))].path = q
  BY <1>1 DEF Requests, p, o, k
<1>9. [client[c] EXCEPT !.path = Append(@, OwnerOf(At(c), client[c].key))].key = k
  BY <1>1 DEF Requests, k
<1> QED
  BY <1>7, <1>8, <1>9 DEF Descends

\* What a crash leaves of a path is a part of it.
LEMMA PartDescends ==
    ASSUME NEW r \in Requests, Descends(r),
           NEW a \in 1 .. Len(r.path), NEW b \in a .. Len(r.path),
           NEW r2, r2.key = r.key, r2.path = SubSeq(r.path, a, b)
    PROVE  Descends(r2)
<1> DEFINE p == r.path
           q == SubSeq(p, a, b)
           k == r.key
<1>1. p \in Seq(Nodes) /\ Len(p) \in Nat
  BY DEF Requests
<1>2. Len(q) = b - a + 1 /\ \A i \in 1 .. b - a + 1 : q[i] = p[a + i - 1]
  BY <1>1, PartOfPath
<1>3. \A i, j \in 1 .. Len(p) : i < j => Rank[k][p[j]] < Rank[k][p[i]]
  BY DEF Descends
<1> HIDE DEF p, k, q
<1>4. ASSUME NEW i \in 1 .. Len(q), NEW j \in 1 .. Len(q), i < j
      PROVE  Rank[k][q[j]] < Rank[k][q[i]]
  <2>1. a + i - 1 \in 1 .. Len(p) /\ a + j - 1 \in 1 .. Len(p) /\ a + i - 1 < a + j - 1
    BY <1>1, <1>2, <1>4 DEF p
  <2> QED
    BY <1>2, <1>3, <2>1
<1> QED
  BY <1>4 DEF Descends, p, k, q

\* What a crash cuts off a path leaves a path that descends.
LEMMA CrashDescends ==
    ASSUME NEW r \in Served, NEW n \in Nodes, store \in [Nodes -> [Keys -> Nat]],
           Descends(r)
    PROVE  Descends(AfterCrash(r, n))
<1> DEFINE through == {i \in 1 .. Len(r.path) : r.path[i] = n}
           i == CHOOSE j \in through : TRUE
           seen == [r EXCEPT !.whole = FALSE,
                             !.copies = IF r.copies > 0 /\ store[n][r.key] # 0
                                        THEN @ - 1 ELSE @]
           told == IF i = 1 THEN "down" ELSE "err"
           reply == IF r.heard THEN told ELSE seen.reply
<1>1. r \in Requests /\ r.path \in Seq(Nodes) /\ Len(r.path) \in Nat
  BY DEF Served, Requests
<1>2. seen \in Requests
  <2>1. (IF r.copies > 0 /\ store[n][r.key] # 0 THEN r.copies - 1 ELSE r.copies) \in Nat
    BY <1>1 DEF Requests
  <2> QED
    BY <1>1, <2>1 DEF Requests
<1>3. seen.path = r.path /\ seen.key = r.key
  BY <1>1 DEF Requests
<1>4. Descends(seen)
  BY <1>3 DEF Descends
<1>5. through # {} => i \in 1 .. Len(r.path)
  OBVIOUS
<1>6. \/ AfterCrash(r, n) = seen
      \/ \E said : AfterCrash(r, n) = Answered(seen, said, 0)
      \/ /\ through # {} /\ i # Len(r.path)
         /\ AfterCrash(r, n) = [seen EXCEPT !.path = SubSeq(@, i + 1, Len(@)),
                                            !.heard = FALSE, !.reply = reply]
      \/ /\ through # {} /\ i # 1
         /\ AfterCrash(r, n) = [seen EXCEPT !.op = "self", !.path = SubSeq(@, 1, i - 1),
                                            !.left = {}]
  BY DEF AfterCrash
<1> HIDE DEF seen, i, reply
<1>7. CASE \E said : AfterCrash(r, n) = Answered(seen, said, 0)
  BY <1>2, <1>7, AnsweredDescends
<1>8. CASE /\ through # {} /\ i # Len(r.path)
           /\ AfterCrash(r, n) = [seen EXCEPT !.path = SubSeq(@, i + 1, Len(@)),
                                            !.heard = FALSE, !.reply = reply]
  <2>1. /\ i + 1 \in 1 .. Len(seen.path)
        /\ Len(seen.path) \in i + 1 .. Len(seen.path)
    BY <1>1, <1>3, <1>5, <1>8
  <2>2. /\ AfterCrash(r, n).path = SubSeq(seen.path, i + 1, Len(seen.path))
        /\ AfterCrash(r, n).key = seen.key
    BY <1>2, <1>8 DEF Requests
  <2> QED
    BY <1>2, <1>4, <2>1, <2>2, PartDescends
<1>9. CASE /\ through # {} /\ i # 1
           /\ AfterCrash(r, n) = [seen EXCEPT !.op = "self", !.path = SubSeq(@, 1, i - 1),
                                              !.left = {}]
  <2>1. 1 \in 1 .. Len(seen.path) /\ i - 1 \in 1 .. Len(seen.path)
    BY <1>1, <1>3, <1>5, <1>9
  <2>2. /\ AfterCrash(r, n).path = SubSeq(seen.path, 1, i - 1)
        /\ AfterCrash(r, n).key = seen.key
    BY <1>2, <1>9 DEF Requests
  <2> QED
    BY <1>2, <1>4, <2>1, <2>2, PartDescends
<1> QED
  BY <1>4, <1>6, <1>7, <1>8, <1>9

\* Every step keeps every path descending.
LEMMA DescendNext == TypeOK /\ PathsDescend /\ [Next]_vars => PathsDescend'
<1> SUFFICES ASSUME TypeOK, PathsDescend, [Next]_vars
             PROVE  \A c \in Clients : Descends(client'[c])
  BY DEF PathsDescend, Descends
<1>a. client \in [Clients -> Served]
  BY ClientsServed
<1>b. \A c \in Clients : client[c] \in Requests /\ Descends(client[c])
  BY DEF PathsDescend, Descends, TypeOK
<1>c. ASSUME client' = client
      PROVE  \A c \in Clients : Descends(client'[c])
  BY <1>b, <1>c
<1>1. ASSUME NEW c \in Clients, NEW r, client' = [client EXCEPT ![c] = r], Descends(r)
      PROVE  \A d \in Clients : Descends(client'[d])
  BY <1>a, <1>b, <1>1
<1>2. ASSUME NEW c \in Clients, NEW op, NEW n \in Nodes, NEW k \in Keys, Request(c, op, n, k)
      PROVE  \A d \in Clients : Descends(client'[d])
  <2> DEFINE copies == Cardinality(Holders(k))
             whole == Whole
             r == [Idle EXCEPT !.op = op, !.key = k, !.path = <<n>>,
                               !.floor = latest[k], !.copies = copies, !.whole = whole]
  <2>1. r.path = <<n>>
    <3> HIDE DEF copies, whole
    <3>1. Idle \in Requests
      BY IdleType DEF Served
    <3> QED
      BY <3>1 DEF Requests
  <2>2. Descends(r)
    <3> HIDE DEF r
    <3> QED
      BY <2>1 DEF Descends
  <2>3. client' = [client EXCEPT ![c] = r]
    BY <1>2 DEF Request
  <2> HIDE DEF r
  <2> QED
    BY <1>1, <2>2, <2>3
<1>3. ASSUME NEW c \in Clients, NEW reply, NEW v, Answer(c, reply, v)
      PROVE  \A d \in Clients : Descends(client'[d])
  <2>1. Descends(Answered(client[c], reply, v))
    BY <1>b, AnsweredDescends
  <2>2. client' = [client EXCEPT ![c] = Answered(client[c], reply, v)]
    BY <1>a, <1>3 DEF Answer
  <2> QED
    BY <1>1, <2>1, <2>2
<1>4. ASSUME NEW c \in Clients, client' = [client EXCEPT ![c].op = "self"]
      PROVE  \A d \in Clients : Descends(client'[d])
  <2>1. Descends([client[c] EXCEPT !.op = "self"])
    BY <1>b DEF Descends, Requests
  <2> QED
    BY <1>1, <1>4, <1>a, <2>1
<1>5. ASSUME NEW c \in Clients, NEW left,
             \/ client' = [client EXCEPT ![c].left = left]
             \/ client' = [client EXCEPT ![c].op = "scan", ![c].left = left]
      PROVE  \A d \in Clients : Descends(client'[d])
  <2>1. /\ Descends([client[c] EXCEPT !.left = left])
        /\ Descends([client[c] EXCEPT !.op = "scan", !.left = left])
    BY <1>b DEF Descends, Requests
  <2> QED
    BY <1>1, <1>5, <1>a, <2>1
<1>6. ASSUME NEW c \in Clients, Forward(c)
      PROVE  \A d \in Clients : Descends(client'[d])
  <2> DEFINE r == [client[c] EXCEPT !.path = Append(@, OwnerOf(At(c), client[c].key))]
  <2>1. client[c].op # "idle" /\ ~ Owns(c)
    BY <1>6 DEF Forward, Running
  <2>2. Descends(r)
    BY <1>a, <1>b, <2>1, ForwardDescends
  <2>3. client' = [client EXCEPT ![c] = r]
    BY <1>6, <1>a DEF Forward
  <2> HIDE DEF r
  <2> QED
    BY <1>1, <2>2, <2>3
<1>7. ASSUME NEW n \in Nodes, Crash(n)
      PROVE  \A d \in Clients : Descends(client'[d])
  BY <1>7, <1>a, <1>b, CrashDescends DEF Crash, TypeOK
<1>8. ASSUME NEW c \in Clients, Serve(c)
      PROVE  \A d \in Clients : Descends(client'[d])
  <2>1. CASE Forward(c)
    BY <2>1, <1>6
  <2>2. CASE ForwardFails(c)
    BY <2>2, <1>3, <1>4 DEF ForwardFails
  <2>3. CASE Apply(c)
    BY <2>3, <1>3 DEF Apply
  <2>4. CASE GetLocal(c)
    BY <2>4, <1>3, <1>4 DEF GetLocal
  <2>5. CASE ReadSelf(c)
    BY <2>5, <1>3, <1>5 DEF ReadSelf
  <2>6. ASSUME NEW p \in Nodes, ReadPeer(c, p)
        PROVE  \A d \in Clients : Descends(client'[d])
    <3>1. \/ Answer(c, "hit", store[p][client[c].key])
          \/ client' = [client EXCEPT ![c].left = client[c].left \ {p}]
      BY <2>6, <1>a DEF ReadPeer
    <3> QED
      BY <3>1, <1>3, <1>5
  <2>7. CASE ReadMiss(c)
    BY <2>7, <1>3 DEF ReadMiss
  <2> QED
    BY <1>8, <2>1, <2>2, <2>3, <2>4, <2>5, <2>6, <2>7 DEF Serve
<1>9. CASE client' = client
  BY <1>9, <1>c
<1>10. \/ \E c \in Clients, op \in {"set", "del", "get"}, n \in Nodes, k \in Keys :
              Request(c, op, n, k)
       \/ \E c \in Clients : Serve(c)
       \/ \E n \in Nodes : Crash(n)
       \/ client' = client
  BY DEF Next, Replicate, Deliver, Migrate, Move, MoverStart, MoverDel, MoverEnd,
         MoverNext, Miss, Pong, Restart, vars
<1> QED
  BY <1>2, <1>7, <1>8, <1>9, <1>10

\* However long servers disagree about who is alive, no request is forwarded in
\* a circle, so a request makes at most one hop per server.
THEOREM PathsDescendHolds == Spec => []PathsDescend
<1>1. Init => PathsDescend
  <2>1. Idle.path = <<>>
    BY DEF Idle
  <2> QED
    BY <2>1 DEF Init, PathsDescend
<1> QED
  BY <1>1, DescendNext, TypeCorrect, PTL DEF Spec

-----------------------------------------------------------------------------
(* Transfers never delete the last copy *)

\* Server n comes before server m, clockwise from key k.
Before(k, n, m) == Rank[k][n] < Rank[k][m]

\* Nothing but a transfer takes an entry from a store.
OnlyTransfersDelete ==
    /\ \A n \in Nodes : up[n]
    /\ \A c \in Clients : client[c].op # "del"
    /\ \A r \in repl : r.value # 0
    /\ \A m \in msgs : m.value # 0

\* A transfer moves entries that existed, and to another server.
MoversSound ==
    \A s \in Movers :
        /\ mover[s].phase # "idle" => mover[s].only # mover[s].node
        /\ \A k \in mover[s].todo : mover[s].snap[k] # 0

\* The one command a transfer has sent goes clockwise, and the transfer waits.
HandedForward ==
    \A m \in msgs : m.by \in Movers =>
        /\ mover[m.by].phase = "wait" /\ mover[m.by].key = m.key
        /\ Before(m.key, m.to, mover[m.by].node)
        /\ \A m2 \in msgs : m2.by = m.by => m2 = m

\* Before a transfer deletes its entry, a server before it holds one.
HeldBefore ==
    \A s \in Movers : mover[s].phase = "del" =>
        \E n \in Nodes : /\ store[n][mover[s].key] # 0
                         /\ Before(mover[s].key, n, mover[s].node)

Kept == \A k \in Keys : latest[k] > 0 => \E n \in Nodes : store[n][k] # 0

CopyInv ==
    crashes = 0 /\ dels = 0 =>
        OnlyTransfersDelete /\ MoversSound /\ HandedForward /\ HeldBefore /\ Kept

\* The invariant about copies holds at the start: nothing is stored.
LEMMA CopyInit == Init => CopyInv
<1>1. NoMover.phase = "idle" /\ NoMover.todo = {} /\ Idle.op = "idle"
  BY DEF NoMover, Idle
<1> QED
  BY <1>1 DEF Init, CopyInv, OnlyTransfersDelete, MoversSound, HandedForward, HeldBefore, Kept

\* The owner a transfer hands its entry to comes before the transfer's server.
LEMMA MovesForward ==
    ASSUME NEW s \in Movers, NEW k \in Keys, mover \in [Movers -> Transfers],
           mover[s].node \in Nodes, mover[s].only # mover[s].node, Moves(s, k)
    PROVE  /\ OwnerOf(mover[s].node, k) \in Nodes
           /\ Before(k, OwnerOf(mover[s].node, k), mover[s].node)
BY OwnerComesFirst DEF Moves, Before

\* No step but a transfer's deletion takes an entry away.
LEMMA StoreGrows ==
    ASSUME TypeOK, CopyInv, [Next]_vars, crashes' = 0 /\ dels' = 0
    PROVE  /\ crashes = 0 /\ dels = 0
           /\ \/ \E s \in Movers : MoverDel(s)
              \/ /\ \A n \in Nodes, k \in Keys : store[n][k] # 0 => store'[n][k] # 0
                 /\ \A k \in Keys : latest'[k] # latest[k] => \E n \in Nodes : store'[n][k] # 0
<1> DEFINE Grows == /\ \A n \in Nodes, k \in Keys : store[n][k] # 0 => store'[n][k] # 0
                    /\ \A k \in Keys : latest'[k] # latest[k] =>
                                         \E n \in Nodes : store'[n][k] # 0
<1>1. crashes \in Nat /\ dels \in Nat
  BY DEF TypeOK
<1>2. crashes = 0 /\ dels = 0 /\ ~ (\E n \in Nodes : Crash(n))
  <2>1. ASSUME NEW c \in Clients, NEW op, NEW n, NEW k, Request(c, op, n, k)
        PROVE  crashes' = crashes /\ (dels' = dels \/ dels' = dels + 1)
    BY <2>1 DEF Request
  <2>2. ASSUME NEW c \in Clients, Serve(c)
        PROVE  crashes' = crashes /\ dels' = dels
    BY <2>2 DEF Serve, Forward, ForwardFails, Apply, GetLocal, ReadSelf, ReadPeer,
                ReadMiss, counts
  <2>3. ASSUME NEW s \in Movers, Move(s)
        PROVE  crashes' = crashes /\ dels' = dels
    BY <2>3 DEF Move, MoverStart, MoverNext, MoverDel, MoverEnd, counts
  <2>4. ASSUME NEW n, Crash(n)
        PROVE  crashes' = crashes + 1
    BY <2>4 DEF Crash
  <2>5. \/ \E n \in Nodes : Crash(n)
        \/ crashes' = crashes /\ (dels' = dels \/ dels' = dels + 1)
    BY <2>1, <2>2, <2>3 DEF Next, Replicate, Deliver, Migrate, Miss, Pong, Restart, vars,
                             counts
  <2> QED
    BY <1>1, <2>4, <2>5
<1>3. OnlyTransfersDelete
  BY <1>2 DEF CopyInv
<1>4. ASSUME NEW c \in Clients, Apply(c)
      PROVE  Grows
  <2>1. client[c].op = "set" /\ At(c) \in Nodes /\ client[c].key \in Keys
    <3>1. client \in [Clients -> Served] /\ client[c].op # "idle"
      BY <1>4, ClientsServed DEF Apply, Running
    <3> QED
      BY <3>1, <1>3, <1>4, AtIsServer DEF Apply, Running, OnlyTransfersDelete
  <2>2. /\ store' = [store EXCEPT ![At(c)][client[c].key] = written + 1]
        /\ latest' = [latest EXCEPT ![client[c].key] = written + 1]
        /\ written + 1 # 0
    BY <1>4, <2>1 DEF Apply, TypeOK
  <2> QED
    BY <2>1, <2>2 DEF TypeOK
<1>5. ASSUME NEW m \in msgs, Deliver(m)
      PROVE  Grows
  <2>1. m.value # 0 /\ latest' = latest
    BY <1>3, <1>5 DEF OnlyTransfersDelete, Deliver
  <2>2. store' = store \/ store' = [store EXCEPT ![m.to][m.key] = m.value]
    BY <1>5 DEF Deliver
  <2>3. m.to \in Nodes /\ m.key \in Keys /\ store \in [Nodes -> [Keys -> Nat]]
    BY DEF TypeOK
  <2> QED
    BY <2>1, <2>2, <2>3
<1>6. ASSUME store' = store, latest' = latest
      PROVE  Grows
  BY <1>6
<1>7. \/ \E c \in Clients : Apply(c)
      \/ \E m \in msgs : Deliver(m)
      \/ \E s \in Movers : MoverDel(s)
      \/ store' = store /\ latest' = latest
  BY <1>2 DEF Next, Request, Serve, Forward, ForwardFails, GetLocal, ReadSelf,
     ReadPeer, ReadMiss, Replicate, Migrate, Move, MoverStart, MoverNext,
     MoverEnd, Miss, Pong, Restart, vars
<1> QED
  BY <1>2, <1>4, <1>5, <1>6, <1>7

\* Serving a request never makes a DEL of it.
LEMMA ServeOps ==
    ASSUME NEW c \in Clients, client \in [Clients -> Served], Serve(c)
    PROVE  \A d \in Clients : client'[d].op \in {client[d].op, "idle", "self", "scan"}
<1> DEFINE Goal == \A d \in Clients : client'[d].op \in {client[d].op, "idle", "self", "scan"}
<1>1. \A d \in Clients : client[d] \in Requests
  BY DEF Served
<1>2. ASSUME NEW reply, NEW v, Answer(c, reply, v)
      PROVE  Goal
  <2>1. Answered(client[c], reply, v).op = "idle"
    BY <1>1, AnsweredEnds
  <2>2. client' = [client EXCEPT ![c] = Answered(client[c], reply, v)]
    BY <1>2 DEF Answer
  <2> QED
    BY <2>1, <2>2
<1>3. ASSUME NEW r, client' = [client EXCEPT ![c] = r],
             r.op \in {client[c].op, "idle", "self", "scan"}
      PROVE  Goal
  BY <1>3
<1>4. ASSUME NEW left
      PROVE  /\ [client[c] EXCEPT !.op = "self"].op = "self"
             /\ [client[c] EXCEPT !.left = left].op = client[c].op
             /\ [client[c] EXCEPT !.path = left].op = client[c].op
             /\ [client[c] EXCEPT !.op = "scan", !.left = left].op = "scan"
  BY <1>1 DEF Requests
<1>5. ASSUME NEW x
      PROVE  /\ client' = [client EXCEPT ![c].op = "self"] => Goal
             /\ client' = [client EXCEPT ![c].left = x] => Goal
             /\ client' = [client EXCEPT ![c].path = x] => Goal
             /\ client' = [client EXCEPT ![c].op = "scan", ![c].left = x] => Goal
  BY <1>3, <1>4
<1> HIDE DEF Goal
<1>6. ASSUME Forward(c) PROVE Goal
  <2>1. client' = [client EXCEPT ![c].path =
                     Append(client[c].path, OwnerOf(At(c), client[c].key))]
    BY <1>6 DEF Forward
  <2> QED
    BY <2>1, <1>5
<1>7. ASSUME ForwardFails(c) PROVE Goal
  BY <1>7, <1>2, <1>5 DEF ForwardFails
<1>8. ASSUME Apply(c) PROVE Goal
  BY <1>8, <1>2 DEF Apply
<1>9. ASSUME GetLocal(c) PROVE Goal
  BY <1>9, <1>2, <1>5 DEF GetLocal
<1>10. ASSUME ReadSelf(c) PROVE Goal
  BY <1>10, <1>2, <1>5 DEF ReadSelf
<1>11. ASSUME NEW p \in Nodes, ReadPeer(c, p)
       PROVE  Goal
  <2>1. \/ Answer(c, "hit", store[p][client[c].key])
        \/ client' = [client EXCEPT ![c].left = client[c].left \ {p}]
    BY <1>11 DEF ReadPeer
  <2> QED
    BY <2>1, <1>2, <1>5
<1>12. ASSUME ReadMiss(c) PROVE Goal
  BY <1>12, <1>2 DEF ReadMiss
<1> QED
  BY <1>6, <1>7, <1>8, <1>9, <1>10, <1>11, <1>12 DEF Serve, Goal

\* Without crashes and deletions a copy disappears only at the hand of a transfer.
LEMMA OnlyTransfersDeleteNext ==
    ASSUME TypeOK, OnlyTransfersDelete, MoversSound, HandedForward, [Next]_vars,
           crashes = 0, dels = 0, crashes' = 0, dels' = 0
    PROVE  OnlyTransfersDelete'
<1>1. ~ (\E n \in Nodes : Crash(n))
  BY DEF Crash
<1>2. \A n \in Nodes : up'[n]
  <2>1. up' = up \/ \E n \in Nodes : up' = [up EXCEPT ![n] = TRUE]
    BY <1>1 DEF Next, Request, Serve, Forward, ForwardFails, Apply, GetLocal, ReadSelf,
       ReadPeer, ReadMiss, Replicate, Deliver, Migrate, Move, MoverStart, MoverNext,
       MoverDel, MoverEnd, Miss, Pong, Restart, vars
  <2> QED
    BY <2>1, Zenon DEF OnlyTransfersDelete, TypeOK
<1>3. \A c \in Clients : client'[c].op # "del"
  <2>1. ASSUME NEW c \in Clients, NEW op, NEW n, NEW k, Request(c, op, n, k)
        PROVE  \A d \in Clients : client'[d].op # "del"
    <3> DEFINE floor == latest[k]
               copies == Cardinality(Holders(k))
               whole == Whole
    <3>1. op # "del"
      BY <2>1 DEF Request
    <3>2. client' = [client EXCEPT ![c] = [Idle EXCEPT !.op = op, !.key = k, !.path = <<n>>,
                       !.floor = floor, !.copies = copies, !.whole = whole]]
      BY <2>1 DEF Request
    <3> HIDE DEF floor, copies, whole
    <3>3. Idle \in Requests
      BY IdleType DEF Served
    <3> QED
      BY <3>1, <3>2, <3>3 DEF OnlyTransfersDelete, Requests, TypeOK
  <2>2. ASSUME NEW c \in Clients, Serve(c)
        PROVE  \A d \in Clients : client'[d].op # "del"
    BY <2>2, ServeOps, ClientsServed DEF OnlyTransfersDelete
  <2>3. CASE client' = client
    BY <2>3 DEF OnlyTransfersDelete
  <2> QED
    BY <1>1, <2>1, <2>2, <2>3 DEF Next, Replicate, Deliver, Migrate, Move, MoverStart,
       MoverDel, MoverEnd, MoverNext, Miss, Pong, Restart, vars
<1>4. \A r \in repl' : r.value # 0
  <2>1. ASSUME NEW c \in Clients, Apply(c)
        PROVE  \A r \in repl' : r.value # 0
    <3>1. client[c].op = "set" /\ written + 1 # 0
      BY <2>1 DEF Apply, Running, OnlyTransfersDelete, TypeOK
    <3>2. repl' = repl \cup {[write |-> written + 1, node |-> At(c), key |-> client[c].key,
                              value |-> written + 1]}
      BY <2>1, <3>1 DEF Apply
    <3> QED
      BY <3>1, <3>2 DEF OnlyTransfersDelete
  <2>2. (\E c \in Clients : Apply(c)) \/ repl' \subseteq repl
    BY <1>1 DEF Next, Request, Serve, Forward, ForwardFails, GetLocal, ReadSelf,
       ReadPeer, ReadMiss, Replicate, Deliver, Migrate, Move, MoverStart, MoverNext,
       MoverDel, MoverEnd, Miss, Pong, Restart, vars
  <2> QED
    BY <2>1, <2>2 DEF OnlyTransfersDelete
<1>5. \A m \in msgs' : m.value # 0
  <2>1. ASSUME NEW r \in repl, Replicate(r)
        PROVE  \A m \in msgs' : m.value # 0
    BY <2>1 DEF Replicate, Command, OnlyTransfersDelete
  <2>2. ASSUME NEW s \in Movers, NEW k \in Keys, MoverNext(s, k)
        PROVE  \A m \in msgs' : m.value # 0
    BY <2>2 DEF MoverNext, Command, OnlyTransfersDelete, MoversSound
  <2>3. \/ \E r \in repl : Replicate(r)
        \/ \E s \in Movers, k \in Keys : MoverNext(s, k)
        \/ msgs' \subseteq msgs
    BY <1>1 DEF Next, Request, Serve, Forward, ForwardFails, Apply, GetLocal, ReadSelf,
       ReadPeer, ReadMiss, Deliver, Migrate, Move, MoverStart,
       MoverDel, MoverEnd, Miss, Pong, Restart, vars
  <2> QED
    BY <2>1, <2>2, <2>3 DEF OnlyTransfersDelete
<1> QED
  BY <1>2, <1>3, <1>4, <1>5 DEF OnlyTransfersDelete

\* The steps of the transfers, one by one: what they move and where it goes.
LEMMA TransfersNext ==
    ASSUME TypeOK, CopyInv, [Next]_vars, crashes' = 0, dels' = 0
    PROVE  MoversSound' /\ HandedForward' /\ HeldBefore'
<1>a. /\ crashes = 0 /\ dels = 0 /\ OnlyTransfersDelete /\ MoversSound /\ HandedForward
      /\ HeldBefore
  BY StoreGrows DEF CopyInv
<1>b. /\ mover \in [Movers -> Transfers] /\ store \in [Nodes -> [Keys -> Nat]]
      /\ \A s \in Movers : mover[s].phase # "idle" => mover[s].node \in Nodes
      /\ msgs \subseteq [to : Nodes, key : Keys, value : Nat, write : Nat,
                        by : Movers \cup {NoNode}]
  BY DEF TypeOK
<1>c. \A k \in Keys : \A n, m \in Nodes : Rank[k][n] \in Nat
  BY ClusterAssumption
<1> DEFINE Grows == \A n \in Nodes, k \in Keys : store[n][k] # 0 => store'[n][k] # 0
           Goal == MoversSound' /\ HandedForward' /\ HeldBefore'
<1>1. ASSUME mover' = mover, msgs' \subseteq msgs, Grows
      PROVE  Goal
  <2>1. MoversSound'
    BY <1>1, <1>a DEF MoversSound
  <2>2. HandedForward'
    BY <1>1, <1>a DEF HandedForward, Before
  <2>3. HeldBefore'
    BY <1>1, <1>a, <1>b DEF HeldBefore, Before, Transfers
  <2> QED
    BY <2>1, <2>2, <2>3
<1>2. ASSUME NEW r \in repl, Replicate(r)
      PROVE  Goal
  <2>1. mover' = mover /\ store' = store
    BY <1>2 DEF Replicate
  <2>2. \A m \in msgs' : m.by \in Movers => m \in msgs
    BY <1>2, ClusterAssumption DEF Replicate, Command
  <2>3. MoversSound' /\ HeldBefore'
    BY <2>1, <1>a DEF MoversSound, HeldBefore, Before
  <2>4. HandedForward'
    BY <2>1, <2>2, <1>a DEF HandedForward, Before
  <2> QED
    BY <2>3, <2>4
<1>3. ASSUME NEW m \in msgs, Deliver(m)
      PROVE  Goal
  <2>1. m.to \in Nodes /\ m.key \in Keys /\ m.value # 0 /\ up[m.to]
    BY <1>a, <1>b DEF OnlyTransfersDelete
  <2>2. /\ store' = [store EXCEPT ![m.to][m.key] = m.value]
        /\ msgs' = msgs \ {m}
    BY <1>3, <2>1 DEF Deliver
  <2>3. Grows /\ store'[m.to][m.key] # 0
    BY <2>1, <2>2, <1>b
  <2>4. CASE m.by \notin Movers
    <3>1. mover' = mover
      BY <2>4, <1>3 DEF Deliver
    <3> QED
      BY <3>1, <2>2, <2>3, <1>1
  <2>5. CASE m.by \in Movers
    <3>1. /\ mover[m.by].phase = "wait" /\ mover[m.by].key = m.key
          /\ Before(m.key, m.to, mover[m.by].node)
          /\ \A m2 \in msgs : m2.by = m.by => m2 = m
      BY <1>a, <2>5 DEF HandedForward
    <3>2. mover' = [mover EXCEPT ![m.by].phase = "del"]
      BY <1>3, <2>1, <2>5, <3>1 DEF Deliver
    <3> DEFINE t == [mover[m.by] EXCEPT !.phase = "del"]
    <3>3. /\ t.phase = "del" /\ t.node = mover[m.by].node /\ t.key = m.key
          /\ t.only = mover[m.by].only /\ t.todo = mover[m.by].todo
          /\ t.snap = mover[m.by].snap
      BY <1>b, <2>5, <3>1 DEF Transfers
    <3>4. mover' = [mover EXCEPT ![m.by] = t]
      BY <3>2
    <3> HIDE DEF t
    <3>5. MoversSound'
      BY <1>a, <1>b, <2>5, <3>1, <3>3, <3>4 DEF MoversSound
    <3>6. HandedForward'
      BY <1>a, <1>b, <2>2, <2>5, <3>1, <3>4 DEF HandedForward, Before
    <3>7. ASSUME NEW s \in Movers, mover'[s].phase = "del"
          PROVE  \E n \in Nodes : /\ store'[n][mover'[s].key] # 0
                                  /\ Before(mover'[s].key, n, mover'[s].node)
      <4>1. CASE s = m.by
        BY <4>1, <1>b, <2>1, <2>3, <2>5, <3>1, <3>3, <3>4
      <4>2. CASE s # m.by
        <5>1. mover'[s] = mover[s] /\ mover[s].key \in Keys
          BY <4>2, <1>b, <2>5, <3>4 DEF Transfers
        <5> QED
          BY <5>1, <3>7, <1>a, <2>3 DEF HeldBefore
      <4> QED
        BY <4>1, <4>2
    <3>8. HeldBefore'
      BY <3>7 DEF HeldBefore, Before
    <3> QED
      BY <3>5, <3>6, <3>8
  <2> QED
    BY <2>4, <2>5
\* A transfer that is not waiting has sent nothing that is still on its way.
<1>4. ASSUME NEW s \in Movers, NEW t, mover' = [mover EXCEPT ![s] = t],
             store' = store, msgs' = msgs, mover[s].phase # "wait", t.phase # "del",
             t.phase # "idle" => t.only # t.node,
             \A k \in t.todo : t.snap[k] # 0
      PROVE  Goal
  <2>1. MoversSound'
    BY <1>4, <1>a, <1>b DEF MoversSound
  <2>2. HandedForward'
    BY <1>4, <1>a, <1>b DEF HandedForward, Before
  <2>3. HeldBefore'
    BY <1>4, <1>a, <1>b DEF HeldBefore, Before
  <2> QED
    BY <2>1, <2>2, <2>3
<1>5. NoMover \in Transfers
  BY IdleType
<1>6. ASSUME NEW n \in Nodes, NEW only \in Nodes \cup {NoNode}, only # n
      PROVE  /\ Spawned(n, only).phase = "start" /\ Spawned(n, only).only = only
             /\ Spawned(n, only).node = n /\ Spawned(n, only).todo = {}
  BY <1>5 DEF Spawned, Transfers, NoMover
<1>7. ASSUME NEW n \in Nodes, NEW s \in Movers, Migrate(n, s)
      PROVE  Goal
  <2>1. NoNode # n
    BY ClusterAssumption
  <2>2. /\ mover' = [mover EXCEPT ![s] = Spawned(n, NoNode)]
        /\ mover[s].phase # "wait" /\ store' = store /\ msgs' = msgs
    BY <1>7 DEF Migrate
  <2> DEFINE t == Spawned(n, NoNode)
  <2>3. t.phase = "start" /\ t.only # t.node /\ t.todo = {}
    BY <2>1, <1>6
  <2> HIDE DEF t, Goal
  <2>4. mover' = [mover EXCEPT ![s] = t]
    BY <2>2 DEF t
  <2> QED
    BY <2>2, <2>3, <2>4, <1>4
<1>8. ASSUME NEW n \in Nodes, NEW p \in Nodes, NEW s \in Movers, Pong(n, p, s)
      PROVE  Goal
  <2>1. /\ mover' = [mover EXCEPT ![s] = Spawned(n, p)] /\ p # n
        /\ mover[s].phase # "wait" /\ store' = store /\ msgs' = msgs
    BY <1>8 DEF Pong
  <2> DEFINE t == Spawned(n, p)
  <2>2. t.phase = "start" /\ t.only # t.node /\ t.todo = {}
    BY <2>1, <1>6
  <2> HIDE DEF t, Goal
  <2>3. mover' = [mover EXCEPT ![s] = t]
    BY <2>1 DEF t
  <2> QED
    BY <2>1, <2>2, <2>3, <1>4
<1>9. ASSUME NEW s \in Movers, MoverStart(s)
      PROVE  Goal
  <2> DEFINE t == [mover[s] EXCEPT !.phase = "loop", !.snap = store[mover[s].node],
                                   !.todo = {k \in Keys : store[mover[s].node][k] # 0}]
  <2>1. /\ mover' = [mover EXCEPT ![s] = t] /\ mover[s].phase = "start"
        /\ store' = store /\ msgs' = msgs
    BY <1>9 DEF MoverStart
  <2>2. /\ t.phase = "loop" /\ t.only = mover[s].only /\ t.node = mover[s].node
        /\ t.snap = store[mover[s].node]
        /\ t.todo = {k \in Keys : store[mover[s].node][k] # 0}
    BY <1>b DEF Transfers
  <2>3. t.only # t.node /\ \A k \in t.todo : t.snap[k] # 0
    BY <2>1, <2>2, <1>a DEF MoversSound
  <2> HIDE DEF t, Goal
  <2> QED
    BY <2>1, <2>2, <2>3, <1>4
<1>10. ASSUME NEW s \in Movers, MoverEnd(s)
       PROVE  Goal
  <2>1. /\ mover' = [mover EXCEPT ![s] = NoMover] /\ mover[s].phase = "loop"
        /\ store' = store /\ msgs' = msgs
    BY <1>10 DEF MoverEnd
  <2>2. NoMover.phase = "idle" /\ NoMover.todo = {}
    BY DEF NoMover
  <2> HIDE DEF Goal
  <2> QED
    BY <2>1, <2>2, <1>4
<1>11. ASSUME NEW s \in Movers, NEW k \in Keys, MoverNext(s, k)
       PROVE  Goal
  <2>1. /\ mover[s].phase = "loop" /\ k \in mover[s].todo /\ store' = store
        /\ mover[s].node \in Nodes /\ mover[s].only # mover[s].node
        /\ \A j \in mover[s].todo : mover[s].snap[j] # 0
    BY <1>11, <1>a, <1>b DEF MoverNext, MoversSound
  <2>2. CASE ~ Moves(s, k)
    <3> DEFINE t == [mover[s] EXCEPT !.todo = @ \ {k}]
    <3>1. mover' = [mover EXCEPT ![s] = t] /\ msgs' = msgs
      BY <1>11, <2>2 DEF MoverNext
    <3>2. /\ t.phase = "loop" /\ t.only = mover[s].only /\ t.node = mover[s].node
          /\ t.snap = mover[s].snap /\ t.todo = mover[s].todo \ {k}
      BY <2>1, <1>b DEF Transfers
    <3> HIDE DEF t, Goal
    <3> QED
      BY <2>1, <3>1, <3>2, <1>4
  <2>3. CASE Moves(s, k)
    <3> DEFINE t == [mover[s] EXCEPT !.phase = "wait", !.key = k, !.todo = @ \ {k}]
               o == OwnerOf(mover[s].node, k)
               new == Command(o, k, mover[s].snap[k], 0, s)
    <3>1. mover' = [mover EXCEPT ![s] = t] /\ msgs' = msgs \cup {new}
      BY <1>11, <2>3 DEF MoverNext
    <3>2. /\ t.phase = "wait" /\ t.only = mover[s].only /\ t.node = mover[s].node
          /\ t.snap = mover[s].snap /\ t.todo = mover[s].todo \ {k} /\ t.key = k
      BY <2>1, <1>b DEF Transfers
    <3>3. o \in Nodes /\ Before(k, o, mover[s].node)
      BY <1>b, <2>1, <2>3, MovesForward
    <3>4. new.to = o /\ new.key = k /\ new.by = s
      BY DEF Command
    <3>5. \A m \in msgs : m.by # s
      BY <1>a, <2>1 DEF HandedForward
    <3> HIDE DEF t, o, new
    <3>6. MoversSound'
      BY <1>a, <1>b, <2>1, <3>1, <3>2 DEF MoversSound
    <3>7. HandedForward'
      <4>1. mover'[s] = t /\ \A q \in Movers : q # s => mover'[q] = mover[q]
        BY <1>b, <3>1
      <4> QED
        BY <4>1, <1>a, <3>1, <3>2, <3>3, <3>4, <3>5 DEF HandedForward, Before
    <3>8. HeldBefore'
      BY <1>a, <1>b, <2>1, <3>1, <3>2 DEF HeldBefore, Before
    <3> QED
      BY <3>6, <3>7, <3>8
  <2> QED
    BY <2>2, <2>3
<1>12. ASSUME NEW s \in Movers, MoverDel(s)
       PROVE  Goal
  <2> DEFINE n == mover[s].node
             k == mover[s].key
             t == [mover[s] EXCEPT !.phase = "loop"]
  <2>1. /\ n \in Nodes /\ k \in Keys /\ mover[s].phase = "del" /\ msgs' = msgs
        /\ store' = [store EXCEPT ![n][k] = 0] /\ mover' = [mover EXCEPT ![s] = t]
    BY <1>12, <1>b DEF MoverDel, Transfers
  <2>2. /\ t.phase = "loop" /\ t.only = mover[s].only /\ t.node = n
        /\ t.snap = mover[s].snap /\ t.todo = mover[s].todo
    BY <1>b DEF Transfers
  <2> HIDE DEF t
  <2>3. MoversSound'
    BY <1>a, <1>b, <2>1, <2>2 DEF MoversSound
  <2>4. HandedForward'
    <3>1. \A m \in msgs : m.by # s
      BY <1>a, <2>1 DEF HandedForward
    <3> QED
      BY <1>a, <1>b, <2>1, <3>1 DEF HandedForward, Before
  <2>5. ASSUME NEW q \in Movers, mover'[q].phase = "del"
        PROVE  \E m \in Nodes : /\ store'[m][mover'[q].key] # 0
                                /\ Before(mover'[q].key, m, mover'[q].node)
    <3>1. /\ mover'[q] = mover[q] /\ mover[q].phase = "del"
          /\ mover[q].key \in Keys /\ mover[q].node \in Nodes
      BY <1>b, <2>1, <2>2, <2>5 DEF Transfers
    <3>2. PICK m \in Nodes : /\ store[m][mover[q].key] # 0
                             /\ Before(mover[q].key, m, mover[q].node)
      BY <1>a, <3>1 DEF HeldBefore
    <3>3. CASE m # n \/ mover[q].key # k
      <4>1. store'[m][mover[q].key] # 0
        BY <3>3, <3>1, <3>2, <2>1, <1>b
      <4> QED
        BY <4>1, <3>1, <3>2
    \* This deletion takes the other transfer's copy: its own is further on.
    <3>4. CASE m = n /\ mover[q].key = k
      <4>1. PICK m2 \in Nodes : store[m2][k] # 0 /\ Before(k, m2, n)
        BY <1>a, <2>1 DEF HeldBefore
      <4>2. Before(k, m2, mover[q].node) /\ m2 # n
        BY <1>c, <2>1, <3>1, <3>2, <3>4, <4>1 DEF Before
      <4>3. store'[m2][k] # 0
        BY <1>b, <2>1, <4>1, <4>2
      <4> QED
        BY <3>1, <3>4, <4>2, <4>3
    <3> QED
      BY <3>3, <3>4
  <2>6. HeldBefore'
    BY <2>5 DEF HeldBefore, Before
  <2> QED
    BY <2>3, <2>4, <2>6
<1>13. \/ \E r \in repl : Replicate(r)
       \/ \E m \in msgs : Deliver(m)
       \/ \E n \in Nodes, s \in Movers : Migrate(n, s)
       \/ \E n, p \in Nodes, s \in Movers : Pong(n, p, s)
       \/ \E s \in Movers : MoverStart(s) \/ MoverDel(s) \/ MoverEnd(s)
       \/ \E s \in Movers, k \in Keys : MoverNext(s, k)
       \/ mover' = mover /\ msgs' = msgs
  <2>1. ~ (\E n \in Nodes : Crash(n))
    BY <1>a DEF Crash
  <2> QED
    BY <2>1 DEF Next, Request, Serve, Forward, ForwardFails, Apply, GetLocal, ReadSelf,
       ReadPeer, ReadMiss, Move, Miss, Restart, vars
<1>14. Grows \/ \E s \in Movers : MoverDel(s)
  BY <1>a, StoreGrows
<1> HIDE DEF Goal, Grows
<1>15. Goal
  BY <1>1, <1>2, <1>3, <1>7, <1>8, <1>9, <1>10, <1>11, <1>12, <1>13, <1>14
<1> QED
  BY <1>15 DEF Goal

\* Every step keeps the invariant about copies.
LEMMA CopyNext == TypeOK /\ CopyInv /\ [Next]_vars => CopyInv'
<1> SUFFICES ASSUME TypeOK, CopyInv, [Next]_vars, crashes' = 0 /\ dels' = 0
             PROVE  (OnlyTransfersDelete /\ MoversSound /\ HandedForward /\ HeldBefore /\ Kept)'
  BY DEF CopyInv
<1>1. /\ crashes = 0 /\ dels = 0 /\ OnlyTransfersDelete /\ MoversSound /\ HandedForward
      /\ HeldBefore /\ Kept
  BY StoreGrows DEF CopyInv
<1>2. OnlyTransfersDelete'
  BY <1>1, OnlyTransfersDeleteNext
<1>3. MoversSound' /\ HandedForward' /\ HeldBefore'
  BY TransfersNext
<1>4. Kept'
  <2>1. CASE /\ \A n \in Nodes, k \in Keys : store[n][k] # 0 => store'[n][k] # 0
             /\ \A k \in Keys : latest'[k] # latest[k] => \E n \in Nodes : store'[n][k] # 0
    BY <2>1, <1>1 DEF Kept
  <2>2. ASSUME NEW s \in Movers, MoverDel(s)
        PROVE  Kept'
    <3> DEFINE n == mover[s].node
               k == mover[s].key
    <3>1. /\ n \in Nodes /\ k \in Keys /\ store \in [Nodes -> [Keys -> Nat]]
          /\ store' = [store EXCEPT ![n][k] = 0] /\ latest' = latest
          /\ mover[s].phase = "del"
      BY <2>2 DEF MoverDel, TypeOK, Transfers
    <3>2. PICK m \in Nodes : store[m][k] # 0 /\ Before(k, m, n)
      BY <1>1, <3>1 DEF HeldBefore
    <3>3. m # n
      BY <3>1, <3>2, ClusterAssumption DEF Before
    <3> HIDE DEF n, k
    <3>4. store'[m][k] # 0
      BY <3>1, <3>2, <3>3
    <3>5. \A j \in Keys : j # k => \A q \in Nodes : store'[q][j] = store[q][j]
      BY <3>1
    <3> QED
      BY <3>1, <3>4, <3>5, <1>1 DEF Kept
  <2> QED
    BY <2>1, <2>2, StoreGrows
<1> QED
  BY <1>2, <1>3, <1>4

\* While no server crashes and no client deletes, a key that was ever written is
\* on some server, however transfers of different servers overlap and whatever
\* they believe of one another: an entry is handed on clockwise before it is
\* deleted, so a holder nearer the key always remains.
THEOREM LastCopySafeHolds == Spec => []LastCopySafe
<1>1. CopyInv => LastCopySafe
  BY DEF CopyInv, Kept, LastCopySafe, Holders
<1> QED
  BY <1>1, CopyInit, CopyNext, TypeCorrect, PTL DEF Spec

-----------------------------------------------------------------------------
(* No keys are moved: nothing fails but servers that stay down *)

\* What starts a transfer, and what takes an entry from a store, does not happen.
OnlyCrashes == restarts = 0 /\ misses = 0 /\ dels = 0 /\ ~ Migrations

\* No transfer runs or has sent anything.
NoTransfers ==
    /\ \A s \in Movers : mover[s].phase = "idle"
    /\ \A m \in msgs : m.by \notin Movers

SeenAlive == \A n, p \in Nodes : up[n] /\ up[p] => status[n][p] = "alive"

\* Every write is a SET.
OnlySets ==
    /\ \A c \in Clients : client[c].op # "del"
    /\ \A r \in repl : r.value # 0
    /\ \A m \in msgs : m.value # 0

DownEmpty == \A n \in Nodes, k \in Keys : ~ up[n] => store[n][k] = 0

\* A read counts no more copies than there are, H being the holders of its key,
\* and, while it asks the peers, no more than are still to be asked.
CountsCopies(r, H) ==
    /\ r.op \in {"get", "self", "scan"} => r.copies <= Cardinality(H)
    /\ r.op = "scan" => r.copies <= Cardinality(H \cap r.left)
    /\ r.op = "idle" => r.path = <<>>
    /\ r.reply = "miss" => r.copies = 0

AllCount == \A c \in Clients : CountsCopies(client[c], Holders(client[c].key))

CrashInv ==
    OnlyCrashes => NoTransfers /\ SeenAlive /\ OnlySets /\ DownEmpty /\ AllCount

\* The invariant about crashes holds at the start.
LEMMA CrashInvInit == Init => CrashInv
<1> SUFFICES ASSUME Init PROVE CrashInv
  OBVIOUS
<1>1. /\ NoMover.phase = "idle" /\ Idle.op = "idle" /\ Idle.reply = "none"
      /\ Idle.path = <<>>
  BY DEF NoMover, Idle
<1>2. AllCount
  BY <1>1 DEF Init, AllCount, CountsCopies
<1> QED
  BY <1>1, <1>2 DEF Init, CrashInv, NoTransfers, SeenAlive, OnlySets, DownEmpty

\* The disjuncts of the next-state relation, one per line.
StepOf ==
    \/ \E c \in Clients, op \in {"set", "del", "get"}, n \in Nodes, k \in Keys :
          Request(c, op, n, k)
    \/ \E c \in Clients : Serve(c)
    \/ \E r \in repl : Replicate(r)
    \/ \E m \in msgs : Deliver(m)
    \/ \E n \in Nodes, s \in Movers : Migrate(n, s)
    \/ \E s \in Movers : Move(s)
    \/ \E n, p \in Nodes : Miss(n, p)
    \/ \E n, p \in Nodes, s \in Movers : Pong(n, p, s)
    \/ \E n \in Nodes : Crash(n)
    \/ \E n \in Nodes : Restart(n)
    \/ UNCHANGED vars

\* A step counts what it does.
LEMMA StepCounts ==
    ASSUME [Next]_vars
    PROVE  \/ UNCHANGED counts
           \/ dels' = dels + 1 /\ UNCHANGED <<crashes, restarts, misses>>
           \/ misses' = misses + 1 /\ UNCHANGED <<dels, crashes, restarts>>
           \/ /\ \E n \in Nodes : Crash(n)
              /\ crashes' = crashes + 1 /\ UNCHANGED <<dels, restarts, misses>>
           \/ /\ \E n \in Nodes : Restart(n) /\ ~ up[n]
              /\ restarts' = restarts + 1 /\ UNCHANGED <<dels, crashes, misses>>
<1>1. ASSUME NEW c \in Clients, NEW op, NEW n, NEW k, Request(c, op, n, k)
      PROVE  /\ crashes' = crashes /\ restarts' = restarts /\ misses' = misses
             /\ dels' = dels \/ dels' = dels + 1
  BY <1>1 DEF Request
<1>2. ASSUME NEW c \in Clients, Serve(c)
      PROVE  UNCHANGED counts
  BY <1>2 DEF Serve, Forward, ForwardFails, Apply, GetLocal, ReadSelf, ReadPeer, ReadMiss
<1>3. ASSUME NEW s \in Movers, Move(s)
      PROVE  UNCHANGED counts
  BY <1>3 DEF Move, MoverStart, MoverNext, MoverDel, MoverEnd
<1>4. ASSUME NEW n, NEW p, Miss(n, p)
      PROVE  /\ crashes' = crashes /\ restarts' = restarts /\ dels' = dels
             /\ misses' = misses \/ misses' = misses + 1
  BY <1>4 DEF Miss
<1>5. ASSUME NEW n, Crash(n)
      PROVE  crashes' = crashes + 1 /\ UNCHANGED <<dels, restarts, misses>>
  BY <1>5 DEF Crash
<1>6. ASSUME NEW n, Restart(n)
      PROVE  restarts' = restarts + 1 /\ ~ up[n] /\ UNCHANGED <<dels, crashes, misses>>
  BY <1>6 DEF Restart
<1>7. ASSUME (\E r \in repl : Replicate(r)) \/ (\E m \in msgs : Deliver(m))
             \/ (\E n \in Nodes, s \in Movers : Migrate(n, s))
             \/ (\E n, p \in Nodes, s \in Movers : Pong(n, p, s)) \/ UNCHANGED vars
      PROVE  UNCHANGED counts
  BY <1>7 DEF Replicate, Deliver, Migrate, Pong, vars
<1>8. StepOf
  BY DEF Next, StepOf
<1> QED
  BY <1>1, <1>2, <1>3, <1>4, <1>5, <1>6, <1>7, <1>8 DEF counts, StepOf

\* The steps that are left when no transfer ever starts.
StepWithoutTransfers ==
    \/ \E c \in Clients, op \in {"set", "get"}, n \in Nodes, k \in Keys :
          Request(c, op, n, k)
    \/ \E c \in Clients : Serve(c)
    \/ \E r \in repl : Replicate(r)
    \/ \E m \in msgs : Deliver(m)
    \/ \E n, p \in Nodes : Miss(n, p) /\ ~ up[p]
    \/ \E n \in Nodes : Crash(n)
    \/ UNCHANGED vars

\* While only crashes occur, the steps of the transfers are excluded.
LEMMA StepsWithoutTransfers ==
    ASSUME TypeOK, CrashInv, [Next]_vars, OnlyCrashes'
    PROVE  /\ OnlyCrashes
           /\ crashes' = 0 => crashes = 0 /\ ~ \E n \in Nodes : Crash(n)
           /\ StepWithoutTransfers
<1>1. crashes \in Nat /\ dels \in Nat /\ restarts \in Nat /\ misses \in Nat
  BY DEF TypeOK
<1>2. restarts' = 0 /\ misses' = 0 /\ dels' = 0 /\ ~ Migrations
  BY DEF OnlyCrashes
<1>3. restarts = 0 /\ misses = 0 /\ dels = 0 /\ (crashes' = 0 => crashes = 0)
  BY <1>1, <1>2, StepCounts DEF counts
<1>4. OnlyCrashes
  BY <1>2, <1>3 DEF OnlyCrashes
<1>5. NoTransfers /\ SeenAlive
  BY <1>4 DEF CrashInv
<1>6. ~ (\E s \in Movers : Move(s)) /\ ~ (\E n, p \in Nodes, s \in Movers : Pong(n, p, s))
  BY <1>5 DEF NoTransfers, SeenAlive, Move, MoverStart, MoverNext, MoverDel, MoverEnd, Pong
<1>7. ASSUME NEW c \in Clients, NEW op \in {"set", "del", "get"}, NEW n \in Nodes,
             NEW k \in Keys, Request(c, op, n, k)
      PROVE  op \in {"set", "get"}
  BY <1>2, <1>3, <1>7 DEF Request
<1>8. ASSUME NEW n \in Nodes, NEW p \in Nodes, Miss(n, p)
      PROVE  ~ up[p]
  BY <1>2, <1>3, <1>8 DEF Miss
<1>9. ~ \E n \in Nodes : Restart(n)
  BY <1>2, <1>3 DEF Restart
<1>10. ~ \E n \in Nodes, s \in Movers : Migrate(n, s)
  BY <1>2 DEF Migrate
<1>11. crashes' = 0 => ~ \E n \in Nodes : Crash(n)
  BY <1>1 DEF Crash
<1>12. StepOf
  BY DEF StepOf, Next
<1>13. StepWithoutTransfers
  BY <1>6, <1>7, <1>8, <1>9, <1>10, <1>12 DEF StepOf, StepWithoutTransfers
<1> QED
  BY <1>3, <1>4, <1>11, <1>13

\* What is left of a request r when server n has crashed.
Left(r, n) == IF r.copies > 0 /\ store[n][r.key] # 0 THEN r.copies - 1 ELSE r.copies

\* A crash ends a request, sends a read to the other servers or lets the request
\* go on; it makes no other of it.
LEMMA AfterCrashForm ==
    ASSUME NEW r \in Served, NEW n \in Nodes, store \in [Nodes -> [Keys -> Nat]]
    PROVE  LET a == AfterCrash(r, n)
           IN  /\ a.key = r.key /\ a.floor = r.floor /\ a.copies = Left(r, n)
               /\ a.reply \in {r.reply, "down", "err"}
               /\ \/ a.op = r.op /\ a.left = r.left /\ (r.path = <<>> => a.path = <<>>)
                  \/ a.op \in {"set", "del"} /\ a.op = r.op
                  \/ a.op = "idle" /\ a.path = <<>>
                  \/ a.op = "self" /\ r.op \notin {"set", "del"} /\ r.path # <<>>
<1> DEFINE through == {i \in 1 .. Len(r.path) : r.path[i] = n}
           i == CHOOSE j \in through : TRUE
           seen == [r EXCEPT !.whole = FALSE, !.copies = Left(r, n)]
           told == IF i = 1 THEN "down" ELSE "err"
           reply == IF r.heard THEN told ELSE seen.reply
<1>a. r \in Requests
  BY DEF Served
<1>b. Left(r, n) \in Nat
  BY <1>a DEF Requests, Left
<1>c. seen = [r EXCEPT !.whole = FALSE,
                       !.copies = IF r.copies > 0 /\ store[n][r.key] # 0 THEN @ - 1 ELSE @]
  BY <1>a DEF Requests, Left
<1>1. /\ seen.op = r.op /\ seen.key = r.key /\ seen.floor = r.floor /\ seen.left = r.left
      /\ seen.path = r.path /\ seen.reply = r.reply /\ seen.copies = Left(r, n)
      /\ seen.heard = r.heard
  BY <1>a DEF Requests
<1>2. seen \in Requests
  BY <1>a, <1>b DEF Requests
<1>3. reply \in {r.reply, "down", "err"} /\ told \in {"down", "err"}
  BY <1>1
<1>4. ASSUME NEW said \in {"down", "err"}
      PROVE  LET a == Answered(seen, said, 0)
             IN  /\ a.key = r.key /\ a.floor = r.floor /\ a.copies = Left(r, n)
                 /\ a.reply \in {r.reply, "down", "err"} /\ a.op = "idle" /\ a.path = <<>>
  <2> HIDE DEF seen
  <2>1. seen.heard \in BOOLEAN
    BY <1>2 DEF Requests
  <2> DEFINE spoken == IF seen.heard THEN said ELSE seen.reply
  <2>2. spoken \in {r.reply, "down", "err"}
    BY <1>1
  <2>3. Answered(seen, said, 0) = [seen EXCEPT !.op = "idle", !.path = <<>>, !.left = {},
                                                !.reply = spoken, !.value = 0]
    BY DEF Answered
  <2> HIDE DEF spoken
  <2> QED
    BY <1>1, <1>2, <2>2, <2>3 DEF Requests
<1>5. CASE through = {}
  <2>1. AfterCrash(r, n) = seen
    BY <1>5, <1>c DEF AfterCrash
  <2> HIDE DEF seen
  <2> QED
    BY <2>1, <1>1
<1>6. CASE through # {} /\ r.op \in {"set", "del"} /\ i = Len(r.path)
  <2>1. AfterCrash(r, n) = Answered(seen, told, 0)
    BY <1>6, <1>c DEF AfterCrash
  <2> HIDE DEF seen, told
  <2> QED
    BY <2>1, <1>3, <1>4
<1>7. CASE through # {} /\ r.op \in {"set", "del"} /\ i # Len(r.path)
  <2> DEFINE rest == SubSeq(seen.path, i + 1, Len(seen.path))
  <2>1. AfterCrash(r, n) = [seen EXCEPT !.path = rest, !.heard = FALSE, !.reply = reply]
    BY <1>7, <1>c DEF AfterCrash
  <2> HIDE DEF seen, reply, rest, i, through
  <2> QED
    BY <2>1, <1>1, <1>2, <1>3, <1>7 DEF Requests
<1>8. CASE through # {} /\ r.op \notin {"set", "del"} /\ i = 1
  <2>1. AfterCrash(r, n) = Answered(seen, "down", 0)
    BY <1>8, <1>c DEF AfterCrash
  <2> HIDE DEF seen
  <2> QED
    BY <2>1, <1>4
<1>9. CASE through # {} /\ r.op \notin {"set", "del"} /\ i # 1
  <2> DEFINE rest == SubSeq(seen.path, 1, i - 1)
  <2>1. AfterCrash(r, n) = [seen EXCEPT !.op = "self", !.path = rest, !.left = {}]
    BY <1>9, <1>c DEF AfterCrash
  <2>2. r.path # <<>>
    BY <1>9
  <2> HIDE DEF seen, rest, i, through
  <2> QED
    BY <2>1, <2>2, <1>1, <1>2, <1>9 DEF Requests
<1> QED
  BY <1>5, <1>6, <1>7, <1>8, <1>9

\* Every step of a cluster in which only crashes occur keeps its servers seen and its stopped
\* servers empty.
LEMMA OnlySetsNext ==
    ASSUME TypeOK, CrashInv, [Next]_vars, OnlyCrashes'
    PROVE  NoTransfers' /\ SeenAlive' /\ OnlySets' /\ DownEmpty'
<1>a. /\ NoTransfers /\ SeenAlive /\ OnlySets /\ DownEmpty
      /\ client \in [Clients -> Served] /\ \A c \in Clients : client[c] \in Requests
  BY StepsWithoutTransfers, ClientsServed DEF CrashInv, Served
<1> DEFINE Goal == NoTransfers' /\ SeenAlive' /\ OnlySets' /\ DownEmpty'
<1>1. ASSUME NEW c \in Clients, NEW op \in {"set", "get"}, NEW n \in Nodes, NEW k \in Keys,
             Request(c, op, n, k)
      PROVE  Goal
  <2> DEFINE floor == latest[k]
             copies == Cardinality(Holders(k))
             whole == Whole
             r == [Idle EXCEPT !.op = op, !.key = k, !.path = <<n>>,
                               !.floor = floor, !.copies = copies, !.whole = whole]
  <2>1. /\ client' = [client EXCEPT ![c] = r]
        /\ UNCHANGED <<up, store, status, repl, msgs, mover>>
    BY <1>1 DEF Request
  <2>2. r.op = op
    <3> HIDE DEF floor, copies, whole
    <3>1. Idle \in Requests
      BY IdleType DEF Served
    <3> QED
      BY <3>1 DEF Requests
  <2> HIDE DEF r
  <2>3. \A d \in Clients : client'[d].op # "del"
    BY <1>a, <2>1, <2>2 DEF OnlySets
  <2> QED
    BY <1>a, <2>1, <2>3 DEF NoTransfers, SeenAlive, OnlySets, DownEmpty
<1>2. ASSUME NEW c \in Clients, Serve(c)
      PROVE  Goal
  <2>1. \A d \in Clients : client'[d].op # "del"
    BY <1>2, <1>a, ServeOps DEF OnlySets
  <2>2. CASE Apply(c)
    <3>1. /\ At(c) \in Nodes /\ client[c].key \in Keys /\ up[At(c)] /\ client[c].op = "set"
      BY <1>a, <2>2, AtIsServer DEF Apply, Running, OnlySets
    <3>2. /\ store' = [store EXCEPT ![At(c)][client[c].key] = written + 1]
          /\ repl' = repl \cup {[write |-> written + 1, node |-> At(c), key |-> client[c].key,
                                 value |-> written + 1]}
          /\ written + 1 # 0 /\ UNCHANGED <<up, status, msgs, mover>>
      BY <2>2, <3>1 DEF Apply, TypeOK
    <3>3. DownEmpty'
      BY <1>a, <3>1, <3>2 DEF DownEmpty, TypeOK
    <3>4. \A r \in repl' : r.value # 0
      BY <1>a, <3>2 DEF OnlySets
    <3> QED
      BY <1>a, <2>1, <3>2, <3>3, <3>4 DEF NoTransfers, SeenAlive, OnlySets
  <2>3. CASE ~ Apply(c)
    <3>1. UNCHANGED <<up, store, status, repl, msgs, mover>>
      BY <1>2, <2>3 DEF Serve, Forward, ForwardFails, GetLocal, ReadSelf, ReadPeer, ReadMiss
    <3> QED
      BY <1>a, <2>1, <3>1 DEF NoTransfers, SeenAlive, OnlySets, DownEmpty
  <2> QED
    BY <2>2, <2>3
<1>3. ASSUME NEW r \in repl, Replicate(r)
      PROVE  Goal
  <2>1. /\ repl' \subseteq repl /\ UNCHANGED <<up, store, status, client, mover>>
        /\ \A m \in msgs' : m \in msgs \/ (m.value = r.value /\ m.by = NoNode)
    BY <1>3 DEF Replicate, Command
  <2>2. r.value # 0 /\ NoNode \notin Movers
    BY <1>a, ClusterAssumption DEF OnlySets
  <2>3. NoTransfers'
    BY <1>a, <2>1, <2>2 DEF NoTransfers
  <2>4. OnlySets'
    BY <1>a, <2>1, <2>2 DEF OnlySets
  <2> QED
    BY <1>a, <2>1, <2>3, <2>4 DEF SeenAlive, DownEmpty
<1>4. ASSUME NEW m \in msgs, Deliver(m)
      PROVE  Goal
  <2>1. /\ m.by \notin Movers /\ m.to \in Nodes /\ m.key \in Keys
        /\ store \in [Nodes -> [Keys -> Nat]]
    BY <1>a DEF NoTransfers, TypeOK
  <2>2. /\ msgs' \subseteq msgs /\ UNCHANGED <<up, status, client, repl, mover>>
        /\ store' = IF up[m.to] THEN [store EXCEPT ![m.to][m.key] = m.value] ELSE store
    BY <1>4, <2>1 DEF Deliver
  <2>3. DownEmpty'
    BY <1>a, <2>1, <2>2 DEF DownEmpty
  <2> QED
    BY <1>a, <2>2, <2>3 DEF NoTransfers, SeenAlive, OnlySets
<1>5. ASSUME NEW n \in Nodes, NEW p \in Nodes, Miss(n, p), ~ up[p]
      PROVE  Goal
  <2>1. /\ UNCHANGED <<up, store, client, repl, msgs, mover>>
        /\ \A a, b \in Nodes : b # p => status'[a][b] = status[a][b]
    BY <1>5 DEF Miss, TypeOK
  <2>2. SeenAlive'
    BY <1>a, <1>5, <2>1 DEF SeenAlive
  <2> QED
    BY <1>a, <2>1, <2>2 DEF NoTransfers, OnlySets, DownEmpty
<1>6. ASSUME NEW n \in Nodes, Crash(n)
      PROVE  Goal
  <2>1. /\ up' = [up EXCEPT ![n] = FALSE] /\ store' = [store EXCEPT ![n] = Empty]
        /\ client' = [c \in Clients |-> AfterCrash(client[c], n)]
        /\ repl' \subseteq repl /\ msgs' = {Orphaned(m, n) : m \in msgs} /\ status' = status
        /\ mover' = [s \in Movers |-> IF mover[s].node = n THEN NoMover ELSE mover[s]]
    BY <1>6 DEF Crash
  <2>2. msgs' = msgs
    <3>1. \A m \in msgs : Orphaned(m, n) = m
      BY <1>a DEF NoTransfers, Orphaned
    <3> QED
      BY <2>1, <3>1
  <2>3. NoTransfers'
    <3>1. NoMover.phase = "idle"
      BY DEF NoMover
    <3> QED
      BY <1>a, <2>1, <2>2, <3>1 DEF NoTransfers
  <2>4. SeenAlive' /\ DownEmpty'
    BY <1>a, <2>1 DEF SeenAlive, DownEmpty, Empty, TypeOK
  <2>5. \A c \in Clients : client'[c].op # "del"
    <3>1. store \in [Nodes -> [Keys -> Nat]]
      BY DEF TypeOK
    <3>2. ASSUME NEW c \in Clients
          PROVE  client'[c].op # "del"
      <4>1. client[c] \in Served /\ client[c].op # "del" /\ client'[c] = AfterCrash(client[c], n)
        BY <1>a, <2>1 DEF OnlySets
      <4>2. AfterCrash(client[c], n).op \in {client[c].op, "idle", "self"}
        BY <3>1, <4>1, AfterCrashForm
      <4> QED
        BY <4>1, <4>2
    <3> QED
      BY <3>2
  <2>6. OnlySets'
    BY <1>a, <2>1, <2>2, <2>5 DEF OnlySets
  <2> QED
    BY <2>3, <2>4, <2>6
<1>7. ASSUME UNCHANGED vars
      PROVE  Goal
  <2>1. UNCHANGED <<up, store, status, client, repl, msgs, mover>>
    BY <1>7 DEF vars
  <2>2. NoTransfers' /\ SeenAlive'
    BY <1>a, <2>1 DEF NoTransfers, SeenAlive
  <2>3. OnlySets' /\ DownEmpty'
    BY <1>a, <2>1 DEF OnlySets, DownEmpty
  <2> QED
    BY <2>2, <2>3
<1> HIDE DEF Goal
<1>8. Goal
  BY <1>1, <1>2, <1>3, <1>4, <1>5, <1>6, <1>7, StepsWithoutTransfers
     DEF StepWithoutTransfers
<1> QED
  BY <1>8 DEF Goal

\* The forms a step of a handler gives its request.
Goes(r, a, op, left) ==
    /\ a.op = op /\ a.left = left
    /\ a.key = r.key /\ a.floor = r.floor /\ a.copies = r.copies /\ a.reply = r.reply

Ends(r, a, reply, v) ==
    /\ a.op = "idle" /\ a.path = <<>> /\ a.value = v
    /\ a.key = r.key /\ a.floor = r.floor /\ a.copies = r.copies
    /\ a.reply \in {reply, r.reply}

\* An answer ends the request of its client and touches no other.
LEMMA AnswerEnds ==
    ASSUME NEW c \in Clients, client \in [Clients -> Served], NEW reply, NEW v,
           Answer(c, reply, v)
    PROVE  /\ \A d \in Clients : d # c => client'[d] = client[d]
           /\ Ends(client[c], client'[c], reply, v)
<1> DEFINE r == client[c]
           said == IF r.heard THEN reply ELSE r.reply
<1>1. r \in Requests /\ client' = [client EXCEPT ![c] = Answered(r, reply, v)]
  BY DEF Answer, Served
<1>2. Answered(r, reply, v) = [r EXCEPT !.op = "idle", !.path = <<>>, !.left = {},
                                        !.reply = said, !.value = v]
  BY DEF Answered
<1>3. said \in {reply, r.reply}
  OBVIOUS
<1> HIDE DEF said, r
<1>4. Ends(r, Answered(r, reply, v), reply, v)
  BY <1>1, <1>2, <1>3 DEF Requests, Ends
<1> HIDE DEF Ends
<1> QED
  BY <1>1, <1>4 DEF r

\* A handler's step: the request is handed on, answered, or tried elsewhere.
LEMMA ServeForms ==
    ASSUME TypeOK, NEW c \in Clients, Serve(c)
    PROVE  LET r == client[c]
               a == client'[c]
               n == At(c)
               v == store[n][r.key]
           IN  /\ n \in Nodes /\ up[n] /\ r.key \in Keys /\ r.op # "idle" /\ r \in Requests
               /\ \A d \in Clients : d # c => client'[d] = client[d]
               /\ \/ Goes(r, a, r.op, r.left) /\ r.op \in {"set", "del", "get"}
                  \/ /\ r.op = "get" /\ Goes(r, a, "self", r.left)
                     /\ \/ ~ up[OwnerOf(n, r.key)]
                        \/ OwnerOf(n, r.key) = n /\ v = 0
                  \/ Ends(r, a, "err", 0) /\ r.op \in {"set", "del"}
                  \/ Apply(c) /\ \E w : Ends(r, a, "ok", w)
                  \/ r.op = "get" /\ OwnerOf(n, r.key) = n /\ v # 0 /\ Ends(r, a, "hit", v)
                  \/ r.op = "self" /\ v # 0 /\ Ends(r, a, "hit", v)
                  \/ r.op = "self" /\ v = 0 /\ Goes(r, a, "scan", View(n) \ {n})
                  \/ r.op = "scan" /\ \E p \in Nodes : Ends(r, a, "hit", store[p][r.key])
                  \/ /\ r.op = "scan"
                     /\ \E p \in r.left :
                          /\ ~ (up[p] /\ p \in View(n) /\ store[p][r.key] # 0)
                          /\ Goes(r, a, "scan", r.left \ {p})
                  \/ r.op = "scan" /\ r.left = {} /\ Ends(r, a, "miss", 0)
               /\ Apply(c) \/ UNCHANGED <<up, store, status, repl, msgs, mover, latest,
                                          written, counts>>
<1> DEFINE r == client[c]
           n == At(c)
           v == store[n][r.key]
<1>a. client \in [Clients -> Served]
  BY ClientsServed
<1>b. r.op # "idle" /\ up[n]
  BY DEF Serve, Forward, ForwardFails, Apply, GetLocal, ReadSelf, ReadPeer, ReadMiss, Running
<1>c. n \in Nodes /\ r.key \in Keys /\ r \in Requests
  BY <1>a, <1>b, AtIsServer
<1>d. ASSUME NEW op, NEW left,
             \/ client' = [client EXCEPT ![c].op = op, ![c].left = left]
             \/ client' = [client EXCEPT ![c].op = op] /\ left = r.left
             \/ client' = [client EXCEPT ![c].left = left] /\ op = r.op
             \/ op = r.op /\ left = r.left /\ \E p : client' = [client EXCEPT ![c].path = p]
      PROVE  /\ \A d \in Clients : d # c => client'[d] = client[d]
             /\ Goes(r, client'[c], op, left)
  <2>1. /\ [r EXCEPT !.op = op, !.left = left] = [r EXCEPT !.left = left, !.op = op]
        /\ Goes(r, [r EXCEPT !.op = op, !.left = left], op, left)
        /\ left = r.left => Goes(r, [r EXCEPT !.op = op], op, left)
        /\ op = r.op => Goes(r, [r EXCEPT !.left = left], op, left)
        /\ op = r.op /\ left = r.left => \A p : Goes(r, [r EXCEPT !.path = p], op, left)
    BY <1>c DEF Requests, Goes
  <2> HIDE DEF Goes
  <2>2. CASE client' = [client EXCEPT ![c].op = op, ![c].left = left]
    BY <1>a, <2>1, <2>2
  <2>3. CASE client' = [client EXCEPT ![c].op = op] /\ left = r.left
    BY <1>a, <2>1, <2>3
  <2>4. CASE client' = [client EXCEPT ![c].left = left] /\ op = r.op
    BY <1>a, <2>1, <2>4
  <2>5. CASE op = r.op /\ left = r.left /\ \E p : client' = [client EXCEPT ![c].path = p]
    <3>1. PICK p : client' = [client EXCEPT ![c].path = p]
      BY <2>5
    <3> QED
      BY <1>a, <2>1, <2>5, <3>1
  <2> QED
    BY <1>d, <2>2, <2>3, <2>4, <2>5
<1> HIDE DEF r, n, v
<1> DEFINE Goal == /\ \A d \in Clients : d # c => client'[d] = client[d]
                   /\ \/ Goes(r, client'[c], r.op, r.left) /\ r.op \in {"set", "del", "get"}
                      \/ /\ r.op = "get" /\ Goes(r, client'[c], "self", r.left)
                         /\ \/ ~ up[OwnerOf(n, r.key)]
                            \/ OwnerOf(n, r.key) = n /\ v = 0
                      \/ Ends(r, client'[c], "err", 0) /\ r.op \in {"set", "del"}
                      \/ Apply(c) /\ \E w : Ends(r, client'[c], "ok", w)
                      \/ r.op = "get" /\ OwnerOf(n, r.key) = n /\ v # 0 /\ Ends(r, client'[c], "hit", v)
                      \/ r.op = "self" /\ v # 0 /\ Ends(r, client'[c], "hit", v)
                      \/ r.op = "self" /\ v = 0 /\ Goes(r, client'[c], "scan", View(n) \ {n})
                      \/ r.op = "scan" /\ \E p \in Nodes : Ends(r, client'[c], "hit", store[p][r.key])
                      \/ /\ r.op = "scan"
                         /\ \E p \in r.left :
                              /\ ~ (up[p] /\ p \in View(n) /\ store[p][r.key] # 0)
                              /\ Goes(r, client'[c], "scan", r.left \ {p})
                      \/ r.op = "scan" /\ r.left = {} /\ Ends(r, client'[c], "miss", 0)
<1>1. ASSUME Forward(c) PROVE Goal
  BY <1>1, <1>d DEF Forward, Running, r
<1>2. ASSUME ForwardFails(c) PROVE Goal
  BY <1>2, <1>a, <1>d, AnswerEnds DEF ForwardFails, Running, r, n
<1>3. ASSUME Apply(c) PROVE Goal
  BY <1>3, <1>a, AnswerEnds DEF Apply, r
<1>4. ASSUME GetLocal(c) PROVE Goal
  BY <1>4, <1>a, <1>d, AnswerEnds DEF GetLocal, Running, Owns, r, n, v
<1>5. ASSUME ReadSelf(c) PROVE Goal
  BY <1>5, <1>a, <1>d, AnswerEnds DEF ReadSelf, Running, r, n, v
<1>6. ASSUME NEW p \in Nodes, ReadPeer(c, p) PROVE Goal
  BY <1>6, <1>a, <1>d, AnswerEnds DEF ReadPeer, Running, r, n
<1>7. ASSUME ReadMiss(c) PROVE Goal
  BY <1>7, <1>a, AnswerEnds DEF ReadMiss, Running, r
<1>8. Apply(c) \/ UNCHANGED <<up, store, status, repl, msgs, mover, latest, written, counts>>
  BY DEF Serve, Forward, ForwardFails, GetLocal, ReadSelf, ReadPeer, ReadMiss
<1> HIDE DEF Goal
<1>9. Goal
  BY <1>1, <1>2, <1>3, <1>4, <1>5, <1>6, <1>7 DEF Serve
<1> QED
  BY <1>b, <1>c, <1>8, <1>9 DEF Goal, r, n, v

\* Copies are neither lost nor, but for a crash, taken from a server.
LEMMA HoldersGrow ==
    ASSUME TypeOK, CrashInv, [Next]_vars, OnlyCrashes', ~ \E n \in Nodes : Crash(n),
           NEW k \in Keys
    PROVE  Holders(k) \subseteq Holders(k)'
<1>a. OnlySets /\ store \in [Nodes -> [Keys -> Nat]] /\ written \in Nat
      /\ client \in [Clients -> Served]
  BY StepsWithoutTransfers, ClientsServed DEF CrashInv
<1> DEFINE Goal == \A n \in Nodes : store[n][k] # 0 => store'[n][k] # 0
<1>1. ASSUME NEW c \in Clients, Serve(c)
      PROVE  Goal
  <2>1. CASE Apply(c)
    <3>1. At(c) \in Nodes /\ client[c].key \in Keys /\ client[c].op = "set"
      BY <1>a, <2>1, AtIsServer DEF Apply, Running, OnlySets
    <3>2. store' = [store EXCEPT ![At(c)][client[c].key] = written + 1] /\ written + 1 # 0
      BY <1>a, <2>1, <3>1 DEF Apply
    <3> QED
      BY <1>a, <3>1, <3>2
  <2>2. CASE ~ Apply(c)
    BY <1>1, <2>2 DEF Serve, Forward, ForwardFails, GetLocal, ReadSelf, ReadPeer, ReadMiss
  <2> QED
    BY <2>1, <2>2
<1>2. ASSUME NEW m \in msgs, Deliver(m)
      PROVE  Goal
  <2>1. m.value # 0 /\ m.to \in Nodes /\ m.key \in Keys
    BY <1>a DEF OnlySets, TypeOK
  <2> QED
    BY <1>2, <1>a, <2>1 DEF Deliver
<1>3. ASSUME \/ \E c \in Clients, op \in {"set", "get"}, n \in Nodes, j \in Keys :
                  Request(c, op, n, j)
             \/ \E r \in repl : Replicate(r)
             \/ \E n, p \in Nodes : Miss(n, p)
             \/ UNCHANGED vars
      PROVE  Goal
  BY <1>3 DEF Request, Replicate, Miss, vars
<1> HIDE DEF Goal
<1>4. Goal
  BY <1>1, <1>2, <1>3, StepsWithoutTransfers DEF StepWithoutTransfers
<1> QED
  BY <1>4 DEF Goal, Holders

\* A request that counts copies right still does when more nodes hold one.
LEMMA MoreCopies ==
    ASSUME NEW r \in Requests, NEW H \in SUBSET Nodes, NEW G \in SUBSET Nodes, H \subseteq G,
           CountsCopies(r, H)
    PROVE  CountsCopies(r, G)
<1>1. IsFiniteSet(G) /\ IsFiniteSet(G \cap r.left)
  BY FS_Subset, ClusterAssumption
<1>2. /\ Cardinality(H) <= Cardinality(G)
      /\ Cardinality(H \cap r.left) <= Cardinality(G \cap r.left)
      /\ IsFiniteSet(H) /\ IsFiniteSet(H \cap r.left)
  <2>1. H \cap r.left \subseteq G \cap r.left
    OBVIOUS
  <2> QED
    BY <1>1, <2>1, FS_Subset
<1>3. /\ Cardinality(H) \in Nat /\ Cardinality(G) \in Nat
      /\ Cardinality(H \cap r.left) \in Nat /\ Cardinality(G \cap r.left) \in Nat
  BY <1>1, <1>2, FS_CardinalityType
<1>4. r.copies \in Nat
  BY DEF Requests
<1> QED
  BY <1>2, <1>3, <1>4 DEF CountsCopies

\* A step of its handler leaves the count of a request right.
LEMMA ServeCounts ==
    ASSUME TypeOK, NEW c \in Clients, Serve(c), SeenAlive, DownEmpty,
           CountsCopies(client[c], Holders(client[c].key))
    PROVE  CountsCopies(client'[c], Holders(client[c].key))
<1> DEFINE r == client[c]
           a == client'[c]
           H == Holders(r.key)
<1>1. H \in SUBSET Nodes /\ r.copies \in Nat /\ At(c) \in Nodes
  BY ServeForms DEF Holders, Requests
<1>2. CountsCopies(r, H)
  OBVIOUS
<1>3. \A h \in H : up[h] /\ h \in View(At(c))
  BY ServeForms DEF Holders, DownEmpty, SeenAlive, View
<1>4. ASSUME NEW reply \in {"err", "ok", "hit"}, NEW v, Ends(r, a, reply, v)
      PROVE  CountsCopies(a, H)
  BY <1>2, <1>4 DEF CountsCopies, Ends
<1>5. ASSUME Goes(r, a, r.op, r.left) /\ r.op \in {"set", "del", "get"}
      PROVE  CountsCopies(a, H)
  BY <1>2, <1>5 DEF CountsCopies, Goes
<1>6. ASSUME r.op = "get" /\ Goes(r, a, "self", r.left)
      PROVE  CountsCopies(a, H)
  BY <1>2, <1>6 DEF CountsCopies, Goes
<1>7. ASSUME r.op = "self" /\ store[At(c)][r.key] = 0 /\ Goes(r, a, "scan", View(At(c)) \ {At(c)})
      PROVE  CountsCopies(a, H)
  <2>1. H \cap a.left = H
    BY <1>3, <1>7 DEF Holders, Goes
  <2> QED
    BY <1>2, <1>7, <2>1 DEF CountsCopies, Goes
<1>8. ASSUME r.op = "scan", NEW p \in r.left, Goes(r, a, "scan", r.left \ {p}),
             ~ (up[p] /\ p \in View(At(c)) /\ store[p][r.key] # 0)
      PROVE  CountsCopies(a, H)
  <2>1. p \notin H
    BY <1>3, <1>8 DEF Holders
  <2>2. H \cap a.left = H \cap r.left
    BY <1>8, <2>1 DEF Goes
  <2> QED
    BY <1>2, <1>8, <2>2 DEF CountsCopies, Goes
<1>9. ASSUME r.op = "scan" /\ r.left = {} /\ Ends(r, a, "miss", 0)
      PROVE  CountsCopies(a, H)
  <2>1. Cardinality(H \cap r.left) = 0
    BY <1>9, FS_EmptySet
  <2>2. r.copies = 0
    BY <1>1, <1>2, <1>9, <2>1 DEF CountsCopies
  <2> QED
    BY <1>9, <2>2 DEF CountsCopies, Ends
<1> HIDE DEF r, a, H
<1>10. CountsCopies(a, H)
  BY <1>4, <1>5, <1>6, <1>7, <1>8, <1>9, ServeForms DEF r, a
<1> QED
  BY <1>10 DEF r, a, H

\* A crash takes a copy from the count if it takes one from the cluster.
LEMMA CrashCounts ==
    ASSUME NEW r \in Served, NEW n \in Nodes, store \in [Nodes -> [Keys -> Nat]],
           CountsCopies(r, Holders(r.key))
    PROVE  CountsCopies(AfterCrash(r, n), Holders(r.key) \ {n})
<1> DEFINE a == AfterCrash(r, n)
           H == Holders(r.key)
<1>1. r.copies \in Nat /\ r.key \in Keys /\ H \in SUBSET Nodes /\ (n \in H <=> store[n][r.key] # 0)
  BY DEF Served, Requests, Holders
<1>2. ASSUME NEW S \in SUBSET Nodes
      PROVE  /\ Cardinality(S) \in Nat /\ Cardinality(S \ {n}) \in Nat
             /\ n \in S => Cardinality(S \ {n}) = Cardinality(S) - 1
             /\ n \notin S => S \ {n} = S
  <2>1. IsFiniteSet(S) /\ IsFiniteSet(S \ {n})
    BY FS_Subset, ClusterAssumption
  <2> QED
    BY <2>1, FS_RemoveElement, FS_CardinalityType
<1>3. Left(r, n) \in Nat /\ Left(r, n) <= r.copies
      /\ (n \in H => Left(r, n) = 0 \/ Left(r, n) = r.copies - 1)
  BY <1>1 DEF Left
<1>4. ASSUME NEW S \in SUBSET Nodes, S \subseteq H, r.copies <= Cardinality(S)
      PROVE  Left(r, n) <= Cardinality(S \ {n})
  <2>1. CASE n \in S
    <3>1. Left(r, n) = 0 \/ Left(r, n) = r.copies - 1
      BY <1>3, <1>4, <2>1
    <3>2. /\ Cardinality(S) \in Nat /\ Cardinality(S \ {n}) \in Nat
          /\ Cardinality(S \ {n}) = Cardinality(S) - 1
      BY <1>2, <2>1
    <3> QED
      BY <1>1, <1>4, <3>1, <3>2
  <2>2. CASE n \notin S
    <3>1. S \ {n} = S /\ Cardinality(S) \in Nat
      BY <1>2, <2>2
    <3>2. Left(r, n) \in Nat /\ Left(r, n) <= r.copies
      BY <1>3
    <3>3. Left(r, n) <= Cardinality(S)
      BY <1>1, <1>4, <3>1, <3>2
    <3> QED
      BY <3>1, <3>3
  <2> QED
    BY <2>1, <2>2
<1>5. CountsCopies(r, H)
  OBVIOUS
<1>6. /\ a.copies = Left(r, n)
      /\ a.reply \in {r.reply, "down", "err"}
      /\ \/ a.op = r.op /\ a.left = r.left /\ (r.path = <<>> => a.path = <<>>)
         \/ a.op \in {"set", "del"} /\ a.op = r.op
         \/ a.op = "idle" /\ a.path = <<>>
         \/ a.op = "self" /\ r.op \notin {"set", "del"} /\ r.path # <<>>
  BY AfterCrashForm
<1>7. (H \ {n}) \cap r.left = (H \cap r.left) \ {n}
  OBVIOUS
<1>8. a.reply = "miss" => a.copies = 0
  BY <1>1, <1>3, <1>5, <1>6 DEF CountsCopies
<1>9. r.op \in {"idle", "set", "del", "get", "self", "scan"}
  BY DEF Served, Requests
<1>10. r.op \in {"get", "self", "scan"} => Left(r, n) <= Cardinality(H \ {n})
  BY <1>1, <1>4, <1>5 DEF CountsCopies
<1>11. r.op = "scan" => Left(r, n) <= Cardinality((H \ {n}) \cap r.left)
  BY <1>1, <1>4, <1>5, <1>7 DEF CountsCopies
<1>12. r.op = "idle" => r.path = <<>>
  BY <1>5 DEF CountsCopies
<1> HIDE DEF a, H
<1>13. CountsCopies(a, H \ {n})
  BY <1>6, <1>8, <1>9, <1>10, <1>11, <1>12 DEF CountsCopies
<1> QED
  BY <1>13 DEF a, H

\* Every step keeps the invariant about crashes.
LEMMA CrashInvNext == TypeOK /\ CrashInv /\ [Next]_vars => CrashInv'
<1> SUFFICES ASSUME TypeOK, CrashInv, [Next]_vars, OnlyCrashes', NEW c \in Clients
             PROVE  CountsCopies(client[c], Holders(client[c].key))'
  BY OnlySetsNext DEF CrashInv, AllCount
<1>1. PICK k \in Keys : k = client[c].key
  BY DEF TypeOK, Requests
<1>2. /\ SeenAlive /\ DownEmpty /\ client \in [Clients -> Served] /\ client[c] \in Requests
      /\ CountsCopies(client[c], Holders(k)) /\ store \in [Nodes -> [Keys -> Nat]]
  BY <1>1, StepsWithoutTransfers, ClientsServed DEF CrashInv, AllCount, Served
<1>3. \A j \in Keys : Holders(j) \in SUBSET Nodes /\ Holders(j)' \in SUBSET Nodes
  BY DEF Holders
<1> DEFINE Goal == CountsCopies(client[c], Holders(client[c].key))'
<1>4. ASSUME NEW j \in Keys, client'[c].key = j, CountsCopies(client'[c], Holders(j)')
      PROVE  Goal
  BY <1>4
<1> HIDE DEF Goal
<1>5. ASSUME NEW n \in Nodes, Crash(n)
      PROVE  Goal
  <2>1. store' = [store EXCEPT ![n] = Empty] /\ client'[c] = AfterCrash(client[c], n)
    BY <1>5 DEF Crash
  <2>2. client'[c].key = k
    BY <1>1, <1>2, <2>1, AfterCrashForm
  <2>3. Holders(k)' = Holders(k) \ {n}
    <3>1. Empty[k] = 0
      BY DEF Empty
    <3> HIDE DEF Empty
    <3> QED
      BY <1>2, <2>1, <3>1 DEF Holders
  <2>4. CountsCopies(AfterCrash(client[c], n), Holders(k) \ {n})
    BY <1>1, <1>2, CrashCounts
  <2>5. CountsCopies(client'[c], Holders(k)')
    BY <2>1, <2>3, <2>4
  <2> QED
    BY <2>2, <2>5, <1>4
<1>6. ASSUME client'[c] = client[c], ~ \E n \in Nodes : Crash(n)
      PROVE  Goal
  <2>1. CountsCopies(client[c], Holders(k)')
    BY <1>6, <1>2, <1>3, HoldersGrow, MoreCopies
  <2> QED
    BY <1>1, <1>4, <1>6, <2>1
<1>7. ASSUME NEW d \in Clients, Serve(d), ~ \E n \in Nodes : Crash(n)
      PROVE  Goal
  <2>1. CASE d # c
    <3>1. client'[c] = client[c]
      BY <1>7, <2>1, ServeForms
    <3> QED
      BY <1>6, <1>7, <3>1
  <2>2. CASE d = c
    <3>1. CountsCopies(client'[c], Holders(k))
      BY <1>1, <1>2, <1>7, <2>2, ServeCounts
    <3>2. client'[c].key = k
      BY <1>1, <1>7, <2>2, ServeForms DEF Goes, Ends
    <3>3. client'[c] \in Requests
      BY TypeNext DEF TypeOK
    <3>4. CountsCopies(client'[c], Holders(k)')
      BY <1>3, <1>7, <3>1, <3>3, HoldersGrow, MoreCopies
    <3> QED
      BY <1>4, <3>2, <3>4
  <2> QED
    BY <2>1, <2>2
<1>8. ASSUME NEW d \in Clients, NEW op \in {"set", "get"}, NEW n \in Nodes, NEW j \in Keys,
             Request(d, op, n, j), ~ \E m \in Nodes : Crash(m)
      PROVE  Goal
  <2>1. CASE d # c
    <3>1. client'[c] = client[c]
      BY <1>8, <1>2, <2>1 DEF Request
    <3> QED
      BY <1>6, <1>8, <3>1
  <2>2. CASE d = c
    <3> DEFINE floor == latest[j]
               copies == Cardinality(Holders(j))
               whole == Whole
               r == [Idle EXCEPT !.op = op, !.key = j, !.path = <<n>>,
                                 !.floor = floor, !.copies = copies, !.whole = whole]
    <3>1. client'[c] = r /\ store' = store
      BY <1>8, <1>2, <2>2 DEF Request
    <3>2. r.op = op /\ r.key = j /\ r.copies = copies /\ r.reply = "none"
      <4> HIDE DEF floor, copies, whole
      <4>1. Idle \in Requests
        BY IdleType DEF Served
      <4>2. Idle.reply = "none"
        BY DEF Idle
      <4> QED
        BY <4>1, <4>2 DEF Requests
    <3>3. copies \in Nat /\ Holders(j)' = Holders(j)
      BY <1>3, <3>1, FS_Subset, FS_CardinalityType, ClusterAssumption DEF Holders
    <3> HIDE DEF r
    <3>4. CountsCopies(client'[c], Holders(j)') /\ client'[c].key = j
      BY <3>1, <3>2, <3>3 DEF CountsCopies
    <3> QED
      BY <1>4, <3>4
  <2> QED
    BY <2>1, <2>2
<1>9. ASSUME (\E r \in repl : Replicate(r)) \/ (\E m \in msgs : Deliver(m))
             \/ (\E n, p \in Nodes : Miss(n, p)) \/ UNCHANGED vars
      PROVE  client'[c] = client[c]
  BY <1>9 DEF Replicate, Deliver, Miss, vars
<1>10. Goal
  BY <1>5, <1>6, <1>7, <1>8, <1>9, StepsWithoutTransfers DEF StepWithoutTransfers
<1> QED
  BY <1>10 DEF Goal

\* While no server that died comes back, none is suspected wrongly and nothing
\* is deleted or moved, a read misses only if crashes took every copy there was
\* when it began: it asks the other servers when the owner is dead or does not
\* have the key, and skips only servers that have none.
THEOREM ReadFindsCopyHolds == Spec => [](OnlyCrashes => ReadFindsCopy)
<1>1. CrashInv => (OnlyCrashes => ReadFindsCopy)
  BY DEF CrashInv, AllCount, CountsCopies, ReadFindsCopy
<1> QED
  BY <1>1, CrashInvInit, CrashInvNext, TypeCorrect, PTL DEF Spec

-----------------------------------------------------------------------------
(* Nothing fails at all *)

Home(k) == Nearest(Nodes, k)
Spare(k) == Nearest(Nodes \ {Home(k)}, k)

\* Only the owner applies writes, and it holds the last one.
OwnerCurrent ==
    /\ \A n \in Nodes : up[n]
    /\ \A k \in Keys, n \in Nodes : n = Home(k) => store[n][k] = latest[k]
    /\ \A k \in Keys : latest[k] <= written
    /\ \A r \in repl : r.node = Home(r.key)
    /\ \A m \in msgs : m.to # Home(m.key)

\* A read that has left the owner without a value began before the first write.
Current(r) ==
    /\ r.op # "idle" => r.floor <= latest[r.key] /\ r.reply # "hit"
    /\ r.op \in {"self", "scan"} => r.floor = 0
    /\ r.reply = "hit" => r.value >= r.floor

ReadsCurrent == \A c \in Clients : Current(client[c])

\* The replica has a copy or one is on its way.
SpareServed ==
    Cardinality(Nodes) >= 2 =>
        \A k \in Keys : latest[k] > 0 =>
            \/ \E n \in Nodes : n = Spare(k) /\ store[n][k] # 0
            \/ \E r \in repl : r.key = k
            \/ \E m \in msgs : m.key = k /\ m.to = Spare(k)

Calm == NoFailure /\ ~ Migrations

CalmInv == Calm => restarts = 0 /\ OwnerCurrent /\ ReadsCurrent /\ SpareServed

\* The invariant about calm clusters holds at the start.
LEMMA CalmInit == Init => CalmInv
<1> SUFFICES ASSUME Init PROVE CalmInv
  OBVIOUS
<1>1. Idle.op = "idle" /\ Idle.reply = "none"
  BY DEF Idle
<1>2. OwnerCurrent
  <2>1. \A n \in Nodes : store[n] = Empty /\ up[n]
    BY DEF Init
  <2>2. \A k \in Keys : Empty[k] = 0 /\ latest[k] = 0
    BY DEF Init, Empty
  <2> QED
    BY <2>1, <2>2 DEF Init, OwnerCurrent
<1>3. ReadsCurrent
  BY <1>1 DEF Init, ReadsCurrent, Current
<1>4. SpareServed
  BY DEF Init, SpareServed
<1> QED
  BY <1>2, <1>3, <1>4 DEF Init, CalmInv

\* Every server has every server on its ring, so all agree about owner and replica.
LEMMA RingsAgree ==
    ASSUME \A n \in Nodes : up[n], SeenAlive, NEW n \in Nodes, NEW k \in Keys
    PROVE  /\ OwnerOf(n, k) = Home(k) /\ Home(k) \in Nodes
           /\ Cardinality(Nodes) >= 2 =>
                Spare(k) \in Nodes /\ Spare(k) # Home(k) /\ Replicas(n, k) = {Spare(k)}
           /\ \A p \in Replicas(n, k) : p \in Nodes /\ p # Home(k)
<1>1. View(n) = Nodes
  BY DEF View, SeenAlive
<1>2. OwnerOf(n, k) = Home(k)
  BY <1>1 DEF OwnerOf, Home
<1>3. Home(k) \in Nodes
  BY NearestIsLeast DEF Home
<1>4. Replicas(n, k) = IF Nodes \ {Home(k)} = {} THEN {} ELSE {Spare(k)}
  BY <1>1, <1>2 DEF Replicas, Spare
<1>5. Nodes \ {Home(k)} # {} => Spare(k) \in Nodes \ {Home(k)}
  BY NearestIsLeast DEF Spare
<1>6. Cardinality(Nodes) >= 2 => Nodes \ {Home(k)} # {}
  <2>1. Cardinality(Nodes \ {Home(k)}) = Cardinality(Nodes) - 1
    BY <1>3, FS_RemoveElement, ClusterAssumption
  <2>2. Cardinality(Nodes) \in Nat
    BY FS_CardinalityType, ClusterAssumption
  <2>3. Cardinality({}) = 0
    BY FS_EmptySet
  <2> QED
    BY <2>1, <2>2, <2>3
<1> QED
  BY <1>2, <1>3, <1>4, <1>5, <1>6

\* What the steps without transfers need to know of a state where nothing fails.
LEMMA CalmBefore ==
    ASSUME TypeOK, CrashInv, CalmInv, [Next]_vars, Calm'
    PROVE  /\ Calm /\ restarts = 0 /\ restarts' = 0 /\ OwnerCurrent /\ ReadsCurrent /\ SpareServed
           /\ SeenAlive /\ OnlySets /\ DownEmpty /\ OnlyCrashes'
           /\ ~ \E n \in Nodes : Crash(n)
<1>1. crashes \in Nat /\ dels \in Nat /\ restarts \in Nat /\ misses \in Nat
  BY DEF TypeOK
<1>2. crashes' = 0 /\ misses' = 0 /\ dels' = 0 /\ ~ Migrations
  BY DEF Calm, NoFailure
<1>3. crashes = 0 /\ misses = 0 /\ dels = 0
  BY <1>1, <1>2, StepCounts DEF counts
<1>4. Calm /\ restarts = 0 /\ OwnerCurrent /\ ReadsCurrent /\ SpareServed
  BY <1>2, <1>3 DEF CalmInv, Calm, NoFailure
<1>5. restarts' = 0
  BY <1>1, <1>4, StepCounts DEF counts, OwnerCurrent
<1>6. SeenAlive /\ OnlySets /\ DownEmpty
  BY <1>2, <1>3, <1>4 DEF CrashInv, OnlyCrashes
<1>7. ~ \E n \in Nodes : Crash(n)
  BY <1>1, <1>2 DEF Crash
<1> QED
  BY <1>2, <1>4, <1>5, <1>6, <1>7 DEF OnlyCrashes

\* The writes of a key are numbered upwards.
LEMMA LatestGrows ==
    ASSUME TypeOK, CrashInv, CalmInv, [Next]_vars, Calm'
    PROVE  \A k \in Keys : latest[k] <= latest'[k] /\ latest'[k] \in Nat
<1>a. latest \in [Keys -> Nat] /\ written \in Nat /\ \A k \in Keys : latest[k] <= written
  BY CalmBefore DEF TypeOK, OwnerCurrent
<1>1. ASSUME NEW c \in Clients, Serve(c), latest' # latest
      PROVE  \E k : latest' = [latest EXCEPT ![k] = written + 1]
  BY <1>1 DEF Serve, Forward, ForwardFails, Apply, GetLocal, ReadSelf, ReadPeer, ReadMiss
<1>2. ASSUME ~ \E c \in Clients : Serve(c)
      PROVE  latest' = latest
  BY <1>2, CalmBefore, StepsWithoutTransfers
     DEF StepWithoutTransfers, Request, Replicate, Deliver, Miss, vars
<1>3. latest' = latest \/ \E k : latest' = [latest EXCEPT ![k] = written + 1]
  BY <1>1, <1>2
<1> QED
  BY <1>a, <1>3

\* A handler's step leaves a request current.
LEMMA CurrentServe ==
    ASSUME TypeOK, CrashInv, CalmInv, [Next]_vars, Calm', NEW c \in Clients, Serve(c)
    PROVE  Current(client[c])'
<1> DEFINE r == client[c]
           a == client'[c]
           n == At(c)
<1>1. PICK k \in Keys : k = r.key
  BY DEF TypeOK, Requests
<1>2. /\ SeenAlive /\ OwnerCurrent /\ Current(r)
      /\ store \in [Nodes -> [Keys -> Nat]] /\ latest \in [Keys -> Nat]
  BY CalmBefore DEF TypeOK, ReadsCurrent
<1>3. latest[k] <= latest'[k] /\ latest[k] \in Nat /\ latest'[k] \in Nat
  BY <1>2, LatestGrows
<1>4. n \in Nodes /\ r.op # "idle" /\ r.floor \in Nat
  BY ServeForms DEF Requests
<1>5. r.floor <= latest[k] /\ r.reply # "hit" /\ (r.op \in {"self", "scan"} => r.floor = 0)
  BY <1>1, <1>2, <1>4 DEF Current
<1>6. OwnerOf(n, k) = n => store[n][k] = latest[k]
  BY <1>2, <1>4, RingsAgree DEF OwnerCurrent
<1>7. up[OwnerOf(n, k)]
  BY <1>2, <1>4, RingsAgree DEF OwnerCurrent
<1> DEFINE Goal == Current(client[c])'
<1>8. ASSUME a.key = k,
             a.op # "idle" => a.floor <= latest'[k] /\ a.reply # "hit",
             a.op \in {"self", "scan"} => a.floor = 0,
             a.reply = "hit" => a.value >= a.floor
      PROVE  Goal
  BY <1>8 DEF Current
<1> HIDE DEF Goal
<1>9. ASSUME NEW op, NEW left, Goes(r, a, op, left), op \in {"self", "scan"} => r.floor = 0
      PROVE  Goal
  BY <1>1, <1>3, <1>4, <1>5, <1>8, <1>9 DEF Goes
<1>10. ASSUME NEW reply, NEW v \in Nat, Ends(r, a, reply, v), reply = "hit" => v >= r.floor
       PROVE  Goal
  BY <1>1, <1>5, <1>8, <1>10 DEF Ends
<1>11. ASSUME NEW w, Ends(r, a, "ok", w)
       PROVE  Goal
  BY <1>1, <1>5, <1>8, <1>11 DEF Ends
<1>12. /\ OwnerOf(n, k) = n => store[n][k] >= r.floor
       /\ \A p \in Nodes : store[p][k] \in Nat
       /\ r.op \in {"self", "scan"} => \A p \in Nodes : store[p][k] >= r.floor
       /\ OwnerOf(n, k) = n /\ store[n][k] = 0 => r.floor = 0
  BY <1>2, <1>3, <1>4, <1>5, <1>6
<1> HIDE DEF r, a, n
<1>13. \/ Goes(r, a, r.op, r.left) /\ r.op \in {"set", "del", "get"}
       \/ r.floor = 0 /\ Goes(r, a, "self", r.left)
       \/ Ends(r, a, "err", 0)
       \/ \E w : Ends(r, a, "ok", w)
       \/ \E p \in Nodes : Ends(r, a, "hit", store[p][k]) /\ store[p][k] >= r.floor
       \/ r.floor = 0 /\ \E left : Goes(r, a, "scan", left)
       \/ Ends(r, a, "miss", 0)
  BY <1>1, <1>4, <1>5, <1>7, <1>12, ServeForms DEF r, a, n
<1>14. Goal
  BY <1>9, <1>10, <1>11, <1>12, <1>13
<1> QED
  BY <1>14 DEF Goal

\* In a calm cluster, every step keeps the answers of reads current.
LEMMA ReadsNext ==
    ASSUME TypeOK, CrashInv, CalmInv, [Next]_vars, Calm'
    PROVE  ReadsCurrent'
<1> SUFFICES ASSUME NEW c \in Clients
             PROVE  Current(client[c])'
  BY DEF ReadsCurrent
<1>1. PICK k \in Keys : k = client[c].key
  BY DEF TypeOK, Requests
<1>2. latest[k] <= latest'[k] /\ latest[k] \in Nat /\ latest'[k] \in Nat
  BY LatestGrows DEF TypeOK
<1>3. Current(client[c]) /\ client[c] \in Requests /\ client \in [Clients -> Requests]
  BY CalmBefore DEF TypeOK, ReadsCurrent
<1> DEFINE Goal == Current(client[c])'
<1>4. ASSUME client'[c] = client[c]
      PROVE  Goal
  <2>1. client[c].floor \in Nat
    BY <1>3 DEF Requests
  <2> QED
    BY <1>1, <1>2, <1>3, <1>4, <2>1 DEF Current
<1>5. ASSUME NEW d \in Clients, Serve(d)
      PROVE  Goal
  <2>1. CASE d = c
    BY <1>5, <2>1, CurrentServe
  <2>2. CASE d # c
    BY <1>4, <1>5, <2>2, ServeForms
  <2> QED
    BY <2>1, <2>2
<1>6. ASSUME NEW d \in Clients, NEW op \in {"set", "get"}, NEW n \in Nodes, NEW j \in Keys,
             Request(d, op, n, j)
      PROVE  Goal
  <2>1. CASE d # c
    <3>1. client'[c] = client[c]
      BY <1>6, <1>3, <2>1 DEF Request
    <3> QED
      BY <1>4, <3>1
  <2>2. CASE d = c
    <3> DEFINE floor == latest[j]
               copies == Cardinality(Holders(j))
               whole == Whole
               r == [Idle EXCEPT !.op = op, !.key = j, !.path = <<n>>,
                                 !.floor = floor, !.copies = copies, !.whole = whole]
    <3>1. client'[c] = r /\ latest' = latest
      BY <1>6, <1>3, <2>2 DEF Request
    <3>2. r.op = op /\ r.key = j /\ r.floor = floor /\ r.reply = "none"
      <4> HIDE DEF floor, copies, whole
      <4>1. Idle \in Requests
        BY IdleType DEF Served
      <4>2. Idle.reply = "none"
        BY DEF Idle
      <4> QED
        BY <4>1, <4>2 DEF Requests
    <3>3. latest[j] \in Nat
      BY DEF TypeOK
    <3> HIDE DEF r
    <3> QED
      BY <3>1, <3>2, <3>3 DEF Current
  <2> QED
    BY <2>1, <2>2
<1>7. ASSUME (\E r \in repl : Replicate(r)) \/ (\E m \in msgs : Deliver(m))
             \/ (\E n, p \in Nodes : Miss(n, p)) \/ UNCHANGED vars
      PROVE  client'[c] = client[c]
  BY <1>7 DEF Replicate, Deliver, Miss, vars
<1> HIDE DEF Goal
<1>8. Goal
  BY <1>4, <1>5, <1>6, <1>7, CalmBefore, StepsWithoutTransfers DEF StepWithoutTransfers
<1> QED
  BY <1>8 DEF Goal

\* Where commands and values come from: the owner.
LEMMA OwnerNext ==
    ASSUME TypeOK, CrashInv, CalmInv, [Next]_vars, Calm'
    PROVE  OwnerCurrent'
<1>a. /\ \A n \in Nodes : up[n]
      /\ \A k \in Keys, n \in Nodes : n = Home(k) => store[n][k] = latest[k]
      /\ \A k \in Keys : latest[k] <= written
      /\ \A r \in repl : r.node = Home(r.key)
      /\ \A m \in msgs : m.to # Home(m.key)
  BY CalmBefore DEF OwnerCurrent
<1>b. /\ SeenAlive /\ store \in [Nodes -> [Keys -> Nat]] /\ latest \in [Keys -> Nat]
      /\ written \in Nat /\ client \in [Clients -> Served]
  BY CalmBefore, ClientsServed
<1> DEFINE Goal == OwnerCurrent'
<1>1. ASSUME UNCHANGED <<up, store, latest, written>>,
             \A r \in repl' : r.node = Home(r.key),
             \A m \in msgs' : m.to # Home(m.key)
      PROVE  Goal
  BY <1>1, <1>a DEF OwnerCurrent
<1>2. ASSUME NEW c \in Clients, Apply(c)
      PROVE  Goal
  <2> DEFINE n == At(c)
             k == client[c].key
  <2>1. n \in Nodes /\ k \in Keys /\ client[c].op = "set"
    <3>1. OnlySets
      BY CalmBefore
    <3> QED
      BY <1>2, <1>b, <3>1, AtIsServer DEF Apply, Running, OnlySets
  <2>2. n = Home(k)
    BY <1>2, <1>a, <1>b, <2>1, RingsAgree DEF Apply, Owns
  <2>3. /\ written' = written + 1 /\ latest' = [latest EXCEPT ![k] = written + 1]
        /\ store' = [store EXCEPT ![n][k] = written + 1]
        /\ repl' = repl \cup {[write |-> written + 1, node |-> n, key |-> k,
                               value |-> written + 1]}
        /\ UNCHANGED <<up, msgs>>
    BY <1>2, <2>1 DEF Apply
  <2> HIDE DEF n, k
  <2>4. \A j \in Keys : latest'[j] <= written'
    BY <1>a, <1>b, <2>3
  <2>5. \A r \in repl' : r.node = Home(r.key)
    BY <1>a, <2>2, <2>3
  <2>6. ASSUME NEW j \in Keys, NEW p \in Nodes, p = Home(j)
        PROVE  store'[p][j] = latest'[j]
    <3>1. CASE j = k
      BY <1>b, <2>1, <2>2, <2>3, <2>6, <3>1
    <3>2. CASE j # k
      BY <1>a, <1>b, <2>1, <2>3, <2>6, <3>2
    <3> QED
      BY <3>1, <3>2
  <2> QED
    BY <1>a, <2>3, <2>4, <2>5, <2>6 DEF OwnerCurrent
<1>3. ASSUME NEW c \in Clients, Serve(c)
      PROVE  Goal
  <2>1. CASE Apply(c)
    BY <1>2, <2>1
  <2>2. CASE UNCHANGED <<up, store, status, repl, msgs, mover, latest, written, counts>>
    BY <1>1, <1>a, <2>2
  <2> QED
    BY <1>3, <2>1, <2>2, ServeForms
<1>4. ASSUME NEW r \in repl, Replicate(r)
      PROVE  Goal
  <2>1. r.node \in Nodes /\ r.key \in Keys
    BY DEF TypeOK
  <2>2. \A p \in Replicas(r.node, r.key) : p # Home(r.key)
    BY <1>a, <1>b, <2>1, RingsAgree
  <2>3. /\ UNCHANGED <<up, store, latest, written>> /\ repl' \subseteq repl
        /\ \A m \in msgs' : m \in msgs \/ (m.key = r.key /\ m.to \in Replicas(r.node, r.key))
    BY <1>4 DEF Replicate, Command
  <2> QED
    BY <1>1, <1>a, <2>2, <2>3
<1>5. ASSUME NEW m \in msgs, Deliver(m)
      PROVE  Goal
  <2>1. m.to \in Nodes /\ m.key \in Keys /\ m.to # Home(m.key)
    BY <1>a DEF TypeOK
  <2>2. /\ UNCHANGED <<up, latest, written, repl>> /\ msgs' \subseteq msgs
        /\ store' = [store EXCEPT ![m.to][m.key] = m.value]
    BY <1>5, <1>a, <2>1 DEF Deliver
  <2>3. \A j \in Keys, p \in Nodes : p = Home(j) => store'[p][j] = store[p][j]
    BY <1>b, <2>1, <2>2
  <2> QED
    BY <1>a, <2>2, <2>3 DEF OwnerCurrent
<1>6. ASSUME \/ \E c \in Clients, op \in {"set", "get"}, n \in Nodes, k \in Keys :
                  Request(c, op, n, k)
             \/ \E n, p \in Nodes : Miss(n, p)
             \/ UNCHANGED vars
      PROVE  UNCHANGED <<up, store, latest, written, repl, msgs>>
  BY <1>6 DEF Request, Miss, vars
<1> HIDE DEF Goal
<1>7. Goal
  BY <1>1, <1>3, <1>4, <1>5, <1>6, <1>a, CalmBefore, StepsWithoutTransfers
     DEF StepWithoutTransfers
<1> QED
  BY <1>7 DEF Goal

\* Every write reaches the replica, or is on its way there.
LEMMA SpareNext ==
    ASSUME TypeOK, CrashInv, CalmInv, [Next]_vars, Calm'
    PROVE  SpareServed'
<1> SUFFICES ASSUME Cardinality(Nodes) >= 2, NEW k \in Keys, latest'[k] > 0
             PROVE  \/ \E n \in Nodes : n = Spare(k) /\ store'[n][k] # 0
                    \/ \E r \in repl' : r.key = k
                    \/ \E m \in msgs' : m.key = k /\ m.to = Spare(k)
  BY DEF SpareServed
<1>a. /\ \A n \in Nodes : up[n]
      /\ \A r \in repl : r.node = Home(r.key)
      /\ SeenAlive /\ OnlySets /\ OnlyCrashes' /\ ~ \E n \in Nodes : Crash(n)
      /\ latest[k] > 0 => \/ \E n \in Nodes : n = Spare(k) /\ store[n][k] # 0
                          \/ \E r \in repl : r.key = k
                          \/ \E m \in msgs : m.key = k /\ m.to = Spare(k)
  BY CalmBefore DEF OwnerCurrent, SpareServed
<1>b. /\ store \in [Nodes -> [Keys -> Nat]] /\ latest \in [Keys -> Nat] /\ written \in Nat
      /\ client \in [Clients -> Served]
  BY ClientsServed
<1>c. \A n \in Nodes : store[n][k] # 0 => store'[n][k] # 0
  BY <1>a, HoldersGrow DEF Holders
<1> DEFINE Goal == \/ \E n \in Nodes : n = Spare(k) /\ store'[n][k] # 0
                   \/ \E r \in repl' : r.key = k
                   \/ \E m \in msgs' : m.key = k /\ m.to = Spare(k)
<1>1. ASSUME latest'[k] = latest[k], repl \subseteq repl', msgs \subseteq msgs'
      PROVE  Goal
  BY <1>1, <1>a, <1>c
<1>2. ASSUME NEW c \in Clients, Serve(c)
      PROVE  Goal
  <2>1. CASE Apply(c)
    <3>1. CASE client[c].key = k
      <4> DEFINE v == IF client[c].op = "set" THEN written + 1 ELSE 0
                 r == [write |-> written + 1, node |-> At(c), key |-> client[c].key,
                       value |-> v]
      <4>1. repl' = repl \cup {r}
        BY <2>1 DEF Apply
      <4>2. r.key = k
        BY <3>1
      <4> HIDE DEF r
      <4> QED
        BY <4>1, <4>2
    <3>2. CASE client[c].key # k
      <4>1. latest'[k] = latest[k] /\ repl \subseteq repl' /\ msgs' = msgs
        BY <1>b, <2>1, <3>2 DEF Apply
      <4> QED
        BY <1>1, <4>1
    <3> QED
      BY <3>1, <3>2
  <2>2. CASE UNCHANGED <<up, store, status, repl, msgs, mover, latest, written, counts>>
    BY <1>1, <2>2
  <2> QED
    BY <1>2, <2>1, <2>2, ServeForms
<1>3. ASSUME NEW r \in repl, Replicate(r)
      PROVE  Goal
  <2>1. r.node \in Nodes /\ r.key \in Keys /\ r.node = Home(r.key)
    BY <1>a DEF TypeOK
  <2>2. /\ latest' = latest /\ repl' = repl \ {r}
        /\ msgs' = msgs \cup {Command(p, r.key, r.value, r.write, NoNode) :
                                p \in Replicas(r.node, r.key) \ {r.node}}
    BY <1>3 DEF Replicate
  <2>3. CASE r.key = k
    <3>1. Spare(k) \in Replicas(r.node, r.key) \ {r.node}
      BY <1>a, <2>1, <2>3, RingsAgree
    <3>2. Command(Spare(k), r.key, r.value, r.write, NoNode) \in msgs'
      BY <2>2, <3>1
    <3>3. /\ Command(Spare(k), r.key, r.value, r.write, NoNode).key = k
          /\ Command(Spare(k), r.key, r.value, r.write, NoNode).to = Spare(k)
      BY <2>3 DEF Command
    <3> QED
      BY <3>2, <3>3
  <2>4. CASE r.key # k
    BY <1>a, <1>c, <2>2, <2>4
  <2> QED
    BY <2>3, <2>4
<1>4. ASSUME NEW m \in msgs, Deliver(m)
      PROVE  Goal
  <2>1. m.to \in Nodes /\ m.key \in Keys /\ m.value # 0
    BY <1>a DEF TypeOK, OnlySets
  <2>2. /\ UNCHANGED <<latest, repl>> /\ msgs' = msgs \ {m}
        /\ store' = [store EXCEPT ![m.to][m.key] = m.value]
    BY <1>4, <1>a, <2>1 DEF Deliver
  <2>3. CASE m.key = k /\ m.to = Spare(k)
    BY <1>b, <2>1, <2>2, <2>3
  <2>4. CASE ~ (m.key = k /\ m.to = Spare(k))
    BY <1>a, <1>c, <2>2, <2>4
  <2> QED
    BY <2>3, <2>4
<1>5. ASSUME \/ \E c \in Clients, op \in {"set", "get"}, n \in Nodes, j \in Keys :
                  Request(c, op, n, j)
             \/ \E n, p \in Nodes : Miss(n, p)
             \/ UNCHANGED vars
      PROVE  UNCHANGED <<latest, repl, msgs>>
  BY <1>5 DEF Request, Miss, vars
<1> HIDE DEF Goal
<1>6. Goal
  BY <1>1, <1>2, <1>3, <1>4, <1>5, <1>a, StepsWithoutTransfers DEF StepWithoutTransfers
<1> QED
  BY <1>6 DEF Goal

\* Every step keeps the invariant about calm clusters.
LEMMA CalmNext == TypeOK /\ CrashInv /\ CalmInv /\ [Next]_vars => CalmInv'
<1> SUFFICES ASSUME TypeOK, CrashInv, CalmInv, [Next]_vars, Calm'
             PROVE  (restarts = 0 /\ OwnerCurrent /\ ReadsCurrent /\ SpareServed)'
  BY DEF CalmInv
<1> QED
  BY CalmBefore, OwnerNext, ReadsNext, SpareNext

\* As long as nothing fails and no MIGRATE command arrives, a read that finds a
\* value finds the last write that was applied when it began, or a later one,
\* whichever server is asked and however reads, writes and replication
\* interleave: all servers agree about the owner, only the owner applies writes
\* and no replication command is ever addressed to it.
THEOREM FreshWithoutFailureHolds == Spec => [](~ Migrations => FreshWithoutFailure)
<1>1. CalmInv => (~ Migrations => FreshWithoutFailure)
  BY DEF CalmInv, Calm, ReadsCurrent, Current, FreshWithoutFailure, FreshReads
<1> QED
  BY <1>1, CalmInit, CalmNext, CrashInvInit, CrashInvNext, TypeCorrect, PTL DEF Spec

\* As long as nothing fails and no MIGRATE command arrives, a cluster of two
\* servers or more holds every key that was written on two of them once
\* replication is done.
THEOREM TwoCopiesWithoutFailureHolds ==
    Spec => [](~ Migrations /\ Cardinality(Nodes) >= 2 => TwoCopiesWithoutFailure)
<1>1. ASSUME TypeOK, CrashInv, CalmInv, ~ Migrations, Cardinality(Nodes) >= 2, NoFailure, Quiet,
             NEW k \in Keys, latest[k] > 0
      PROVE  Cardinality(Holders(k)) >= 2
  <2>1. OwnerCurrent /\ SpareServed /\ SeenAlive
    BY <1>1 DEF CalmInv, Calm, CrashInv, OnlyCrashes, NoFailure
  <2>2. Nodes # {}
    BY <1>1, FS_EmptySet
  <2>3. /\ Home(k) \in Nodes /\ Spare(k) \in Nodes /\ Spare(k) # Home(k)
    BY <1>1, <2>1, <2>2, RingsAgree DEF OwnerCurrent
  <2>4. store[Home(k)][k] # 0 /\ store[Spare(k)][k] # 0
    BY <1>1, <2>1, <2>3 DEF OwnerCurrent, SpareServed, Quiet, TypeOK
  <2>5. {Home(k), Spare(k)} \subseteq Holders(k)
    BY <2>3, <2>4 DEF Holders
  <2>6. IsFiniteSet(Holders(k)) /\ Cardinality(Holders(k)) \in Nat
    BY FS_Subset, FS_CardinalityType, ClusterAssumption DEF Holders
  <2>7. Cardinality({Home(k), Spare(k)}) = 2
    <3>1. IsFiniteSet({Home(k)}) /\ Cardinality({Home(k)}) = 1
      BY FS_Singleton
    <3>2. Cardinality({Home(k)} \cup {Spare(k)}) = 2
      BY <2>3, <3>1, FS_AddElement
    <3>3. {Home(k), Spare(k)} = {Home(k)} \cup {Spare(k)}
      OBVIOUS
    <3> QED
      BY <3>2, <3>3
  <2> QED
    BY <2>5, <2>6, <2>7, FS_Subset
<1>2. TypeOK /\ CrashInv /\ CalmInv
        => (~ Migrations /\ Cardinality(Nodes) >= 2 => TwoCopiesWithoutFailure)
  BY <1>1 DEF TwoCopiesWithoutFailure, TwoCopies
<1> QED
  BY <1>2, CalmInit, CalmNext, CrashInvInit, CrashInvNext, TypeCorrect, PTL DEF Spec

=============================================================================
