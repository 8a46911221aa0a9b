------------------------------ MODULE Cluster ------------------------------
(***************************************************************************)
(* The cache servers and their clients: cache/node/server.go, store.go and *)
(* replication.go over cache/cluster/router.go.                            *)
(*                                                                         *)
(* Every server runs one goroutine per connection, one `go s.replicate`    *)
(* per write and one transfer per MIGRATE command or recovered peer; each  *)
(* access to a store is atomic and everything between two accesses         *)
(* interleaves.  The ring of a server is the set of peers it does not hold *)
(* dead; which of them owns a key follows from Rank, the order in which    *)
(* the nodes come clockwise from the key (see Ring).                       *)
(*                                                                         *)
(* A value is the number of the write that made it, counted in the order   *)
(* the writes are applied; 0 is the absent key.  TTLs are left out here.   *)
(***************************************************************************)
EXTENDS Integers, Sequences, FiniteSets

CONSTANTS
    Nodes,          \* the configured servers
    Keys,
    Rank,           \* Rank[k][n]: clockwise order of the nodes as seen from k
    Clients,        \* connections, each with one request at a time
    Movers,         \* slots for running transfers
    NoNode,
    MaxWrites,      \* bound: writes that are applied or under way
    MaxDels,        \* bound: DEL requests
    MaxCrashes,     \* bound: crashes
    MaxRestarts,    \* bound: restarts
    MaxFalse,       \* bound: missed heartbeats of a running peer
    Migrations      \* whether MIGRATE commands arrive

ASSUME ClusterAssumption ==
    /\ Rank \in [Keys -> [Nodes -> Nat]]
    /\ \A k \in Keys : \A n, m \in Nodes : Rank[k][n] = Rank[k][m] => n = m
    /\ NoNode \notin Nodes \cup Movers
    /\ Keys # {} /\ IsFiniteSet(Nodes)
    /\ Migrations \in BOOLEAN
    /\ {MaxWrites, MaxDels, MaxCrashes, MaxRestarts, MaxFalse} \subseteq Nat

VARIABLES
    up,         \* the process runs
    store,      \* Store.data
    status,     \* status[n][p]: n's gossip status of p
    client,     \* the request of each connection
    repl,       \* replicate goroutines that have not yet chosen a replica
    msgs,       \* LOCALSET and LOCALDEL commands on their way
    mover,      \* transfer goroutines
    latest,     \* number of the write applied last to each key
    written,    \* writes applied so far
    dels, crashes, restarts, misses     \* counts for the bounds

counts == <<dels, crashes, restarts, misses>>
vars == <<up, store, status, client, repl, msgs, mover, latest, written, counts>>

Empty == [k \in Keys |-> 0]

-----------------------------------------------------------------------------
(* Routing: OwnerOf and Replicas on the ring of server n *)

View(n) == {p \in Nodes : p = n \/ status[n][p] # "dead"}

Nearest(S, k) == CHOOSE n \in S : \A m \in S : Rank[k][n] <= Rank[k][m]

\* Mutant: the server itself is not on its ring.
OwnerOfPeers(n, k) == Nearest(View(n) \ {n}, k)

OwnerOf(n, k) == Nearest(View(n), k)

\* Mutant: GetNodes(key, 2)[:1], the primary instead of the replica.
ReplicasPrimary(n, k) == {OwnerOf(n, k)}

\* GetNodes(key, 2)[1:]
Replicas(n, k) ==
    LET others == View(n) \ {OwnerOf(n, k)}
    IN  IF others = {} THEN {} ELSE {Nearest(others, k)}

-----------------------------------------------------------------------------
(* Requests *)

Idle == [op |-> "idle", key |-> CHOOSE k \in Keys : TRUE, path |-> <<>>,
         left |-> {}, heard |-> TRUE, floor |-> 0, copies |-> 0, whole |-> FALSE,
         reply |-> "none", value |-> 0]

\* The server that works on the request: the last one it was forwarded to.
At(c) == client[c].path[Len(client[c].path)]

\* Mutant: the handler goes on after it has answered.
AnsweredNoReturn(r, reply, value) ==
    [r EXCEPT !.path = <<>>, !.left = {}, !.reply = reply, !.value = value]

\* The answer travels back along the path, unless the client has been told of a
\* crash on it before.
Answered(r, reply, value) ==
    [r EXCEPT !.op = "idle", !.path = <<>>, !.left = {},
              !.reply = IF r.heard THEN reply ELSE @, !.value = value]

Answer(c, reply, value) ==
    client' = [client EXCEPT ![c] = Answered(@, reply, value)]

Holders(k) == {n \in Nodes : store[n][k] # 0}

\* No running server holds a running server dead.
Whole == \A n, p \in Nodes : up[n] /\ up[p] => p \in View(n)

UnderWay == {c \in Clients : client[c].op \in {"set", "del"}}

\* A command arrives at server n.  `floor`, `copies` and `whole` remember, for
\* the properties, the last write of the key, its copies and whether the
\* servers agreed that all of them run.
Request(c, op, n, k) ==
    /\ client[c].op = "idle" /\ up[n]
    /\ op # "get" => written + Cardinality(UnderWay) < MaxWrites
    /\ op = "del" => dels < MaxDels
    /\ client' = [client EXCEPT ![c] =
                    [Idle EXCEPT !.op = op, !.key = k, !.path = <<n>>,
                                 !.floor = latest[k],
                                 !.copies = Cardinality(Holders(k)),
                                 !.whole = Whole]]
    /\ dels' = IF op = "del" THEN dels + 1 ELSE dels
    /\ UNCHANGED <<up, store, status, repl, msgs, mover, latest, written,
                   crashes, restarts, misses>>

Running(c, ops) == client[c].op \in ops /\ up[At(c)]

Owns(c) == OwnerOf(At(c), client[c].key) = At(c)

\* The owner is looked up and dialled in one step: that it may be removed in
\* between ("unknown peer", handled like a failed dial) is left out.
Forward(c) ==
    LET owner == OwnerOf(At(c), client[c].key)
    IN  /\ Running(c, {"set", "del", "get"}) /\ ~ Owns(c) /\ up[owner]
        /\ client' = [client EXCEPT ![c].path = Append(@, owner)]
        /\ UNCHANGED <<up, store, status, repl, msgs, mover, latest, written, counts>>

\* Mutant: a read does not fall back to the other servers.
ForwardFailsNoFallback(c) ==
    /\ Running(c, {"set", "del", "get"}) /\ ~ Owns(c)
    /\ ~ up[OwnerOf(At(c), client[c].key)]
    /\ IF client[c].op = "get" THEN Answer(c, "miss", 0) ELSE Answer(c, "err", 0)
    /\ UNCHANGED <<up, store, status, repl, msgs, mover, latest, written, counts>>

\* Nobody listens at the owner: a write fails, a read tries the other servers.
ForwardFails(c) ==
    /\ Running(c, {"set", "del", "get"}) /\ ~ Owns(c)
    /\ ~ up[OwnerOf(At(c), client[c].key)]
    /\ IF client[c].op = "get"
       THEN client' = [client EXCEPT ![c].op = "self"]
       ELSE Answer(c, "err", 0)
    /\ UNCHANGED <<up, store, status, repl, msgs, mover, latest, written, counts>>

\* The owner applies a SET or DEL, starts `go s.replicate` and answers.  That it
\* is the owner and what it does then are one step here; a DEL of a key that is
\* not there, which answers MISS, is not told from another.
Apply(c) ==
    LET n == At(c)
        k == client[c].key
        v == IF client[c].op = "set" THEN written + 1 ELSE 0
    IN  /\ Running(c, {"set", "del"}) /\ Owns(c)
        /\ written' = written + 1
        /\ latest' = [latest EXCEPT ![k] = written + 1]
        /\ store' = [store EXCEPT ![n][k] = v]
        /\ repl' = repl \cup {[write |-> written + 1, node |-> n, key |-> k, value |-> v]}
        /\ Answer(c, "ok", v)
        /\ UNCHANGED <<up, status, msgs, mover, counts>>

\* Mutant: any server answers a GET from its own store if it can.
GetLocalAny(c) ==
    LET v == store[At(c)][client[c].key]
    IN  /\ Running(c, {"get"}) /\ (Owns(c) \/ v # 0)
        /\ IF v # 0 THEN Answer(c, "hit", v)
           ELSE client' = [client EXCEPT ![c].op = "self"]
        /\ UNCHANGED <<up, store, status, repl, msgs, mover, latest, written, counts>>

\* The owner's own lookup, in one step with finding that it is the owner; a live
\* owner without the key asks the others too.
GetLocal(c) ==
    LET v == store[At(c)][client[c].key]
    IN  /\ Running(c, {"get"}) /\ Owns(c)
        /\ IF v # 0 THEN Answer(c, "hit", v)
           ELSE client' = [client EXCEPT ![c].op = "self"]
        /\ UNCHANGED <<up, store, status, repl, msgs, mover, latest, written, counts>>

\* readFromAnyPeer: first this server's own store ...
ReadSelf(c) ==
    LET v == store[At(c)][client[c].key]
    IN  /\ Running(c, {"self"})
        /\ IF v # 0 THEN Answer(c, "hit", v)
           ELSE client' = [client EXCEPT ![c].op = "scan",
                                         ![c].left = View(At(c)) \ {At(c)}]
        /\ UNCHANGED <<up, store, status, repl, msgs, mover, latest, written, counts>>

\* Mutant: an unreachable peer is retried instead of skipped.
ReadPeerRetry(c, p) ==
    LET v == store[p][client[c].key]
    IN  /\ Running(c, {"scan"}) /\ p \in client[c].left
        /\ IF up[p] /\ p \in View(At(c)) /\ v # 0 THEN Answer(c, "hit", v)
           ELSE client' = [client EXCEPT ![c].left = IF up[p] THEN @ \ {p} ELSE @]
        /\ UNCHANGED <<up, store, status, repl, msgs, mover, latest, written, counts>>

\* ... then LOCALGET at every peer of the address map, in any order.
ReadPeer(c, p) ==
    LET v == store[p][client[c].key]
    IN  /\ Running(c, {"scan"}) /\ p \in client[c].left
        /\ IF up[p] /\ p \in View(At(c)) /\ v # 0 THEN Answer(c, "hit", v)
           ELSE client' = [client EXCEPT ![c].left = @ \ {p}]
        /\ UNCHANGED <<up, store, status, repl, msgs, mover, latest, written, counts>>

ReadMiss(c) ==
    /\ Running(c, {"scan"}) /\ client[c].left = {}
    /\ Answer(c, "miss", 0)
    /\ UNCHANGED <<up, store, status, repl, msgs, mover, latest, written, counts>>

-----------------------------------------------------------------------------
(* Replication *)

\* A command for the store of `to`, sent for a write or by a transfer.
Command(to, k, v, write, by) ==
    [to |-> to, key |-> k, value |-> v, write |-> write, by |-> by]

\* replicate looks the replica up when it runs, and sends nothing if there is
\* none or if this server has become the replica itself.
Replicate(r) ==
    /\ r \in repl
    /\ repl' = repl \ {r}
    /\ msgs' = msgs \cup {Command(p, r.key, r.value, r.write, NoNode) :
                            p \in Replicas(r.node, r.key) \ {r.node}}
    /\ UNCHANGED <<up, store, status, client, mover, latest, written, counts>>

\* A command reaches its server, or finds nobody there.  Nothing waits for a
\* replica's answer; a transfer goes on to delete its copy, or to the next key.
Deliver(m) ==
    /\ m \in msgs
    /\ msgs' = msgs \ {m}
    /\ store' = IF up[m.to] THEN [store EXCEPT ![m.to][m.key] = m.value] ELSE store
    /\ mover' = IF m.by \in Movers /\ mover[m.by].phase = "wait"
                THEN [mover EXCEPT ![m.by].phase = IF up[m.to] THEN "del" ELSE "loop"]
                ELSE mover
    /\ UNCHANGED <<up, status, client, repl, latest, written, counts>>

-----------------------------------------------------------------------------
(* Transfers: migrate and migrateToRecoveredNode *)

NoMover == [phase |-> "idle", node |-> NoNode, only |-> NoNode, todo |-> {},
            snap |-> Empty, key |-> CHOOSE k \in Keys : TRUE]

\* A goroutine of server n that will push keys to `only`, or, for NoNode, to
\* whichever server owns them.
Spawned(n, only) == [NoMover EXCEPT !.phase = "start", !.node = n, !.only = only]

Migrate(n, s) ==
    /\ Migrations /\ up[n] /\ mover[s].phase = "idle"
    /\ mover' = [mover EXCEPT ![s] = Spawned(n, NoNode)]
    /\ UNCHANGED <<up, store, status, client, repl, msgs, latest, written, counts>>

\* store.All: the keys and values to move are those of this moment.
MoverStart(s) ==
    LET n == mover[s].node
    IN  /\ mover[s].phase = "start"
        /\ mover' = [mover EXCEPT ![s].phase = "loop", ![s].snap = store[n],
                                  ![s].todo = {k \in Keys : store[n][k] # 0}]
        /\ UNCHANGED <<up, store, status, client, repl, msgs, latest, written, counts>>

\* Mutant: a key is moved even if this server owns it.
MovesAlways(s, k) == TRUE

\* Whether the transfer moves key k under the ring of this moment.
Moves(s, k) ==
    LET owner == OwnerOf(mover[s].node, k)
    IN  IF mover[s].only = NoNode THEN owner # mover[s].node
        ELSE owner = mover[s].only

\* One turn of the loop: the snapshot's value goes to the owner, or the key stays.
MoverNext(s, k) ==
    /\ mover[s].phase = "loop" /\ k \in mover[s].todo
    /\ IF Moves(s, k)
       THEN /\ mover' = [mover EXCEPT ![s].phase = "wait", ![s].key = k,
                                      ![s].todo = @ \ {k}]
            /\ msgs' = msgs \cup {Command(OwnerOf(mover[s].node, k), k,
                                          mover[s].snap[k], 0, s)}
       ELSE /\ mover' = [mover EXCEPT ![s].todo = @ \ {k}]
            /\ UNCHANGED msgs
    /\ UNCHANGED <<up, store, status, client, repl, latest, written, counts>>

\* The transfer was confirmed: the local entry goes, whatever it is by now.
MoverDel(s) ==
    /\ mover[s].phase = "del"
    /\ store' = [store EXCEPT ![mover[s].node][mover[s].key] = 0]
    /\ mover' = [mover EXCEPT ![s].phase = "loop"]
    /\ UNCHANGED <<up, status, client, repl, msgs, latest, written, counts>>

MoverEnd(s) ==
    /\ mover[s].phase = "loop" /\ mover[s].todo = {}
    /\ mover' = [mover EXCEPT ![s] = NoMover]
    /\ UNCHANGED <<up, store, status, client, repl, msgs, latest, written, counts>>

-----------------------------------------------------------------------------
(* Heartbeats: the effect of Gossip on one server's view of one peer *)

\* The first missed heartbeat makes a suspect, further ones a dead peer.  The
\* heartbeat of a running peer is missed when its answer exceeds the deadline.
Miss(n, p) ==
    /\ up[n] /\ n # p /\ status[n][p] # "dead"
    /\ up[p] => misses < MaxFalse
    /\ misses' = IF up[p] THEN misses + 1 ELSE misses
    /\ status' = [status EXCEPT ![n][p] = IF @ = "alive" THEN "suspect" ELSE "dead"]
    /\ UNCHANGED <<up, store, client, repl, msgs, mover, latest, written,
                   dels, crashes, restarts>>

\* Any peer that was not alive is a recovered one: OnRecovery starts a transfer.
Pong(n, p, s) ==
    /\ up[n] /\ up[p] /\ n # p /\ status[n][p] # "alive"
    /\ mover[s].phase = "idle"
    /\ status' = [status EXCEPT ![n][p] = "alive"]
    /\ mover' = [mover EXCEPT ![s] = Spawned(n, p)]
    /\ UNCHANGED <<up, store, client, repl, msgs, latest, written, counts>>

-----------------------------------------------------------------------------
(* Crashes and restarts *)

\* What becomes of request r when server n dies.  Servers n forwarded it to
\* work on, but their answer is lost; the server before n gets an error, and
\* a client of n itself loses its connection.  Commands n had sent still arrive,
\* but nobody waits for them.
AfterCrash(r, n) ==
    LET through == {i \in 1 .. Len(r.path) : r.path[i] = n}
        i == CHOOSE j \in through : TRUE
        told == IF i = 1 THEN "down" ELSE "err"
        seen == [r EXCEPT !.whole = FALSE,
                          !.copies = IF r.copies > 0 /\ store[n][r.key] # 0
                                     THEN @ - 1 ELSE @]
    IN  IF through = {} THEN seen
        ELSE IF r.op \in {"set", "del"}
        THEN IF i = Len(r.path) THEN Answered(seen, told, 0)
             ELSE [seen EXCEPT !.path = SubSeq(@, i + 1, Len(@)), !.heard = FALSE,
                               !.reply = IF r.heard THEN told ELSE @]
        ELSE IF i = 1 THEN Answered(seen, "down", 0)
             ELSE [seen EXCEPT !.op = "self", !.path = SubSeq(@, 1, i - 1), !.left = {}]

Orphaned(m, n) ==
    IF m.by \in Movers /\ mover[m.by].node = n THEN [m EXCEPT !.by = NoNode] ELSE m

Crash(n) ==
    /\ up[n] /\ crashes < MaxCrashes
    /\ crashes' = crashes + 1
    /\ up' = [up EXCEPT ![n] = FALSE]
    /\ store' = [store EXCEPT ![n] = Empty]
    /\ client' = [c \in Clients |-> AfterCrash(client[c], n)]
    /\ repl' = {r \in repl : r.node # n}
    /\ msgs' = {Orphaned(m, n) : m \in msgs}
    /\ mover' = [s \in Movers |-> IF mover[s].node = n THEN NoMover ELSE mover[s]]
    /\ UNCHANGED <<status, latest, written, dels, restarts, misses>>

\* NewServer: nothing stored, every configured peer alive.
Restart(n) ==
    /\ ~ up[n] /\ restarts < MaxRestarts
    /\ restarts' = restarts + 1
    /\ up' = [up EXCEPT ![n] = TRUE]
    /\ status' = [status EXCEPT ![n] = [p \in Nodes |-> "alive"]]
    /\ UNCHANGED <<store, client, repl, msgs, mover, latest, written,
                   dels, crashes, misses>>

-----------------------------------------------------------------------------

Init ==
    /\ up = [n \in Nodes |-> TRUE]
    /\ store = [n \in Nodes |-> Empty]
    /\ status = [n \in Nodes |-> [p \in Nodes |-> "alive"]]
    /\ client = [c \in Clients |-> Idle]
    /\ repl = {} /\ msgs = {}
    /\ mover = [s \in Movers |-> NoMover]
    /\ latest = [k \in Keys |-> 0] /\ written = 0
    /\ dels = 0 /\ crashes = 0 /\ restarts = 0 /\ misses = 0

Serve(c) ==
    \/ Forward(c) \/ ForwardFails(c) \/ Apply(c) \/ GetLocal(c) \/ ReadSelf(c)
    \/ \E p \in Nodes : ReadPeer(c, p)
    \/ ReadMiss(c)

Move(s) ==
    \/ MoverStart(s) \/ MoverDel(s) \/ MoverEnd(s)
    \/ \E k \in Keys : MoverNext(s, k)

Next ==
    \/ \E c \in Clients, op \in {"set", "del", "get"}, n \in Nodes, k \in Keys :
          Request(c, op, n, k)
    \/ \E c \in Clients : Serve(c)
    \/ \E r \in repl : Replicate(r)
    \/ \E m \in msgs : Deliver(m)
    \/ \E n \in Nodes, s \in Movers : Migrate(n, s)
    \/ \E s \in Movers : Move(s)
    \/ \E n, p \in Nodes : Miss(n, p) \/ \E s \in Movers : Pong(n, p, s)
    \/ \E n \in Nodes : Crash(n) \/ Restart(n)

Spec == Init /\ [][Next]_vars

\* Handlers run and their dials and reads have deadlines; transfers and
\* replication are goroutines of the same kind.
Fairness ==
    /\ \A c \in Clients : WF_vars(Serve(c))
    /\ WF_vars(\E m \in msgs : Deliver(m))
    /\ WF_vars(\E r \in repl : Replicate(r))
    /\ \A s \in Movers : WF_vars(Move(s))

FairSpec == Spec /\ Fairness

-----------------------------------------------------------------------------
(* Properties *)

Statuses == {"alive", "suspect", "dead"}

Replies == {"none", "ok", "err", "down", "hit", "miss"}

Requests ==
    [op : {"idle", "set", "del", "get", "self", "scan"}, key : Keys,
     path : Seq(Nodes), left : SUBSET Nodes, heard : BOOLEAN,
     floor : Nat, copies : Nat, whole : BOOLEAN,
     reply : Replies, value : Nat]

Transfers ==
    [phase : {"idle", "start", "loop", "wait", "del"}, node : Nodes \cup {NoNode},
     only : Nodes \cup {NoNode}, todo : SUBSET Keys, snap : [Keys -> Nat], key : Keys]

TypeOK ==
    /\ up \in [Nodes -> BOOLEAN]
    /\ store \in [Nodes -> [Keys -> Nat]]
    /\ status \in [Nodes -> [Nodes -> Statuses]]
    /\ client \in [Clients -> Requests]
    /\ \A c \in Clients : client[c].op # "idle" => client[c].path # <<>>
    /\ repl \subseteq [write : Nat, node : Nodes, key : Keys, value : Nat]
    /\ msgs \subseteq [to : Nodes, key : Keys, value : Nat, write : Nat,
                      by : Movers \cup {NoNode}]
    /\ mover \in [Movers -> Transfers]
    /\ \A s \in Movers : mover[s].phase # "idle" => mover[s].node \in Nodes
    /\ latest \in [Keys -> Nat] /\ written \in Nat
    /\ dels \in Nat /\ crashes \in Nat /\ restarts \in Nat /\ misses \in Nat

\* However much the servers disagree about who is alive, a request never
\* travels in circles: each server forwards only to a node that comes before
\* itself clockwise, so there is no more than one hop per server.
PathsDescend ==
    \A c \in Clients : \A i, j \in 1 .. Len(client[c].path) :
        i < j => Rank[client[c].key][client[c].path[j]]
                    < Rank[client[c].key][client[c].path[i]]

\* A read that finds a value finds one at least as new as the last write that
\* had been applied when the read began ("gets right answer").
FreshReads ==
    \A c \in Clients : client[c].reply = "hit" => client[c].value >= client[c].floor

\* A read misses only if as many copies were lost in crashes as there were when
\* it began: no dead owner, lost forward or late detection hides a copy.  (Copies
\* made after it began are not told from those.)  Running transfers do hide
\* copies, see ServedDuringTransfer, so no late heartbeat may have started one.
ReadFindsCopy ==
    misses = 0 => \A c \in Clients : client[c].reply = "miss" => client[c].copies = 0

\* A read that began when every server saw every running server alive, and
\* met no crash, finds a copy if there was one: it does not matter whether
\* keys are being moved ("reads keep serving from replicas during transfer").
ServedDuringTransfer ==
    \A c \in Clients : client[c].reply = "miss" /\ client[c].whole =>
                         client[c].copies = 0

\* Transfers delete an entry only while the cluster has another: without a
\* crash or a DEL, a key that was ever written stays somewhere, whatever the
\* servers believe of one another and however transfers overlap.
LastCopySafe ==
    crashes = 0 /\ dels = 0 =>
        \A k \in Keys : latest[k] > 0 => Holders(k) # {}

Quiet ==
    /\ repl = {} /\ msgs = {}
    /\ \A s \in Movers : mover[s].phase = "idle"

\* When replication and transfers are done, every key is on two servers
\* ("replication: every key on 2 nodes").
TwoCopies ==
    Quiet => \A k \in Keys : latest[k] > 0 => Cardinality(Holders(k)) >= 2

\* When replication is done the copies are copies ("Node B stores a copy").
CopiesAgree ==
    Quiet => \A k \in Keys : \A n, m \in Holders(k) : store[n][k] = store[m][k]

NoFailure == crashes = 0 /\ misses = 0 /\ dels = 0

\* FreshReads as long as nothing fails: however reads, writes and replication
\* interleave, and whichever server is asked.
FreshWithoutFailure == NoFailure => FreshReads

\* TwoCopies as long as nothing fails.
TwoCopiesWithoutFailure == NoFailure => TwoCopies

\* Every request is answered, whoever crashes or is suspected.
Answers == \A c \in Clients : client[c].op # "idle" ~> client[c].op = "idle"
=============================================================================
