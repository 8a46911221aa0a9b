------------------------------- MODULE Gossip -------------------------------
(***************************************************************************)
(* One server's heartbeat loop (cache/cluster/gossip.go) and the router    *)
(* state it maintains (cache/cluster/router.go).                           *)
(*                                                                         *)
(* A tick pings every peer from a goroutine of its own and waits for all   *)
(* of them.  Each goroutine judges its answer under Gossip.mu and, on a    *)
(* death or a recovery, updates first the unlocked map Router.peers and    *)
(* then the ring, or both in that order for an addition.  Other            *)
(* goroutines (connection handlers, replicate, migrate) read the map       *)
(* without any lock.                                                       *)
(***************************************************************************)
EXTENDS Naturals, FiniteSets

CONSTANTS
    Peers,          \* the configured peers of this server
    DeadAfter,      \* deadAfter: missed heartbeats before a peer is dead (3)
    MaxFlips,       \* bound: how often a peer's reachability changes
    MaxFatals,      \* bound: runtime aborts of this process
    MaxTransfers,   \* bound: OnRecovery goroutines for one peer at a time
    NoPeer          \* nobody holds Gossip.mu

ASSUME GossipAssumption ==
    /\ DeadAfter \in Nat \ {0}
    /\ MaxFlips \in Nat /\ MaxFatals \in Nat /\ MaxTransfers \in Nat \ {0}
    /\ NoPeer \notin Peers

VARIABLES
    reach,      \* environment: the peer answers PING within its deadlines
    flips,      \* changes of reach so far
    status,     \* peerState.status
    missed,     \* peerState.missed; it only matters up to DeadAfter
    ping,       \* where the goroutine that pings the peer is
    lock,       \* the peer whose goroutine holds Gossip.mu across steps
    addrs,      \* the keys of Router.peers
    ring,       \* the peers in Router.ring; the server itself is always there
    transfers,  \* OnRecovery goroutines that still run
    reading,    \* some other goroutine is inside a read of Router.peers
    fatals      \* runtime aborts so far

process == <<status, missed, ping, lock, addrs, ring, transfers, reading>>
vars == <<reach, flips, process, fatals>>

PingSteps == {"idle", "sent", "pong", "none", "add", "addRing", "del", "delRing"}

\* NewServer: every configured peer is alive and in the ring.
Init ==
    /\ status = [p \in Peers |-> "alive"]
    /\ missed = [p \in Peers |-> 0]
    /\ ping = [p \in Peers |-> "idle"]
    /\ lock = NoPeer
    /\ addrs = Peers
    /\ ring = Peers
    /\ transfers = [p \in Peers |-> 0]
    /\ reading = FALSE
    /\ reach \in [Peers -> BOOLEAN]
    /\ flips = 0
    /\ fatals = 0

-----------------------------------------------------------------------------
(* The environment *)

Flip(p) ==
    /\ flips < MaxFlips
    /\ reach' = [reach EXCEPT ![p] = ~ @]
    /\ flips' = flips + 1
    /\ UNCHANGED <<process, fatals>>

-----------------------------------------------------------------------------
(* The heartbeat loop *)

\* Mutant: dead peers are no longer pinged.
TickSkipsDead ==
    /\ \A p \in Peers : ping[p] = "idle"
    /\ ping' = [p \in Peers |-> IF status[p] = "dead" THEN "idle" ELSE "sent"]
    /\ UNCHANGED <<reach, flips, status, missed, lock, addrs, ring, transfers,
                   reading, fatals>>

\* wg.Wait: the next tick starts when every goroutine of this one is done.
Tick ==
    /\ \A p \in Peers : ping[p] = "idle"
    /\ ping' = [p \in Peers |-> "sent"]
    /\ UNCHANGED <<reach, flips, status, missed, lock, addrs, ring, transfers,
                   reading, fatals>>

\* gossipPing returns; its deadlines bound the wait.
PingReturns(p) ==
    /\ ping[p] = "sent"
    /\ ping' = [ping EXCEPT ![p] = IF reach[p] THEN "pong" ELSE "none"]
    /\ UNCHANGED <<reach, flips, status, missed, lock, addrs, ring, transfers,
                   reading, fatals>>

\* Mutant: the goroutine does not take Gossip.mu.
AnsweredUnlocked(p) ==
    /\ ping[p] = "pong"
    /\ missed' = [missed EXCEPT ![p] = 0]
    /\ status' = [status EXCEPT ![p] = "alive"]
    /\ IF status[p] # "alive"
       THEN ping' = [ping EXCEPT ![p] = "add"] /\ lock' = p
       ELSE ping' = [ping EXCEPT ![p] = "idle"] /\ UNCHANGED lock
    /\ UNCHANGED <<reach, flips, addrs, ring, transfers, reading, fatals>>

\* Mutant: only a suspect peer is put back, a dead one is just called alive.
AnsweredSuspectOnly(p) ==
    /\ ping[p] = "pong" /\ lock = NoPeer
    /\ missed' = [missed EXCEPT ![p] = 0]
    /\ status' = [status EXCEPT ![p] = "alive"]
    /\ IF status[p] = "suspect"
       THEN ping' = [ping EXCEPT ![p] = "add"] /\ lock' = p
       ELSE ping' = [ping EXCEPT ![p] = "idle"] /\ UNCHANGED lock
    /\ UNCHANGED <<reach, flips, addrs, ring, transfers, reading, fatals>>

\* Whatever was not alive is a recovery, a suspect too.
Answered(p) ==
    /\ ping[p] = "pong" /\ lock = NoPeer
    /\ missed' = [missed EXCEPT ![p] = 0]
    /\ status' = [status EXCEPT ![p] = "alive"]
    /\ IF status[p] # "alive"
       THEN ping' = [ping EXCEPT ![p] = "add"] /\ lock' = p
       ELSE ping' = [ping EXCEPT ![p] = "idle"] /\ UNCHANGED lock
    /\ UNCHANGED <<reach, flips, addrs, ring, transfers, reading, fatals>>

\* Mutant: the threshold is off by one.
UnansweredEarly(p) ==
    /\ ping[p] = "none" /\ lock = NoPeer
    /\ missed' = [missed EXCEPT ![p] = IF @ < DeadAfter THEN @ + 1 ELSE @]
    /\ IF missed[p] + 2 >= DeadAfter /\ status[p] # "dead"
       THEN /\ status' = [status EXCEPT ![p] = "dead"]
            /\ ping' = [ping EXCEPT ![p] = "del"]
            /\ lock' = p
       ELSE /\ status' = [status EXCEPT ![p] = IF @ = "alive" THEN "suspect" ELSE @]
            /\ ping' = [ping EXCEPT ![p] = "idle"]
            /\ UNCHANGED lock
    /\ UNCHANGED <<reach, flips, addrs, ring, transfers, reading, fatals>>

\* A miss is judged by the count it brings; the first makes a suspect.
Unanswered(p) ==
    /\ ping[p] = "none" /\ lock = NoPeer
    /\ missed' = [missed EXCEPT ![p] = IF @ < DeadAfter THEN @ + 1 ELSE @]
    /\ IF missed[p] + 1 >= DeadAfter /\ status[p] # "dead"
       THEN /\ status' = [status EXCEPT ![p] = "dead"]
            /\ ping' = [ping EXCEPT ![p] = "del"]
            /\ lock' = p
       ELSE /\ status' = [status EXCEPT ![p] = IF @ = "alive" THEN "suspect" ELSE @]
            /\ ping' = [ping EXCEPT ![p] = "idle"]
            /\ UNCHANGED lock
    /\ UNCHANGED <<reach, flips, addrs, ring, transfers, reading, fatals>>

\* Mutant: AddPeer forgets the address.
WriteMapDelOnly(p) ==
    /\ \/ /\ ping[p] = "add"
          /\ ping' = [ping EXCEPT ![p] = "addRing"]
          /\ UNCHANGED addrs
       \/ /\ ping[p] = "del"
          /\ addrs' = addrs \ {p}
          /\ ping' = [ping EXCEPT ![p] = "delRing"]
    /\ UNCHANGED <<reach, flips, status, missed, lock, ring, transfers, reading,
                   fatals>>

\* AddPeer and RemovePeer write Router.peers before they touch the ring.
WriteMap(p) ==
    /\ \/ /\ ping[p] = "add"
          /\ addrs' = addrs \cup {p}
          /\ ping' = [ping EXCEPT ![p] = "addRing"]
       \/ /\ ping[p] = "del"
          /\ addrs' = addrs \ {p}
          /\ ping' = [ping EXCEPT ![p] = "delRing"]
    /\ UNCHANGED <<reach, flips, status, missed, lock, ring, transfers, reading,
                   fatals>>

\* The ring has its own lock.  A recovery then starts OnRecovery and unlocks.
WriteRing(p) ==
    /\ \/ /\ ping[p] = "addRing" /\ transfers[p] < MaxTransfers
          /\ ring' = ring \cup {p}
          /\ transfers' = [transfers EXCEPT ![p] = @ + 1]
       \/ /\ ping[p] = "delRing"
          /\ ring' = ring \ {p}
          /\ UNCHANGED transfers
    /\ ping' = [ping EXCEPT ![p] = "idle"]
    /\ lock' = NoPeer
    /\ UNCHANGED <<reach, flips, status, missed, addrs, reading, fatals>>

-----------------------------------------------------------------------------
(* Other goroutines of the process *)

\* Mutant: the end of one goroutine is accounted for two.
TransferEndsTwice(p) ==
    /\ transfers[p] > 0
    /\ transfers' = [transfers EXCEPT ![p] = @ - 2]
    /\ UNCHANGED <<reach, flips, status, missed, ping, lock, addrs, ring, reading,
                   fatals>>

\* migrateToRecoveredNode returns.
TransferEnds(p) ==
    /\ transfers[p] > 0
    /\ transfers' = [transfers EXCEPT ![p] = @ - 1]
    /\ UNCHANGED <<reach, flips, status, missed, ping, lock, addrs, ring, reading,
                   fatals>>

\* Forward looks an address up, PeerAddrs ranges over the map.
BeginRead ==
    /\ ~ reading
    /\ reading' = TRUE
    /\ UNCHANGED <<reach, flips, status, missed, ping, lock, addrs, ring,
                   transfers, fatals>>

EndRead ==
    /\ reading
    /\ reading' = FALSE
    /\ UNCHANGED <<reach, flips, status, missed, ping, lock, addrs, ring,
                   transfers, fatals>>

Writing == \E p \in Peers : ping[p] \in {"add", "del"}

\* The Go runtime may notice a map read that overlaps a write; it then aborts
\* the process, and the process manager starts a new one.
Fatal ==
    /\ reading /\ Writing
    /\ fatals < MaxFatals
    /\ fatals' = fatals + 1
    /\ status' = [p \in Peers |-> "alive"]
    /\ missed' = [p \in Peers |-> 0]
    /\ ping' = [p \in Peers |-> "idle"]
    /\ lock' = NoPeer
    /\ addrs' = Peers
    /\ ring' = Peers
    /\ transfers' = [p \in Peers |-> 0]
    /\ reading' = FALSE
    /\ UNCHANGED <<reach, flips>>

-----------------------------------------------------------------------------

Loop(p) ==
    PingReturns(p) \/ Answered(p) \/ Unanswered(p) \/ WriteMap(p) \/ WriteRing(p)

Next ==
    \/ \E p \in Peers : Flip(p) \/ Loop(p) \/ TransferEnds(p)
    \/ Tick \/ BeginRead \/ EndRead \/ Fatal

Spec == Init /\ [][Next]_vars

\* The ticker keeps firing, every ping has a deadline, the mutex is handed on
\* and a transfer's forwards time out.  Nothing is assumed of the peers.
Fairness ==
    /\ WF_vars(Tick)
    /\ \A p \in Peers : WF_vars(Loop(p)) /\ WF_vars(TransferEnds(p))

FairSpec == Spec /\ Fairness

-----------------------------------------------------------------------------
(* Properties *)

TypeOK ==
    /\ reach \in [Peers -> BOOLEAN]
    /\ flips \in 0 .. MaxFlips
    /\ status \in [Peers -> {"alive", "suspect", "dead"}]
    /\ missed \in [Peers -> 0 .. DeadAfter]
    /\ ping \in [Peers -> PingSteps]
    /\ lock \in Peers \cup {NoPeer}
    /\ addrs \subseteq Peers /\ ring \subseteq Peers
    /\ transfers \in [Peers -> 0 .. MaxTransfers]
    /\ reading \in BOOLEAN
    /\ fatals \in 0 .. MaxFatals

\* The dashboard's status, the ring and the address map agree on every peer
\* whose goroutine is not between the two halves of AddPeer or RemovePeer.
ViewsAgree ==
    \A p \in Peers : ping[p] \in {"idle", "sent", "pong", "none"} =>
        /\ p \in ring <=> status[p] # "dead"
        /\ p \in addrs <=> status[p] # "dead"

\* A peer the ring routes to has an address, but for the instant of its own
\* removal.  (Forward, which looks at the map only after OwnerOf has looked at the
\* ring, may therefore report "unknown peer" for a peer that is being removed, or
\* was removed in between, and for no other.)
RoutableHasAddress == \A p \in ring : p \in addrs \/ ping[p] = "delRing"

\* Router.peers has one writer at a time although it has no lock of its own:
\* Gossip.mu is held from the judgement to the end of the router update.
OneWriter ==
    \A p \in Peers : ping[p] \in {"add", "addRing", "del", "delRing"} => lock = p

\* Once the peers' reachability settles, the ring settles on the reachable ones.
Converges == <>[](ring = {p \in Peers : reach[p]})

\* The view the router has of the peers is one Membership allows.
View == INSTANCE Membership WITH members <- ring, silence <- missed
ViewSpec == View!Spec

-----------------------------------------------------------------------------
(* A claim of the documentation *)

\* router.go: PeerAddrs returns a snapshot of the known peers.
SnapshotIsAtomic == ~ (reading /\ Writing)
=============================================================================
