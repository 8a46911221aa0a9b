----------------------------- MODULE MCCluster -----------------------------
(* Instances of Cluster for TLC: the three servers of the deployment. *)
EXTENDS Cluster, TLC

CONSTANTS a, b, c, k1, k2

\* Clockwise order of the servers from each key; one owner each for two keys.
RankOfKeys ==
    [k \in Keys |-> IF k = k1 THEN a :> 1 @@ b :> 2 @@ c :> 3
                             ELSE a :> 3 @@ b :> 1 @@ c :> 2]

\* What goes wrong together in the run `cluster`: a crash while two requests are
\* served, or late heartbeats and the transfers they lead to, around one request
\* at a time of one connection and a single write.  MIGRATE does not arrive, and
\* nothing is deleted or restarted.
OneConnection == Cardinality({r \in Clients : client[r] # Idle}) <= 1

OneWrite == written + Cardinality(UnderWay) <= 1

CallWithin(r, op, n, k) ==
    /\ misses > 0 =>
          /\ \A d \in Clients \ {r} : client[d] = Idle
          /\ op = "get" \/ written + Cardinality(UnderWay) = 0
    /\ Request(r, op, n, k)

MissWithin(n, p) ==
    /\ up[p] => crashes = 0 /\ OneConnection /\ OneWrite
    /\ Miss(n, p)

OneTroubleNext ==
    \/ \E r \in Clients, op \in {"set", "get"}, n \in Nodes, k \in Keys :
          CallWithin(r, op, n, k)
    \/ \E r \in Clients : Serve(r)
    \/ \E r \in repl : Replicate(r)
    \/ \E m \in msgs : Deliver(m)
    \/ \E s \in Movers : Move(s)
    \/ \E n, p \in Nodes : MissWithin(n, p) \/ \E s \in Movers : Pong(n, p, s)
    \/ misses = 0 /\ \E n \in Nodes : Crash(n)

OneTroubleSpec == Init /\ [][OneTroubleNext]_vars

Symmetric == Permutations(Clients) \cup Permutations(Movers)
=============================================================================
