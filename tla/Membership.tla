----------------------------- MODULE Membership -----------------------------
(***************************************************************************)
(* What the failure detector of cache/cluster/gossip.go promises: the view *)
(* one server has of which peers are members.                              *)
(*                                                                         *)
(* `silence[p]` counts the heartbeats p has left unanswered in a row, up   *)
(* to DeadAfter.  A peer leaves only when the count is full and comes back *)
(* only when its last heartbeat was answered.                              *)
(***************************************************************************)
EXTENDS Naturals

CONSTANTS Peers, DeadAfter

VARIABLES members, silence

Answer(p) ==
    /\ silence' = [silence EXCEPT ![p] = 0]
    /\ UNCHANGED members

Silence(p) ==
    /\ silence' = [silence EXCEPT ![p] = IF @ < DeadAfter THEN @ + 1 ELSE @]
    /\ UNCHANGED members

Leave(p) ==
    /\ p \in members /\ silence[p] = DeadAfter
    /\ members' = members \ {p}
    /\ UNCHANGED silence

Join(p) ==
    /\ p \notin members /\ silence[p] = 0
    /\ members' = members \cup {p}
    /\ UNCHANGED silence

\* A restarted server takes every configured peer for alive.
Init ==
    /\ members = Peers
    /\ silence = [p \in Peers |-> 0]

Forget == members' = Peers /\ silence' = [p \in Peers |-> 0]

Next ==
    \/ \E p \in Peers : Answer(p) \/ Silence(p) \/ Leave(p) \/ Join(p)
    \/ Forget

Spec == Init /\ [][Next]_<<members, silence>>
=============================================================================
