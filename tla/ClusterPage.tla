---------------------------- MODULE ClusterPage ----------------------------
(***************************************************************************)
(* The page /cluster (web/src/app/cluster/page.tsx): it polls the API      *)
(* every 5 s, whether or not the last poll has been answered, shows the    *)
(* answer that came last and logs what changed from one to the next.       *)
(*                                                                         *)
(* An answer says of every subject what its state is: a node <<n>> is      *)
(* alive or unreachable, and a node that is alive tells the states <<n, p>>*)
(* it holds its peers in.  The list of keys is always empty, because the   *)
(* nodes do not know the command the API asks them for it with, so of      *)
(* fetchKeys only the time it takes is left, and of the rest of an answer  *)
(* (counters, memory, recent commands) nothing.                            *)
(***************************************************************************)
EXTENDS Api, Sequences, SequencesExt

CONSTANTS
    Subjects,       \* the subjects in the order of the answer
    MaxEvents,      \* the length the list of events is cut to: 30
    ClusterPolls,   \* bound: polls at a time
    MaxChanges      \* bound: how often the state of a subject changes

ASSUME ClusterPageAssumption ==
    /\ Subjects \in Seq(Seq(STRING))
    /\ \A i, j \in DOMAIN Subjects : Subjects[i] = Subjects[j] => i = j
    /\ \A i \in DOMAIN Subjects : Subjects[i] \notin {<<"cluster">>, <<"rebalance">>}
    /\ MaxEvents \in Nat \ {0} /\ ClusterPolls \in Nat \ {0} /\ MaxChanges \in Nat

VARIABLES
    clusterOpen,    \* the page is mounted
    truth,          \* the state of every subject
    changes,        \* how often one has changed
    data,           \* the answer shown, or NoData
    prevStates,     \* the state seen last, "none" where none was
    events,         \* newest first
    loading,        \* initialLoading
    ticks,          \* the polls
    rebal           \* a rebalance was asked for and has not been answered

clusterPageVars == <<clusterOpen, truth, changes, data, prevStates, events,
                     loading, ticks, rebal>>

Subject == ToSet(Subjects)
Nodes == {s \in Subject : Len(s) = 1}
PeerViews == Subject \ Nodes

StatesOf(s) == IF s \in Nodes THEN {"alive", "unreachable"} ELSE {"alive", "suspect", "dead"}

Answers == {a \in [Subject -> {"alive", "unreachable", "suspect", "dead", "none"}] :
              \A s \in Subject : a[s] \in StatesOf(s) \cup {"none"}}
AllAlive == [s \in Subject |-> "alive"]
NoData == [s \in Subject |-> "none"]

\* GET /v1/cluster: a node that does not answer INFO tells nothing of its peers.
AnswerOf(t) ==
    [s \in Subject |-> IF s \in PeerViews /\ t[<<s[1]>>] = "unreachable" THEN "none" ELSE t[s]]

NoTick == [cluster |-> "done", answer |-> NoData, keys |-> "done"]
Sent == [NoTick EXCEPT !.cluster = "sent", !.keys = "sent"]
SentLater == [NoTick EXCEPT !.cluster = "sent"]

Event(subject, from, to) == [subject |-> subject, from |-> from, to |-> to]

Push(list, new) == SubSeq(new \o list, 1, Min({MaxEvents, Len(new) + Len(list)}))

Connecting == Event(<<"cluster">>, "none", "connecting")
Rebalanced == Event(<<"rebalance">>, "none", "ended")

ClusterInit ==
    /\ clusterOpen = TRUE
    /\ truth = AllAlive /\ changes = 0
    /\ data = NoData /\ prevStates = NoData
    /\ events = <<Connecting>> /\ loading = TRUE
    /\ ticks = [i \in 1 .. ClusterPolls |-> IF i = 1 THEN Sent ELSE NoTick]
    /\ rebal = FALSE

ClusterIdle ==
    /\ clusterOpen = FALSE
    /\ truth = AllAlive /\ changes = 0
    /\ data = NoData /\ prevStates = NoData
    /\ events = <<>> /\ loading = TRUE
    /\ ticks = [i \in 1 .. ClusterPolls |-> NoTick]
    /\ rebal = FALSE

ClusterMount ==
    /\ ~ clusterOpen /\ clusterOpen' = TRUE
    /\ data' = NoData /\ prevStates' = NoData
    /\ events' = <<Connecting>> /\ loading' = TRUE
    /\ ticks' = [i \in 1 .. ClusterPolls |-> IF i = 1 THEN Sent ELSE NoTick]
    /\ rebal' = FALSE
    /\ UNCHANGED <<truth, changes>>

\* Every poll is aborted and the interval cleared; the answer to a rebalance that
\* is still to come finds no page.
ClusterUnmount ==
    /\ clusterOpen /\ clusterOpen' = FALSE
    /\ data' = NoData /\ prevStates' = NoData
    /\ events' = <<>> /\ loading' = TRUE
    /\ rebal' = FALSE
    /\ ticks' = [i \in 1 .. ClusterPolls |-> NoTick]
    /\ UNCHANGED <<truth, changes>>

-----------------------------------------------------------------------------
(* The cluster *)

Change ==
    /\ changes < MaxChanges /\ changes' = changes + 1
    /\ \E s \in Subject : \E new \in StatesOf(s) \ {truth[s]} :
          truth' = [truth EXCEPT ![s] = new]
    /\ UNCHANGED <<clusterOpen, data, prevStates, events, loading, ticks, rebal>>

-----------------------------------------------------------------------------
(* A poll *)

Free(i) == ticks[i] = NoTick

\* setInterval.  How long fetchKeys takes matters for the first screen only.
Poll(i) ==
    /\ clusterOpen /\ Free(i)
    /\ ticks' = [ticks EXCEPT ![i] = IF loading THEN Sent ELSE SentLater]
    /\ UNCHANGED <<clusterOpen, truth, changes, data, prevStates, events, loading, rebal>>

\* The API answers.
Serve(i) ==
    /\ reachable /\ ticks[i].cluster = "sent"
    /\ ticks' = [ticks EXCEPT ![i].cluster = "answered", ![i].answer = AnswerOf(truth)]
    /\ UNCHANGED <<clusterOpen, truth, changes, data, prevStates, events, loading, rebal>>

\* The i-th number of a set, counted from the greatest.
FromLast(set, i) == CHOOSE k \in set : Cardinality({j \in set : j >= k}) = i

\* What fetchCluster logs for an answer, newest first.
Changed(a) ==
    LET IsChange(s) == a[s] # "none" /\ prevStates[s] \notin {"none", a[s]}
        Log(s) == Event(s, prevStates[s], a[s])
        seen == {k \in DOMAIN Subjects : IsChange(Subjects[k])}
    IN  [i \in 1 .. Cardinality(seen) |-> Log(Subjects[FromLast(seen, i)])]

\* Mutant: what was seen first is kept.
SeenFirst(a) == [s \in Subject |-> IF prevStates[s] # "none" THEN prevStates[s] ELSE a[s]]

Seen(a) == [s \in Subject |-> IF a[s] # "none" THEN a[s] ELSE prevStates[s]]

\* Promise.all: the poll is over, and with it the first screen, when both
\* fetches are.
Settle(i, tick) ==
    LET over == tick.cluster = "done" /\ tick.keys = "done"
        after == [ticks EXCEPT ![i] = tick]
    IN  /\ loading' = (loading /\ ~ over)
        /\ ticks' = IF over THEN [j \in DOMAIN ticks |-> [after[j] EXCEPT !.keys = "done"]]
                    ELSE after

\* fetchCluster has its answer; answers may come in any order.
Receive(i) ==
    /\ ticks[i].cluster = "answered"
    /\ LET a == ticks[i].answer
       IN  /\ data' = a
           /\ events' = Push(events, Changed(a))
           /\ prevStates' = Seen(a)
    /\ Settle(i, [ticks[i] EXCEPT !.cluster = "done", !.answer = NoData])
    /\ UNCHANGED <<clusterOpen, truth, changes, rebal>>

\* fetchCluster got null.
ReceiveNothing(i) ==
    /\ ~ reachable /\ ticks[i].cluster # "done"
    /\ Settle(i, [ticks[i] EXCEPT !.cluster = "done", !.answer = NoData])
    /\ UNCHANGED <<clusterOpen, truth, changes, data, prevStates, events, rebal>>

\* fetchKeys ends, with no keys or with null.
KeysEnd(i) ==
    /\ ticks[i].keys = "sent"
    /\ Settle(i, [ticks[i] EXCEPT !.keys = "done"])
    /\ UNCHANGED <<clusterOpen, truth, changes, data, prevStates, events, rebal>>

\* The button, disabled while a rebalance runs.
TriggerRebal ==
    /\ clusterOpen /\ ~ loading /\ ~ rebal /\ rebal' = TRUE
    /\ UNCHANGED <<clusterOpen, truth, changes, data, prevStates, events, loading, ticks>>

\* The outcome, "triggered" or "failed", is left out.
RebalEnds ==
    /\ rebal /\ rebal' = FALSE
    /\ events' = Push(events, <<Rebalanced>>)
    /\ UNCHANGED <<clusterOpen, truth, changes, data, prevStates, loading, ticks>>

\* Mutant: there is no interval.
ClusterRunsOnce(i) == Serve(i) \/ Receive(i) \/ ReceiveNothing(i) \/ KeysEnd(i)

ClusterRuns(i) == Poll(i) \/ Serve(i) \/ Receive(i) \/ ReceiveNothing(i) \/ KeysEnd(i)

ClusterNext == Change \/ TriggerRebal \/ RebalEnds \/ \E i \in DOMAIN ticks : ClusterRuns(i)

-----------------------------------------------------------------------------
(* What is on the screen *)

\* A card for every node, with a row for each peer it tells of.
Cards(a) == [n \in Nodes |-> [alive |-> a[n] = "alive",
                              peers |-> {<<v[2], a[v]>> : v \in
                                           {v \in PeerViews : v[1] = n[1] /\ a[v] # "none"}}]]

\* HashRing: the nodes that own an arc.
Arcs(a) == {n \in Nodes : a[n] = "alive"}

\* The summary of the API, in the header.
NodesAlive(a) == Cardinality({n \in Nodes : a[n] = "alive"})

Screen == IF loading THEN "spinner" ELSE IF data = NoData THEN "connecting" ELSE "cluster"

-----------------------------------------------------------------------------
(* Properties *)

Logged == (UNION {{Event(s, from, to) : from, to \in StatesOf(s)} : s \in Subject})
          \cup {Connecting, Rebalanced}

ClusterPageTypeOK ==
    /\ clusterOpen \in BOOLEAN /\ loading \in BOOLEAN /\ rebal \in BOOLEAN
    /\ truth \in Answers /\ changes \in 0 .. MaxChanges
    /\ data \in Answers /\ prevStates \in Answers
    /\ events \in Seq(Logged) /\ Len(events) <= MaxEvents
    /\ ticks \in [1 .. ClusterPolls -> [cluster : {"sent", "answered", "done"},
                                        answer : Answers, keys : {"sent", "done"}]]

\* The list of events tells a story without a gap: of every subject, each event
\* starts from the state the one before ended in and the newest ends in the
\* state on the card, however late and in whatever order answers arrive, also
\* when a node could not tell in between and when the list was cut.
EventsChain ==
    \A s \in Subject :
        LET of == {i \in DOMAIN events : events[i].subject = s}
        IN  /\ \A i, j \in of : i < j /\ (\A k \in of : k <= i \/ j <= k)
                                => events[i].from = events[j].to
            /\ \A i \in of : (\A k \in of : i <= k) /\ data[s] # "none"
                                => events[i].to = data[s]

\* While the page stays open, the API within reach and the cluster as it is,
\* the cards, the ring and the header come to show the cluster as it is.
ClusterConverges ==
    <>[](clusterOpen /\ reachable) =>
        <>[](/\ Screen = "cluster"
             /\ Cards(data) = Cards(AnswerOf(truth))
             /\ Arcs(data) = {n \in Nodes : truth[n] = "alive"}
             /\ NodesAlive(data) = Cardinality({n \in Nodes : truth[n] = "alive"}))
=============================================================================
