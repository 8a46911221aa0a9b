----------------------------- MODULE ServerPage -----------------------------
(***************************************************************************)
(* The page /server (web/src/app/server/page.tsx): two groups of requests, *)
(* one every 5 s and one every 15 s, each applied when all of its requests *)
(* have ended, and panels that show what was applied last.                 *)
(*                                                                         *)
(* One of the paths is followed, with the other requests of its group as   *)
(* one.  Of its data only the version is kept, how often the API's data    *)
(* had changed when it answered.                                           *)
(***************************************************************************)
EXTENDS Api

CONSTANTS
    FastPaths,      \* the paths of fast(), one of them "server"
    SlowPaths,      \* the paths of slow()
    ServerPolls,    \* bound: polls of one group at a time
    MaxVersion      \* bound: how often the data change

ASSUME ServerPageAssumption ==
    "server" \in FastPaths /\ ServerPolls \in Nat \ {0} /\ MaxVersion \in Nat

VARIABLES
    serverOpen,     \* the page is mounted
    path,           \* the path that is followed; constant
    version,        \* the API's data
    shown,          \* the version shown, or Nothing
    initialLoading,
    polls           \* the polls of the path's group

serverPageVars == <<serverOpen, path, version, shown, initialLoading, polls>>

Nothing == -1
Versions == 0 .. MaxVersion

\* The request for the path is "sent", then it has "data" (of version `at`) or
\* "null"; `rest` when the other requests of the group have ended.
NoPoll == [state |-> "none", at |-> Nothing, rest |-> FALSE]
NewPoll == [NoPoll EXCEPT !.state = "sent"]

FirstPoll == [i \in 1 .. ServerPolls |-> IF i = 1 THEN NewPoll ELSE NoPoll]

ServerInit ==
    /\ serverOpen = TRUE /\ path \in FastPaths \cup SlowPaths
    /\ version = 0 /\ shown = Nothing
    /\ initialLoading = TRUE /\ polls = FirstPoll

ServerIdle ==
    /\ serverOpen = FALSE /\ path = CHOOSE p \in FastPaths : TRUE
    /\ version = 0 /\ shown = Nothing
    /\ initialLoading = TRUE
    /\ polls = [i \in 1 .. ServerPolls |-> NoPoll]

ServerMount ==
    /\ ~ serverOpen /\ serverOpen' = TRUE
    /\ shown' = Nothing /\ initialLoading' = TRUE /\ polls' = FirstPoll
    /\ UNCHANGED <<path, version>>

\* Everything under way is aborted, both intervals are cleared.
ServerUnmount ==
    /\ serverOpen /\ serverOpen' = FALSE
    /\ shown' = Nothing /\ initialLoading' = TRUE
    /\ polls' = [i \in 1 .. ServerPolls |-> NoPoll]
    /\ UNCHANGED <<path, version>>

\* The data of the API change.
NewVersion ==
    /\ version < MaxVersion /\ version' = version + 1
    /\ UNCHANGED <<serverOpen, path, shown, initialLoading, polls>>

\* setInterval, whether or not the last poll has ended.
StartPoll(i) ==
    /\ serverOpen /\ polls[i] = NoPoll
    /\ polls' = [polls EXCEPT ![i] = NewPoll]
    /\ UNCHANGED <<serverOpen, path, version, shown, initialLoading>>

Respond(i) ==
    /\ reachable /\ polls[i].state = "sent"
    /\ polls' = [polls EXCEPT ![i].state = "data", ![i].at = version]
    /\ UNCHANGED <<serverOpen, path, version, shown, initialLoading>>

\* The request fails, or its answer is lost on the way.
Fail(i) ==
    /\ ~ reachable /\ polls[i].state \in {"sent", "data"}
    /\ polls' = [polls EXCEPT ![i].state = "null", ![i].at = Nothing]
    /\ UNCHANGED <<serverOpen, path, version, shown, initialLoading>>

RestEnds(i) ==
    /\ polls[i].state # "none" /\ ~ polls[i].rest
    /\ polls' = [polls EXCEPT ![i].rest = TRUE]
    /\ UNCHANGED <<serverOpen, path, version, shown, initialLoading>>

Ended(i) == polls[i].state \in {"data", "null"} /\ polls[i].rest

\* Mutant: null is applied like data.
ApplyNull(i) ==
    /\ Ended(i)
    /\ polls' = [polls EXCEPT ![i] = NoPoll]
    /\ shown' = polls[i].at
    /\ initialLoading' = (initialLoading /\ path \notin FastPaths)
    /\ UNCHANGED <<serverOpen, path, version>>

\* fast() and slow() after Promise.all: only data are applied; with the first
\* answers of fast(), also with null, the page is shown.
Apply(i) ==
    /\ Ended(i)
    /\ polls' = [polls EXCEPT ![i] = NoPoll]
    /\ shown' = IF polls[i].state = "data" THEN polls[i].at ELSE shown
    /\ initialLoading' = (initialLoading /\ path \notin FastPaths)
    /\ UNCHANGED <<serverOpen, path, version>>

\* The first fast() ends, when a path of slow() is followed.
FastEnds ==
    /\ serverOpen /\ initialLoading /\ path \in SlowPaths
    /\ initialLoading' = FALSE
    /\ UNCHANGED <<serverOpen, path, version, shown, polls>>

\* Mutant: a poll starts only while the page is loading.
ServerRunsOnce(i) ==
    \/ initialLoading /\ StartPoll(i)
    \/ Respond(i) \/ Fail(i) \/ RestEnds(i) \/ Apply(i)

ServerRuns(i) == StartPoll(i) \/ Respond(i) \/ Fail(i) \/ RestEnds(i) \/ Apply(i)

ServerNext == NewVersion \/ FastEnds \/ \E i \in 1 .. ServerPolls : ServerRuns(i)

ServerSpec ==
    /\ ApiInit /\ ServerInit
    /\ [][\/ ServerNext /\ UNCHANGED reachable
          \/ (ServerMount \/ ServerUnmount) /\ UNCHANGED reachable
          \/ ApiNext /\ UNCHANGED serverPageVars]_<<reachable, serverPageVars>>

-----------------------------------------------------------------------------
(* What is on the screen *)

\* The row of statistics without data: zeros, and a dash for the visitors.
Stats == IF path = "server" THEN "zeros" ELSE "dash"

\* The panel of the path without data: an empty box for the days, and the texts
\* of the other panels.
Placeholder ==
    CASE path \in {"server", "visitors"} -> Stats
      [] path = "logs" -> "Waiting for requests"
      [] path = "availability" -> "empty"
      [] path = "response-times" -> "No data yet"
      [] path = "cluster" -> "Loading"

ShowsData == ~ initialLoading /\ shown # Nothing

Panel == [text |-> IF initialLoading THEN "Connecting to the phone"
                   ELSE IF shown = Nothing THEN Placeholder ELSE "data",
          version |-> IF ShowsData THEN shown ELSE Nothing]

-----------------------------------------------------------------------------
(* Properties *)

ServerPageTypeOK ==
    /\ serverOpen \in BOOLEAN /\ initialLoading \in BOOLEAN
    /\ path \in FastPaths \cup SlowPaths
    /\ version \in Versions /\ shown \in Versions \cup {Nothing}
    /\ polls \in [1 .. ServerPolls ->
                    [state : {"none", "sent", "data", "null"},
                     at : Versions \cup {Nothing}, rest : BOOLEAN]]

\* A panel that has shown data shows data until the page is closed: neither a
\* request of its own that fails nor one of its group, nor any order in which
\* polls end, brings back a placeholder or the first screen.
PanelStays == [][ShowsData /\ serverOpen' => ShowsData']_serverPageVars

\* While the page stays open, the API within reach and its data as they are,
\* the panel comes to show these data, whatever old answers are still to come.
ServerConverges ==
    <>[](serverOpen /\ reachable) => <>[](Panel = [text |-> "data", version |-> version])
=============================================================================
