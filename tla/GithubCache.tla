---------------------------- MODULE GithubCache ----------------------------
(***************************************************************************)
(* The GitHub endpoints of the API (api/app/routers/github.py) over the    *)
(* distributed cache as its client sees it (api/app/cache/client.py).      *)
(*                                                                         *)
(* Several requests for one endpoint run at once.  Each reads the cached   *)
(* entry, serves it while it is fresh, else asks GitHub whether it still   *)
(* holds (304) or fetches anew; every await is a step of its own.  The     *)
(* client turns each failure of the cache into a miss, and gives up on a   *)
(* write that the cache may still apply later.                             *)
(*                                                                         *)
(* One part of the content is watched, the user's profile or what comes    *)
(* from the repositories, and of it only its lag: 0 while it is what       *)
(* GitHub has, else 1 more than the time since GitHub replaced it.  Times  *)
(* are ages and remaining times, so no clock has to be bounded.  The unit  *)
(* is coarse: a request takes at most Delay units.                         *)
(***************************************************************************)
EXTENDS Integers, FiniteSets, FiniteSetsExt

CONSTANTS
    Requests,
    Endpoints,      \* of "github", "projects", "langs", "activity"
    Refresh,        \* REFRESH_AFTER; 60 s for /activity
    Ttl,            \* CACHE_TTL; 600 s for /activity
    Delay           \* the timeouts of one request, and of a late cache write

ASSUME GithubAssumption ==
    /\ Endpoints \subseteq {"github", "projects", "langs", "activity"}
    /\ {Refresh, Ttl, Delay} \subseteq Nat

VARIABLES
    endpoint,   \* the endpoint the requests are for; constant
    part,       \* the part watched, "user" or "repos"; constant
    few,        \* the user has no more than five repositories; constant
    cache,      \* the entry in the distributed cache
    live,       \* its remaining time to live, -1 when there is none
    req         \* the requests

vars == <<endpoint, part, few, cache, live, req>>

MaxLag == Ttl + 3 * Delay + 2       \* lags from here on are not told apart
Missing == -1                       \* not fetched, or the fetch failed
Lags == Missing .. MaxLag

\* The lag of the watched part, the ETag of the repositories ("none" when there is
\* none) and the age of the time stamp _at.
Entries == [lag : Lags, etag : {"none", "current", "old"}, age : 0 .. Refresh]

\* No entry: cache.get returned None.
None == [lag |-> Missing, etag |-> "none", age |-> Refresh + 1]

Idle == [pc |-> "idle", left |-> 0, raw |-> None, out |-> None,
         reply |-> "none", had |-> FALSE]

Conditional == endpoint \in {"github", "projects"}
TwoSteps == endpoint \in {"github", "langs"}

-----------------------------------------------------------------------------
(* The environment *)

Older(entry) ==
    IF entry = None THEN None
    ELSE [entry EXCEPT !.lag = IF @ > 0 THEN Min({@ + 1, MaxLag}) ELSE @,
                       !.age = Min({@ + 1, Refresh})]

\* Time passes while no answer is under way and no request or late write is
\* overdue.
Tick ==
    /\ \A r \in Requests : req[r].pc # "idle" => req[r].pc # "answered" /\ req[r].left > 0
    /\ req' = [r \in Requests |->
                 [req[r] EXCEPT !.raw = Older(@), !.out = Older(@),
                                !.left = IF req[r].pc = "idle" THEN 0 ELSE @ - 1]]
    /\ cache' = IF live > 0 THEN Older(cache) ELSE None
    /\ live' = IF live >= 0 THEN live - 1 ELSE live
    /\ UNCHANGED <<endpoint, part, few>>

\* Part p changes at GitHub.
Replaced(entry, p) ==
    [entry EXCEPT !.lag = IF p = part /\ @ = 0 THEN 1 ELSE @,
                  !.etag = IF p = "repos" /\ @ = "current" THEN "old" ELSE @]

Edit(p) ==
    /\ cache' = Replaced(cache, p)
    /\ req' = [r \in Requests |-> [req[r] EXCEPT !.raw = Replaced(@, p),
                                                 !.out = Replaced(@, p)]]
    /\ UNCHANGED <<endpoint, part, few, live>>

-----------------------------------------------------------------------------
(* A request *)

Start(r) ==
    /\ req[r].pc = "idle"
    /\ req' = [req EXCEPT ![r] = [Idle EXCEPT !.pc = "get", !.left = Delay]]
    /\ UNCHANGED <<endpoint, part, few, cache, live>>

\* What r answers; `had` remembers, for a property, that it found a stale entry.
Reply(r, how, entry) ==
    req' = [req EXCEPT ![r] = [Idle EXCEPT !.pc = "answered", !.reply = how,
                                           !.out = entry, !.had = req[r].had]]

\* cache.get found an entry.
GetHit(r) ==
    /\ req[r].pc = "get" /\ live >= 0
    /\ IF cache.age < Refresh
       THEN Reply(r, "cache", cache)
       ELSE req' = [req EXCEPT ![r].raw = cache, ![r].had = TRUE,
                               ![r].pc = IF Conditional /\ cache.etag # "none"
                                         THEN "check" ELSE "fetch"]
    /\ UNCHANGED <<endpoint, part, few, cache, live>>

\* cache.get found nothing, or failed.
GetMiss(r) ==
    /\ req[r].pc = "get"
    /\ req' = [req EXCEPT ![r].pc = "fetch"]
    /\ UNCHANGED <<endpoint, part, few, cache, live>>

\* /github asks about a page of five with the ETag of a page of ten, which is
\* another document unless there are no more than five repositories.
SamePage == endpoint # "github" \/ few

NotModified(r) == SamePage /\ req[r].raw.etag = "current"

Extended(r) ==
    [req EXCEPT ![r].pc = "store", ![r].reply = "extended", ![r].raw = None,
                ![r].out = [req[r].raw EXCEPT !.age = 0]]

\* Mutant: any answer counts as 304.
CheckAny(r) ==
    /\ req[r].pc = "check"
    /\ req' = Extended(r)
    /\ UNCHANGED <<endpoint, part, few, cache, live>>

\* The conditional request: 304 extends the entry, 200 leads to a full fetch.
Check(r) ==
    /\ req[r].pc = "check"
    /\ req' = IF NotModified(r) THEN Extended(r) ELSE [req EXCEPT ![r].pc = "fetch"]
    /\ UNCHANGED <<endpoint, part, few, cache, live>>

\* Mutant: an entry that could not be confirmed is given up.
CheckFailsDiscard(r) ==
    /\ req[r].pc = "check"
    /\ req' = [req EXCEPT ![r].pc = "fetch", ![r].raw = None]
    /\ UNCHANGED <<endpoint, part, few, cache, live>>

\* No answer, or an answer that is neither 200 nor 304.
CheckFails(r) ==
    /\ req[r].pc = "check"
    /\ req' = [req EXCEPT ![r].pc = "fetch"]
    /\ UNCHANGED <<endpoint, part, few, cache, live>>

\* The stale entry is of no more use once there is something to store.
Fetched(r, next, lag, etag) ==
    req' = [req EXCEPT ![r].pc = next, ![r].reply = "fetched",
                       ![r].raw = IF next = "store" THEN None ELSE @,
                       ![r].out = [lag |-> lag, etag |-> etag, age |-> 0]]

\* The first calls of a full fetch; those per repository come next.
Fetch(r) ==
    /\ req[r].pc = "fetch"
    /\ Fetched(r, IF TwoSteps THEN "details" ELSE "store",
               IF TwoSteps /\ part = "repos" THEN Missing ELSE 0,
               IF Conditional THEN "current" ELSE "none")
    /\ UNCHANGED <<endpoint, part, few, cache, live>>

\* /github makes do without its list of repositories.
FetchUserOnly(r) ==
    /\ req[r].pc = "fetch" /\ endpoint = "github"
    /\ Fetched(r, "store", IF part = "user" THEN 0 ELSE Missing, "none")
    /\ UNCHANGED <<endpoint, part, few, cache, live>>

\* The stale entry is better than an error.
FallBack(r) ==
    /\ IF req[r].raw # None THEN Reply(r, "fallback", req[r].raw)
       ELSE Reply(r, "error", None)
    /\ UNCHANGED <<endpoint, part, few, cache, live>>

\* GitHub does not answer, or not with what was asked for.
FetchFails(r) == req[r].pc = "fetch" /\ FallBack(r)

\* The calls per repository, without those that fail.
Details(r) ==
    /\ req[r].pc = "details"
    /\ \E lag \in IF part = "repos" THEN {0, Missing} ELSE {req[r].out.lag} :
          Fetched(r, "store", lag, req[r].out.etag)
    /\ UNCHANGED <<endpoint, part, few, cache, live>>

\* What they return, or what the list holds, is not as expected.
DetailsFails(r) == req[r].pc = "details" /\ FallBack(r)

\* Mutant: an entry is stored without its TTL.
StoreForever(r) ==
    /\ req[r].pc = "store"
    /\ cache' = req[r].out /\ live' = MaxLag
    /\ Reply(r, req[r].reply, req[r].out)
    /\ UNCHANGED <<endpoint, part, few>>

\* cache.set, then the answer.
Store(r) ==
    /\ req[r].pc = "store"
    /\ cache' = req[r].out /\ live' = Ttl
    /\ Reply(r, req[r].reply, req[r].out)
    /\ UNCHANGED <<endpoint, part, few>>

\* cache.set failed, or timed out while the cache still works on it.
StoreFails(r) ==
    /\ req[r].pc = "store"
    /\ req' = [req EXCEPT ![r].pc = "unsaved"]
    /\ UNCHANGED <<endpoint, part, few, cache, live>>

\* The caller has the answer; a write that was given up on stays behind.
End(r) ==
    /\ req[r].pc \in {"answered", "unsaved"}
    /\ req' = [req EXCEPT ![r] = IF req[r].pc = "answered" THEN Idle
                                 ELSE [Idle EXCEPT !.pc = "late", !.left = Delay,
                                                   !.out = req[r].out]]
    /\ UNCHANGED <<endpoint, part, few, cache, live>>

\* A write that was given up on reaches the cache after all, or never does.
LateWrite(r) ==
    /\ req[r].pc = "late"
    /\ \/ cache' = req[r].out /\ live' = Ttl
       \/ UNCHANGED <<cache, live>>
    /\ req' = [req EXCEPT ![r] = Idle]
    /\ UNCHANGED <<endpoint, part, few>>

Init ==
    /\ endpoint \in Endpoints
    /\ part \in IF endpoint = "github" THEN {"user", "repos"} ELSE {"repos"}
    /\ few \in IF endpoint = "github" THEN BOOLEAN ELSE {FALSE}
    /\ cache = None /\ live = -1
    /\ req = [r \in Requests |-> Idle]

Run(r) ==
    \/ GetHit(r) \/ GetMiss(r) \/ Check(r) \/ CheckFails(r)
    \/ Fetch(r) \/ FetchUserOnly(r) \/ FetchFails(r)
    \/ Details(r) \/ DetailsFails(r)
    \/ Store(r) \/ StoreFails(r) \/ LateWrite(r) \/ End(r)

Next ==
    \/ Tick
    \/ \E p \in {"user", "repos"} : Edit(p)
    \/ \E r \in Requests : Start(r) \/ Run(r)

Spec == Init /\ [][Next]_vars

-----------------------------------------------------------------------------
(* Properties *)

TypeOK ==
    /\ endpoint \in Endpoints /\ part \in {"user", "repos"} /\ few \in BOOLEAN
    /\ cache \in Entries \cup {None}
    /\ live \in -1 .. Ttl
    /\ live >= 0 => cache # None
    /\ req \in [Requests ->
         [pc : {"idle", "get", "check", "fetch", "details", "store", "answered",
                "unsaved", "late"},
          left : 0 .. Delay, raw : Entries \cup {None}, out : Entries \cup {None},
          reply : {"none", "cache", "extended", "fetched", "fallback", "error"},
          had : BOOLEAN]]

Answered(r) == req[r].pc \in {"answered", "unsaved"}

\* What GitHub replaced more than `time` ago is not in the answer.
Within(lag, time) == lag <= time + 1

\* An answer is not older than the refresh interval and the time one request
\* takes, whatever other requests revalidate, refetch or write back meanwhile;
\* only when GitHub fails may it be as old as the cache keeps entries.  The
\* profile is covered by no ETag, so a 304 (if `few`) may keep it longer.
FreshAnswers ==
    \A r \in Requests : Answered(r) =>
        \/ part = "user" /\ few
        \/ Within(req[r].out.lag, IF req[r].reply = "fallback"
                                  THEN Ttl + 3 * Delay ELSE Refresh + Delay)

\* "If fetch fails but we have stale cache, return it rather than erroring": a
\* request that found an entry, however stale, ends with something to show,
\* whichever of the calls that follow fails, the question about the entry, the
\* first ones of the fetch or those per repository.
ErrorNeedsBoth ==
    \A r \in Requests : Answered(r) /\ req[r].reply = "error" => ~ req[r].had

\* "304 Not Modified -> data unchanged -> extend cache": when GitHub answers the
\* question about a stale entry whose repositories it still has, the entry is
\* extended and nothing is fetched.
UnchangedIsConfirmed ==
    [][\A r \in Requests : Check(r) /\ req[r].raw.etag = "current" =>
                               req'[r].reply = "extended"]_vars
=============================================================================
