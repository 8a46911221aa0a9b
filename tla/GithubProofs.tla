---------------------------- MODULE GithubProofs ----------------------------
(***************************************************************************)
(* Proofs about GithubCache for any number of concurrent requests, any     *)
(* endpoints, and any refresh interval, time to live and timeout.          *)
(***************************************************************************)
EXTENDS GithubCache, TLAPS

\* The smaller one of two integers.
LEMMA MinOfTwo ==
    ASSUME NEW a \in Int, NEW b \in Int
    PROVE  Min({a, b}) = IF a <= b THEN a ELSE b
BY DEF Min

-----------------------------------------------------------------------------
(* Entries under the environment's steps *)

\* No entry is none, and the lags are integers.
LEMMA EntriesApart ==
    /\ None \notin Entries
    /\ None.lag = Missing /\ None.etag = "none" /\ None.age = Refresh + 1
    /\ 0 \in Lags /\ Missing \in Lags /\ Lags \subseteq Int /\ MaxLag \in Nat
BY GithubAssumption DEF None, Entries, Lags, Missing, MaxLag

\* A tick makes an entry older by one at most.
LEMMA OlderEntry ==
    ASSUME NEW e \in Entries
    PROVE  /\ Older(e) \in Entries
           /\ Older(e).etag = e.etag
           /\ Older(e).lag = IF e.lag > 0 THEN IF e.lag + 1 <= MaxLag THEN e.lag + 1
                                               ELSE MaxLag
                             ELSE e.lag
           /\ Older(e).age = IF e.age + 1 <= Refresh THEN e.age + 1 ELSE Refresh
<1>1. e # None
  BY EntriesApart
<1>2. /\ e.lag \in Lags /\ e.age \in 0 .. Refresh /\ e.etag \in {"none", "current", "old"}
      /\ Refresh \in Nat /\ MaxLag \in Nat
  BY EntriesApart, GithubAssumption DEF Entries
<1>a. e.lag + 1 \in Int /\ e.age + 1 \in Int /\ MaxLag \in Int /\ Refresh \in Int
  BY <1>2 DEF Lags, Missing
<1>3. /\ Min({e.lag + 1, MaxLag}) = IF e.lag + 1 <= MaxLag THEN e.lag + 1 ELSE MaxLag
      /\ Min({e.age + 1, Refresh}) = IF e.age + 1 <= Refresh THEN e.age + 1 ELSE Refresh
  <2>1. \A a, b \in Int : Min({a, b}) = IF a <= b THEN a ELSE b
    BY MinOfTwo
  <2> QED
    BY <1>a, <2>1, Zenon
<1> DEFINE lag == IF e.lag > 0 THEN Min({e.lag + 1, MaxLag}) ELSE e.lag
           age == Min({e.age + 1, Refresh})
<1>4. lag \in Lags /\ age \in 0 .. Refresh
  BY <1>2, <1>3 DEF Lags, Missing
<1>5. Older(e) = [e EXCEPT !.lag = lag, !.age = age]
  BY <1>1 DEF Older
<1>6. /\ Older(e) \in Entries /\ Older(e).etag = e.etag
      /\ Older(e).lag = lag /\ Older(e).age = age
  <2> HIDE DEF lag, age
  <2> QED
    BY <1>4, <1>5, <1>2 DEF Entries
<1> QED
  BY <1>3, <1>6

\* A change at GitHub makes an entry that was current one step behind.
LEMMA ReplacedEntry ==
    ASSUME NEW e \in Entries, NEW p
    PROVE  /\ Replaced(e, p) \in Entries
           /\ Replaced(e, p).age = e.age
           /\ Replaced(e, p).lag = IF p = part /\ e.lag = 0 THEN 1 ELSE e.lag
           /\ Replaced(e, p).etag = IF p = "repos" /\ e.etag = "current" THEN "old"
                                    ELSE e.etag
<1> DEFINE lag == IF p = part /\ e.lag = 0 THEN 1 ELSE e.lag
           etag == IF p = "repos" /\ e.etag = "current" THEN "old" ELSE e.etag
<1>1. e.lag \in Lags /\ e.etag \in {"none", "current", "old"}
  BY DEF Entries
<1>2. 1 \in Lags
  BY GithubAssumption DEF Lags, Missing, MaxLag
<1>3. lag \in Lags /\ etag \in {"none", "current", "old"}
  BY <1>1, <1>2
<1>4. Replaced(e, p) = [e EXCEPT !.lag = lag, !.etag = etag]
  BY DEF Replaced
<1> HIDE DEF lag, etag
<1>5. /\ Replaced(e, p) \in Entries /\ Replaced(e, p).age = e.age
      /\ Replaced(e, p).lag = lag /\ Replaced(e, p).etag = etag
  BY <1>3, <1>4 DEF Entries
<1> QED
  BY <1>5 DEF lag, etag

\* The passing of time and a change on GitHub leave the absent entry as it is.
LEMMA NoneStays ==
    /\ Older(None) = None
    /\ \A p : Replaced(None, p) = None
<1>1. ASSUME NEW p PROVE Replaced(None, p) = None
  <2>1. Replaced(None, p) = [None EXCEPT !.lag = None.lag, !.etag = None.etag]
    BY EntriesApart DEF Replaced, Missing
  <2> QED
    BY <2>1 DEF None
<1> QED
  BY <1>1 DEF Older

-----------------------------------------------------------------------------
(* The inductive invariant *)

Stages == {"idle", "get", "check", "fetch", "details", "store", "answered",
           "unsaved", "late"}

Records ==
    [pc : Stages, left : 0 .. Delay, raw : Entries \cup {None}, out : Entries \cup {None},
     reply : {"none", "cache", "extended", "fetched", "fallback", "error"},
     had : BOOLEAN]

\* A request that found a stale entry still has it in every stage that may fail.
Shape(q) ==
    /\ q.pc = "idle" => q.left = 0 /\ q.raw = None /\ q.out = None
    /\ q.pc \in {"details", "store", "unsaved"} =>
         q.out \in Entries /\ q.reply \in {"extended", "fetched"}
    /\ q.pc = "late" => q.out \in Entries
    /\ q.pc \in {"get", "check", "fetch", "details"} /\ q.had => q.raw # None
    /\ q.reply = "error" => q.pc = "answered" /\ ~ q.had

\* An entry younger than the refresh interval lags by no more than its age and
\* the request that fetched it, for the entry is stamped when the last call of a
\* fetch returns; one whose ETag GitHub still has lags in nothing the ETag covers.
Sound(p, e) ==
    /\ e.age < Refresh => e.lag <= e.age + Delay + 1
    /\ p = "repos" /\ e.etag = "current" => e.lag <= 0

\* What a request holds lags by no more than the time since it was confirmed.
Fresh(p, q) ==
    /\ Sound(p, q.raw) /\ Sound(p, q.out)
    /\ q.raw.lag <= Ttl + 3 * Delay - q.left + 1
    /\ q.pc \in {"details", "store", "unsaved"} => q.out.lag <= Delay - q.left + 1
    /\ q.pc = "late" => q.out.lag <= 2 * Delay - q.left + 1
    /\ q.pc = "answered" =>
         q.out.lag <= IF q.reply = "fallback" THEN Ttl + 3 * Delay + 1
                      ELSE Refresh + Delay + 1

\* The profile of a user of few repositories is covered by no ETag.
Covered == ~ (part = "user" /\ few)

\* An entry with a remaining time to live l, as the cache may hold it.
Cached(p, e, l) ==
    Sound(p, e) /\ (l >= 0 => e.lag <= Ttl + 2 * Delay - l + 1)

Kept(e, l) ==
    e \in Entries \cup {None} /\ l \in -1 .. Ttl /\ (l >= 0 => e # None)

AllFresh ==
    /\ Cached(part, cache, live)
    /\ \A r \in Requests : Fresh(part, req[r])

IInv ==
    /\ TypeOK
    /\ part = "user" => endpoint = "github"
    /\ \A r \in Requests : Shape(req[r])
    /\ Covered => AllFresh

\* The type invariant, with the sets of requests and of cached entries named.
LEMMA TypeOfRequests ==
    TypeOK <=> /\ endpoint \in Endpoints /\ part \in {"user", "repos"} /\ few \in BOOLEAN
               /\ Kept(cache, live)
               /\ req \in [Requests -> Records]
BY DEF TypeOK, Records, Stages, Kept

\* A step that leaves the requests and the cache as the invariant says.
LEMMA AllRequests ==
    ASSUME IInv, UNCHANGED <<endpoint, part, few>>, req' \in [Requests -> Records],
           \A r \in Requests : Shape(req'[r]) /\ (Covered => Fresh(part, req'[r])),
           Kept(cache', live'), Covered => Cached(part, cache', live')
    PROVE  IInv'
<1>1. TypeOK'
  BY TypeOfRequests DEF IInv, TypeOK, Records, Stages, Kept
<1>2. (\A r \in Requests : Shape(req[r]))'
  BY DEF Shape
<1>3. (part = "user" => endpoint = "github")'
  BY DEF IInv
<1>4. AllFresh' <=> /\ Cached(part, cache', live')
                    /\ \A r \in Requests : Fresh(part, req'[r])
  BY DEF AllFresh, Cached, Sound, Fresh
<1>5. Covered' => AllFresh'
  BY <1>4 DEF Covered
<1> QED
  BY <1>1, <1>2, <1>3, <1>5 DEF IInv

\* The same for a step of one request.
LEMMA OneRequest ==
    ASSUME IInv, NEW r \in Requests, NEW q \in Records, req' = [req EXCEPT ![r] = q],
           Shape(q), Covered => Fresh(part, q),
           UNCHANGED <<endpoint, part, few>>,
           Kept(cache', live'), Covered => Cached(part, cache', live')
    PROVE  IInv'
<1>1. req \in [Requests -> Records]
  BY TypeOfRequests DEF IInv
<1>2. /\ req' \in [Requests -> Records]
      /\ req'[r] = q /\ \A s \in Requests : s # r => req'[s] = req[s]
  BY <1>1
<1>3. \A s \in Requests : Shape(req'[s]) /\ (Covered => Fresh(part, req'[s]))
  BY <1>2 DEF IInv, AllFresh
<1> QED
  BY <1>2, <1>3, AllRequests

\* The same for a step that leaves the cache alone.
LEMMA OneRequestOnly ==
    ASSUME IInv, NEW r \in Requests, NEW q \in Records, req' = [req EXCEPT ![r] = q],
           Shape(q), Covered => Fresh(part, q),
           UNCHANGED <<endpoint, part, few, cache, live>>
    PROVE  IInv'
<1>1. Kept(cache, live) /\ (Covered => Cached(part, cache, live))
  BY TypeOfRequests DEF IInv, AllFresh
<1>2. cache' = cache /\ live' = live /\ UNCHANGED <<endpoint, part, few>>
  OBVIOUS
<1>3. Kept(cache', live') /\ (Covered => Cached(part, cache', live'))
  BY <1>1, <1>2
<1> QED
  BY <1>2, <1>3, OneRequest

-----------------------------------------------------------------------------
(* The records the steps leave *)

\* The absent entry is sound.
LEMMA NoneFresh ==
    /\ None \in Entries \cup {None}
    /\ \A p : Sound(p, None)
BY EntriesApart, GithubAssumption DEF Sound, Missing

\* The fields of a request that is not running.
LEMMA IdleRecord ==
    /\ Idle \in Records /\ Idle.pc = "idle" /\ Idle.left = 0 /\ Idle.raw = None
    /\ Idle.out = None /\ Idle.reply = "none" /\ Idle.had = FALSE
BY GithubAssumption DEF Idle, Records, Stages

\* A request that is not running, or that begins, satisfies the invariant.
LEMMA NewFresh ==
    ASSUME NEW p, NEW q \in {Idle, [Idle EXCEPT !.pc = "get", !.left = Delay]}
    PROVE  q \in Records /\ Shape(q) /\ Fresh(p, q)
<1>1. Ttl \in Nat /\ Delay \in Nat /\ None.lag = -1
  BY GithubAssumption, EntriesApart DEF Missing
<1>a. Idle \in Records /\ Delay \in 0 .. Delay /\ "get" \in Stages
  BY <1>1, IdleRecord DEF Stages
<1>b. q \in Records
  BY <1>a DEF Records
<1>2. /\ q \in Records /\ q.left \in 0 .. Delay
      /\ q.raw = None /\ q.out = None /\ q.reply = "none" /\ q.had = FALSE
      /\ (q.pc = "idle" /\ q.left = 0) \/ q.pc = "get"
  BY <1>a, <1>b, IdleRecord DEF Records
<1> QED
  BY <1>1, <1>2, NoneFresh DEF Shape, Fresh

\* What Reply leaves.
Replied(how, e, d) ==
    [Idle EXCEPT !.pc = "answered", !.reply = how, !.out = e, !.had = d]

\* A reply with an entry young enough satisfies the invariant.
LEMMA RepliedFresh ==
    ASSUME NEW how \in {"cache", "extended", "fetched", "fallback", "error"},
           NEW e \in Entries \cup {None}, NEW d \in BOOLEAN, how = "error" => ~ d,
           NEW p, NEW cond,
           cond => /\ Sound(p, e)
                   /\ e.lag <= IF how = "fallback" THEN Ttl + 3 * Delay + 1
                               ELSE Refresh + Delay + 1
    PROVE  /\ Replied(how, e, d) \in Records /\ Shape(Replied(how, e, d))
           /\ cond => Fresh(p, Replied(how, e, d))
<1> DEFINE q == Replied(how, e, d)
<1>1. /\ q \in Records /\ q.pc = "answered" /\ q.reply = how /\ q.out = e
      /\ q.had = d /\ q.raw = None /\ q.left = 0
  BY IdleRecord DEF Replied, Records, Stages
<1> HIDE DEF q
<1>2. Shape(q)
  BY <1>1 DEF Shape
<1>3. cond => Fresh(p, q)
  BY <1>1, NoneFresh, EntriesApart, GithubAssumption DEF Fresh, Missing
<1> QED
  BY <1>1, <1>2, <1>3 DEF q

\* A step that replies keeps the invariant.
LEMMA ReplyStep ==
    ASSUME IInv, NEW r \in Requests,
           NEW how \in {"cache", "extended", "fetched", "fallback", "error"},
           NEW e \in Entries \cup {None}, Reply(r, how, e),
           how = "error" => ~ req[r].had,
           Covered => /\ Sound(part, e)
                      /\ e.lag <= IF how = "fallback" THEN Ttl + 3 * Delay + 1
                                  ELSE Refresh + Delay + 1,
           UNCHANGED <<endpoint, part, few>>,
           Kept(cache', live'), Covered => Cached(part, cache', live')
    PROVE  IInv'
<1> DEFINE q == Replied(how, e, req[r].had)
<1>0. req[r].had \in BOOLEAN
  BY TypeOfRequests DEF IInv, Records
<1>1. q \in Records /\ Shape(q) /\ (Covered => Fresh(part, q))
  BY <1>0, RepliedFresh
<1>2. req' = [req EXCEPT ![r] = q]
  BY DEF Reply, Replied
<1> HIDE DEF q
<1> QED
  BY <1>1, <1>2, OneRequest

-----------------------------------------------------------------------------
(* The environment's steps *)

\* A tick keeps a running request as the invariant says.
LEMMA AgedFresh ==
    ASSUME NEW q \in Records, NEW p, Shape(q), q.left > 0, NEW cond, cond => Fresh(p, q),
           q.pc \notin {"idle", "answered"},
           NEW t, t = [q EXCEPT !.raw = Older(@), !.out = Older(@), !.left = @ - 1]
    PROVE  t \in Records /\ Shape(t) /\ (cond => Fresh(p, t))
<1>1. /\ q.raw \in Entries \cup {None} /\ q.out \in Entries \cup {None}
      /\ q.left \in 0 .. Delay /\ Delay \in Nat /\ Ttl \in Nat /\ Refresh \in Nat
  BY GithubAssumption DEF Records
<1>2. ASSUME NEW e \in Entries \cup {None}
      PROVE  /\ Older(e) \in Entries \cup {None}
             /\ e # None => Older(e) # None
             /\ e \in Entries => Older(e) \in Entries
             /\ e.lag \in Int /\ Older(e).lag \in Int
             /\ Older(e).lag <= IF e.lag > 0 THEN e.lag + 1 ELSE e.lag
             /\ Sound(p, e) => Sound(p, Older(e))
  <2>1. CASE e \in Entries
    <3>1. e.lag \in Int /\ e.age \in 0 .. Refresh /\ MaxLag \in Nat
      BY <2>1, EntriesApart DEF Entries
    <3>2. /\ Older(e) \in Entries /\ Older(e).etag = e.etag
          /\ Older(e).lag = IF e.lag > 0 THEN IF e.lag + 1 <= MaxLag THEN e.lag + 1
                                              ELSE MaxLag
                            ELSE e.lag
          /\ Older(e).age = IF e.age + 1 <= Refresh THEN e.age + 1 ELSE Refresh
      BY <2>1, OlderEntry
    <3>3. Sound(p, e) => Sound(p, Older(e))
      BY <1>1, <3>1, <3>2 DEF Sound
    <3> QED
      BY <3>1, <3>2, <3>3, EntriesApart
  <2>2. CASE e = None
    BY <2>2, NoneStays, EntriesApart DEF Missing
  <2> QED
    BY <2>1, <2>2
<1>3. /\ t.raw = Older(q.raw) /\ t.out = Older(q.out) /\ t.left = q.left - 1
      /\ t.pc = q.pc /\ t.reply = q.reply /\ t.had = q.had
  BY DEF Records
<1>4. t \in Records
  <2>1. /\ Older(q.raw) \in Entries \cup {None} /\ Older(q.out) \in Entries \cup {None}
        /\ q.left - 1 \in 0 .. Delay
    BY <1>1, <1>2
  <2> QED
    BY <2>1 DEF Records
<1>5. Shape(t)
  BY <1>1, <1>2, <1>3, NoneStays DEF Shape
<1>6. cond => Fresh(p, t)
  <2> SUFFICES ASSUME cond PROVE Fresh(p, t)
    OBVIOUS
  <2>1. Fresh(p, q)
    OBVIOUS
  <2>2. Sound(p, t.raw) /\ Sound(p, t.out)
    BY <1>1, <1>2, <1>3, <2>1 DEF Fresh
  <2>3. t.raw.lag <= Ttl + 3 * Delay - t.left + 1
    BY <1>1, <1>2, <1>3, <2>1 DEF Fresh
  <2>4. /\ t.pc \in {"details", "store", "unsaved"} => t.out.lag <= Delay - t.left + 1
        /\ t.pc = "late" => t.out.lag <= 2 * Delay - t.left + 1
    BY <1>1, <1>2, <1>3, <2>1 DEF Fresh
  <2> QED
    BY <1>3, <2>2, <2>3, <2>4 DEF Fresh
<1> QED
  BY <1>4, <1>5, <1>6

\* An edit on GitHub keeps a request as the invariant says.
LEMMA ChangedFresh ==
    ASSUME NEW q \in Records, part \in {"user", "repos"}, NEW p \in {"user", "repos"},
           Shape(q), NEW cond, cond => Fresh(part, q), q.pc # "idle",
           NEW t, t = [q EXCEPT !.raw = Replaced(@, p), !.out = Replaced(@, p)]
    PROVE  t \in Records /\ Shape(t) /\ (cond => Fresh(part, t))
<1>1. /\ q.raw \in Entries \cup {None} /\ q.out \in Entries \cup {None}
      /\ q.left \in 0 .. Delay /\ Delay \in Nat /\ Ttl \in Nat /\ Refresh \in Nat
  BY GithubAssumption DEF Records
<1>2. ASSUME NEW e \in Entries \cup {None}
      PROVE  /\ Replaced(e, p) \in Entries \cup {None}
             /\ e # None => Replaced(e, p) # None
             /\ e \in Entries => Replaced(e, p) \in Entries
             /\ e.lag \in Int /\ Replaced(e, p).lag \in Int
             /\ Replaced(e, p).lag = e.lag \/ Replaced(e, p).lag = 1
             /\ Sound(part, e) => Sound(part, Replaced(e, p))
  <2>1. CASE e \in Entries
    <3>1. e.lag \in Int /\ e.age \in 0 .. Refresh
      BY <2>1, EntriesApart DEF Entries
    <3>2. /\ Replaced(e, p) \in Entries /\ Replaced(e, p).age = e.age
          /\ Replaced(e, p).lag = IF p = part /\ e.lag = 0 THEN 1 ELSE e.lag
          /\ Replaced(e, p).etag = IF p = "repos" /\ e.etag = "current" THEN "old"
                                   ELSE e.etag
      BY <2>1, ReplacedEntry
    <3>3. Sound(part, e) => Sound(part, Replaced(e, p))
      BY <1>1, <3>1, <3>2 DEF Sound
    <3> QED
      BY <3>1, <3>2, <3>3, EntriesApart
  <2>2. CASE e = None
    BY <2>2, NoneStays, EntriesApart DEF Missing
  <2> QED
    BY <2>1, <2>2
<1>3. /\ t.raw = Replaced(q.raw, p) /\ t.out = Replaced(q.out, p) /\ t.left = q.left
      /\ t.pc = q.pc /\ t.reply = q.reply /\ t.had = q.had
  BY DEF Records
<1>4. t \in Records
  BY <1>1, <1>2 DEF Records
<1>5. Shape(t)
  BY <1>1, <1>2, <1>3, NoneStays DEF Shape
<1>6. cond => Fresh(part, t)
  <2> SUFFICES ASSUME cond PROVE Fresh(part, t)
    OBVIOUS
  <2>1. Fresh(part, q)
    OBVIOUS
  <2>2. Sound(part, t.raw) /\ Sound(part, t.out)
    BY <1>1, <1>2, <1>3, <2>1 DEF Fresh
  <2>3. t.raw.lag <= Ttl + 3 * Delay - t.left + 1
    BY <1>1, <1>2, <1>3, <2>1 DEF Fresh
  <2>4. /\ t.pc \in {"details", "store", "unsaved"} => t.out.lag <= Delay - t.left + 1
        /\ t.pc = "late" => t.out.lag <= 2 * Delay - t.left + 1
        /\ t.pc = "answered" =>
             t.out.lag <= IF t.reply = "fallback" THEN Ttl + 3 * Delay + 1
                          ELSE Refresh + Delay + 1
    BY <1>1, <1>2, <1>3, <2>1 DEF Fresh
  <2> QED
    BY <2>2, <2>3, <2>4 DEF Fresh
<1> QED
  BY <1>4, <1>5, <1>6

\* A tick keeps the invariant.
LEMMA TickKeeps == IInv /\ Tick => IInv'
<1> SUFFICES ASSUME IInv, Tick PROVE IInv'
  OBVIOUS
<1>1. /\ req \in [Requests -> Records] /\ Kept(cache, live)
      /\ Ttl \in Nat /\ Delay \in Nat /\ Refresh \in Nat
  BY TypeOfRequests, GithubAssumption DEF IInv
<1>2. ASSUME NEW r \in Requests
      PROVE  /\ req'[r] \in Records /\ Shape(req'[r])
             /\ Covered => Fresh(part, req'[r])
  <2> DEFINE t == [req[r] EXCEPT !.raw = Older(@), !.out = Older(@), !.left = @ - 1]
             i == [req[r] EXCEPT !.raw = Older(@), !.out = Older(@), !.left = 0]
  <2>1. Shape(req[r]) /\ (Covered => Fresh(part, req[r])) /\ req[r] \in Records
    BY <1>1 DEF IInv, AllFresh
  <2>2. CASE req[r].pc # "idle"
    <3>1. req'[r] = t /\ req[r].left > 0 /\ req[r].pc # "answered"
      BY <1>1, <2>2 DEF Tick
    <3>a. t = [req[r] EXCEPT !.raw = Older(@), !.out = Older(@), !.left = @ - 1]
      OBVIOUS
    <3> HIDE DEF t
    <3>2. t \in Records /\ Shape(t) /\ (Covered => Fresh(part, t))
      BY <2>1, <2>2, <3>1, <3>a, AgedFresh
    <3> QED
      BY <3>1, <3>2
  <2>3. CASE req[r].pc = "idle"
    <3>1. req[r].left = 0 /\ req[r].raw = None /\ req[r].out = None
      BY <2>1, <2>3 DEF Shape
    <3>2. req'[r] = i
      BY <1>1, <2>3 DEF Tick
    <3>3. i = [req[r] EXCEPT !.raw = None, !.out = None, !.left = 0]
      BY <3>1, NoneStays
    <3> HIDE DEF i
    <3>a. 0 \in 0 .. Delay /\ None \in Entries \cup {None}
      BY <1>1
    <3>b. i \in Records
      BY <2>1, <3>3, <3>a DEF Records
    <3>4. /\ i \in Records /\ i.pc = "idle" /\ i.left = 0 /\ i.raw = None /\ i.out = None
          /\ i.reply = req[r].reply /\ i.had = req[r].had
      BY <2>1, <2>3, <3>3, <3>b DEF Records
    <3>5. Shape(i)
      BY <2>1, <2>3, <3>4 DEF Shape
    <3>6. Fresh(part, i)
      BY <1>1, <3>4, NoneFresh, EntriesApart DEF Fresh, Missing
    <3> QED
      BY <3>2, <3>4, <3>5, <3>6
  <2> QED
    BY <2>2, <2>3
<1>3. req' \in [Requests -> Records]
  BY <1>2 DEF Tick
<1>4. Kept(cache', live') /\ (Covered => Cached(part, cache', live'))
  <2>a. /\ cache' = IF live > 0 THEN Older(cache) ELSE None
        /\ live' = IF live >= 0 THEN live - 1 ELSE live
    BY DEF Tick
  <2>1. CASE live > 0
    <3>1. cache \in Entries /\ cache' = Older(cache) /\ live' = live - 1 /\ live \in 1 .. Ttl
      BY <1>1, <2>a, <2>1 DEF Kept
    <3>2. /\ Older(cache) \in Entries /\ Older(cache).etag = cache.etag
          /\ Older(cache).lag = IF cache.lag > 0 THEN IF cache.lag + 1 <= MaxLag
                                                      THEN cache.lag + 1 ELSE MaxLag
                                ELSE cache.lag
          /\ Older(cache).age = IF cache.age + 1 <= Refresh THEN cache.age + 1 ELSE Refresh
      BY <3>1, OlderEntry
    <3>3. cache.lag \in Int /\ cache.age \in 0 .. Refresh /\ MaxLag \in Nat
      BY <3>1, EntriesApart DEF Entries
    <3>4. Covered => Cached(part, cache', live')
      BY <1>1, <3>1, <3>2, <3>3 DEF IInv, AllFresh, Cached, Sound
    <3>5. Kept(cache', live')
      BY <1>1, <3>1, <3>2, EntriesApart DEF Kept
    <3> QED
      BY <3>4, <3>5
  <2>2. CASE ~ (live > 0)
    <3>1. cache' = None /\ live' = -1
      BY <1>1, <2>a, <2>2 DEF Kept
    <3> QED
      BY <1>1, <3>1, NoneFresh DEF Kept, Cached
  <2> QED
    BY <2>1, <2>2
<1>5. UNCHANGED <<endpoint, part, few>>
  BY DEF Tick
<1> QED
  BY <1>2, <1>3, <1>4, <1>5, AllRequests

\* An edit on GitHub keeps the invariant.
LEMMA EditKeeps ==
    ASSUME IInv, NEW p \in {"user", "repos"}, Edit(p)
    PROVE  IInv'
<1>1. /\ req \in [Requests -> Records] /\ Kept(cache, live) /\ part \in {"user", "repos"}
      /\ Ttl \in Nat /\ Delay \in Nat /\ Refresh \in Nat
  BY TypeOfRequests, GithubAssumption DEF IInv
<1>2. ASSUME NEW r \in Requests
      PROVE  /\ req'[r] \in Records /\ Shape(req'[r])
             /\ Covered => Fresh(part, req'[r])
  <2> DEFINE t == [req[r] EXCEPT !.raw = Replaced(@, p), !.out = Replaced(@, p)]
  <2>1. Shape(req[r]) /\ (Covered => Fresh(part, req[r])) /\ req[r] \in Records
    BY <1>1 DEF IInv, AllFresh
  <2>2. req'[r] = t
    BY <1>1 DEF Edit
  <2>3. t = [req[r] EXCEPT !.raw = Replaced(@, p), !.out = Replaced(@, p)]
    OBVIOUS
  <2>4. CASE req[r].pc # "idle"
    <3> HIDE DEF t
    <3> QED
      BY <1>1, <2>1, <2>2, <2>3, <2>4, ChangedFresh
  <2>5. CASE req[r].pc = "idle"
    <3>1. req[r].raw = None /\ req[r].out = None
      BY <2>1, <2>5 DEF Shape
    <3>2. t = [req[r] EXCEPT !.raw = None, !.out = None]
      BY <3>1, NoneStays
    <3>3. t = req[r]
      BY <2>1, <3>1, <3>2 DEF Records
    <3> QED
      BY <2>1, <2>2, <3>3
  <2> QED
    BY <2>4, <2>5
<1>3. req' \in [Requests -> Records]
  BY <1>2 DEF Edit
<1>4. cache' = Replaced(cache, p) /\ live' = live /\ UNCHANGED <<endpoint, part, few>>
  BY DEF Edit
<1>5. Kept(cache', live') /\ (Covered => Cached(part, cache', live'))
  <2>1. CASE cache \in Entries
    <3>1. /\ Replaced(cache, p) \in Entries /\ Replaced(cache, p).age = cache.age
          /\ Replaced(cache, p).lag = IF p = part /\ cache.lag = 0 THEN 1 ELSE cache.lag
          /\ Replaced(cache, p).etag = IF p = "repos" /\ cache.etag = "current" THEN "old"
                                       ELSE cache.etag
      BY <2>1, ReplacedEntry
    <3>2. cache.lag \in Int /\ cache.age \in 0 .. Refresh /\ live \in -1 .. Ttl
      BY <1>1, <2>1, EntriesApart DEF Entries, Kept
    <3>3. Kept(cache', live')
      BY <1>4, <3>1, <3>2, EntriesApart DEF Kept
    <3>4. Covered => Cached(part, cache', live')
      BY <1>1, <1>4, <3>1, <3>2 DEF IInv, AllFresh, Cached, Sound
    <3> QED
      BY <3>3, <3>4
  <2>2. CASE cache = None
    BY <1>1, <1>4, <2>2, NoneStays DEF IInv, AllFresh
  <2> QED
    BY <1>1, <2>1, <2>2 DEF Kept
<1> QED
  BY <1>2, <1>3, <1>4, <1>5, AllRequests

-----------------------------------------------------------------------------
(* A request's steps *)

\* A step that changes no more than the stage, without having to write before.
LEMMA StageStep ==
    ASSUME IInv, NEW r \in Requests, NEW stage \in {"fetch", "unsaved"},
           req' = [req EXCEPT ![r].pc = stage],
           stage = "unsaved" => req[r].pc = "store",
           stage = "fetch" => req[r].pc \in {"get", "check"},
           UNCHANGED <<endpoint, part, few, cache, live>>
    PROVE  IInv'
<1> DEFINE q == [req[r] EXCEPT !.pc = stage]
<1>1. req \in [Requests -> Records] /\ Shape(req[r]) /\ (Covered => Fresh(part, req[r]))
  BY TypeOfRequests DEF IInv, AllFresh
<1>2. /\ q.pc = stage /\ q.left = req[r].left /\ q.raw = req[r].raw /\ q.out = req[r].out
      /\ q.reply = req[r].reply /\ q.had = req[r].had /\ q \in Records
  BY <1>1 DEF Records, Stages
<1>3. req' = [req EXCEPT ![r] = q]
  BY <1>1
<1> HIDE DEF q
<1>4. Shape(q)
  BY <1>1, <1>2 DEF Shape
<1>5. Covered => Fresh(part, q)
  BY <1>1, <1>2 DEF Fresh
<1> QED
  BY <1>2, <1>3, <1>4, <1>5, OneRequestOnly

\* A step after which the request has something to write; until it has all of it,
\* it keeps what it had read.
LEMMA WriteStep ==
    ASSUME IInv, NEW r \in Requests, NEW stage \in {"details", "store"},
           NEW how \in {"extended", "fetched"}, NEW e \in Entries,
           req' = [req EXCEPT ![r].pc = stage, ![r].reply = how,
                              ![r].raw = IF stage = "store" THEN None ELSE @,
                              ![r].out = e],
           stage = "details" => req[r].pc = "fetch",
           Covered => Sound(part, e) /\ e.lag <= Delay - req[r].left + 1,
           UNCHANGED <<endpoint, part, few, cache, live>>
    PROVE  IInv'
<1> DEFINE raw == IF stage = "store" THEN None ELSE req[r].raw
           q == [req[r] EXCEPT !.pc = stage, !.reply = how, !.raw = raw, !.out = e]
<1>1. /\ req \in [Requests -> Records] /\ Ttl \in Nat /\ Delay \in Nat
      /\ Shape(req[r]) /\ (Covered => Fresh(part, req[r]))
  BY TypeOfRequests, GithubAssumption DEF IInv, AllFresh
<1>2. /\ req[r] \in Records /\ stage \in Stages /\ req[r].left \in 0 .. Delay
      /\ raw \in Entries \cup {None}
  BY <1>1 DEF Records, Stages
<1>3. req' = [req EXCEPT ![r] = q]
  BY <1>1
<1>4. stage = "details" => raw = req[r].raw
  OBVIOUS
<1>5. raw = None \/ raw = req[r].raw
  OBVIOUS
<1> HIDE DEF raw
<1>6. /\ q.pc = stage /\ q.left = req[r].left /\ q.raw = raw /\ q.out = e
      /\ q.reply = how /\ q.had = req[r].had /\ q \in Records
  BY <1>2 DEF Records
<1> HIDE DEF q
<1>7. Shape(q)
  BY <1>1, <1>4, <1>6 DEF Shape
<1>8. Covered => Fresh(part, q)
  <2>1. CASE raw = None
    BY <1>1, <1>2, <1>6, <2>1, NoneFresh, EntriesApart DEF Fresh, Missing
  <2>2. CASE raw = req[r].raw
    BY <1>1, <1>2, <1>6, <2>2 DEF Fresh
  <2> QED
    BY <1>5, <2>1, <2>2
<1> QED
  BY <1>3, <1>6, <1>7, <1>8, OneRequestOnly

\* What a step of request r may use of the invariant.
LEMMA RequestFacts ==
    ASSUME IInv, NEW r \in Requests
    PROVE  /\ req \in [Requests -> Records] /\ req[r] \in Records /\ Shape(req[r])
           /\ req[r].left \in 0 .. Delay
           /\ req[r].raw \in Entries \cup {None} /\ req[r].out \in Entries \cup {None}
           /\ req[r].raw.lag \in Int /\ req[r].out.lag \in Int
           /\ Covered => Fresh(part, req[r])
           /\ Kept(cache, live) /\ (Covered => Cached(part, cache, live))
           /\ Ttl \in Nat /\ Delay \in Nat /\ Refresh \in Nat
           /\ part \in {"user", "repos"} /\ (part = "user" => endpoint = "github")
<1>1. req \in [Requests -> Records] /\ req[r] \in Records
  BY TypeOfRequests DEF IInv
<1>2. \A e \in Entries \cup {None} : e.lag \in Int
  BY EntriesApart DEF Entries, Missing
<1>3. /\ req[r].left \in 0 .. Delay
      /\ req[r].raw \in Entries \cup {None} /\ req[r].out \in Entries \cup {None}
  BY <1>1 DEF Records
<1> QED
  BY <1>1, <1>2, <1>3, TypeOfRequests, GithubAssumption DEF IInv, AllFresh

\* A read of the cache that finds an entry keeps the invariant.
LEMMA GetHitKeeps ==
    ASSUME IInv, NEW r \in Requests, GetHit(r)
    PROVE  IInv'
<1>1. cache \in Entries /\ live \in 0 .. Ttl
  BY RequestFacts DEF GetHit, Kept
<1>2. cache.lag \in Int /\ cache.age \in 0 .. Refresh
  BY <1>1, EntriesApart DEF Entries
<1>3. UNCHANGED <<endpoint, part, few, cache, live>>
  BY DEF GetHit
<1>4. Kept(cache', live') /\ (Covered => Cached(part, cache', live'))
  BY <1>3, RequestFacts
<1>5. CASE cache.age < Refresh
  <2>1. Reply(r, "cache", cache)
    BY <1>5 DEF GetHit
  <2>2. Covered => Sound(part, cache) /\ cache.lag <= Refresh + Delay + 1
    BY <1>2, <1>5, RequestFacts DEF Cached, Sound
  <2> QED
    BY <1>1, <1>3, <1>4, <2>1, <2>2, ReplyStep
<1>6. CASE ~ (cache.age < Refresh)
  <2> DEFINE stage == IF Conditional /\ cache.etag # "none" THEN "check" ELSE "fetch"
             q == [req[r] EXCEPT !.raw = cache, !.had = TRUE, !.pc = stage]
  <2>1. req' = [req EXCEPT ![r].raw = cache, ![r].had = TRUE, ![r].pc = stage]
    BY <1>6 DEF GetHit
  <2>2. stage \in {"check", "fetch"} /\ stage \in Stages
    BY DEF Stages
  <2> HIDE DEF stage
  <2>3. /\ q.pc = stage /\ q.left = req[r].left /\ q.raw = cache /\ q.out = req[r].out
        /\ q.reply = req[r].reply /\ q.had = TRUE /\ q \in Records
    BY <1>1, <2>2, RequestFacts DEF Records
  <2>4. req' = [req EXCEPT ![r] = q]
    BY <2>1, RequestFacts
  <2> HIDE DEF q
  <2>5. Shape(q)
    <3>1. req[r].reply # "error"
      BY RequestFacts DEF GetHit, Shape
    <3> QED
      BY <1>1, <2>2, <2>3, <3>1, EntriesApart DEF Shape
  <2>6. Covered => Fresh(part, q)
    BY <1>1, <1>2, <2>2, <2>3, RequestFacts DEF Fresh, Cached
  <2> QED
    BY <1>3, <2>3, <2>4, <2>5, <2>6, OneRequestOnly
<1> QED
  BY <1>5, <1>6

\* A 304 is given only where the entry is what GitHub has.
LEMMA CheckKeeps ==
    ASSUME IInv, NEW r \in Requests, Check(r)
    PROVE  IInv'
<1>1. CASE ~ NotModified(r)
  BY <1>1, StageStep DEF Check
<1>2. CASE NotModified(r)
  <2> DEFINE e == [req[r].raw EXCEPT !.age = 0]
  <2>1. req[r].raw.etag = "current" /\ SamePage
    BY <1>2 DEF NotModified
  <2>2. req[r].raw \in Entries
    BY <2>1, RequestFacts, EntriesApart
  <2>3. 0 \in 0 .. Refresh
    BY RequestFacts
  <2>4. e \in Entries /\ e.lag = req[r].raw.lag /\ e.etag = "current" /\ e.age = 0
    BY <2>1, <2>2, <2>3 DEF Entries
  <2>5. Covered => req[r].raw.lag <= 0
    BY <2>1, RequestFacts DEF Fresh, Sound, Covered, SamePage
  <2>6. /\ req' = [req EXCEPT ![r].pc = "store", ![r].reply = "extended",
                              ![r].raw = IF "store" = "store" THEN None ELSE @, ![r].out = e]
        /\ UNCHANGED <<endpoint, part, few, cache, live>>
    BY <1>2 DEF Check, Extended
  <2> HIDE DEF e
  <2>7. Covered => Sound(part, e) /\ e.lag <= Delay - req[r].left + 1
    BY <2>4, <2>5, RequestFacts DEF Sound
  <2> QED
    BY <2>4, <2>6, <2>7, WriteStep
<1> QED
  BY <1>1, <1>2

\* A fetch that builds a new entry keeps the invariant.
LEMMA FetchedKeeps ==
    ASSUME IInv, NEW r \in Requests, NEW stage \in {"details", "store"},
           NEW lag \in Lags, NEW etag \in {"none", "current", "old"},
           Fetched(r, stage, lag, etag), stage = "details" => req[r].pc = "fetch",
           UNCHANGED <<endpoint, part, few, cache, live>>,
           Covered => /\ lag <= Delay - req[r].left + 1
                      /\ part = "repos" => lag <= 0
    PROVE  IInv'
<1> DEFINE e == [lag |-> lag, etag |-> etag, age |-> 0]
<1>1. e \in Entries /\ e.lag = lag /\ e.age = 0
  BY GithubAssumption DEF Entries
<1>2. req' = [req EXCEPT ![r].pc = stage, ![r].reply = "fetched",
                         ![r].raw = IF stage = "store" THEN None ELSE @, ![r].out = e]
  BY DEF Fetched
<1> HIDE DEF e
<1>3. lag \in Int
  BY EntriesApart
<1>4. Covered => Sound(part, e) /\ e.lag <= Delay - req[r].left + 1
  BY <1>1, <1>3, RequestFacts DEF Sound
<1> QED
  BY <1>1, <1>2, <1>4, WriteStep

\* The write to the cache at the end of a request keeps the invariant.
LEMMA StoreKeeps ==
    ASSUME IInv, NEW r \in Requests, Store(r)
    PROVE  IInv'
<1>1. /\ req[r].out \in Entries /\ req[r].reply \in {"extended", "fetched"}
      /\ cache' = req[r].out /\ live' = Ttl /\ UNCHANGED <<endpoint, part, few>>
      /\ Reply(r, req[r].reply, req[r].out) /\ req[r].pc = "store"
  BY RequestFacts DEF Store, Shape
<1>2. Covered => Sound(part, req[r].out) /\ req[r].out.lag <= Delay - req[r].left + 1
  BY <1>1, RequestFacts DEF Fresh
<1>3. Kept(cache', live')
  BY <1>1, RequestFacts, EntriesApart DEF Kept
<1>4. Covered => Cached(part, cache', live')
  BY <1>1, <1>2, RequestFacts DEF Cached
<1>5. Covered => req[r].out.lag <= Refresh + Delay + 1
  BY <1>2, RequestFacts
<1> QED
  BY <1>1, <1>2, <1>3, <1>4, <1>5, ReplyStep

\* The end of a request keeps the invariant.
LEMMA EndKeeps ==
    ASSUME IInv, NEW r \in Requests, End(r)
    PROVE  IInv'
<1>1. UNCHANGED <<endpoint, part, few, cache, live>>
  BY DEF End
<1>2. CASE req[r].pc = "answered"
  <2>1. req' = [req EXCEPT ![r] = Idle]
    BY <1>2 DEF End
  <2> QED
    BY <1>1, <2>1, NewFresh, OneRequestOnly
<1>3. CASE req[r].pc = "unsaved"
  <2> DEFINE q == [Idle EXCEPT !.pc = "late", !.left = Delay, !.out = req[r].out]
  <2>1. req' = [req EXCEPT ![r] = q]
    BY <1>3 DEF End
  <2>2. req[r].out \in Entries /\ "late" \in Stages /\ Delay \in 0 .. Delay
    BY <1>3, RequestFacts DEF Shape, Stages
  <2>3. /\ q \in Records /\ q.pc = "late" /\ q.left = Delay /\ q.out = req[r].out
        /\ q.raw = None /\ q.reply = "none"
    BY <2>2, IdleRecord DEF Records
  <2> HIDE DEF q
  <2>4. Shape(q)
    BY <2>2, <2>3 DEF Shape
  <2>5. Covered => Fresh(part, q)
    BY <1>3, <2>3, RequestFacts, NoneFresh, EntriesApart DEF Fresh, Missing
  <2> QED
    BY <1>1, <2>1, <2>3, <2>4, <2>5, OneRequestOnly
<1> QED
  BY <1>2, <1>3 DEF End

\* A write that arrives after the end of its request keeps the invariant.
LEMMA LateWriteKeeps ==
    ASSUME IInv, NEW r \in Requests, LateWrite(r)
    PROVE  IInv'
<1>1. /\ req' = [req EXCEPT ![r] = Idle] /\ UNCHANGED <<endpoint, part, few>>
      /\ req[r].pc = "late"
      /\ \/ cache' = req[r].out /\ live' = Ttl
         \/ cache' = cache /\ live' = live
  BY DEF LateWrite
<1>2. req[r].out \in Entries
  BY <1>1, RequestFacts DEF Shape
<1>3. Kept(req[r].out, Ttl)
  BY <1>2, RequestFacts, EntriesApart DEF Kept
<1>4. Covered => Cached(part, req[r].out, Ttl)
  BY <1>1, RequestFacts DEF Cached, Fresh
<1>5. Kept(cache', live') /\ (Covered => Cached(part, cache', live'))
  BY <1>1, <1>3, <1>4, RequestFacts
<1> QED
  BY <1>1, <1>5, NewFresh, OneRequest

\* When GitHub fails, what is answered is the stale entry, and an error only if
\* there is none.
LEMMA FallBackKeeps ==
    ASSUME IInv, NEW r \in Requests, FallBack(r), req[r].pc \in {"fetch", "details"}
    PROVE  IInv'
<1>1. UNCHANGED <<endpoint, part, few, cache, live>>
  BY DEF FallBack
<1>2. Kept(cache', live') /\ (Covered => Cached(part, cache', live'))
  BY <1>1, RequestFacts
<1>3. CASE req[r].raw # None
  <2>1. Reply(r, "fallback", req[r].raw)
    BY <1>3 DEF FallBack
  <2>2. Covered => Sound(part, req[r].raw) /\ req[r].raw.lag <= Ttl + 3 * Delay + 1
    BY RequestFacts DEF Fresh
  <2> QED
    BY <1>1, <1>2, <2>1, <2>2, RequestFacts, ReplyStep
<1>4. CASE req[r].raw = None
  <2>1. Reply(r, "error", None)
    BY <1>4 DEF FallBack
  <2>2. ~ req[r].had
    BY <1>4, RequestFacts DEF Shape
  <2>3. Sound(part, None) /\ None.lag <= Refresh + Delay + 1
    BY NoneFresh, EntriesApart, RequestFacts DEF Missing
  <2> QED
    BY <1>1, <1>2, <2>1, <2>2, <2>3, NoneFresh, ReplyStep
<1> QED
  BY <1>3, <1>4

\* Every step of a running request keeps the invariant.
LEMMA RunKeeps ==
    ASSUME IInv, NEW r \in Requests, Run(r)
    PROVE  IInv'
<1>1. CASE GetHit(r)
  BY <1>1, GetHitKeeps
<1>2. CASE GetMiss(r)
  BY <1>2, StageStep DEF GetMiss
<1>3. CASE Check(r)
  BY <1>3, CheckKeeps
<1>4. CASE CheckFails(r)
  BY <1>4, StageStep DEF CheckFails
<1>5. CASE Fetch(r)
  <2> DEFINE stage == IF TwoSteps THEN "details" ELSE "store"
             lag == IF TwoSteps /\ part = "repos" THEN Missing ELSE 0
             etag == IF Conditional THEN "current" ELSE "none"
  <2>1. /\ stage \in {"details", "store"} /\ lag \in Lags /\ lag <= 0
        /\ etag \in {"none", "current", "old"}
    BY EntriesApart DEF Missing
  <2>2. /\ Fetched(r, stage, lag, etag) /\ req[r].pc = "fetch"
        /\ UNCHANGED <<endpoint, part, few, cache, live>>
    BY <1>5 DEF Fetch
  <2> HIDE DEF stage, lag, etag
  <2>3. lag <= Delay - req[r].left + 1
    BY <2>1, RequestFacts, EntriesApart
  <2> QED
    BY <2>1, <2>2, <2>3, FetchedKeeps
<1>6. CASE FetchUserOnly(r)
  <2> DEFINE lag == IF part = "user" THEN 0 ELSE Missing
  <2>1. lag \in Lags /\ lag <= 0
    BY EntriesApart DEF Missing
  <2>2. Fetched(r, "store", lag, "none") /\ UNCHANGED <<endpoint, part, few, cache, live>>
    BY <1>6 DEF FetchUserOnly
  <2> HIDE DEF lag
  <2>3. lag <= Delay - req[r].left + 1
    BY <2>1, RequestFacts, EntriesApart
  <2> QED
    BY <2>1, <2>2, <2>3, FetchedKeeps
<1>7. CASE FetchFails(r)
  BY <1>7, FallBackKeeps DEF FetchFails
<1>8. CASE Details(r)
  <2>1. PICK lag \in IF part = "repos" THEN {0, Missing} ELSE {req[r].out.lag} :
           Fetched(r, "store", lag, req[r].out.etag)
    BY <1>8 DEF Details
  <2>2. req[r].out \in Entries /\ UNCHANGED <<endpoint, part, few, cache, live>>
    BY <1>8, RequestFacts DEF Details, Shape
  <2>3. req[r].out.etag \in {"none", "current", "old"} /\ req[r].out.lag \in Lags
    BY <2>2 DEF Entries
  <2>4. lag \in Lags
    BY <2>1, <2>3, EntriesApart
  <2>5. Covered => lag <= Delay - req[r].left + 1 /\ (part = "repos" => lag <= 0)
    <3>1. Covered => req[r].out.lag <= Delay - req[r].left + 1
      BY <1>8, RequestFacts DEF Details, Fresh
    <3> QED
      BY <2>1, <3>1, RequestFacts DEF Missing
  <2> QED
    BY <2>1, <2>2, <2>3, <2>4, <2>5, FetchedKeeps
<1>9. CASE Store(r)
  BY <1>9, StoreKeeps
<1>10. CASE StoreFails(r)
  BY <1>10, StageStep DEF StoreFails
<1>11. CASE LateWrite(r)
  BY <1>11, LateWriteKeeps
<1>12. CASE End(r)
  BY <1>12, EndKeeps
<1>13. CASE DetailsFails(r)
  BY <1>13, FallBackKeeps DEF DetailsFails
<1> QED
  BY <1>1, <1>2, <1>3, <1>4, <1>5, <1>6, <1>7, <1>8, <1>9, <1>10, <1>11, <1>12,
     <1>13 DEF Run

\* The start of a request keeps the invariant.
LEMMA StartKeeps ==
    ASSUME IInv, NEW r \in Requests, Start(r)
    PROVE  IInv'
<1> DEFINE q == [Idle EXCEPT !.pc = "get", !.left = Delay]
<1>1. /\ req' = [req EXCEPT ![r] = q] /\ UNCHANGED <<endpoint, part, few, cache, live>>
      /\ q \in {Idle, [Idle EXCEPT !.pc = "get", !.left = Delay]}
  BY DEF Start
<1> HIDE DEF q
<1> QED
  BY <1>1, NewFresh, OneRequestOnly

\* The invariant holds at the start.
LEMMA InvInit == Init => IInv
<1> SUFFICES ASSUME Init PROVE IInv
  OBVIOUS
<1>1. req = [r \in Requests |-> Idle] /\ cache = None /\ live = -1
  BY DEF Init
<1>2. \A r \in Requests : Shape(req[r]) /\ Fresh(part, req[r]) /\ req[r] \in Records
  BY <1>1, NewFresh
<1>3. Kept(cache, live) /\ Cached(part, cache, live)
  BY <1>1, NoneFresh, GithubAssumption DEF Kept, Cached
<1>4. /\ endpoint \in Endpoints /\ part \in {"user", "repos"} /\ few \in BOOLEAN
      /\ part = "user" => endpoint = "github"
  BY DEF Init
<1>5. req \in [Requests -> Records]
  BY <1>1, IdleRecord
<1> QED
  BY <1>2, <1>3, <1>4, <1>5, TypeOfRequests DEF IInv, AllFresh

\* Every step keeps the invariant.
LEMMA InvNext == IInv /\ [Next]_vars => IInv'
<1> SUFFICES ASSUME IInv, [Next]_vars PROVE IInv'
  OBVIOUS
<1>1. CASE Tick
  BY <1>1, TickKeeps
<1>2. ASSUME NEW p \in {"user", "repos"}, Edit(p)
      PROVE  IInv'
  BY <1>2, EditKeeps
<1>3. ASSUME NEW r \in Requests, Start(r) \/ Run(r)
      PROVE  IInv'
  BY <1>3, StartKeeps, RunKeeps
<1>4. CASE UNCHANGED vars
  BY <1>4 DEF vars, IInv, TypeOK, Covered, AllFresh, Cached, Sound, Fresh, Shape
<1> QED
  BY <1>1, <1>2, <1>3, <1>4 DEF Next

\* The invariant holds in every reachable state.
LEMMA InvHolds == Spec => []IInv
BY InvInit, InvNext, PTL DEF Spec

-----------------------------------------------------------------------------
(* Theorems *)

\* Whatever requests run at once and whatever the cache or GitHub fails to do, the
\* cache holds a stamped entry with a time to live in range, or none, and every
\* request is well formed.
THEOREM TypeCorrect == Spec => []TypeOK
<1>1. IInv => TypeOK
  BY DEF IInv
<1> QED
  BY <1>1, InvHolds, PTL

\* However many requests revalidate, refetch and write back late, no answer shows
\* what GitHub replaced longer ago than the refresh interval and one request, or,
\* while GitHub fails, longer ago than the cache keeps entries; the exception is
\* the profile that a 304 about the repositories extends.
THEOREM FreshAnswersHolds == Spec => []FreshAnswers
<1>1. ASSUME IInv, NEW r \in Requests, Answered(r), ~ (part = "user" /\ few)
      PROVE  Within(req[r].out.lag, IF req[r].reply = "fallback"
                                    THEN Ttl + 3 * Delay ELSE Refresh + Delay)
  <2>1. Fresh(part, req[r]) /\ Shape(req[r])
    BY <1>1, RequestFacts DEF Covered
  <2>2. CASE req[r].pc = "answered"
    BY <2>1, <2>2, <1>1, RequestFacts DEF Fresh, Within
  <2>3. CASE req[r].pc = "unsaved"
    <3>1. req[r].out.lag <= Delay - req[r].left + 1
      BY <2>1, <2>3 DEF Fresh
    <3> QED
      BY <3>1, <1>1, RequestFacts DEF Within
  <2> QED
    BY <1>1, <2>2, <2>3 DEF Answered
<1>2. IInv => FreshAnswers
  BY <1>1 DEF FreshAnswers
<1> QED
  BY <1>2, InvHolds, PTL

\* No request that found an entry, however stale, ends in an error, whichever of
\* its calls to GitHub fails: the entry is kept through every step that may.
THEOREM ErrorNeedsBothHolds == Spec => []ErrorNeedsBoth
<1>1. IInv => ErrorNeedsBoth
  BY DEF IInv, Shape, ErrorNeedsBoth
<1> QED
  BY <1>1, InvHolds, PTL
=============================================================================
