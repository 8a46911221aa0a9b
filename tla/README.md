# Verification of phoneix

TLA+ models, model-checking runs and machine-checked proofs for the code in
`src/`. The system is a personal site with its own distributed cache: three
cache servers written in Go (`cache/`), a FastAPI service that uses them
(`api/`), the scripts that deploy both (`scripts/`, `api/scripts/`) and the
Next.js site itself (`web/`): a landing page and two dashboards.

## 1. Inventory

| Component | State | Operations | Talks to |
|---|---|---|---|
| hash ring (`cache/cluster/ring.go`) | sorted virtual-node positions, position → node map, member set | AddNode, RemoveNode, GetNode, GetNodes | called by the router, under its own lock |
| heartbeats and router (`gossip.go`, `router.go`) | per peer: status, missed count; address map; ring | tick, ping, verdict; AddPeer, RemovePeer, OwnerOf, Forward, PeerAddrs | pings the peers; starts transfers; its unlocked address map is read by every connection |
| store (`cache/node/store.go`) | key → value and expiry, hit counters | Set, Get, Del, TTL, All, AllWithTTL, evictLoop | called by the server, one lock |
| cache server (`server.go`, `replication.go`) | connections, replication goroutines, transfers, command log | SET, GET, DEL, TTL, LOCALSET/GET/DEL, MIGRATE, PING, INFO, KEYS, KEYSTTL, CLUSTER | forwards to peers over TCP |
| cache client (`api/app/cache/client.py`) | none | get, set, delete, ping | the first configured cache server |
| GitHub endpoints (`routers/github.py`) | cached entries in the distributed cache | stale-while-revalidate fetches | cache client, GitHub |
| request log, metrics (`middleware/logging.py`, `routers/metrics.py`) | log file, availability result kept for 300 s | append, rotate, statistics, cluster fan-out, start/stop of a node | log file, cache servers, supervisorctl |
| heartbeat file, availability (`heartbeat.py`, `availability.py`) | heartbeat file | append, trim, downtime per day | read by metrics |
| deployment (`routers/webhook.py`, `deploy.sh` twice, `cloudflared-watchdog.sh`) | lock file, the running processes | deploy, restart, probe | supervisorctl, git |
| hero video (`web/src/components/BackgroundVideo.tsx`) | target time, seek flag, the browser's seek | pointer, frame, seeked, metadata | the video element |
| hero morph (`ScrollTransition.tsx`) | the animation and the size it was built for, the class `--settled`, resize timer, smooth scrolls | build, teardown, resize, snap, scrub, in-page links | GSAP, the window |
| project board (`ProjectsBoard.tsx`) | order of the notes; offset and drag of each | press, drag, release | the window |
| widgets (`MainNav.tsx`, `ExperienceTabs.tsx`, `NpxCallout.tsx`, `HeroLinks.tsx`, `GitHubActivity.tsx`) | flags and the timers that clear them, a tween, one fetch | hover, select, copy, leave | GSAP, the API |
| cluster page (`web/src/app/cluster/page.tsx`) | answer shown, states seen last, event list, polls under way | poll every 5 s, rebalance | metrics endpoints |
| server page (`web/src/app/server/page.tsx`) | data of six requests, window of days, selected day | poll every 5 s and every 15 s, select | metrics endpoints |
| the rest (database, profile, health, discovery, content pages, backgrounds, start-up) | one table | inserts, fixed documents | — |

What is hard about it:

- every connection, every replication and every transfer is a goroutine, and
  between two accesses to a store anything may happen;
- the three servers decide independently who is alive, so their rings differ
  for seconds at a time, while requests and transfers go on;
- a server is killed on purpose (the "chaos" button) and comes back empty,
  believing everybody alive;
- nothing orders the messages about one key: two replications, a replication
  and a transfer, or a transfer and a write may overtake each other;
- the router's address map has no lock;
- on the API side: entries that are revalidated by several requests at a time,
  a log that is appended to and rotated, a deploy script that restarts the
  process that started it;
- on the pages: polls that overlap, fail in part and are answered in any order;
  timers, frames, tweens and loops that outlive what started them; measurements
  that a resize makes stale; pages that are left and entered again while all of
  this is under way.

What makes the parts correct:

- ring: the owner of a key follows from the members alone; the replica is the
  node that becomes owner when the primary leaves; a membership change moves
  only the keys it must;
- heartbeats: status, ring and addresses agree; a peer leaves only after
  `deadAfter` silent heartbeats in a row and returns when it answers; the
  ring converges;
- servers: no request travels in circles; every request is answered; a read
  does not go back behind acknowledged writes; no transfer removes the last
  copy; two copies of each key; a dead owner does not hide a copy;
- pages: what is shown follows the data and the user in the end, is not taken
  back by a late or failed answer and fits the window as it is; the morph of the
  landing page is not built behind another page. Other things do outlive their
  page: the smooth scrolls, the timers of the widgets, the request of a rebalance.

`PROJECT.json` lists the hazards one by one, at the line where each bites.

## 2. Modules

| Module | Models | 
|---|---|
| `Ring` | `ring.go` |
| `Membership` | abstract: the view one server may have of its peers |
| `Gossip` | `gossip.go` and the mutable half of `router.go`; refines `Membership` |
| `Cluster` | `server.go`, `replication.go`, the reads and writes of `store.go`, over the effect of `Ring` and `Gossip` |
| `GithubCache` | `routers/github.py` over `cache/client.py` |
| `Browser`, `Api` | what the pages share: clamping; whether the API is within reach |
| `HeroVideo` | `BackgroundVideo.tsx` and the browser's seeks |
| `HeroScroll` | `ScrollTransition.tsx` and what it uses of GSAP |
| `NoteBoard` | `ProjectsBoard.tsx` |
| `Widgets` | `MainNav.tsx`, `ExperienceTabs.tsx`, `NpxCallout.tsx`, `HeroLinks.tsx`, `GitHubActivity.tsx` |
| `ClusterPage` | `app/cluster/page.tsx` over `GET /v1/cluster` |
| `ServerPage`, `UptimeGrid` | `app/server/page.tsx`: the polls and panels; the uptime panel |
| `Site` | the pages together, and the ways from one to another |
| `MCRing`, `MCGossip`, `MCCluster`, `MCGithubCache`, `MCSite` | instances for TLC |
| `RingProofs`, `NatOrder`, `GossipProofs`, `ClusterProofs`, `GithubProofs`, `HeroProofs`, `PageProofs`, `SiteProofs` | theorems (section 5) |

Operators under a comment "Mutant:" (for example `RemoveNodeStaleMap` above
`RemoveNode`) are plausible bugs. No specification uses them; substituting
one for the definition below it must make the property named in
`PROJECT.json` fail, which shows that the property depends on the code.

### Ring

`positions` is the sorted slice, given by how often each position occurs in it;
`nodeMap` and `nodes` are the fields of the same names. The binary search is a
minimum over the positions present. FNV-1a is a constant function from virtual
nodes to positions, chosen in `Init` from the set `Hashes`: one run covers all
placements. `AddNode` and `RemoveNode` are the methods with their early
returns; `RemoveNode` keeps the detail that a position two virtual nodes share
loses its map entry at the first copy, so that later copies stay in the slice.
`GetNodes` is the case n = 2, the only one the program uses.

The members returned for colliding virtual nodes are weaker (`LiveOwner` holds,
`Agreement` need not). The 450 virtual nodes of `node-a`, `node-b` and `node-c`
have no collision, so `NoCollision` is the case that matters in the deployment.

### Gossip and Membership

One server and its peers. The goroutine of a ping goes through `sent`, then
`pong` or `none` (the ping returned), then, if the verdict changes the ring,
`add`/`addRing` or `del`/`delRing`: the map write and the ring write are separate
steps, because other goroutines read the map meanwhile (`BeginRead`, `EndRead`).
`lock` is `Gossip.mu`, held from the verdict to the end of the router update.
`Fatal` is Go's abort when it notices that a map read overlaps a write; the
process manager then starts the process again. `missed` stops at `DeadAfter`,
above which the code never distinguishes its values. `Flip` is the network.

`Membership` has two variables, who is a member and how many heartbeats in a row
went unanswered. It allows a peer to leave only when that number is
`DeadAfter` and to join only when it is 0. `Gossip!ViewSpec` states that the
router's ring and the `missed` counts implement it.

### Cluster

| TLA+ | Code |
|---|---|
| `Request` | a line arrives on a connection |
| `Forward`, `ForwardFails` | `router.Forward` to the owner; the dial fails |
| `Apply` | SET or DEL at the owner: store, `go s.replicate`, answer |
| `GetLocal`, `ReadSelf`, `ReadPeer`, `ReadMiss` | GET at the owner; `readFromAnyPeer` peer by peer |
| `Replicate`, `Deliver` | the goroutine picks the replica; LOCALSET/LOCALDEL arrives |
| `Migrate`, `MoverStart`, `MoverNext`, `MoverDel`, `MoverEnd` | MIGRATE and `migrateToRecoveredNode`, one store access at a time |
| `Miss`, `Pong` | the effect of `Gossip` on one server's view; a recovery starts a transfer |
| `Crash`, `Restart` | the process dies with its store, goroutines and connections; `NewServer` |

A server's ring is the set of nodes it does not hold dead. Where keys go on a
ring is `Rank`: the order of the nodes clockwise from the key, which is what
`Agreement` and `ReplicaIsHeir` of `Ring` prove `GetNode` and `GetNodes` to
follow. A value is the number of the write that made it. A request keeps the
`path` of servers it has been forwarded through; each of them holds a goroutine
and a connection, and `AfterCrash` says what the client sees when one of them
dies: the goroutine before it gets an error and (for a GET) falls back, while
servers behind it carry on without a listener (`heard`). `floor`, `copies` and
`whole` are history, read by properties only.

Abstractions:

- TTLs are left out (planned, see section 6), and so are the commands that only
  report (TTL, INFO, KEYS, KEYSTTL, CLUSTER) and the counters;
- forwards between running servers are answered: the 3 s deadline of `Forward`
  does not expire while the other side runs. Late heartbeats (`Miss` of a
  running peer) are in;
- the count of missed heartbeats is collapsed to the two transitions it makes;
- the address map and the ring of a server change together (their instants
  apart are in `Gossip`);
- a server finds that it owns a key, or who does, in the step that acts on it
  (`Apply`, `GetLocal`, `Forward`): that the owner is removed between the lookup
  and the dial ("unknown peer", handled like a failed dial) is left out;
- DEL of a key that is not there answers MISS; here it is told as any other.

### GithubCache

Any number of requests for one endpoint, each at one of its awaits:

| pc | The handler waits for |
|---|---|
| `get` | `cache.get`; a miss and every failure of the client look the same (`GetMiss`) |
| `check` | the conditional request of `/github` and `/projects` |
| `fetch`, `details` | the fetch, and for `/github` and `/langs` the calls per repository |
| `store` | `cache.set` |
| `answered`, `unsaved` | nothing: it has answered; `unsaved` if the write failed |
| `late` | (answered long ago) the cache, which may still apply a write the client gave up on |

One part of the content is watched: `part` is the profile (`/github` only) or
what comes from the repositories or events. Of that part only `lag` is kept: 0
while it is what GitHub has, else one more than the time since GitHub replaced
it, and `Missing` if the call for it failed. An ETag is "current" or "old".
Entries carry the age of `_at`. All of these are relative, so neither time nor
edits need a bound: lags are not told apart from `MaxLag` on, which is beyond every
limit a property names. `Delay` is how long one request takes at most (its HTTP
and cache timeouts together), and how late a given-up write may be.

`/github` keeps the ETag of a page of ten repositories and asks about a page of
five: `SamePage` says that these are the same document only if there are at most
five (`few`).

Abstractions: the cache is one entry that may be missed; that the cluster may
also answer with an older entry is the subject of `cluster_stale`. Entries are
well-formed JSON. `/activity` uses the same constants with other values (60 s and
600 s). An entry fetched in part is one with `Missing`; an exception in the calls per
repository ends like a failed fetch (`DetailsFails`). `raw` is the entry a request has read, kept
until it is served or given up for a new one; `had` remembers, for `ErrorNeedsBoth`, that there was
one, whatever becomes of `raw`.

### The pages

`Site` extends the seven modules of the pages and composes them with navigation.
Each component has an action for being mounted and, where the code has a cleanup,
one for being unmounted; `Replace` goes to another page, by `Link` within the
document (`next/link`, or back) or by `Load` into another one (the plain links of the
landing page). The components share no state, so a behaviour exercises one of them
(`watch`), across all pages; the others stay in their initial or idle state.

| TLA+ | Code |
|---|---|
| `HeroVideo!Tick`, `HandleSeeked`, `SetTargetFromX` | a frame with `requestSeek`; the seeked event; the pointer |
| `HeroVideo!SeekEnds`, `Metadata` | the browser: a seek ends and queues its event (a seek that is aborted has none); the clip is known |
| `HeroScroll!ScrollMount`, `ScrollUnmount` | `build()` measures the window (`built`); the cleanup clears the timer and tears down, which drops the class |
| `HeroScroll!Resize`, `TimerFires` | the resize event sets the timer anew; the debounced handler with its test for small changes, `teardown()`, `build()`, `ScrollTrigger.update()` |
| `HeroScroll!ScrollTo`, `Toggled` | the position changes and `onUpdate` toggles `--settled` by the progress of the scroll |
| `HeroScroll!ClickLink`, `Frame`, `LoopEnds` | `handleClick` and `smoothScrollTo`: a loop that writes the position every frame and is never cancelled |
| `HeroScroll!Snap`, `Scrub` | ScrollTrigger's `snap`, a position at a time and interrupted by any other scroll; the animation that trails behind (`scrub: 0.5`) |
| `NoteBoard!PointerDown`, `PointerMove`, `PointerUp` | the handlers of a note; `BringToFront` is `onFocus`, `Dragged` the clamp of `onPointerMove` |
| `NoteBoard!Left`, `Place` | `getBoundingClientRect`, from the outer edge of the frame; the percentage of what is within it |
| `Widgets!Raise`, `TimerClears`, `AnimationEnd` | `setMorphing(true)` with `setTimeout`; the timer; `onAnimationEnd` |
| `Widgets!HandleEnter`, `Scramble`, `TweenEnds`, `HandleLeave` | the tween of a link's text |
| `ClusterPage!Poll`, `Serve`, `Receive`, `ReceiveNothing`, `KeysEnd` | one `tick`: started, answered by the API, the answer or null arriving, `fetchKeys` over |
| `ClusterPage!Cards`, `Arcs`, `NodesAlive`, `Screen` | what is rendered |
| `ServerPage!StartPoll`, `Respond`, `Fail`, `RestEnds`, `Apply` | one `fast` or `slow`: its request for the path that is followed, the others, and what is done after `Promise.all` |
| `UptimeGrid!Weeks`, `Months` | `buildWeekGrid` |
| `UptimeGrid!SetUptimeDays`, `SelectDay`, `Refresh` | the buttons, a click on a day, a poll that ends |

Abstractions: of an answer of `/v1/cluster` the states of nodes and of peers are
kept; of the answers to `/server` which version of the data they are, for one path at
a time. An answer that is not null holds what its panel shows. Times, positions
and days are small integers. The position of a note has one dimension, because the
code treats both alike; that it is slightly turned, and grows while it is held, is left out. Of
GSAP it is assumed that `onUpdate` follows every change of the scroll; what `teardown()` restores
of transforms and inline styles is left to GSAP and not modelled. Failures of
the API reach the pages as null: whether a request fails depends on `reachable`
only, which may change at any moment, also after the answer was made. Smooth scrolls go on
after their page was left, within the document (`ScrollUnmount(TRUE)`, `EndLoops`). So do, in the
program, the timers of the widgets, which then find nothing to set, and the request of a
rebalance, which the API carries out all the same; the models drop both when the page is left.

## 3. Runs

Each run is exhaustive within its bounds.

| Run | Instance | Shows |
|---|---|---|
| `ring` | 3 nodes × 2 virtual nodes, 6 positions, all placements (301 045 states up to symmetry) | types, `LiveOwner`, `Agreement`, `ReplicaIsHeir`, `MinimalMovement` |
| `gossip` | 1 server, 2 peers, 4 reachability changes, 1 abort (41 700 states) | types, `ViewsAgree`, `RoutableHasAddress`, `OneWriter`, refinement of `Membership`, `Converges` |
| `cluster` | 2 connections, 2 writes, 1 crash at any moment; or 4 late heartbeats, 2 transfers at a time, 1 write (1 549 293 states up to symmetry) | types, `ReadFindsCopy`, `FreshWithoutFailure`, `TwoCopiesWithoutFailure`, `LastCopySafe`, `PathsDescend` |
| `cluster_live` | 1 crash, 1 restart, 1 DEL, MIGRATE, recovery transfer (238 149 states); fairness | `Answers`, `LastCopySafe` |
| `github` | 2 requests, 4 endpoints, refresh after 2, TTL 3, delays of 1 (4 439 102 states) | types, `FreshAnswers`, `ErrorNeedsBoth` |
| `site` | every page, navigation of both kinds, the API within reach or not (130 166 states); fairness | types; the properties below |

What `site` checks, by component:

| Property | Says |
|---|---|
| `NoStuckSeek`, `NoBacklog`, `VideoFollows` | the seek flag is set only while an event will clear it; at most one seek of its own is outstanding; at rest the video arrives at the pointer |
| `FitsWindow` | however often the window changes, the morph was measured in (about) this window, unless a resize is being waited for: small changes do not add up |
| `SettledAtRest` | once the animation has caught up with the scroll, the text is set as settled just if the morph is over, also after a rebuild in the middle of the page (before that it may be early: run `hero_settled`) |
| `LastLoopWins`, `ComesToRest` | overlapping smooth scrolls halt where the last leads; a hero left alone comes to rest at one end |
| `NotesInside` | a note that was dragged on the board as it is does not leave its outer edge, whatever drags and widths there were before; it may lie on the frame |
| `FlagsEnd`, `LabelRestored` | a flag that is up has a timer to come; a link that was left shows its label for good |
| `EventsChain`, `ClusterConverges` | the event list has no gap, whatever order answers come in; the page comes to show the cluster as it is |
| `PanelStays`, `ServerConverges` | a panel with data keeps data; it comes to show the data as they are |
| `GridAligned` | each day in its row and column under its month |
| `NoRebuildBehind` | the morph is not built while another page is open, although a resize may be waited for when the page is left |

Six runs show where the program does not do what is written about it. TLC must
find the violation; the counterexample is the scenario.

| Run | Violated | What happens |
|---|---|---|
| `gossip_race` | `SnapshotIsAtomic` | a connection reads `Router.peers` while the heartbeat goroutine writes it |
| `cluster_stale` | `FreshReads` | one late heartbeat makes the replica push its old copy over a newer acknowledged write, and delete its own |
| `cluster_reorder` | `CopiesAgree` | two SETs reach the replica in the opposite order; the copies differ for good |
| `cluster_transfer` | `ServedDuringTransfer` | a key moves from a peer not asked yet to one already asked; the read misses it |
| `github_etag` | `UnchangedIsConfirmed` | the ETag of a page of ten is sent with a request for a page of five, and never matches |
| `hero_settled` | `SettledWhenMorphed` | the class `--settled` follows the scroll, so it comes on while the morph trails behind |

Smaller differences met on the way, visible in the definitions cited:

- a peer is suspect after its first missed heartbeat and dead after the third
  (`Gossip!Unanswered`); the overview says three and five;
- `OnRecovery` runs for a suspect too (`Gossip!Answered`), the comment says for a
  dead peer. This is what starts the transfer of `cluster_stale`;
- the transfer to a recovered owner deletes the sender's copy, which was the
  replica (`Cluster!MoverDel`), and no step makes a new one, so a key may be left on one
  server; `docs/01-architecture.md:63` says every key is on two;
- a write for a killed server is answered `ERR forward to ...` until its
  heartbeats are missed (`Cluster!ForwardFails`); the overview promises zero
  failed requests;
- a live owner without the key asks the others (`Cluster!GetLocal`), so a read
  right after a DEL may return the value that was deleted;
- `server/page.tsx:101` says that the page waits for the first successful fetch;
  line 122 shows it after a failed one as well (`ServerPage!Apply`), with zeros;
- the nodes do not know the command `KEYSTATS`, so the key browser of the cluster
  page is always empty (`ClusterPage!KeysEnd` has nothing to apply);
- `ProjectsBoard.tsx:86` says that a note never slides under the frame; the limits of a drag
  are measured with `getBoundingClientRect` (lines 66-74), which includes the frame (a border of
  14px, `globals.css:836`), so a note can be dragged that far onto it
  (`NoteBoard!Dragged`, which clamps between 0 and the whole width);
- `MainNav.tsx:39` lets the first appearance only fade in; a navigation that is left
  and entered within 380 ms shows the blob still morphing (`Widgets!HideBlob` leaves
  the flag), and a second switch of tabs is cut short by the timer of the first;
- `ProjectsBoard.tsx:141` keeps a drag from following a link by a flag that the
  release of the pointer has already cleared when the click arrives.

Bounds. `MaxWrites`, `MaxDels`, `MaxCrashes`, `MaxRestarts`, `MaxFalse`,
`MaxFlips`, `MaxFatals`, `MaxTransfers` and `MaxCopies` bound counters that the
program does not have; each is a guard. Three nodes are the deployment, and the
smallest number at which the owner, the replica and a third node differ. Two
connections suffice for a read or write racing a write; one key suffices in
`Cluster`, because servers treat keys independently except that one transfer
moves several in turn, which only spaces the steps further apart; a transfer's
snapshot is a separate step, so it can be arbitrarily old. In `Cluster` a server
holds a running peer dead after two steps `Miss` of its own (a suspect first, then dead; the
code counts to three), so four of them let two servers hold different peers dead, and all three rings differ. The two
troubles of `cluster` are kept apart by `OneTroubleSpec` of `MCCluster`: after a crash no heartbeat is
late, and late heartbeats meet one connection and one write. MIGRATE commands arrive in
`cluster_live` only; that `LastCopySafe` holds with them and with late heartbeats together is
proved, for any number of both. Six positions are the smallest ring on
which six virtual nodes need not collide. Four reachability changes cover a peer
that dies, returns and dies again while the other one changes too.

In `github`, two requests suffice for one to write back what it read before the
other refetched; with a refresh interval of 2 and a TTL of 3 an entry is fresh,
stale or gone at different times, and a request, a late write and an entry can
each outlast another.

In `site`, a position is half of a third of the pinned stretch (`Unit` = 2), so the threshold of
the snap, the end of the morph and the hold fall on different ones and the animation can be on
its way between them; the end of the page lies
beyond the stretch. Heights 4, 5 and 6 differ by 20 to 50 %, on both sides of the 25 % test, and
two small changes in a row may be one large one; a fourth size has another width. Two smooth scrolls, two
timers and two polls of a kind are the fewest that overlap; a poll that is over may be
followed by another without end. Windows of 3, 7 and 9 days lie within, fill and exceed a week,
and six days that pass begin them on every weekday and, with months of five days, in every
way a month may begin. Three events and two changes of state cut the list. Three notes, the last of them
watched, on boards of widths 7 and 9 with a frame of 1, reach both edges. The clip is three units
long with a threshold of one. `MaxLoops`, `MaxTimers`, `ClusterPolls`, `ServerPolls`, `MaxChanges`,
`MaxVersion` and `MaxDays` bound what the program does not; each is a guard.

Deadlock is checked everywhere but in `ring`, where a behaviour ends when the
next `AddNode` would exceed `MaxCopies`.

## 4. Fairness

`Gossip!Fairness`: the ticker fires (`Tick`), a ping ends by its 400 ms
deadlines and the mutex is handed on (`Loop(p)`), a transfer ends because every
forward in it has a deadline (`TransferEnds(p)`). Nothing is assumed of peers.
`Converges` is therefore conditional only on reachability settling, which it does
because `MaxFlips` bounds the changes.

`Cluster!Fairness`: the goroutine of each request, of each replication and of each
transfer keeps running, and a command that was sent is delivered or refused.
These are the Go scheduler, TCP and the 2 s dial deadline. Heartbeats,
crashes, restarts and new requests have no fairness: `Answers` does not rely on a
dead server ever being noticed.

`Site!SiteFairness`: the browser draws frames, ends its seeks and delivers
their events, fires timers; GSAP snaps once scrolling has stopped and the scrub
catches up; intervals go on, and a request is answered, fails or is aborted. These are promises
of the browser. Nothing is assumed of the user, of the API being within reach or
of its data: `VideoFollows` is conditional on the pointer resting, `ComesToRest` on
nobody scrolling or resizing, `ClusterConverges` and `ServerConverges` on
the page staying open and the API within reach; changes of the data are bounded.

## 5. Proofs

TLAPS checks the following for every value of the constants that satisfies the
modules' assumptions: `RingAssumption`, `GossipAssumption`, `ClusterAssumption`,
`GithubAssumption` and those of the modules of the pages. They say that bounds are naturals, that
the "nobody" values are no nodes, that a node has finitely many virtual nodes and at least one,
and that no two nodes have the same rank for a key; of the pages, that there are sections, window
sizes and boards, that the page is as long as the pinned stretch, that a board is no narrower
than its frame, that one of the windows of the uptime panel is the longest, that `/v1/server`
is one of the paths of `fast`, and that an answer of `/v1/cluster` names every subject once and none
by the name of an event of the page itself.

`RingProofs`
: `TypeCorrect`, `LiveOwnerHolds`, `AgreementHolds`, `ReplicaIsHeirHolds`,
  `MinimalMovementHolds`. The invariant behind the last three says that, without
  collisions, the support of the slice is exactly the set of positions of the
  members' virtual nodes, each once, and the map names their nodes; a lookup is
  then a statement about the nearest position. `LiveOwner` needs less: a map entry
  names a member or nobody, whatever collides. Minima over positions come
  from `NatOrder`.

`GossipProofs`
: `TypeCorrect`, `OneWriterHolds`, `ViewsAgreeHolds`, `RoutableHasAddressHolds`,
  `ViewRefines`. None of these is inductive alone: the invariant says, for each
  step of a ping, what status, ring, addresses and lock are there, and that a
  silent peer is dead only when its count is full. `ViewRefines` maps each step to
  a step of `Membership` or a stutter.

`ClusterProofs`
: `TypeCorrect`; `PathsDescendHolds` (a server forwards to the minimum of a set
  that contains itself, so the rank falls along the path and bounds its
  length); `LastCopySafeHolds`. The argument for the last one: a transfer
  deletes an entry only after a command with a value has been delivered to
  the owner on its ring, which is another server with a smaller rank. So the holder of
  smallest rank, if it ever loses its entry, has handed it to one still smaller.
  `CopyInv` says that only transfers delete, that a running transfer carries a real
  value, that a confirmed hand-over has a holder of smaller rank than the sender, and
  that a written key is held somewhere. It is conditional on the absence of crashes and DELs,
  which do delete.

  `ReadFindsCopyHolds` holds while servers crash and stay down, none is suspected wrongly and
  nothing is deleted or moved (`OnlyCrashes`, which is the first trouble of the run `cluster`): a
  transfer does hide copies, as the run `cluster_transfer` and the properties about it show. `CrashInv` says that
  then every server that runs is seen alive by all that run, that no transfer and no
  DEL is on its way, that a server that is down holds nothing, and that the copies a read
  counted when it began are never more than there are, nor, while it asks one server
  after the other, more than there are on those still to be asked; so a read that
  has asked them all counted none.

  `FreshWithoutFailureHolds` and `TwoCopiesWithoutFailureHolds` need that no MIGRATE command
  arrives, because a transfer deletes what it has handed on and may hand on an old value over
  a new one; the second also needs two servers, since one alone has nobody to
  replicate to. `CalmInv` says that all servers then agree about the owner and the replica of a key
  (`RingsAgree`), that the owner holds the last write and no command of a replication is
  addressed to it, that a read that found nothing at the owner began before the first write, and that
  the replica of a written key has a copy or is about to be sent one. None of the
  two properties is inductive without knowing what is under way.

`GithubProofs`
: `TypeCorrect`, `FreshAnswersHolds`, `ErrorNeedsBothHolds`. `FreshAnswers` speaks of finished
  requests only; the invariant gives every place an answer may come from its bound: a stored entry is
  no further behind GitHub than its age allows, neither is one that a request has read and
  carries on with, nor one that a late write is about to put back, and an ETag that is
  called current belongs to an entry that is. The time a request has been under way is
  part of each bound, which is where the one timeout (three while GitHub fails) in the property comes
  from. A profile that a 304 may extend is left out (`Covered`), as in the property.

`HeroProofs`
: `VideoSound` (`NoStuckSeek`, `NoBacklog`), `MorphSound` (`FitsWindow`,
  `SettledAtRest`), `LastLoopWinsHolds`. For the video, the
  seeks outstanding are counted apart from the flag's own, and the one back to the start can be
  there only once the metadata were handled. For the morph, the size noted by
  the handler is the one the animation was built from; that, with no timer pending, the window
  differs from it by a small change only is what `FitsWindow` needs. The class follows
  the scroll at every moment (`SettledByScroll`), also through a rebuild; since the
  progress of the scroll is what the animation catches up with, it agrees with the
  morph as soon as it has. `LastLoopWins` rests on the
  newest smooth scroll being the last of the queue, and the oldest being the one that ends.

`PageProofs`
: `NotesInsideHolds` (during a drag the place plus the offset at its start is where
  the note was, on the board measured then, both from its outer edge), `WidgetsSound`
  (`FlagsEnd`, `LabelRestored`), `PanelStaysHolds` (a poll that has ended with data carries a
  version). `GridAlignedHolds` is arithmetic: `WeeksFacts` says of each cell which day
  it shows, `FirstMonthIs` and `LabelsFacts` that the month does not change from a label
  to the next; that every answer has days enough for the window comes from `GridTypeOK`.
  Of the cluster page, `EventsChain` follows from `EventInv`: the newest event of a subject ends in
  the state it was seen in last (`prevStates`, which is not always the one on the card), and the
  events before it are a chain. `CountFromLast` and `ChangedFacts` say what an answer logs, one
  event for each subject that changed; `PushFacts` and `StoryGoesOn` that new
  events continue the chain, also when the list is cut.

`SiteProofs`
: the same properties for `SiteSpec`, that is for the pages as they are composed:
  `StuckSeekNever`, `BacklogNever`, `WindowFitted`,
  `SettledRight`, `SiteLastLoopWins`, `NotesStayInside`, `FlagsAlwaysEnd`,
  `LabelsRestored`, `SitePanelStays`, `GridAlwaysAligned`,
  `EventsChained`, and `SiteTypeCorrect` for the types of all of them. A step of the site is, for each
  component, one of its own steps, a mount or unmount, or a stutter; its
  invariant then carries over, also from its idle state. `NoRebuildBehindHolds` is about the
  composition itself: the morph is built, and its resize timer set, only while the landing
  page is open and the morph is the component watched (`BuildInv`), because leaving the page clears
  the timer, whichever page comes next.

Only model-checked: the liveness properties `Converges`, `Answers`, `VideoFollows`, `ComesToRest`,
`ClusterConverges` and `ServerConverges`, which are out of the prover's reach. Every invariant and
every action property that a passing run checks is proved. Two definitions are written with the
proofs in mind: `ClusterPage!Changed` lists the changes by counting from the last subject
(`FromLast`), and `UptimeGrid!Months` compares each week with the one before instead of
carrying the last label along; both are what the loops of the pages compute.

## 6. Not modelled, and the plan

Not modelled: start-up, flag parsing, configuration, the database, health,
discovery, statistics of the host, content pages, backgrounds, icons (no state, or one
library call). On the pages: what is computed from one answer for display (hit rates,
latencies, colours, bars), the text of a selected day's details, and the key browser with its
dialog, which never has a key to show.

What is left, in this order:

1. `Expiry`: TTLs. A transfer truncates the remaining time to whole seconds and
   sends a copy with less than a second left, or one that expired since the snapshot,
   without a TTL. Run: expiry against the promise that it is enforced on
   all copies.
2. Deadlines of `Forward` in `Cluster`: an answer that comes too late, a write that
   is applied although its client was told ERR.
3. `LogFiles`: request log and heartbeat file, append against rotation, the
   300 s availability result.
4. `Availability`: downtime per day against a reference count of uncovered
   instants.
5. `Deploy`: webhook, lock file, restart of the parent, watchdog.
6. Proofs: the rank order that `Cluster` assumes, from `Ring`; the invariants of the modules
   to come.
