----------------------------- MODULE SiteProofs -----------------------------
(***************************************************************************)
(* Proofs about Site: what HeroProofs and PageProofs show of the steps of  *)
(* the components holds in the site they are parts of, through every way   *)
(* of leaving their pages and coming back.                                 *)
(***************************************************************************)
EXTENDS Site, HeroProofs, PageProofs

\* A navigation mounts the component, unmounts it, or does neither.
LEMMA ReplaceCases ==
    ASSUME NEW p \in Pages, NEW same \in BOOLEAN, Replace(p, same)
    PROVE  /\ Others(watch) /\ UNCHANGED <<watch, reachable>> /\ p # page /\ page' = p
           /\ \/ p = Home[watch] /\ Mount
              \/ page = Home[watch] /\ Unmount(same)
              \/ p # Home[watch] /\ page # Home[watch] /\ watch = "scroll" /\ EndLoops(same)
              \/ p # Home[watch] /\ page # Home[watch] /\ watch # "scroll" /\ Others("none")
<1>1. Others(watch) /\ UNCHANGED <<watch, reachable>> /\ p # page /\ page' = p
  BY DEF Replace
<1>2. CASE p = Home[watch]
  <2>1. Mount
    BY <1>1, <1>2 DEF Replace
  <2> QED
    BY <1>1, <1>2, <2>1
<1>3. CASE page = Home[watch]
  <2>1. Unmount(same)
    BY <1>1, <1>3 DEF Replace
  <2> QED
    BY <1>1, <1>3, <2>1
<1>4. CASE p # Home[watch] /\ page # Home[watch]
  <2>1. IF watch = "scroll" THEN EndLoops(same) ELSE Others("none")
    BY <1>1, <1>4 DEF Replace
  <2> QED
    BY <1>1, <1>4, <2>1
<1> QED
  BY <1>2, <1>3, <1>4

\* A step of the site is a navigation, a step of the component watched, which
\* leaves the others alone, or one of the API.
LEMMA SiteStepCases ==
    ASSUME [SiteNext]_siteVars
    PROVE  \/ \E p \in Pages, same \in BOOLEAN : Replace(p, same)
           \/ page = Home[watch] /\ Step("video", VideoNext)
           \/ page = Home[watch] /\ Step("board", BoardNext)
           \/ page = Home[watch] /\ Step("widgets", WidgetsNext)
           \/ page = Home[watch] /\ Step("grid", GridNext)
           \/ Step("scroll", ScrollNext)
           \/ Step("cluster", ClusterNext)
           \/ Step("server", ServerNext)
           \/ Others("none") /\ UNCHANGED navVars
<1>1. CASE Navigate
  BY <1>1 DEF Navigate, Link, Load
<1>2. CASE UNCHANGED siteVars
  BY <1>2 DEF siteVars, Others
<1> QED
  BY <1>1, <1>2 DEF SiteNext

\* A step of the site is one of the video, or leaves it as it is.
LEMMA VideoInSite == [SiteNext]_siteVars => [VideoStep]_videoVars
<1> SUFFICES ASSUME [SiteNext]_siteVars
             PROVE  [VideoStep]_videoVars
  OBVIOUS
<1>1. ASSUME NEW p \in Pages, NEW same \in BOOLEAN, Replace(p, same)
      PROVE  [VideoStep]_videoVars
  <2>1. CASE watch = "video"
    BY <1>1, <2>1, ReplaceCases DEF Mount, Unmount, Others, VideoStep
  <2>2. CASE watch # "video"
    BY <1>1, <2>2, ReplaceCases DEF Others
  <2> QED
    BY <2>1, <2>2
<1>2. CASE Step("video", VideoNext)
  BY <1>2 DEF Step, VideoStep
<1>3. ASSUME NEW w \in Watch \ {"video"}, Others(w)
      PROVE  UNCHANGED videoVars
  BY <1>3 DEF Others
<1>4. CASE Others("none")
  BY <1>4 DEF Others
<1> QED
  BY <1>1, <1>2, <1>3, <1>4, SiteStepCases DEF Step, Watch, Home

\* A step of the site is one of the morph, or leaves it as it is.
LEMMA ScrollInSite == [SiteNext]_siteVars => [ScrollStep]_scrollVars
<1> SUFFICES ASSUME [SiteNext]_siteVars
             PROVE  [ScrollStep]_scrollVars
  OBVIOUS
<1>1. ASSUME NEW p \in Pages, NEW same \in BOOLEAN, Replace(p, same)
      PROVE  [ScrollStep]_scrollVars
  <2>1. CASE watch = "scroll"
    BY <1>1, <2>1, ReplaceCases DEF Mount, Unmount, Others, ScrollStep, ScrollAway
  <2>2. CASE watch # "scroll"
    BY <1>1, <2>2, ReplaceCases DEF Others
  <2> QED
    BY <2>1, <2>2
<1>2. CASE Step("scroll", ScrollNext)
  BY <1>2 DEF Step, ScrollStep
<1>3. ASSUME NEW w \in Watch \ {"scroll"}, Others(w)
      PROVE  UNCHANGED scrollVars
  BY <1>3 DEF Others
<1>4. CASE Others("none")
  BY <1>4 DEF Others
<1> QED
  BY <1>1, <1>2, <1>3, <1>4, SiteStepCases DEF Step, Watch, Home

\* A step of the site is one of the board, or leaves it as it is.
LEMMA BoardInSite == [SiteNext]_siteVars => [BoardStep]_boardVars
<1> SUFFICES ASSUME [SiteNext]_siteVars
             PROVE  [BoardStep]_boardVars
  OBVIOUS
<1>1. ASSUME NEW p \in Pages, NEW same \in BOOLEAN, Replace(p, same)
      PROVE  [BoardStep]_boardVars
  <2>1. CASE watch = "board"
    BY <1>1, <2>1, ReplaceCases DEF Mount, Unmount, Others, BoardStep
  <2>2. CASE watch # "board"
    BY <1>1, <2>2, ReplaceCases DEF Others
  <2> QED
    BY <2>1, <2>2
<1>2. CASE Step("board", BoardNext)
  BY <1>2 DEF Step, BoardStep
<1>3. ASSUME NEW w \in Watch \ {"board"}, Others(w)
      PROVE  UNCHANGED boardVars
  BY <1>3 DEF Others
<1>4. CASE Others("none")
  BY <1>4 DEF Others
<1> QED
  BY <1>1, <1>2, <1>3, <1>4, SiteStepCases DEF Step, Watch, Home

\* A step of the site is one of the widgets, or leaves it as it is.
LEMMA WidgetsInSite == [SiteNext]_siteVars => [WidgetsStep]_widgetVars
<1> SUFFICES ASSUME [SiteNext]_siteVars
             PROVE  [WidgetsStep]_widgetVars
  OBVIOUS
<1>1. ASSUME NEW p \in Pages, NEW same \in BOOLEAN, Replace(p, same)
      PROVE  [WidgetsStep]_widgetVars
  <2>1. CASE watch = "widgets"
    BY <1>1, <2>1, ReplaceCases DEF Mount, Unmount, Others, WidgetsStep
  <2>2. CASE watch # "widgets"
    BY <1>1, <2>2, ReplaceCases DEF Others
  <2> QED
    BY <2>1, <2>2
<1>2. CASE Step("widgets", WidgetsNext)
  BY <1>2 DEF Step, WidgetsStep
<1>3. ASSUME NEW w \in Watch \ {"widgets"}, Others(w)
      PROVE  UNCHANGED widgetVars
  BY <1>3 DEF Others
<1>4. CASE Others("none")
  BY <1>4 DEF Others
<1> QED
  BY <1>1, <1>2, <1>3, <1>4, SiteStepCases DEF Step, Watch, Home

\* A step of the site is one of the uptime panel, or leaves it as it is.
LEMMA GridInSite == [SiteNext]_siteVars => [GridStep]_gridVars
<1> SUFFICES ASSUME [SiteNext]_siteVars
             PROVE  [GridStep]_gridVars
  OBVIOUS
<1>1. ASSUME NEW p \in Pages, NEW same \in BOOLEAN, Replace(p, same)
      PROVE  [GridStep]_gridVars
  <2>1. CASE watch = "grid"
    BY <1>1, <2>1, ReplaceCases DEF Mount, Unmount, Others, GridStep
  <2>2. CASE watch # "grid"
    BY <1>1, <2>2, ReplaceCases DEF Others
  <2> QED
    BY <2>1, <2>2
<1>2. CASE Step("grid", GridNext)
  BY <1>2 DEF Step, GridStep
<1>3. ASSUME NEW w \in Watch \ {"grid"}, Others(w)
      PROVE  UNCHANGED gridVars
  BY <1>3 DEF Others
<1>4. CASE Others("none")
  BY <1>4 DEF Others
<1> QED
  BY <1>1, <1>2, <1>3, <1>4, SiteStepCases DEF Step, Watch, Home

\* A step of the site is one of the panels of /server, or leaves it as it is.
LEMMA ServerInSite == [SiteNext]_siteVars => [ServerStep]_serverPageVars
<1> SUFFICES ASSUME [SiteNext]_siteVars
             PROVE  [ServerStep]_serverPageVars
  OBVIOUS
<1>1. ASSUME NEW p \in Pages, NEW same \in BOOLEAN, Replace(p, same)
      PROVE  [ServerStep]_serverPageVars
  <2>1. CASE watch = "server"
    BY <1>1, <2>1, ReplaceCases DEF Mount, Unmount, Others, ServerStep
  <2>2. CASE watch # "server"
    BY <1>1, <2>2, ReplaceCases DEF Others
  <2> QED
    BY <2>1, <2>2
<1>2. CASE Step("server", ServerNext)
  BY <1>2 DEF Step, ServerStep
<1>3. ASSUME NEW w \in Watch \ {"server"}, Others(w)
      PROVE  UNCHANGED serverPageVars
  BY <1>3 DEF Others
<1>4. CASE Others("none")
  BY <1>4 DEF Others
<1> QED
  BY <1>1, <1>2, <1>3, <1>4, SiteStepCases DEF Step, Watch, Home

\* A step of the site is one of the page /cluster, or leaves it as it is.
LEMMA ClusterInSite == [SiteNext]_siteVars => [ClusterStep]_clusterPageVars
<1> SUFFICES ASSUME [SiteNext]_siteVars
             PROVE  [ClusterStep]_clusterPageVars
  OBVIOUS
<1>1. ASSUME NEW p \in Pages, NEW same \in BOOLEAN, Replace(p, same)
      PROVE  [ClusterStep]_clusterPageVars
  <2>1. CASE watch = "cluster"
    BY <1>1, <2>1, ReplaceCases DEF Mount, Unmount, Others, ClusterStep
  <2>2. CASE watch # "cluster"
    BY <1>1, <2>2, ReplaceCases DEF Others
  <2> QED
    BY <2>1, <2>2
<1>2. CASE Step("cluster", ClusterNext)
  BY <1>2 DEF Step, ClusterStep
<1>3. ASSUME NEW w \in Watch \ {"cluster"}, Others(w)
      PROVE  UNCHANGED clusterPageVars
  BY <1>3 DEF Others
<1>4. CASE Others("none")
  BY <1>4 DEF Others
<1> QED
  BY <1>1, <1>2, <1>3, <1>4, SiteStepCases DEF Step, Watch, Home

-----------------------------------------------------------------------------
(* Every component sound within the site *)

\* The invariants of the components, taken together.
PagesInv ==
    /\ VideoInv /\ ScrollInv /\ Newest /\ BoardInv
    /\ OrderInv /\ WidgetsInv /\ GridTypeOK
    /\ ServerInv /\ path \in FastPaths \cup SlowPaths /\ EventInv

\* Each component starts as it does by itself, or idle.
LEMMA PagesStart == SiteInit => PagesInv
<1> SUFFICES ASSUME SiteInit
             PROVE  PagesInv
  OBVIOUS
<1>1. /\ VideoInit \/ VideoIdle
      /\ ScrollInit \/ ScrollIdle
      /\ BoardInit \/ BoardIdle
      /\ ServerInit \/ ServerIdle
      /\ ClusterInit \/ ClusterIdle
      /\ WidgetsInit /\ GridInit
  BY DEF SiteInit
<1>2. Newest
  BY <1>1 DEF Newest, ScrollInit, ScrollIdle
<1> QED
  BY <1>1, <1>2, VideoStarts, ScrollStarts, BoardStarts, OrderStarts, WidgetsStarts,
     GridStarts, ServerStarts, PathStarts, EventsStart DEF PagesInv

\* And each keeps its own invariant.
LEMMA PagesKeep == PagesInv /\ [SiteNext]_siteVars => PagesInv'
<1> SUFFICES ASSUME PagesInv, [SiteNext]_siteVars
             PROVE  PagesInv'
  OBVIOUS
<1>1. VideoInv'
  BY VideoInSite, VideoKeeps DEF PagesInv
<1>2. ScrollInv' /\ Newest'
  BY ScrollInSite, ScrollKeeps, NewestKeeps DEF PagesInv
<1>3. BoardInv' /\ OrderInv' /\ WidgetsInv' /\ GridTypeOK'
  BY BoardInSite, BoardKeeps, OrderKeeps, WidgetsInSite, WidgetsKeeps, GridInSite, GridKeeps
     DEF PagesInv
<1>4. ServerInv' /\ path' \in FastPaths \cup SlowPaths
  BY ServerInSite, ServerKeeps, PathKeeps DEF PagesInv
<1>5. EventInv'
  BY ClusterInSite, EventsKeep DEF PagesInv
<1> QED
  BY <1>1, <1>2, <1>3, <1>4, <1>5 DEF PagesInv

\* So the invariants hold throughout.
LEMMA PagesAlways == SiteSpec => []PagesInv
BY PagesStart, PagesKeep, PTL DEF SiteSpec

\* However the landing page is left and come back to, the flag of the hero video is
\* never left set without a seek that clears it.
THEOREM StuckSeekNever == SiteSpec => []NoStuckSeek
<1>1. PagesInv => NoStuckSeek
  BY DEF PagesInv, VideoInv
<1> QED
  BY <1>1, PagesAlways, PTL

\* Nor do its seeks ever pile up.
THEOREM BacklogNever == SiteSpec => []NoBacklog
<1>1. PagesInv => NoBacklog
  BY DEF PagesInv, VideoInv
<1> QED
  BY <1>1, PagesAlways, PTL

\* The animation of the morph fits the window whenever no resize is waited for.
THEOREM WindowFitted == SiteSpec => []FitsWindow
<1>1. PagesInv => FitsWindow
  BY ScrollMeans DEF PagesInv
<1> QED
  BY <1>1, PagesAlways, PTL

\* Whenever the animation has caught up with the scroll, the text is set as
\* settled just if the morph is over, also after a rebuild or a visit elsewhere.
THEOREM SettledRight == SiteSpec => []SettledAtRest
<1>1. PagesInv => SettledAtRest
  BY ScrollMeans DEF PagesInv
<1> QED
  BY <1>1, PagesAlways, PTL

\* A note that was dragged on the board as it is lies within its outer edge.
THEOREM NotesStayInside == SiteSpec => []NotesInside
<1>1. PagesInv => NotesInside
  BY DEF PagesInv, BoardInv
<1> QED
  BY <1>1, PagesAlways, PTL

\* No flag of the navigation, the tabs or the copy button is up without a timer.
THEOREM FlagsAlwaysEnd == SiteSpec => []FlagsEnd
<1>1. PagesInv => FlagsEnd
  BY DEF PagesInv, WidgetsInv
<1> QED
  BY <1>1, PagesAlways, PTL

\* A scrambled link that the pointer has left shows its label.
THEOREM LabelsRestored == SiteSpec => []LabelRestored
<1>1. PagesInv => LabelRestored
  BY DEF PagesInv, WidgetsInv
<1> QED
  BY <1>1, PagesAlways, PTL

\* The grid of the uptime panel shows every day of the window in its row and
\* column, under the label of its month.
THEOREM GridAlwaysAligned == SiteSpec => []GridAligned
<1>1. PagesInv => GridAligned
  BY GridIsAligned DEF PagesInv
<1> QED
  BY <1>1, PagesAlways, PTL

\* The list of events of /cluster tells a story without a gap, however late and
\* in whatever order the answers arrive.
THEOREM EventsChained == SiteSpec => []EventsChain
<1>1. PagesInv => EventsChain
  BY StoryMeans DEF PagesInv
<1> QED
  BY <1>1, PagesAlways, PTL

\* In the site the last smooth scroll wins, also over one started on a visit of
\* the landing page before this one.
THEOREM SiteLastLoopWins == SiteSpec => LastLoopWins
<1>1. SiteInit => PagesInv
  BY PagesStart
<1>2. PagesInv /\ [SiteNext]_siteVars => PagesInv'
  BY PagesKeep
<1>3. PagesInv /\ [SiteNext]_siteVars
          => [LoopEnds /\ loops' = <<>> => scroll' = dest]_scrollVars
  BY ScrollInSite, LastLoopStep DEF PagesInv
<1> QED
  BY <1>1, <1>2, <1>3, PTL DEF SiteSpec, LastLoopWins

\* In the site a panel of /server that shows data shows data until it is closed.
THEOREM SitePanelStays == SiteSpec => PanelStays
<1>1. SiteInit => PagesInv
  BY PagesStart
<1>2. PagesInv /\ [SiteNext]_siteVars => PagesInv'
  BY PagesKeep
<1>3. PagesInv /\ [SiteNext]_siteVars
          => [ShowsData /\ serverOpen' => ShowsData']_serverPageVars
  BY ServerInSite, PanelStep DEF PagesInv
<1> QED
  BY <1>1, <1>2, <1>3, PTL DEF SiteSpec, PanelStays

\* The navigation and the API.
NavInv == watch \in Watch /\ page \in Pages /\ ApiTypeOK

\* The site starts on the page of what is watched.
LEMMA NavStarts == SiteInit => NavInv
BY DEF SiteInit, NavInv, Watch, Home, Pages, ApiInit, ApiTypeOK

\* What is watched stays, and one of the pages is open.
LEMMA NavKeeps == NavInv /\ [SiteNext]_siteVars => NavInv'
<1> SUFFICES ASSUME NavInv, [SiteNext]_siteVars
             PROVE  NavInv'
  OBVIOUS
<1>1. watch' = watch /\ page' \in Pages
  <2>1. ASSUME NEW p \in Pages, NEW same \in BOOLEAN, Replace(p, same)
        PROVE  watch' = watch /\ page' \in Pages
    BY <2>1, ReplaceCases
  <2> QED
    BY <2>1, SiteStepCases DEF Step, navVars, NavInv
<1>2. reachable' \in BOOLEAN
  BY DEF SiteNext, Navigate, Link, Load, Replace, Step, ApiNext, siteVars, NavInv, ApiTypeOK
<1> QED
  BY <1>1, <1>2 DEF NavInv, ApiTypeOK

\* Every component of the pages keeps its types, among them the notes of the
\* board, each of which stays in the order they lie in.
THEOREM SiteTypeCorrect == SiteSpec => []SiteTypeOK
<1>1. SiteInit => PagesInv /\ NavInv
  BY PagesStart, NavStarts
<1>2. PagesInv /\ NavInv /\ [SiteNext]_siteVars => PagesInv' /\ NavInv'
  BY PagesKeep, NavKeeps
<1>3. PagesInv /\ NavInv => SiteTypeOK
  <2> SUFFICES ASSUME PagesInv, NavInv
               PROVE  SiteTypeOK
    OBVIOUS
  <2>1. VideoTypeOK /\ ScrollTypeOK /\ WidgetsTypeOK /\ ClusterPageTypeOK /\ GridTypeOK
    BY DEF PagesInv, VideoInv, ScrollInv, WidgetsInv, EventInv
  <2>2. BoardTypeOK
    BY DEF PagesInv, BoardInv, OrderInv, BoardTypeOK
  <2>3. ServerPageTypeOK
    BY DEF PagesInv, ServerInv, PollRecord, ServerPageTypeOK
  <2> QED
    BY <2>1, <2>2, <2>3 DEF NavInv, SiteTypeOK
<1> QED
  BY <1>1, <1>2, <1>3, PTL DEF SiteSpec

-----------------------------------------------------------------------------
(* The morph and the other pages *)

\* The morph is built only where it is watched and its page is open, and where it
\* is not built no timer is left that would build it.
BuildInv ==
    /\ built # NotBuilt => watch = "scroll" /\ page = "landing"
    /\ built = NotBuilt => timer = FALSE

\* What runs on its own builds nothing but over what is built already.
LEMMA BuildSteps ==
    ASSUME ScrollInv, BuildInv, ScrollNext
    PROVE  /\ built' = NotBuilt <=> built = NotBuilt
           /\ built = NotBuilt => timer' = timer
<1>1. CASE TimerFires
  <2>1. built # NotBuilt
    BY <1>1, Zenon DEF TimerFires, BuildInv
  <2>2. built' = built \/ built' = win
    BY <1>1, Zenon DEF TimerFires
  <2>3. win # NotBuilt
    BY BuildIsBuilt DEF ScrollInv, ScrollTypeOK
  <2> QED
    BY <2>1, <2>2, <2>3
<1>2. CASE Resize
  BY <1>2 DEF Resize
<1>3. CASE Wheel \/ Snap \/ Scrub \/ Frame \/ LoopEnds
  BY <1>3 DEF Wheel, Snap, Scrub, Frame, LoopEnds, LoopEndsAt
<1>4. ASSUME NEW y \in Sections, ClickLink(y)
      PROVE  built' = built /\ timer' = timer
  BY <1>4 DEF ClickLink
<1> QED
  BY <1>1, <1>2, <1>3, <1>4 DEF ScrollNext, ScrollUser, ScrollRuns, LoopRuns

\* Whatever is watched, the page that opens first is its own.
LEMMA BuildStarts == SiteInit => BuildInv
<1> SUFFICES ASSUME SiteInit
             PROVE  BuildInv
  OBVIOUS
<1>1. CASE watch = "scroll"
  <2>1. page = "landing" /\ built # NotBuilt
    <3>1. win \in Sizes /\ built = win
      BY <1>1 DEF SiteInit, ScrollInit
    <3>2. page = "landing"
      BY <1>1 DEF SiteInit, Home
    <3> QED
      BY <3>1, <3>2, BuildIsBuilt
  <2> QED
    BY <1>1, <2>1 DEF BuildInv
<1>2. CASE watch # "scroll"
  BY <1>2 DEF SiteInit, ScrollIdle, BuildInv
<1> QED
  BY <1>1, <1>2

\* Leaving the landing page forgets the timer along with the animation.
LEMMA BuildNavigates ==
    ASSUME ScrollInv, BuildInv, NEW p \in Pages, NEW same \in BOOLEAN, Replace(p, same)
    PROVE  BuildInv'
<1>1. watch' = watch /\ p # page /\ page' = p
  BY ReplaceCases
<1>2. CASE watch # "scroll"
  <2>1. UNCHANGED <<built, timer>>
    BY <1>2, ReplaceCases DEF Others, scrollVars
  <2>2. built' = NotBuilt /\ timer' = FALSE
    BY <1>2, <2>1 DEF BuildInv
  <2> QED
    BY <2>2 DEF BuildInv
<1>3. CASE watch = "scroll" /\ p = Home[watch]
  <2>1. page' = "landing" /\ ScrollMount
    BY <1>1, <1>3, ReplaceCases DEF Mount, Home
  <2>2. built' # NotBuilt
    BY <2>1, BuildIsBuilt DEF ScrollMount
  <2> QED
    BY <1>1, <1>3, <2>1, <2>2 DEF BuildInv
<1>4. CASE watch = "scroll" /\ page = Home[watch]
  <2>1. ScrollUnmount(same)
    BY <1>1, <1>4, ReplaceCases DEF Unmount
  <2>2. built' = NotBuilt /\ timer' = FALSE
    BY <2>1 DEF ScrollUnmount
  <2> QED
    BY <2>2 DEF BuildInv
<1>5. CASE watch = "scroll" /\ p # Home[watch] /\ page # Home[watch]
  <2>1. EndLoops(same)
    BY <1>5, ReplaceCases
  <2>2. built' = NotBuilt /\ timer' = FALSE
    BY <2>1 DEF EndLoops, BuildInv
  <2> QED
    BY <2>2 DEF BuildInv
<1> QED
  BY <1>2, <1>3, <1>4, <1>5

\* No step of the site builds the morph behind another page.
LEMMA BuildKeeps == PagesInv /\ BuildInv /\ [SiteNext]_siteVars => BuildInv'
<1> SUFFICES ASSUME PagesInv, BuildInv, [SiteNext]_siteVars
             PROVE  BuildInv'
  OBVIOUS
<1>1. ScrollInv
  BY DEF PagesInv
<1>2. ASSUME NEW p \in Pages, NEW same \in BOOLEAN, Replace(p, same)
      PROVE  BuildInv'
  BY <1>1, <1>2, BuildNavigates
<1>3. ASSUME Step("scroll", ScrollNext)
      PROVE  BuildInv'
  <2>1. /\ watch' = watch /\ page' = page
        /\ built' = NotBuilt <=> built = NotBuilt
        /\ built = NotBuilt => timer' = timer
    BY <1>1, <1>3, BuildSteps DEF Step, navVars
  <2> QED
    BY <2>1 DEF BuildInv
<1>4. ASSUME NEW w \in {"video", "board", "widgets", "grid", "cluster", "server", "none"},
             Others(w), UNCHANGED navVars
      PROVE  BuildInv'
  BY <1>4 DEF Others, scrollVars, navVars, BuildInv
<1> QED
  BY <1>2, <1>3, <1>4, SiteStepCases DEF Step

\* However the landing page was left, whatever resize was waited for then and
\* whatever scrolls go on behind it, the morph is not built on another page.
THEOREM NoRebuildBehindHolds == SiteSpec => []NoRebuildBehind
<1>1. SiteInit => PagesInv /\ BuildInv
  BY PagesStart, BuildStarts
<1>2. PagesInv /\ BuildInv /\ [SiteNext]_siteVars => PagesInv' /\ BuildInv'
  BY PagesKeep, BuildKeeps
<1>3. BuildInv => NoRebuildBehind
  BY DEF BuildInv, NoRebuildBehind
<1> QED
  BY <1>1, <1>2, <1>3, PTL DEF SiteSpec
=============================================================================
