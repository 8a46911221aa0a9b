-------------------------------- MODULE Site --------------------------------
(***************************************************************************)
(* The web site: its pages and how the browser goes from one to another.   *)
(* The links of /server and /cluster replace the page within the document  *)
(* (next/link), and so does going back from where they led; those of the   *)
(* landing page (plain <a>) load another document.                         *)
(*                                                                         *)
(* The components share no state, so one of them, `watch`, is exercised at *)
(* a time, across all the pages; the others are left out.                  *)
(***************************************************************************)
EXTENDS HeroVideo, HeroScroll, NoteBoard, Widgets, ClusterPage, ServerPage, UptimeGrid

VARIABLES
    watch,      \* the component exercised; constant
    page        \* the page that is open

navVars == <<watch, page>>

siteVars == <<navVars, reachable, videoVars, scrollVars, boardVars, widgetVars,
              clusterPageVars, serverPageVars, gridVars>>

Pages == {"landing", "cluster", "server"}

Home == [video |-> "landing", scroll |-> "landing", board |-> "landing",
         widgets |-> "landing", cluster |-> "cluster", server |-> "server",
         grid |-> "server"]

Watch == DOMAIN Home

\* All but one component stay as they are.
Others(w) ==
    /\ IF w = "video" THEN TRUE ELSE UNCHANGED videoVars
    /\ IF w = "scroll" THEN TRUE ELSE UNCHANGED scrollVars
    /\ IF w = "board" THEN TRUE ELSE UNCHANGED boardVars
    /\ IF w = "widgets" THEN TRUE ELSE UNCHANGED widgetVars
    /\ IF w = "cluster" THEN TRUE ELSE UNCHANGED clusterPageVars
    /\ IF w = "server" THEN TRUE ELSE UNCHANGED serverPageVars
    /\ IF w = "grid" THEN TRUE ELSE UNCHANGED gridVars

Step(w, A) == watch = w /\ A /\ Others(w) /\ UNCHANGED <<navVars, reachable>>

SiteInit ==
    /\ watch \in Watch /\ page = Home[watch]
    /\ ApiInit
    /\ IF watch = "video" THEN VideoInit ELSE VideoIdle
    /\ IF watch = "scroll" THEN ScrollInit ELSE ScrollIdle
    /\ IF watch = "board" THEN BoardInit ELSE BoardIdle
    /\ WidgetsInit
    /\ IF watch = "cluster" THEN ClusterInit ELSE ClusterIdle
    /\ IF watch = "server" THEN ServerInit ELSE ServerIdle
    /\ GridInit

-----------------------------------------------------------------------------
(* From page to page *)

Mount ==
    CASE watch = "video" -> VideoMount
      [] watch = "scroll" -> ScrollMount
      [] watch = "board" -> BoardMount
      [] watch = "widgets" -> WidgetsMount
      [] watch = "cluster" -> ClusterMount
      [] watch = "server" -> ServerMount
      [] watch = "grid" -> GridMount

\* The board, the widgets and the uptime panel have nothing to clean up.
Unmount(sameDocument) ==
    CASE watch = "video" -> VideoUnmount
      [] watch = "scroll" -> ScrollUnmount(sameDocument)
      [] watch = "cluster" -> ClusterUnmount
      [] watch = "server" -> ServerUnmount
      [] OTHER -> UNCHANGED <<boardVars, widgetVars, gridVars>>

\* The component watched is mounted or unmounted, or it is on neither page; a
\* smooth scroll ends with its document.
Replace(p, sameDocument) ==
    /\ p # page /\ page' = p
    /\ CASE p = Home[watch] -> Mount
         [] page = Home[watch] -> Unmount(sameDocument)
         [] OTHER -> IF watch = "scroll" THEN EndLoops(sameDocument) ELSE Others("none")
    /\ Others(watch)
    /\ UNCHANGED <<watch, reachable>>

\* A next/link, or back to a page of this document, which may be any.
Link(p) == Replace(p, TRUE)

\* A plain link of the landing page, or an address typed in.
Load(p) == Replace(p, FALSE)

Navigate == \E p \in Pages : Link(p) \/ Load(p)

-----------------------------------------------------------------------------

\* Nobody acts on a page that is not open; what runs on its own does.
SiteNext ==
    \/ Navigate
    \/ page = Home[watch]
       /\ \/ Step("video", VideoNext)
          \/ Step("board", BoardNext)
          \/ Step("widgets", WidgetsNext)
          \/ Step("grid", GridNext)
    \/ Step("scroll", ScrollNext)
    \/ Step("cluster", ClusterNext)
    \/ Step("server", ServerNext)
    \/ watch \in {"cluster", "server"} /\ ApiNext /\ Others("none") /\ UNCHANGED navVars

\* Frames are drawn, timers fire, the browser ends what it has begun, polls are
\* started and answered or not.
SiteFairness ==
    /\ WF_siteVars(Step("video", Tick))
    /\ WF_siteVars(Step("video", SeekEnds))
    /\ WF_siteVars(Step("video", HandleSeeked))
    /\ WF_siteVars(Step("scroll", TimerFires))
    /\ WF_siteVars(Step("scroll", Snap))
    /\ WF_siteVars(Step("scroll", Scrub))
    /\ WF_siteVars(Step("scroll", LoopEnds))
    /\ \A i \in 1 .. ClusterPolls : WF_siteVars(Step("cluster", ClusterRuns(i)))
    /\ \A i \in 1 .. ServerPolls : WF_siteVars(Step("server", ServerRuns(i)))
    /\ WF_siteVars(Step("server", FastEnds))

SiteSpec == SiteInit /\ [][SiteNext]_siteVars /\ SiteFairness

-----------------------------------------------------------------------------
(* Properties *)

SiteTypeOK ==
    /\ watch \in Watch /\ page \in Pages
    /\ ApiTypeOK
    /\ VideoTypeOK /\ ScrollTypeOK /\ BoardTypeOK /\ WidgetsTypeOK
    /\ ClusterPageTypeOK /\ ServerPageTypeOK /\ GridTypeOK

\* The morph is never built while another page is open: a resize that is still
\* waited for when the page is left is forgotten, else its timer would measure
\* elements that are gone and pin a page that is not there.  (A smooth scroll is
\* not forgotten: it goes on with whatever page the document shows.)
NoRebuildBehind == page # "landing" => built = NotBuilt
=============================================================================
