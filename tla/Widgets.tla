------------------------------ MODULE Widgets ------------------------------
(***************************************************************************)
(* The small components of the landing page: the blob of the navigation    *)
(* (web/src/components/MainNav.tsx), the tabs (ExperienceTabs.tsx), the    *)
(* copy button (NpxCallout.tsx), the links whose text is scrambled         *)
(* (HeroLinks.tsx) and the GitHub activity (GitHubActivity.tsx).           *)
(*                                                                         *)
(* Three of them set a flag and start a timer that clears it.  No timer is *)
(* ever cancelled, so several may be on their way, and the animation the   *)
(* flag starts may also clear it, unless its element goes away first.      *)
(***************************************************************************)
EXTENDS Browser

CONSTANTS
    Links,      \* how many links there are in the navigation
    MaxTimers   \* timers of one component at a time

ASSUME WidgetsAssumption == Links \in Nat \ {0} /\ MaxTimers \in Nat \ {0}

VARIABLES
    active,         \* the link under the blob, 0 for none (and no blob)
    tab,            \* "work" or "education"
    flag,           \* morphing of the blob, morphing of the tabs, and copied
    timers,         \* the timers that will clear it
    over,           \* the pointer is on the scrambled link
    tween,          \* its text is being scrambled
    text,           \* its text, "label" or "scrambled"
    activity        \* the GitHub activity: "loading", "none", "commits"

widgetVars == <<active, tab, flag, timers, over, tween, text, activity>>

Flags == {"nav", "tabs", "copied"}

WidgetsInit ==
    /\ active = 0 /\ tab = "work"
    /\ flag = [f \in Flags |-> FALSE] /\ timers = [f \in Flags |-> 0]
    /\ over = FALSE /\ tween = FALSE /\ text = "label"
    /\ activity = "loading"

\* A component's timers outlive it; they find nothing to set.
WidgetsMount ==
    /\ active' = 0 /\ tab' = "work"
    /\ flag' = [f \in Flags |-> FALSE] /\ timers' = [f \in Flags |-> 0]
    /\ over' = FALSE /\ tween' = FALSE /\ text' = "label"
    /\ activity' = "loading"

-----------------------------------------------------------------------------
(* Flags with timers *)

Raise(f) ==
    /\ timers[f] < MaxTimers
    /\ flag' = [flag EXCEPT ![f] = TRUE]
    /\ timers' = [timers EXCEPT ![f] = @ + 1]

TimerClears(f) ==
    /\ timers[f] > 0
    /\ timers' = [timers EXCEPT ![f] = @ - 1]
    /\ flag' = [flag EXCEPT ![f] = FALSE]
    /\ UNCHANGED <<active, tab, over, tween, text, activity>>

\* onAnimationEnd; the blob has to be there, and an event may be dropped.
AnimationEnd(f) ==
    /\ f # "copied" /\ flag[f] /\ (f = "nav" => active # 0)
    /\ flag' = [flag EXCEPT ![f] = FALSE]
    /\ UNCHANGED <<active, tab, timers, over, tween, text, activity>>

\* moveBlobTo: a wobble, unless the blob has just appeared.
MoveBlobTo(i) ==
    /\ active' = i
    /\ IF active = 0 THEN UNCHANGED <<flag, timers>> ELSE Raise("nav")
    /\ UNCHANGED <<tab, over, tween, text, activity>>

\* Mutant: hiding the blob also cancels its timers.
HideBlobCancels ==
    /\ active # 0 /\ active' = 0
    /\ timers' = [timers EXCEPT !["nav"] = 0]
    /\ UNCHANGED <<tab, flag, over, tween, text, activity>>

HideBlob ==
    /\ active # 0 /\ active' = 0
    /\ UNCHANGED <<tab, flag, timers, over, tween, text, activity>>

SelectTab(t) ==
    /\ t # tab /\ tab' = t
    /\ Raise("tabs")
    /\ UNCHANGED <<active, over, tween, text, activity>>

HandleCopy ==
    /\ Raise("copied")
    /\ UNCHANGED <<active, tab, over, tween, text, activity>>

-----------------------------------------------------------------------------
(* The scrambled link *)

\* A new tween overwrites the last.
HandleEnter ==
    /\ ~ over /\ over' = TRUE /\ tween' = TRUE
    /\ UNCHANGED <<active, tab, flag, timers, text, activity>>

\* A frame of the tween.
Scramble ==
    /\ tween /\ text' = "scrambled"
    /\ UNCHANGED <<active, tab, flag, timers, over, tween, activity>>

\* onComplete.
TweenEnds ==
    /\ tween /\ tween' = FALSE /\ text' = "label"
    /\ UNCHANGED <<active, tab, flag, timers, over, activity>>

\* Mutant: the tween goes on after the text is restored.
HandleLeaveRunning ==
    /\ over /\ over' = FALSE /\ text' = "label"
    /\ UNCHANGED <<active, tab, flag, timers, tween, activity>>

HandleLeave ==
    /\ over /\ over' = FALSE /\ tween' = FALSE /\ text' = "label"
    /\ UNCHANGED <<active, tab, flag, timers, activity>>

-----------------------------------------------------------------------------
(* The GitHub activity *)

\* fetchGithub never throws but in res.json(), which leaves null as well.
FetchGithubEnds ==
    /\ activity = "loading"
    /\ activity' \in {"none", "commits"}
    /\ UNCHANGED <<active, tab, flag, timers, over, tween, text>>

WidgetsNext ==
    \/ \E f \in Flags : TimerClears(f) \/ AnimationEnd(f)
    \/ \E i \in 1 .. Links : MoveBlobTo(i)
    \/ \E t \in {"work", "education"} : SelectTab(t)
    \/ HideBlob \/ HandleCopy
    \/ HandleEnter \/ Scramble \/ TweenEnds \/ HandleLeave
    \/ FetchGithubEnds

WidgetsSpec == WidgetsInit /\ [][WidgetsNext \/ WidgetsMount]_widgetVars

-----------------------------------------------------------------------------
(* Properties *)

WidgetsTypeOK ==
    /\ active \in 0 .. Links /\ tab \in {"work", "education"}
    /\ flag \in [Flags -> BOOLEAN] /\ timers \in [Flags -> 0 .. MaxTimers]
    /\ {over, tween} \subseteq BOOLEAN /\ text \in {"label", "scrambled"}
    /\ activity \in {"loading", "none", "commits"}

\* "If the animationend event ever gets dropped this still clears the class":
\* however fast links, tabs and clicks follow each other, and although timers
\* clear flags they were not started for, no flag is left up without a timer.
FlagsEnd == \A f \in Flags : flag[f] => timers[f] > 0

\* "Always kills it and restores the real label": a link that the pointer has
\* left shows its label, and no frame of an earlier tween can garble it.
LabelRestored == ~ over => text = "label" /\ ~ tween
=============================================================================
