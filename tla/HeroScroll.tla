----------------------------- MODULE HeroScroll -----------------------------
(***************************************************************************)
(* The morph of the hero (web/src/components/ScrollTransition.tsx).  The   *)
(* page measures itself once and bakes the result into an animation that   *)
(* is pinned to the first stretch of scrolling, so it has to be torn down  *)
(* and rebuilt when the window changes size, while the user scrolls, while *)
(* smooth scrolls run and while the animation trails behind the scroll.    *)
(*                                                                         *)
(* Positions are in units of a third of the pinned stretch, or finer: the  *)
(* morph is two thirds of it, a hold the rest.  GSAP and the browser are   *)
(* modelled from how the component uses them: that GSAP calls onUpdate on  *)
(* every change of the scroll is assumed, and what a rebuild restores of   *)
(* the elements' inline styles is left out.                                *)
(***************************************************************************)
EXTENDS Browser, Sequences, SequencesExt

CONSTANTS
    Unit,       \* positions in a third of the pinned stretch
    MaxScroll,  \* the end of the page
    Sections,   \* where in-page links lead
    Sizes,      \* of the window
    MaxLoops    \* smooth scrolls at a time

ASSUME HeroScrollAssumption ==
    /\ {Unit, MaxScroll, MaxLoops} \subseteq Nat \ {0}
    /\ MaxScroll >= 3 * Unit
    /\ Sections \subseteq 0 .. MaxScroll /\ 0 \in Sections
    /\ Sizes \subseteq [w : Nat \ {0}, h : Nat \ {0}] /\ Sizes # {}

VARIABLES
    win,        \* the size of the window
    built,      \* what the animation was built from; NotBuilt when unmounted
    last,       \* lastW and lastH
    timer,      \* the resize timer is set
    settled,    \* the class --settled is on
    scroll,     \* window.scrollY
    playhead,   \* how far the animation has come, in positions
    loops,      \* the smooth scrolls under way, by their targets, oldest first
    dest        \* where the last smooth scroll leads; for a property

scrollVars == <<win, built, last, timer, settled, scroll, playhead, loops, dest>>

Positions == 0 .. MaxScroll

Morph == 2 * Unit
Pin == 3 * Unit
Progress(y) == IF y > Pin THEN Pin ELSE y

\* One position from x towards y.
Toward(x, y) == IF x < y THEN x + 1 ELSE IF y < x THEN x - 1 ELSE x

NotBuilt == [w |-> 0, h |-> 0]

-----------------------------------------------------------------------------
(* Building and tearing down *)

\* onUpdate: whether the class is on once ScrollTrigger has seen the scroll at y.
Toggled(y) == Progress(y) >= Morph

\* The same pixel in a page whose pinned stretch has another length.
Rescaled(y) == IF y = 0 THEN {0} ELSE Positions

\* The build measures the page at whatever position the browser restores, in a
\* window that may have changed its size meanwhile.
ScrollMount ==
    /\ built = NotBuilt
    /\ win' \in Sizes /\ built' = win' /\ last' = win'
    /\ timer' = FALSE
    /\ scroll' \in Positions /\ settled' = Toggled(scroll')
    /\ playhead' = 0
    /\ UNCHANGED <<loops, dest>>

\* Mutant: the effect's cleanup forgets the timer.
ScrollUnmountTimer(sameDocument) ==
    /\ built # NotBuilt
    /\ built' = NotBuilt /\ settled' = FALSE /\ playhead' = 0
    /\ loops' = IF sameDocument THEN loops ELSE <<>>
    /\ UNCHANGED <<win, last, timer, scroll, dest>>

\* Leaving the page, for one of the same document or not: nothing but the end
\* of the document cancels a smooth scroll.
ScrollUnmount(sameDocument) ==
    /\ built # NotBuilt
    /\ built' = NotBuilt /\ timer' = FALSE
    /\ settled' = FALSE /\ playhead' = 0
    /\ loops' = IF sameDocument THEN loops ELSE <<>>
    /\ UNCHANGED <<win, last, scroll, dest>>

ScrollInit ==
    /\ win \in Sizes
    /\ built = win /\ last = win /\ timer = FALSE
    /\ scroll \in Positions /\ settled = Toggled(scroll)
    /\ playhead = 0
    /\ loops = <<>> /\ dest = 0

\* Between two other pages.
EndLoops(sameDocument) ==
    /\ built = NotBuilt
    /\ loops' = IF sameDocument THEN loops ELSE <<>>
    /\ UNCHANGED <<win, built, last, timer, settled, scroll, playhead, dest>>

ScrollIdle ==
    /\ win = CHOOSE size \in Sizes : TRUE
    /\ built = NotBuilt /\ last = win /\ timer = FALSE
    /\ settled = FALSE /\ scroll = 0 /\ playhead = 0
    /\ loops = <<>> /\ dest = 0

\* The user, or the zoom of the browser, changes the size of the window; GSAP
\* measures the pinned stretch anew by itself.
Resize ==
    /\ built # NotBuilt
    /\ win' \in Sizes \ {win}
    /\ timer' = TRUE
    /\ scroll' \in Rescaled(scroll)
    /\ settled' = Toggled(scroll')
    /\ UNCHANGED <<built, last, playhead, loops, dest>>

\* A change of height under 25 %, as of a phone's URL bar.
Small(size) == size.w = last.w /\ 4 * Abs(size.h - last.h) < last.h

\* Mutant: the size is noted although nothing is rebuilt.
TimerFiresDrift ==
    /\ timer /\ timer' = FALSE
    /\ last' = win
    /\ IF Small(win) THEN UNCHANGED <<built, settled, playhead>>
       ELSE built' = win /\ settled' = Toggled(scroll) /\ playhead' = 0
    /\ UNCHANGED <<win, scroll, loops, dest>>

\* Mutant: no ScrollTrigger.update() after the rebuild.
TimerFiresStale ==
    /\ timer /\ timer' = FALSE
    /\ IF Small(win) THEN UNCHANGED <<built, last, settled, playhead>>
       ELSE last' = win /\ built' = win /\ settled' = FALSE /\ playhead' = 0
    /\ UNCHANGED <<win, scroll, loops, dest>>

\* The debounced handler: teardown(), which drops the class; build(); back to the
\* same scrollY; and ScrollTrigger.update(), which puts the class on again.
TimerFires ==
    /\ timer /\ timer' = FALSE
    /\ IF Small(win) THEN UNCHANGED <<built, last, settled, playhead>>
       ELSE /\ last' = win /\ built' = win
            /\ settled' = Toggled(scroll)
            /\ playhead' = 0
    /\ UNCHANGED <<win, scroll, loops, dest>>

-----------------------------------------------------------------------------
(* Scrolling *)

\* The page is scrolled to y, and ScrollTrigger sees it in the same frame.
ScrollTo(y) ==
    /\ scroll' = y
    /\ settled' = (built # NotBuilt /\ Toggled(y))

Wheel ==
    /\ built # NotBuilt
    /\ \E y \in Positions \ {scroll} : ScrollTo(y)
    /\ UNCHANGED <<win, built, last, timer, playhead, loops, dest>>

\* An in-page link: handleClick and the start of smoothScrollTo, which has
\* nothing to do where the page is already there.
ClickLink(y) ==
    /\ built # NotBuilt
    /\ y # scroll /\ Len(loops) < MaxLoops
    /\ loops' = Append(loops, y) /\ dest' = y
    /\ UNCHANGED <<win, built, last, timer, settled, scroll, playhead>>

\* A frame of the smooth scrolls: the newest writes last.
Frame ==
    /\ loops # <<>>
    /\ \E y \in Positions \ {scroll} : ScrollTo(y)
    /\ UNCHANGED <<win, built, last, timer, playhead, loops, dest>>

\* The smooth scroll i has its last frame; others may write after it.
LoopEndsAt(i) ==
    /\ loops' = RemoveAt(loops, i)
    /\ IF Len(loops) = 1 THEN ScrollTo(loops[i]) ELSE UNCHANGED <<scroll, settled>>
    /\ UNCHANGED <<win, built, last, timer, playhead, dest>>

\* Mutant: a smooth scroll takes the longer the further it leads.
LoopEndsAny == \E i \in DOMAIN loops : LoopEndsAt(i)

\* All take the same time, so the oldest ends first.
LoopEnds == loops # <<>> /\ LoopEndsAt(1)

\* Mutant: the page is left where it is.
SnapToAny(y) == y

\* snapTo.
SnapTo(y) == IF 2 * y < Morph THEN 0 ELSE Pin

\* Once scrolling has stopped within the pinned stretch, ScrollTrigger scrolls
\* to the end that is closer, little by little, unless the user scrolls again.
Snap ==
    /\ built # NotBuilt /\ loops = <<>>
    /\ 0 < scroll /\ scroll < Pin
    /\ ScrollTo(Toward(scroll, SnapTo(scroll)))
    /\ UNCHANGED <<win, built, last, timer, playhead, loops, dest>>

\* scrub: 0.5, the animation catches up with the scroll little by little.
Scrub ==
    /\ built # NotBuilt /\ playhead # Progress(scroll)
    /\ playhead' = Toward(playhead, Progress(scroll))
    /\ UNCHANGED <<win, built, last, timer, settled, scroll, loops, dest>>

ScrollUser == Wheel \/ Resize \/ \E y \in Sections : ClickLink(y)

ScrollRuns == TimerFires \/ Snap \/ Scrub

LoopRuns == Frame \/ LoopEnds

ScrollNext == ScrollUser \/ ScrollRuns \/ LoopRuns

\* Leaving the page, and going on from there.
ScrollAway == \E same \in BOOLEAN : ScrollUnmount(same) \/ EndLoops(same)

ScrollSpec == ScrollInit /\ [][ScrollNext \/ ScrollMount \/ ScrollAway]_scrollVars

-----------------------------------------------------------------------------
(* Properties *)

ScrollTypeOK ==
    /\ win \in Sizes /\ last \in Sizes
    /\ built = NotBuilt \/ built \in Sizes
    /\ timer \in BOOLEAN /\ settled \in BOOLEAN
    /\ scroll \in Positions /\ playhead \in 0 .. Pin
    /\ loops \in Seq(Sections) /\ Len(loops) <= MaxLoops
    /\ dest \in Sections

\* The animation was measured in a window of this width and about this height,
\* unless a resize is being waited for: small changes, each of which is
\* ignored, must not add up.
FitsWindow ==
    built # NotBuilt /\ ~ timer =>
        /\ built.w = win.w
        /\ 4 * Abs(win.h - built.h) < built.h

\* Whenever the animation has caught up with the scroll, the text is set as
\* settled just if the morph is over, also after a rebuild in the middle of the
\* page, which drops the class.
SettledAtRest ==
    built # NotBuilt /\ playhead = Progress(scroll) => (settled <=> playhead >= Morph)

\* The class "is toggled exactly when the Flip morph's own progress reaches 1
\* (real layout, not a mid-flight transform)", although the animation trails
\* behind the scroll.
SettledWhenMorphed == [][~ settled /\ settled' => playhead' >= Morph]_scrollVars

\* However many links were clicked, the page comes to a halt where the last
\* smooth scroll leads, although the earlier ones keep writing the position.
LastLoopWins == [][LoopEnds /\ loops' = <<>> => scroll' = dest]_scrollVars

\* "The hero always finishes the motion on its own": while nobody scrolls or
\* resizes, it comes to rest at one end, with the animation caught up.
ComesToRest ==
    (<>[](built # NotBuilt) /\ <>[][~ ScrollUser]_scrollVars)
        => <>[](playhead \in {0, Pin} /\ playhead = Progress(scroll))
=============================================================================
