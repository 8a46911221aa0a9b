----------------------------- MODULE HeroProofs -----------------------------
(***************************************************************************)
(* Proofs about the hero of the landing page, its video and its morph, for *)
(* any clip and threshold, any page, any window sizes and any number of    *)
(* smooth scrolls.  Site, which composes the components, cites the lemmas  *)
(* about their steps.                                                      *)
(***************************************************************************)
EXTENDS HeroVideo, HeroScroll, SequenceTheorems, TLAPS

-----------------------------------------------------------------------------
(* The video *)

VideoStep == VideoNext \/ VideoMount \/ VideoUnmount

\* The flag and the browser's state, related both ways.
VideoInv == VideoTypeOK /\ NoStuckSeek /\ NoBacklog

\* A number that is clamped to the clip lies within it.
LEMMA ClampWithin ==
    ASSUME NEW x \in Int, NEW low \in Int, NEW high \in Int, low <= high
    PROVE  Clamp(x, low, high) \in low .. high
BY DEF Clamp

\* An element that has just been created, or is none, satisfies the invariant.
LEMMA VideoStarts == VideoInit \/ VideoIdle => VideoInv
<1> SUFFICES ASSUME VideoInit \/ VideoIdle
             PROVE  VideoInv
  OBVIOUS
<1>1. raf \in BOOLEAN /\ isSeeking \in BOOLEAN /\ seeking \in BOOLEAN
  BY Zenon DEF VideoInit, VideoIdle
<1>2. isSeeking = FALSE /\ seeking = FALSE
  BY Zenon DEF VideoInit, VideoIdle
<1>3. /\ metadata \in {"no", "known", "handled"}
      /\ target = 0 /\ time = 0 /\ seeked = 0
  BY Zenon DEF VideoInit, VideoIdle
<1>4. NoStuckSeek /\ NoBacklog
  BY <1>2, <1>3 DEF NoStuckSeek, NoBacklog, Outstanding
<1> QED
  BY <1>1, <1>3, <1>4, HeroVideoAssumption DEF VideoInv, VideoTypeOK

\* So it is after every step: a seek that starts adds at most one event, and is
\* started with the flag clear, or in its place, or for new metadata.
LEMMA VideoKeeps == VideoInv /\ [VideoStep]_videoVars => VideoInv'
<1> SUFFICES ASSUME VideoInv, [VideoStep]_videoVars
             PROVE  VideoInv'
  OBVIOUS
<1> DEFINE Flags == raf' \in BOOLEAN /\ isSeeking' \in BOOLEAN /\ seeking' \in BOOLEAN
           Rest == /\ metadata' \in {"no", "known", "handled"}
                   /\ target' \in 0 .. Duration /\ time' \in 0 .. Duration
                   /\ seeked' \in Nat
                   /\ NoStuckSeek' /\ NoBacklog'
<1>1. raf \in BOOLEAN /\ isSeeking \in BOOLEAN /\ seeking \in BOOLEAN
  BY DEF VideoInv, VideoTypeOK
<1>2. /\ metadata \in {"no", "known", "handled"}
      /\ target \in 0 .. Duration /\ time \in 0 .. Duration
      /\ seeked \in Nat
      /\ NoStuckSeek /\ NoBacklog
  BY DEF VideoInv, VideoTypeOK
<1> USE HeroVideoAssumption DEF NoStuckSeek, NoBacklog, Outstanding
<1>3. ASSUME Metadata
      PROVE  Flags /\ Rest
  <2>1. Flags
    BY <1>1, <1>3, Zenon DEF Metadata
  <2>2. Rest
    BY <1>1, <1>2, <1>3 DEF Metadata
  <2> QED
    BY <2>1, <2>2
<1>4. ASSUME HandleLoadedMetadata
      PROVE  Flags /\ Rest
  <2>1. Flags
    BY <1>1, <1>4, Zenon DEF HandleLoadedMetadata, Seek
  <2>2. Rest
    BY <1>1, <1>2, <1>4 DEF HandleLoadedMetadata, Seek
  <2> QED
    BY <2>1, <2>2
<1>5. ASSUME NEW x \in -1 .. Duration + 1, SetTargetFromX(x)
      PROVE  Flags /\ Rest
  <2>1. Flags
    BY <1>1, <1>5, Zenon DEF SetTargetFromX
  <2>2. Clamp(x, 0, Duration) \in 0 .. Duration
    BY ClampWithin
  <2>3. Rest
    BY <1>1, <1>2, <1>5, <2>2 DEF SetTargetFromX
  <2> QED
    BY <2>1, <2>3
<1>6. ASSUME Tick
      PROVE  Flags /\ Rest
  <2>1. Flags
    BY <1>1, <1>6, Zenon DEF Tick, Seek
  <2>2. Rest
    BY <1>1, <1>2, <1>6 DEF Tick, Seek
  <2> QED
    BY <2>1, <2>2
<1>7. ASSUME SeekEnds
      PROVE  Flags /\ Rest
  <2>1. Flags
    BY <1>1, <1>7, Zenon DEF SeekEnds
  <2>2. Rest
    BY <1>1, <1>2, <1>7 DEF SeekEnds
  <2> QED
    BY <2>1, <2>2
<1>8. ASSUME HandleSeeked
      PROVE  Flags /\ Rest
  <2>1. CASE Far
    <3>1. isSeeking' = TRUE /\ seeking' = TRUE
      BY <1>8, <2>1, Zenon DEF HandleSeeked, Seek, Far
    <3>2. Rest
      BY <1>1, <1>2, <1>8, <2>1, <3>1 DEF HandleSeeked, Seek
    <3>3. Flags
      BY <1>1, <1>8, <3>1, Zenon DEF HandleSeeked
    <3> QED
      BY <3>2, <3>3
  <2>2. CASE ~ Far
    <3>a. Far = FALSE
      BY <2>2 DEF Far
    <3>1. isSeeking' = FALSE /\ seeking' = seeking
      BY <1>8, <2>2, <3>a DEF HandleSeeked
    <3>2. Rest
      BY <1>1, <1>2, <1>8, <2>2, <3>1 DEF HandleSeeked
    <3>3. Flags
      BY <1>1, <1>8, <3>1, Zenon DEF HandleSeeked
    <3> QED
      BY <3>2, <3>3
  <2> QED
    BY <2>1, <2>2
<1>9. ASSUME VideoMount \/ VideoUnmount
      PROVE  Flags /\ Rest
  <2>1. Flags
    BY <1>9, Zenon DEF VideoMount, VideoUnmount, Fresh
  <2>2. Rest
    BY <1>9 DEF VideoMount, VideoUnmount, Fresh
  <2> QED
    BY <2>1, <2>2
<1>10. ASSUME UNCHANGED videoVars
      PROVE  Flags /\ Rest
  <2>1. Flags
    BY <1>1, <1>10, Zenon DEF videoVars
  <2>2. Rest
    BY <1>1, <1>2, <1>10 DEF videoVars
  <2> QED
    BY <2>1, <2>2
<1>11. Flags /\ Rest
  BY <1>3, <1>4, <1>5, <1>6, <1>7, <1>8, <1>9, <1>10
     DEF VideoStep, VideoNext, Point, VideoRuns
<1> QED
  BY <1>11 DEF VideoInv, VideoTypeOK

\* The flag is never left set with no event to clear it, and seeks never pile
\* up, for any clip and any threshold of BackgroundVideo.
THEOREM VideoSound == VideoSpec => [](VideoTypeOK /\ NoStuckSeek /\ NoBacklog)
<1>1. VideoInit => VideoInv
  BY VideoStarts
<1>2. VideoInv /\ [VideoNext \/ VideoMount \/ VideoUnmount]_videoVars => VideoInv'
  BY VideoKeeps DEF VideoStep
<1>3. VideoInv => VideoTypeOK /\ NoStuckSeek /\ NoBacklog
  BY DEF VideoInv
<1> QED
  BY <1>1, <1>2, <1>3, PTL DEF VideoSpec

-----------------------------------------------------------------------------
(* The morph *)

ScrollStep == ScrollNext \/ ScrollMount \/ ScrollAway

\* What the handler of resizes keeps: the animation was built in a window of the
\* size it noted last, and unless a timer is set the window differs from that by
\* less than the handler would react to.
BuiltForLast ==
    /\ built # NotBuilt => built = last
    /\ built # NotBuilt /\ ~ timer => Small(win)

\* What ScrollTrigger keeps: the class follows the scroll, however far the
\* animation has come.
SettledByScroll == built # NotBuilt => settled = Toggled(scroll)

ScrollInv == ScrollTypeOK /\ BuiltForLast /\ SettledByScroll

\* What the constants mean for the arithmetic of the steps.
LEMMA ScrollBounds ==
    /\ Unit \in Nat \ {0} /\ MaxScroll \in Nat /\ MaxLoops \in Nat \ {0}
    /\ Pin \in 1 .. MaxScroll /\ Morph \in 1 .. Pin
    /\ Sections \subseteq Positions /\ 0 \in Sections
    /\ \A y \in Positions : Progress(y) \in 0 .. Pin /\ Progress(y) \in Positions
BY HeroScrollAssumption DEF Pin, Morph, Positions, Progress

\* One position towards another of a stretch stays within the stretch.
LEMMA TowardWithin ==
    ASSUME NEW low \in Int, NEW high \in Int, NEW x \in low .. high, NEW y \in low .. high
    PROVE  Toward(x, y) \in low .. high
BY DEF Toward

\* Whether the class is on is a Boolean.
LEMMA ToggledIsBoolean == ASSUME NEW y PROVE Toggled(y) \in BOOLEAN
BY DEF Toggled

\* A window has an extent.
LEMMA SizeExtent ==
    ASSUME NEW size \in Sizes
    PROVE  size.w \in Nat \ {0} /\ size.h \in Nat \ {0}
BY HeroScrollAssumption

\* Every size is within the 25 % of itself.
LEMMA SmallItself ==
    ASSUME NEW size \in Sizes
    PROVE  4 * Abs(size.h - size.h) < size.h
<1>1. size.h \in Int /\ size.h > 0
  BY SizeExtent
<1>2. Abs(size.h - size.h) = 0
  BY <1>1 DEF Abs
<1> QED
  BY <1>1, <1>2

\* An animation is not mistaken for none.
LEMMA BuildIsBuilt == ASSUME NEW size \in Sizes PROVE size # NotBuilt
BY SizeExtent DEF NotBuilt

\* There is some size of the window.
LEMMA SomeSize == (CHOOSE size \in Sizes : TRUE) \in Sizes
<1>1. \E size \in Sizes : TRUE
  BY HeroScrollAssumption
<1> QED
  BY <1>1

\* Taking one of the smooth scrolls away leaves smooth scrolls.
LEMMA RemoveKeeps ==
    ASSUME NEW S, NEW s \in Seq(S), NEW i \in DOMAIN s
    PROVE  RemoveAt(s, i) \in Seq(S) /\ Len(RemoveAt(s, i)) = Len(s) - 1
<1>1. Len(s) \in Nat /\ DOMAIN s = 1 .. Len(s) /\ i \in 1 .. Len(s)
  BY LenProperties
<1>2. \A j \in 1 .. Len(s) : s[j] \in S
  BY ElementOfSeq
<1>3. /\ SubSeq(s, 1, i - 1) \in Seq(S)
      /\ Len(SubSeq(s, 1, i - 1)) = i - 1
  <2>1. i - 1 \in Int /\ \A j \in 1 .. i - 1 : s[j] \in S
    BY <1>1, <1>2
  <2> QED
    BY <1>1, <2>1, SubSeqProperties
<1>4. /\ SubSeq(s, i + 1, Len(s)) \in Seq(S)
      /\ Len(SubSeq(s, i + 1, Len(s))) = Len(s) - i
  <2> DEFINE m == i + 1
             n == Len(s)
  <2>2. m \in Int /\ n \in Int /\ \A j \in m .. n : s[j] \in S
    BY <1>1, <1>2
  <2> HIDE DEF m, n
  <2>3. /\ SubSeq(s, m, n) \in Seq(S)
        /\ Len(SubSeq(s, m, n)) = IF m <= n THEN n - m + 1 ELSE 0
    BY <2>2, SubSeqProperties, Zenon
  <2>4. (IF m <= n THEN n - m + 1 ELSE 0) = Len(s) - i
    BY <1>1 DEF m, n
  <2> QED
    BY <2>3, <2>4 DEF m, n
<1>5. /\ RemoveAt(s, i) \in Seq(S)
      /\ Len(RemoveAt(s, i)) = Len(SubSeq(s, 1, i - 1)) + Len(SubSeq(s, i + 1, Len(s)))
  BY <1>3, <1>4, ConcatProperties, Zenon DEF RemoveAt
<1> QED
  BY <1>1, <1>3, <1>4, <1>5

\* A page that is built with its class as the scroll wants it satisfies the
\* invariant, and so does one that is not built.
LEMMA ScrollStarts == ScrollInit \/ ScrollIdle => ScrollInv
<1> USE ScrollBounds
<1>1. ASSUME ScrollInit
      PROVE  ScrollInv
  <2>1. /\ win \in Sizes /\ built = win /\ last = win /\ timer = FALSE
        /\ scroll \in Positions /\ settled = Toggled(scroll) /\ playhead = 0
        /\ loops = <<>> /\ dest = 0
    BY <1>1 DEF ScrollInit
  <2>2. timer \in BOOLEAN /\ settled \in BOOLEAN
    BY <2>1, ToggledIsBoolean, Zenon
  <2>3. Small(win)
    BY <2>1, SmallItself DEF Small
  <2>4. loops \in Seq(Sections) /\ Len(loops) = 0
    BY <2>1
  <2>5. BuiltForLast
    BY <2>1, <2>3 DEF BuiltForLast
  <2>6. SettledByScroll
    BY <2>1, Zenon DEF SettledByScroll
  <2>7. ScrollTypeOK
    BY <2>1, <2>2, <2>4 DEF ScrollTypeOK
  <2> QED
    BY <2>5, <2>6, <2>7 DEF ScrollInv
<1>2. ASSUME ScrollIdle
      PROVE  ScrollInv
  <2>1. /\ win \in Sizes /\ last = win /\ timer = FALSE
        /\ built = NotBuilt /\ settled = FALSE
        /\ scroll = 0 /\ playhead = 0 /\ loops = <<>> /\ dest = 0
    BY <1>2, SomeSize DEF ScrollIdle
  <2>2. timer \in BOOLEAN /\ settled \in BOOLEAN
    BY <2>1, Zenon
  <2>3. loops \in Seq(Sections) /\ Len(loops) = 0
    BY <2>1
  <2>4. 0 \in Positions
    BY DEF Positions
  <2>5. ScrollTypeOK
    BY <2>1, <2>2, <2>3, <2>4 DEF ScrollTypeOK
  <2> QED
    BY <2>1, <2>5 DEF ScrollInv, BuiltForLast, SettledByScroll
<1> QED
  BY <1>1, <1>2

\* A step of the scroll position alone: the wheel, a frame, a snap.
LEMMA MovesOnly ==
    ASSUME ScrollInv, NEW y \in Positions, ScrollTo(y),
           UNCHANGED <<win, built, last, timer, playhead, dest>>,
           loops' \in Seq(Sections), Len(loops') <= MaxLoops
    PROVE  ScrollInv'
<1>1. scroll' = y /\ settled' = (built # NotBuilt /\ Toggled(y))
  BY DEF ScrollTo
<1>2. settled' \in BOOLEAN
  BY <1>1, Zenon
<1>3. ScrollTypeOK'
  BY <1>1, <1>2 DEF ScrollInv, ScrollTypeOK
<1>4. BuiltForLast'
  BY DEF ScrollInv, BuiltForLast, Small
<1>5. SettledByScroll'
  <2> SUFFICES ASSUME built # NotBuilt
               PROVE  settled' = Toggled(scroll')
    BY DEF SettledByScroll
  <2>1. (built # NotBuilt /\ Toggled(y)) = Toggled(y)
    BY ToggledIsBoolean, Zenon
  <2> QED
    BY <1>1, <2>1, Zenon
<1> QED
  BY <1>3, <1>4, <1>5 DEF ScrollInv

\* What the scroll, the class and the build do not depend on.
LEMMA StaysSettled ==
    ASSUME SettledByScroll, UNCHANGED <<built, settled, scroll>>
    PROVE  SettledByScroll'
<1>1. built' = built /\ settled' = settled /\ scroll' = scroll
  OBVIOUS
<1>2. Toggled(scroll') = Toggled(scroll)
  BY <1>1, Zenon
<1> QED
  BY <1>1, <1>2, Zenon DEF SettledByScroll

\* A build in the window as it is now re-establishes all of the invariant.
LEMMA BuildsAnew ==
    ASSUME win' \in Sizes, last' = win', built' = win',
           scroll' \in Positions, settled' = Toggled(scroll'), playhead' = 0,
           timer' = FALSE, loops' \in Seq(Sections), Len(loops') <= MaxLoops,
           dest' \in Sections
    PROVE  ScrollInv' /\ built' # NotBuilt
<1>1. settled' \in BOOLEAN /\ timer' \in BOOLEAN
  BY ToggledIsBoolean, Zenon
<1>2. ScrollTypeOK'
  BY <1>1, ScrollBounds DEF ScrollTypeOK
<1>3. Small(win)'
  <2>1. last' \in Sizes /\ win' = last'
    OBVIOUS
  <2> QED
    BY <2>1, SmallItself DEF Small
<1>4. BuiltForLast'
  BY <1>3 DEF BuiltForLast
<1>5. SettledByScroll'
  BY Zenon DEF SettledByScroll
<1> QED
  BY <1>2, <1>4, <1>5, BuildIsBuilt DEF ScrollInv

\* Every step keeps the invariant; the rebuild re-establishes all of it at once,
\* from whatever the page looked like.
LEMMA ScrollKeeps == ScrollInv /\ [ScrollStep]_scrollVars => ScrollInv'
<1> SUFFICES ASSUME ScrollInv, [ScrollStep]_scrollVars
             PROVE  ScrollInv'
  OBVIOUS
<1> USE ScrollBounds
<1>0. /\ win \in Sizes /\ last \in Sizes
      /\ built = NotBuilt \/ built \in Sizes
      /\ timer \in BOOLEAN /\ settled \in BOOLEAN
      /\ scroll \in Positions /\ playhead \in 0 .. Pin
      /\ loops \in Seq(Sections) /\ Len(loops) <= MaxLoops /\ Len(loops) \in Nat
      /\ dest \in Sections
      /\ BuiltForLast /\ SettledByScroll
  BY DEF ScrollInv, ScrollTypeOK
<1>1. CASE Resize
  <2>1. /\ win' \in Sizes /\ timer' = TRUE /\ settled' = Toggled(scroll')
        /\ UNCHANGED <<built, last, playhead, loops, dest>>
    BY <1>1 DEF Resize
  <2>2. scroll' \in Positions
    BY <1>0, <1>1 DEF Resize, Rescaled, Positions
  <2>3. timer' \in BOOLEAN /\ settled' \in BOOLEAN
    BY <2>1, ToggledIsBoolean, Zenon
  <2>4. ScrollTypeOK'
    BY <1>0, <2>1, <2>2, <2>3 DEF ScrollTypeOK
  <2>5. BuiltForLast'
    BY <1>0, <2>1 DEF BuiltForLast
  <2>6. SettledByScroll'
    BY <2>1, Zenon DEF SettledByScroll
  <2> QED
    BY <2>4, <2>5, <2>6 DEF ScrollInv
<1>2. CASE Wheel
  <2>1. PICK y \in Positions : ScrollTo(y)
    BY <1>2 DEF Wheel
  <2> QED
    BY <1>0, <1>2, <2>1, MovesOnly DEF Wheel
<1>3. ASSUME NEW y \in Sections, ClickLink(y)
      PROVE  ScrollInv'
  <2>1. loops' \in Seq(Sections) /\ Len(loops') <= MaxLoops
    <3>1. Append(loops, y) \in Seq(Sections) /\ Len(Append(loops, y)) = Len(loops) + 1
      BY <1>0, AppendProperties
    <3> QED
      BY <1>0, <1>3, <3>1 DEF ClickLink
  <2>2. dest' = y /\ UNCHANGED <<win, built, last, timer, settled, scroll, playhead>>
    BY <1>3 DEF ClickLink
  <2>3. SettledByScroll'
    BY <1>0, <2>2, StaysSettled
  <2> QED
    BY <1>0, <2>1, <2>2, <2>3 DEF ScrollInv, ScrollTypeOK, BuiltForLast, Small
<1>4. CASE TimerFires
  <2>1. CASE Small(win)
    <3>1. /\ timer' = FALSE /\ timer' \in BOOLEAN
          /\ UNCHANGED <<built, last, settled, playhead, win, scroll, loops, dest>>
      BY <1>4, <2>1, Zenon DEF TimerFires
    <3>2. Small(win)'
      BY <2>1, <3>1 DEF Small
    <3>3. SettledByScroll'
      BY <1>0, <3>1, StaysSettled
    <3> QED
      BY <1>0, <3>1, <3>2, <3>3 DEF ScrollInv, ScrollTypeOK, BuiltForLast
  <2>2. CASE ~ Small(win)
    <3>1. /\ timer' = FALSE /\ last' = win /\ built' = win
          /\ settled' = Toggled(scroll) /\ playhead' = 0
          /\ UNCHANGED <<win, scroll, loops, dest>>
      BY <1>4, <2>2, Zenon DEF TimerFires
    <3>2. settled' = Toggled(scroll')
      BY <3>1, Zenon
    <3> QED
      BY <1>0, <3>1, <3>2, BuildsAnew
  <2> QED
    BY <2>1, <2>2
<1>5. CASE Snap
  <2>1. SnapTo(scroll) \in Positions
    BY DEF SnapTo, Positions
  <2>2. Toward(scroll, SnapTo(scroll)) \in Positions
    <3>1. SnapTo(scroll) \in 0 .. MaxScroll /\ scroll \in 0 .. MaxScroll
      BY <1>0, <2>1 DEF Positions
    <3>2. Toward(scroll, SnapTo(scroll)) \in 0 .. MaxScroll
      BY <3>1, TowardWithin
    <3> QED
      BY <3>2 DEF Positions
  <2> QED
    BY <1>0, <1>5, <2>2, MovesOnly DEF Snap
<1>6. CASE Scrub
  <2>1. Progress(scroll) \in 0 .. Pin
    BY <1>0
  <2>2. /\ playhead' \in 0 .. Pin
        /\ UNCHANGED <<win, built, last, timer, settled, scroll, loops, dest>>
    BY <1>0, <1>6, <2>1, TowardWithin DEF Scrub
  <2>3. SettledByScroll'
    BY <1>0, <2>2, StaysSettled
  <2> QED
    BY <1>0, <2>2, <2>3 DEF ScrollInv, ScrollTypeOK, BuiltForLast, Small
<1>7. CASE Frame
  <2>1. PICK y \in Positions : ScrollTo(y)
    BY <1>7 DEF Frame
  <2> QED
    BY <1>0, <1>7, <2>1, MovesOnly DEF Frame
<1>8. CASE LoopEnds
  <2>1. 1 \in DOMAIN loops
    BY <1>0, <1>8 DEF LoopEnds
  <2>2. loops' \in Seq(Sections) /\ Len(loops') <= MaxLoops
    BY <1>0, <1>8, <2>1, RemoveKeeps DEF LoopEnds, LoopEndsAt
  <2>3. loops[1] \in Positions
    BY <1>0, <2>1
  <2>4. CASE Len(loops) = 1
    BY <1>8, <2>2, <2>3, <2>4, MovesOnly DEF LoopEnds, LoopEndsAt
  <2>5. CASE Len(loops) # 1
    <3>1. UNCHANGED <<win, built, last, timer, settled, scroll, playhead, dest>>
      BY <1>8, <2>5 DEF LoopEnds, LoopEndsAt
    <3>2. SettledByScroll'
      BY <1>0, <3>1, StaysSettled
    <3> QED
      BY <1>0, <2>2, <3>1, <3>2 DEF ScrollInv, ScrollTypeOK, BuiltForLast, Small
  <2> QED
    BY <2>4, <2>5
<1>9. CASE ScrollMount
  <2>1. /\ win' \in Sizes /\ built' = win' /\ last' = win' /\ timer' = FALSE
        /\ scroll' \in Positions /\ settled' = Toggled(scroll') /\ playhead' = 0
        /\ UNCHANGED <<loops, dest>>
    BY <1>9 DEF ScrollMount
  <2> QED
    BY <1>0, <2>1, BuildsAnew
<1>10. ASSUME NEW same \in BOOLEAN, ScrollUnmount(same)
       PROVE  ScrollInv'
  <2>1. /\ timer' = FALSE /\ settled' = FALSE /\ built' = NotBuilt /\ playhead' = 0
        /\ UNCHANGED <<win, last, scroll, dest>>
    BY <1>10 DEF ScrollUnmount
  <2>2. timer' \in BOOLEAN /\ settled' \in BOOLEAN
    BY <2>1, Zenon
  <2>3. loops' \in Seq(Sections) /\ Len(loops') <= MaxLoops
    BY <1>0, <1>10 DEF ScrollUnmount
  <2> QED
    BY <1>0, <2>1, <2>2, <2>3 DEF ScrollInv, ScrollTypeOK, BuiltForLast, SettledByScroll
<1>11. ASSUME NEW same \in BOOLEAN, EndLoops(same)
       PROVE  ScrollInv'
  <2>1. loops' \in Seq(Sections) /\ Len(loops') <= MaxLoops
    BY <1>0, <1>11 DEF EndLoops
  <2>2. UNCHANGED <<win, built, last, timer, settled, scroll, playhead, dest>>
    BY <1>11 DEF EndLoops
  <2>3. SettledByScroll'
    BY <1>0, <2>2, StaysSettled
  <2> QED
    BY <1>0, <2>1, <2>2, <2>3 DEF ScrollInv, ScrollTypeOK, BuiltForLast, Small
<1>12. CASE UNCHANGED scrollVars
  <2>1. UNCHANGED <<win, built, last, timer, settled, scroll, playhead, loops, dest>>
    BY <1>12 DEF scrollVars
  <2>2. SettledByScroll'
    BY <1>0, <2>1, StaysSettled
  <2> QED
    BY <1>0, <2>1, <2>2 DEF ScrollInv, ScrollTypeOK, BuiltForLast, Small
<1> QED
  BY <1>1, <1>2, <1>3, <1>4, <1>5, <1>6, <1>7, <1>8, <1>9, <1>10, <1>11, <1>12
     DEF ScrollStep, ScrollAway, ScrollNext, ScrollUser, ScrollRuns, LoopRuns

\* What the invariant is kept for: where the animation has caught up, following
\* the scroll is following the morph.
LEMMA ScrollMeans == ScrollInv => FitsWindow /\ SettledAtRest
<1> SUFFICES ASSUME ScrollInv
             PROVE  FitsWindow /\ SettledAtRest
  OBVIOUS
<1>1. FitsWindow
  BY DEF ScrollInv, BuiltForLast, FitsWindow, Small
<1>2. SettledAtRest
  <2> SUFFICES ASSUME built # NotBuilt, playhead = Progress(scroll)
               PROVE  settled <=> playhead >= Morph
    BY DEF SettledAtRest
  <2>1. settled = (playhead >= Morph)
    BY Zenon DEF ScrollInv, SettledByScroll, Toggled
  <2> QED
    BY <2>1, Zenon
<1> QED
  BY <1>1, <1>2

\* For any page, window sizes and order of scrolls, resizes, timers and visits,
\* the animation of ScrollTransition fits the window it runs in, and whenever it
\* has caught up with the scroll the text is settled just if the morph is over.
THEOREM MorphSound == ScrollSpec => [](ScrollTypeOK /\ FitsWindow /\ SettledAtRest)
<1>1. ScrollInit => ScrollInv
  BY ScrollStarts
<1>2. ScrollInv /\ [ScrollStep]_scrollVars => ScrollInv'
  BY ScrollKeeps
<1>3. ScrollInv => ScrollTypeOK /\ FitsWindow /\ SettledAtRest
  BY ScrollMeans DEF ScrollInv
<1> QED
  BY <1>1, <1>2, <1>3, PTL DEF ScrollSpec, ScrollStep

-----------------------------------------------------------------------------
(* Smooth scrolls *)

\* The newest smooth scroll is the one started last: what LastLoopWins rests on.
Newest == loops # <<>> => dest = loops[Len(loops)]

\* When the oldest of several ends, the newest stays the newest.
LEMMA RemoveOldest ==
    ASSUME NEW S, NEW s \in Seq(S), Len(s) > 1
    PROVE  RemoveAt(s, 1)[Len(RemoveAt(s, 1))] = s[Len(s)]
<1> DEFINE r == RemoveAt(s, 1)
           t == SubSeq(s, 2, Len(s))
<1>1. Len(s) \in Nat /\ DOMAIN s = 1 .. Len(s) /\ \A j \in 1 .. Len(s) : s[j] \in S
  BY LenProperties, ElementOfSeq
<1>2. \A j \in 2 .. Len(s) : s[j] \in S
  BY <1>1
<1>3. /\ t \in Seq(S)
      /\ Len(t) = IF 2 <= Len(s) THEN Len(s) - 2 + 1 ELSE 0
      /\ \A j \in 1 .. Len(s) - 2 + 1 : t[j] = s[2 + j - 1]
  BY <1>1, <1>2, SubSeqProperties
<1>4. Len(t) = Len(s) - 1 /\ t[Len(t)] = s[Len(s)]
  BY <1>1, <1>3
<1>5. SubSeq(s, 1, 1 - 1) = <<>>
  BY SubSeqEmpty
<1>6. r = t
  BY <1>3, <1>5, ConcatEmptySeq DEF RemoveAt
<1> QED
  BY <1>4, <1>6

\* Only a click starts a smooth scroll, and it notes where it leads.
LEMMA NewestKeeps == ScrollInv /\ Newest /\ [ScrollStep]_scrollVars => Newest'
<1> SUFFICES ASSUME ScrollInv, Newest, [ScrollStep]_scrollVars
             PROVE  Newest'
  OBVIOUS
<1>1. loops \in Seq(Sections) /\ Len(loops) \in Nat
  BY DEF ScrollInv, ScrollTypeOK
<1>2. ASSUME NEW y \in Sections, ClickLink(y)
      PROVE  Newest'
  <2>1. loops' = Append(loops, y) /\ dest' = y
    BY <1>2 DEF ClickLink
  <2>2. loops'[Len(loops')] = y
    BY <1>1, <2>1, AppendProperties
  <2> QED
    BY <2>1, <2>2 DEF Newest
<1>3. CASE LoopEnds
  <2>1. loops # <<>> /\ loops' = RemoveAt(loops, 1) /\ dest' = dest
    BY <1>3 DEF LoopEnds, LoopEndsAt
  <2>2. 1 \in DOMAIN loops
    BY <1>1, <2>1
  <2>3. Len(loops') = Len(loops) - 1 /\ loops' \in Seq(Sections)
    BY <1>1, <2>1, <2>2, RemoveKeeps
  <2>4. CASE Len(loops) = 1
    <3>1. loops' = <<>>
      BY <2>3, <2>4
    <3> QED
      BY <3>1 DEF Newest
  <2>5. CASE Len(loops) > 1
    <3>1. loops'[Len(loops')] = loops[Len(loops)]
      BY <1>1, <2>1, <2>5, RemoveOldest
    <3> QED
      BY <2>1, <3>1 DEF Newest
  <2>6. Len(loops) = 1 \/ Len(loops) > 1
    <3> DEFINE n == Len(loops)
    <3>1. n \in Nat /\ DOMAIN loops = 1 .. n
      BY <1>1, LenProperties
    <3>2. n \in Nat /\ 1 \in 1 .. n
      BY <2>2, <3>1, Zenon
    <3> HIDE DEF n
    <3>3. n = 1 \/ n > 1
      BY <3>2
    <3> QED
      BY <3>3 DEF n
  <2> QED
    BY <2>4, <2>5, <2>6, Zenon
<1>4. ASSUME loops' = loops \/ loops' = <<>>, dest' = dest
      PROVE  Newest'
  BY <1>4 DEF Newest
<1>5. CASE Resize \/ Wheel \/ ScrollRuns \/ Frame
  BY <1>4, <1>5 DEF Resize, Wheel, ScrollRuns, TimerFires, Snap, Scrub, Frame
<1>6. CASE ScrollMount \/ ScrollAway
  BY <1>4, <1>6 DEF ScrollMount, ScrollAway, ScrollUnmount, EndLoops
<1>7. CASE UNCHANGED scrollVars
  BY <1>4, <1>7 DEF scrollVars
<1> QED
  BY <1>2, <1>3, <1>5, <1>6, <1>7 DEF ScrollStep, ScrollNext, ScrollUser, LoopRuns

\* So the last smooth scroll to end is the one started last.
LEMMA LastLoopStep ==
    ScrollInv /\ Newest /\ [ScrollStep]_scrollVars
        => [LoopEnds /\ loops' = <<>> => scroll' = dest]_scrollVars
<1> SUFFICES ASSUME ScrollInv, Newest, LoopEnds, loops' = <<>>
             PROVE  scroll' = dest
  OBVIOUS
<1>1. loops \in Seq(Sections) /\ Len(loops) \in Nat
  BY DEF ScrollInv, ScrollTypeOK
<1>2. loops # <<>> /\ loops' = RemoveAt(loops, 1)
  BY DEF LoopEnds, LoopEndsAt
<1>3. Len(loops) = 1
  <2>1. 1 \in DOMAIN loops
    BY <1>1, <1>2
  <2>2. Len(RemoveAt(loops, 1)) = Len(loops) - 1
    BY <1>1, <2>1, RemoveKeeps
  <2> QED
    BY <1>1, <1>2, <2>2
<1>4. scroll' = loops[1]
  BY <1>3 DEF LoopEnds, LoopEndsAt, ScrollTo
<1> QED
  BY <1>2, <1>3, <1>4 DEF Newest

\* However many links were clicked, and whatever pages lie between, the page
\* comes to a halt where the last smooth scroll leads.
THEOREM LastLoopWinsHolds == ScrollSpec => LastLoopWins
<1>1. ScrollInit => ScrollInv /\ Newest
  BY ScrollStarts DEF ScrollInit, Newest
<1>2. ScrollInv /\ Newest /\ [ScrollStep]_scrollVars => ScrollInv' /\ Newest'
  BY ScrollKeeps, NewestKeeps
<1>3. ScrollInv /\ Newest /\ [ScrollStep]_scrollVars
          => [LoopEnds /\ loops' = <<>> => scroll' = dest]_scrollVars
  BY LastLoopStep
<1> QED
  BY <1>1, <1>2, <1>3, PTL DEF ScrollSpec, ScrollStep, LastLoopWins
=============================================================================
