----------------------------- MODULE HeroVideo -----------------------------
(***************************************************************************)
(* The hero video (web/src/components/BackgroundVideo.tsx), which shows    *)
(* the frame the pointer points at: the far left is the start of the clip, *)
(* the far right its end.  A seek takes the browser a while; the           *)
(* component's own flag, set and cleared apart from the browser's state,   *)
(* is meant to keep one from starting before the last has ended.           *)
(*                                                                         *)
(* Times are in a unit that the component cannot tell apart from its half. *)
(***************************************************************************)
EXTENDS Browser

CONSTANTS
    Duration,       \* of the clip
    SeekThreshold   \* SEEK_THRESHOLD

ASSUME HeroVideoAssumption == Duration \in Nat /\ SeekThreshold \in Nat

VARIABLES
    raf,        \* the component is mounted and has asked for a frame
    metadata,   \* "no", "known" to the browser, "handled" (or missed)
    target,     \* targetTimeRef
    isSeeking,  \* isSeekingRef
    time,       \* video.currentTime, during a seek the time it seeks
    seeking,    \* the browser is seeking
    seeked      \* seeked events the page has not seen yet

videoVars == <<raf, metadata, target, isSeeking, time, seeking, seeked>>

Fresh(m) ==
    /\ metadata' = m
    /\ target' = 0 /\ isSeeking' = FALSE
    /\ time' = 0 /\ seeking' = FALSE /\ seeked' = 0

\* The browser may know the clip, and have told so, before the page listens.
VideoInit ==
    /\ raf = TRUE
    /\ metadata \in {"no", "known", "handled"}
    /\ target = 0 /\ isSeeking = FALSE
    /\ time = 0 /\ seeking = FALSE /\ seeked = 0

VideoIdle ==
    /\ raf = FALSE /\ metadata = "no"
    /\ target = 0 /\ isSeeking = FALSE
    /\ time = 0 /\ seeking = FALSE /\ seeked = 0

VideoMount == ~ raf /\ raf' = TRUE /\ \E m \in {"no", "known", "handled"} : Fresh(m)

\* The frame is cancelled; the element takes its events with it.
VideoUnmount == raf /\ raf' = FALSE /\ Fresh("no")

\* The browser has read the length of the clip.
Metadata ==
    /\ raf /\ metadata = "no"
    /\ metadata' = "known"
    /\ UNCHANGED <<raf, target, isSeeking, time, seeking, seeked>>

\* A seek that is under way is aborted by a new one, and sends no event.
Seek(t) == time' = t /\ seeking' = TRUE

\* Back to the start, without the flag.
HandleLoadedMetadata ==
    /\ raf /\ metadata = "known"
    /\ metadata' = "handled"
    /\ target' = 0
    /\ Seek(0)
    /\ UNCHANGED <<raf, isSeeking, seeked>>

\* Mutant: a touch outside the window is taken as it is.
SetTargetFromXRaw(x) ==
    /\ raf /\ metadata # "no"
    /\ target' = x
    /\ UNCHANGED <<raf, metadata, isSeeking, time, seeking, seeked>>

\* The pointer, in units of innerWidth / Duration; a touch may leave the window.
SetTargetFromX(x) ==
    /\ raf /\ metadata # "no"
    /\ target' = Clamp(x, 0, Duration)
    /\ UNCHANGED <<raf, metadata, isSeeking, time, seeking, seeked>>

Far == Abs(time - target) > SeekThreshold

\* Mutant: a frame does not ask whether a seek is under way.
TickAlways ==
    /\ raf /\ Far
    /\ isSeeking' = TRUE /\ Seek(target)
    /\ UNCHANGED <<raf, metadata, target, seeked>>

\* A frame: tick and requestSeek.
Tick ==
    /\ raf /\ ~ isSeeking /\ Far
    /\ isSeeking' = TRUE /\ Seek(target)
    /\ UNCHANGED <<raf, metadata, target, seeked>>

\* The browser ends a seek and queues the event.
SeekEnds ==
    /\ raf /\ seeking
    /\ seeking' = FALSE /\ seeked' = seeked + 1
    /\ UNCHANGED <<raf, metadata, target, isSeeking, time>>

\* Mutant: the flag is cleared only for a new seek.
HandleSeekedStuck ==
    /\ raf /\ seeked > 0
    /\ seeked' = seeked - 1
    /\ IF Far THEN Seek(target) ELSE UNCHANGED <<time, seeking>>
    /\ UNCHANGED <<raf, metadata, target, isSeeking>>

HandleSeeked ==
    /\ raf /\ seeked > 0
    /\ seeked' = seeked - 1
    /\ isSeeking' = Far
    /\ IF Far THEN Seek(target) ELSE UNCHANGED <<time, seeking>>
    /\ UNCHANGED <<raf, metadata, target>>

Point == \E x \in -1 .. Duration + 1 : SetTargetFromX(x)

VideoRuns == Tick \/ SeekEnds \/ HandleSeeked

VideoNext == Metadata \/ HandleLoadedMetadata \/ Point \/ VideoRuns

VideoSpec == VideoInit /\ [][VideoNext \/ VideoMount \/ VideoUnmount]_videoVars

-----------------------------------------------------------------------------
(* Properties *)

Outstanding == seeked + IF seeking THEN 1 ELSE 0

VideoTypeOK ==
    /\ raf \in BOOLEAN
    /\ metadata \in {"no", "known", "handled"}
    /\ target \in 0 .. Duration /\ time \in 0 .. Duration
    /\ isSeeking \in BOOLEAN /\ seeking \in BOOLEAN
    /\ seeked \in Nat

\* The flag is never left set with no event to clear it: requestSeek would
\* return early for good and the video no longer follow the pointer, although
\* the flag is set in two places and one seek starts without it.
NoStuckSeek == isSeeking => Outstanding > 0

\* "Instead of queuing up a backlog of stale seeks": there is at most one seek,
\* the one the flag stands for, under way or still to be reported, and the one
\* back to the start once the clip is loaded.
NoBacklog == Outstanding <= (IF isSeeking THEN 1 ELSE 0)
                            + IF metadata = "handled" THEN 1 ELSE 0

\* While the pointer rests the video arrives within the threshold of it.
VideoFollows ==
    (<>[]raf /\ <>[][~ Point /\ ~ HandleLoadedMetadata]_videoVars) => <>[](~ Far)
=============================================================================
