------------------------------ MODULE Slideshow ------------------------------
(***************************************************************************)
(* The slideshow of a class's photos (SlideshowPage.tsx).  An effect runs   *)
(* while the page is open: it fetches the photos, shuffles them and steps   *)
(* through the queue for ever, fetching again at its end.  Two layers are   *)
(* cross-faded: the next photo is put on the hidden one, and two animation  *)
(* frames later the layers change places.  A run of the effect that is      *)
(* over is only flagged: what it awaits still resumes.  The effect runs     *)
(* again when React mounts the page twice (StrictMode, main.tsx) and when   *)
(* another user is signed in.                                               *)
(***************************************************************************)
EXTENDS Naturals, Sequences, FiniteSets

CONSTANTS
    Photos,     \* the photos the members of the class may have
    MaxRuns,    \* how often the effect may run
    Faults,     \* which faults happen: see below
    None

(* "fetch": requests may fail; "images": a photo that could be loaded may   *)
(* not answer for 8 seconds; "uploads": members add and remove photos.      *)
ASSUME SlideshowAssumption ==
    /\ IsFiniteSet(Photos) /\ MaxRuns \in Nat \ {0}
    /\ Faults \subseteq {"fetch", "images", "uploads"}
    /\ None \notin Photos

VARIABLES
    uploaded,   \* the photos the API lists
    loads,      \* those whose image the storage serves; chosen at the start
    status,     \* loading, ready, empty or error
    layer,      \* layerUrls: the photo each layer bears
    activeLayer, \* which of the two is visible
    run,        \* per run of the effect: where it is, and its local variables
    live        \* the run that is not cancelled; 0 after the page was left

page == <<status, layer, activeLayer>>
slideVars == <<uploaded, loads, page, run, live>>

Runs   == 1..MaxRuns
Layers == {0, 1}

(* first: no photo shown yet; paint: the layer two animation frames will    *)
(* make visible; missed (history): this step has skipped an image.          *)
Off == [pc |-> "off", queue |-> <<>>, index |-> 0, attempts |-> 0, active |-> 0,
        paint |-> None, first |-> TRUE, missed |-> FALSE]

RunStates ==
    [pc : {"off", "fetching", "refetching", "preloading", "waiting", "stopped",
           "threw"},
     queue : UNION {[1..n -> Photos] : n \in 0..Cardinality(Photos)},
     index : 0..Cardinality(Photos), attempts : 0..Cardinality(Photos),
     active : Layers, paint : Layers \cup {None},
     first : BOOLEAN, missed : BOOLEAN]

SlideshowTypeOK ==
    /\ uploaded \subseteq Photos /\ loads \subseteq Photos
    /\ status \in {"loading", "ready", "empty", "error"}
    /\ layer \in [Layers -> Photos \cup {None}]
    /\ activeLayer \in Layers
    /\ run \in [Runs -> RunStates]
    /\ live \in 0..MaxRuns
    /\ \A r \in Runs : run[r].pc = "preloading" => run[r].index \in DOMAIN run[r].queue

Begun == [Off EXCEPT !.pc = "fetching"]

SlideshowInit ==
    /\ uploaded \in SUBSET Photos
    /\ loads \in SUBSET Photos
    /\ status = "loading"
    /\ layer = [l \in Layers |-> None]
    /\ activeLayer = 0
    /\ run = [r \in Runs |-> IF r = 1 THEN Begun ELSE Off]
    /\ live = 1

-----------------------------------------------------------------------------
(* Mutant: a run does not look at its flag when it resumes. *)
CancelledNever(r) == FALSE

Cancelled(r) == r # live

Become(r, s) == run' = [run EXCEPT ![r] = s]

(* A run that is over, and whether it had skipped an image. *)
Ended(missed) == [Off EXCEPT !.pc = "stopped", !.missed = missed]

(* A run that resumes and finds itself cancelled returns. *)
Silent(r) == Become(r, Ended(FALSE)) /\ UNCHANGED page

(* A run that ends by what it says instead of photos. *)
Ends(r, s, says) ==
    /\ status' = says
    /\ Become(r, Ended(s.missed))
    /\ UNCHANGED <<layer, activeLayer>>

(* Waiting for the time of a photo to pass: nothing is kept of how it was   *)
(* found.                                                                   *)
Waiting(s) == [s EXCEPT !.pc = "waiting", !.first = FALSE, !.attempts = 0,
                        !.missed = FALSE]

Shuffle(photos) == {q \in [1..Cardinality(photos) -> photos] :
                       \A i, j \in DOMAIN q : q[i] = q[j] => i = j}

(* Mutant: the layer to write is found from the state the effect closed over. *)
IdleOfClosure(s) == 1

IdleLayer(s) == 1 - s.active

(* What run() and tick() do with the photo advance() resolves to, Null if   *)
(* it found none.                                                           *)
Resume(r, s, photo) ==
    IF Cancelled(r) THEN Silent(r)
    ELSE IF photo = None THEN Ends(r, s, "empty")
    ELSE IF s.first
    THEN /\ layer' = [l \in Layers |-> IF l = 0 THEN photo ELSE None]
         /\ activeLayer' = 0 /\ status' = "ready"
         /\ Become(r, Waiting(s))
    ELSE /\ layer' = [layer EXCEPT ![IdleLayer(s)] = photo]
         /\ Become(r, [Waiting(s) EXCEPT !.paint = IdleLayer(s)])
         /\ UNCHANGED <<status, activeLayer>>

(* Mutant: failed images are retried without end. *)
ExhaustedNever(s) == FALSE

(* Mutant: the last attempt is not made. *)
ExhaustedEarly(s) == s.attempts + 1 >= Len(s.queue)

(* The condition of advance()'s loop. *)
Exhausted(s) == s.attempts >= Len(s.queue)

(* The head of that loop, up to its next await. *)
Attempt(r, s) ==
    IF Exhausted(s) THEN Resume(r, s, None)
    ELSE /\ Become(r, IF s.index = Len(s.queue)
                      THEN [s EXCEPT !.pc = "refetching"]
                      ELSE [s EXCEPT !.pc = "preloading", !.index = @ + 1])
         /\ UNCHANGED page

Advance(r, s) == Attempt(r, [s EXCEPT !.attempts = 0])

(* The first fetch of a run, and its failure. *)
PhotosFetched(r) ==
    /\ run[r].pc = "fetching"
    /\ IF Cancelled(r) THEN Silent(r)
       ELSE IF uploaded = {} THEN Ends(r, run[r], "empty")
       ELSE \E q \in Shuffle(uploaded) : Advance(r, [run[r] EXCEPT !.queue = q])
    /\ UNCHANGED <<uploaded, loads, live>>

FetchFailed(r) ==
    /\ run[r].pc = "fetching" /\ "fetch" \in Faults
    /\ IF Cancelled(r) THEN Silent(r) ELSE Ends(r, run[r], "error")
    /\ UNCHANGED <<uploaded, loads, live>>

(* The fetch at the end of the queue. *)
Refetched(r) ==
    /\ run[r].pc = "refetching"
    /\ IF Cancelled(r) \/ uploaded = {} THEN Resume(r, run[r], None)
       ELSE /\ \E q \in Shuffle(uploaded) :
                  Become(r, [run[r] EXCEPT !.pc = "preloading", !.queue = q,
                                           !.index = 1])
            /\ UNCHANGED page
    /\ UNCHANGED <<uploaded, loads, live>>

(* It is in no try block: the step's promise is rejected and nobody sees it. *)
RefetchFailed(r) ==
    /\ run[r].pc = "refetching" /\ "fetch" \in Faults
    /\ Become(r, [Off EXCEPT !.pc = "threw", !.paint = run[r].paint])
    /\ UNCHANGED <<uploaded, loads, page, live>>

(* preloadImage: the image loads, or fails, or 8 seconds pass. *)
Candidate(r) == run[r].queue[run[r].index]

Skip(r) == Attempt(r, [run[r] EXCEPT !.attempts = @ + 1, !.missed = TRUE])

ImageLoaded(r) ==
    /\ run[r].pc = "preloading" /\ Candidate(r) \in loads
    /\ Resume(r, run[r], Candidate(r))
    /\ UNCHANGED <<uploaded, loads, live>>

(* Mutant: a failed image is shown all the same. *)
ImageErrorShown(r) ==
    /\ run[r].pc = "preloading" /\ Candidate(r) \notin loads
    /\ Resume(r, run[r], Candidate(r))
    /\ UNCHANGED <<uploaded, loads, live>>

ImageError(r) ==
    /\ run[r].pc = "preloading" /\ Candidate(r) \notin loads
    /\ Skip(r)
    /\ UNCHANGED <<uploaded, loads, live>>

(* Mutant: there is no timer, only what the image does. *)
PreloadTimeoutNever(r) == FALSE /\ UNCHANGED slideVars

PreloadTimeout(r) ==
    /\ run[r].pc = "preloading"
    /\ Candidate(r) \notin loads \/ "images" \in Faults
    /\ Skip(r)
    /\ UNCHANGED <<uploaded, loads, live>>

(* A photo's time is over: the two timers of a tick, which the end of the  *)
(* run clears.                                                             *)
Tick(r) ==
    /\ run[r].pc = "waiting" /\ ~Cancelled(r)
    /\ Advance(r, run[r])
    /\ UNCHANGED <<uploaded, loads, live>>

(* The second animation frame.  A hidden tab gets none, though its timers  *)
(* go on: ticks may pass before it comes.                                  *)
Frame(r) ==
    /\ run[r].paint # None
    /\ IF Cancelled(r)
       THEN Become(r, [run[r] EXCEPT !.paint = None]) /\ UNCHANGED page
       ELSE /\ activeLayer' = run[r].paint
            /\ Become(r, [run[r] EXCEPT !.active = run[r].paint,
                                           !.paint = None])
            /\ UNCHANGED <<status, layer>>
    /\ UNCHANGED <<uploaded, loads, live>>

(* The effect's clean-up: the flag, and the timers, which leave nothing to *)
(* do for a run that awaited nothing else.                                 *)
CleanUp ==
    [run EXCEPT ![live] =
        IF @.pc = "waiting" /\ @.paint = None THEN Ended(FALSE) ELSE @]

(* Its next run. *)
Rerun ==
    /\ live \in 1..(MaxRuns - 1)
    /\ live' = live + 1
    /\ run' = [CleanUp EXCEPT ![live + 1] = Begun]
    /\ UNCHANGED <<uploaded, loads, page>>

(* Escape, or the button. *)
LeaveShow ==
    /\ live # 0 /\ live' = 0
    /\ run' = CleanUp
    /\ UNCHANGED <<uploaded, loads, page>>

(* What the rest of the class does. *)
ChangePhotos ==
    /\ "uploads" \in Faults /\ live # 0
    /\ \E p \in Photos :
          uploaded' = IF p \in uploaded THEN uploaded \ {p} ELSE uploaded \cup {p}
    /\ UNCHANGED <<loads, page, run, live>>

SlideshowNext ==
    \/ \E r \in Runs :
          \/ PhotosFetched(r) \/ FetchFailed(r) \/ Refetched(r) \/ RefetchFailed(r)
          \/ ImageLoaded(r) \/ ImageError(r) \/ PreloadTimeout(r)
          \/ Tick(r) \/ Frame(r)
    \/ Rerun \/ LeaveShow \/ ChangePhotos

SlideshowSpec == SlideshowInit /\ [][SlideshowNext]_slideVars

(* Requests are answered, timers fire, and a tab that is hidden is looked  *)
(* at again.  An image need do nothing: only its timer is relied on.       *)
FairSlideshow ==
    /\ SlideshowSpec
    /\ \A r \in Runs :
          /\ WF_slideVars(PhotosFetched(r) \/ FetchFailed(r))
          /\ WF_slideVars(Refetched(r) \/ RefetchFailed(r))
          /\ WF_slideVars(PreloadTimeout(r))
          /\ WF_slideVars(Tick(r))
          /\ WF_slideVars(Frame(r))

-----------------------------------------------------------------------------
(* Whenever the page shows photos, the visible layer bears one, and one    *)
(* whose image had loaded: never a broken image, never a black screen.     *)
SomethingIsShown == status = "ready" => layer[activeLayer] \in loads

(* The visible layer is not rewritten, however many ticks pass before the  *)
(* frame that exchanges the layers comes.  Only a new run's first photo    *)
(* replaces what the run before it left.                                   *)
VisibleLayerStays ==
    [][ status = "ready" /\ layer'[activeLayer] # layer[activeLayer] =>
           live # 0 /\ run[live].first ]_slideVars

(* What the page shows changes only by what its live run does: a run that  *)
(* was awaiting a request, an image or a frame when it was cancelled       *)
(* changes nothing any more, and nothing changes after the page was left.  *)
LateRunsAreSilent ==
    [][ page' # page => live # 0 /\ run'[live] # run[live] ]_slideVars

(* The page says that there are no photos only when the class had none or  *)
(* an image was skipped in that very step.                                 *)
EmptyHasCause ==
    [][ status # "empty" /\ status' = "empty" =>
           uploaded = {} \/ run'[live].missed ]_slideVars

(* What is on the screen: a photo that had loaded, not exchanged but in its *)
(* turn, by nothing but the live run, and taken away only for a cause.      *)
ScreenHolds ==
    []SomethingIsShown /\ VisibleLayerStays /\ LateRunsAreSilent /\ EmptyHasCause

(* The show goes on: the layers change places for ever, whatever images    *)
(* do, until the page says it is empty, is left, or a refetch fails.  (The *)
(* last freezes it on a photo, without a word.)                            *)
ShowGoesOn ==
    \A l \in Layers :
        (status = "ready" /\ activeLayer = l) ~>
            \/ activeLayer # l \/ status # "ready" \/ live = 0
            \/ run[live].pc = "threw"

(* What the comment on advance() says, and the page: a photo that fails to *)
(* load is skipped, so the page is empty only if no photo can be shown.    *)
(* With nobody uploading, no failed request and no slow image.  (Refuted:  *)
(* attempts are counted across the reshuffle at the end of the queue.)     *)
EmptyMeansNone == status = "empty" => uploaded \cap loads = {}

=============================================================================
