-------------------------------- MODULE Carousel --------------------------------
(******************************************************************************)
(* The carousel the website loads on every page: the Slick object of          *)
(* src/website/resources/js/slick-1.6.0/slick/slick.js, with the browser's    *)
(* event loop around it.  JavaScript runs one callback at a time, so that a   *)
(* step is one event handler, timer callback or call of the page, with all    *)
(* that it calls; what interleaves are user input, calls of the page, the     *)
(* autoplay interval, the ends of animations, and the timeouts of focus and   *)
(* resize events.                                                             *)
(*                                                                            *)
(* The functions of the source are operators that take the object and return  *)
(* the changed one; `slick` holds the object, with what the browser keeps for *)
(* it:                                                                        *)
(*   options, original   _.options and _.originalSettings, which are the same *)
(*                       object until a breakpoint is entered                 *)
(*   slides, cache       how many slides $slides and $slidesCache hold        *)
(*   indexes, hidden     the values of data-slick-index of the slides, and of *)
(*                       those only $slidesCache holds: kept when slides can  *)
(*                       be clicked                                           *)
(*   rebound             slides have their click handler more than once       *)
(*   clones              clones on each side of the slides                    *)
(*   shown               positions with the class slick-active                *)
(*   track               the position at the left edge of the list; Dragged,  *)
(*                       when it follows the finger, and Astray, when it is   *)
(*                       where the finger left it; with fade the slide that   *)
(*                       is opaque                                            *)
(*   touch, firstTouch   the swipe being recorded, and the one in _.initials, *)
(*                       which is the same object while `sharedTouch`         *)
(*   listening, focusable  which event handlers are bound                     *)
(*   callbacks           indexes with which postSlide will be called, one for *)
(*                       each animation that has not ended                    *)
(*   ticking             the autoplay interval is set                         *)
(*   resizing, focusing  the timeouts of resize and of focus events are set   *)
(* and three history fields: `filtered` (slickFilter was called), `overtaken` *)
(* (the slides were rebuilt while an animation was under way) and `misled` (a *)
(* click went to a position that there no longer was).  Pages leave           *)
(* initialSlide at 0.                                                         *)
(******************************************************************************)
EXTENDS CarouselPages, Sequences, FiniteSets

CONSTANTS
    Pages,          \* what pages pass to slick(): records of PageType
    Widths,         \* widths the window can have
    MaxSlides,      \* bound: slides a page adds up to
    MaxInputs,      \* bound: user inputs and calls of the page
    MaxCallbacks,   \* bound: animations under way at once
    None,           \* null
    Unslick,        \* settings: 'unslick'
    Dragged,        \* the track follows the finger
    Astray          \* the track is where the finger has left it

Options ==
    [infinite : BOOLEAN, fade : BOOLEAN, centerMode : BOOLEAN,
     slidesToShow : Nat \ {0}, slidesToScroll : Nat \ {0},
     autoplay : BOOLEAN, waitForAnimate : BOOLEAN, focusOnSelect : BOOLEAN]

(* $.extend: the options with some of them set anew. *)
Extended(o, changes) ==
    [name \in DOMAIN o \cup DOMAIN changes |->
        IF name \in DOMAIN changes THEN changes[name] ELSE o[name]]

(* Sliders that scroll further than they show, and so skip slides, are left   *)
(* out, and breakpoints that change whether slides can be clicked.            *)
Sensible(o) == o \in Options /\ o.slidesToScroll <= o.slidesToShow

ASSUME PagesAssumption ==
    \A p \in Pages :
        /\ DOMAIN p = {"settings", "responsive", "mobileFirst", "slides"}
        /\ Sensible(p.settings)
        /\ p.slides \in 0 .. MaxSlides
        /\ p.mobileFirst \in BOOLEAN
        /\ \A b \in DOMAIN p.responsive :
              /\ b \in Nat
              /\ \/ p.responsive[b] = Unslick
                 \/ /\ Sensible(Extended(p.settings, p.responsive[b]))
                    /\ "focusOnSelect" \notin DOMAIN p.responsive[b]

ASSUME BoundsAssumption ==
    /\ Widths \subseteq Nat
    /\ {MaxSlides, MaxInputs, MaxCallbacks} \subseteq Nat

ASSUME TrackAssumption ==
    Dragged \notin Int /\ Astray \notin Int /\ Dragged # Astray

VARIABLES
    slick,          \* the object, see above
    page,           \* the element of Pages this page is
    width,          \* width of the window
    hasFocus,       \* an element of the slider has the focus
    inputs          \* user inputs and calls so far

vars == <<slick, page, width, hasFocus, inputs>>

--------------------------------------------------------------------------------
(* Swipes: `on` when curX is defined; `far` when swipeLength reached minSwipe; *)
(* `dir` what swipeDirection returns, but "none" while startX = curX, and      *)
(* "lost" when there is no starting point to compute with.                     *)

NoTouch == [on |-> FALSE, dir |-> "none", far |-> FALSE]

SetTouch(s, t) ==
    [s EXCEPT !.touch = t, !.firstTouch = IF s.sharedTouch THEN t ELSE @]

FreshTouch(s) == [s EXCEPT !.touch = NoTouch, !.sharedTouch = FALSE]

--------------------------------------------------------------------------------
(* Timers, the strip of slides, and its classes. *)

AutoPlay(s) == [s EXCEPT !.ticking = s.slides > s.options.slidesToShow]

AutoPlayClear(s) == [s EXCEPT !.ticking = FALSE]

SetCSS(s, position) == [s EXCEPT !.track = position]

(* The strip no longer follows the finger. *)
Stray(s) == [s EXCEPT !.track = IF @ = Dragged /\ s.dragging THEN Astray ELSE @]

SetFade(s) == [s EXCEPT !.track = s.current]

SetPosition(s) ==
    IF s.options.fade THEN SetFade(s)
    ELSE SetCSS(s, Left(s.options, s.slides, s.current))

SetSlideClasses(s, index) ==
    [s EXCEPT !.shown = Active(s.options, s.slides, s.clones, index)]

(* An assignment to a field of the options object. *)
ChangeOptions(s, o) ==
    [s EXCEPT !.options = o,
              !.original = IF s.activeBreakpoint = None THEN o ELSE @]

SetupInfinite(s) ==
    LET t == ChangeOptions(s, [s.options EXCEPT !.centerMode = @ /\ ~s.options.fade])
    IN  [t EXCEPT !.clones = Clones(t.options, t.slides)]

(* The slides numbered from 0. *)
Numbered(s) ==
    [s EXCEPT !.indexes = IF s.options.focusOnSelect THEN 0 .. s.slides - 1 ELSE {}]

BuildOut(s) ==
    LET t == ChangeOptions(Numbered(s), [s.options EXCEPT
                 !.slidesToScroll = IF s.options.centerMode THEN 1 ELSE @])
    IN  SetSlideClasses(SetupInfinite(t), s.current)

--------------------------------------------------------------------------------
(* Going to a slide. *)

(* Faulty PostSlide: the strip stays where the animation took it, and the *)
(* interval that slideHandler stopped stays stopped.                          *)
PostSlide_NotPlaced(s) ==
    IF s.unslicked THEN s
    ELSE LET t == [s EXCEPT !.animating = FALSE]
         IN  IF s.options.autoplay THEN AutoPlay(t) ELSE t

PostSlide_NoAutoPlay(s) ==
    IF s.unslicked THEN s ELSE SetPosition([s EXCEPT !.animating = FALSE])

PostSlide(s) ==
    IF s.unslicked THEN s
    ELSE LET t == SetPosition([s EXCEPT !.animating = FALSE])
         IN  IF s.options.autoplay THEN AutoPlay(t) ELSE t

(* The strip sets off to `position`, or the current slide begins to appear,   *)
(* and postSlide(current) is called when that is done.                        *)
AnimateSlide(s, position) ==
    [s EXCEPT !.track = position, !.callbacks = Append(@, s.current)]

FadeSlide(s) ==
    [s EXCEPT !.track = s.current, !.callbacks = Append(@, s.current)]

(* Faulty: requests during an animation are not ignored. *)
IgnoresSlide_Never(s, index) ==
    \/ s.options.fade /\ s.current = index
    \/ s.slides <= s.options.slidesToShow

IgnoresSlide(s, index) ==
    \/ s.animating /\ s.options.waitForAnimate
    \/ s.options.fade /\ s.current = index
    \/ s.slides <= s.options.slidesToShow

SnapBack(s, dontAnimate) ==
    IF s.options.fade THEN s
    ELSE IF dontAnimate THEN PostSlide(s)
    ELSE AnimateSlide(s, Left(s.options, s.slides, s.current))

SlideHandler(s, index, dontAnimate) ==
    LET slide == AnimSlide(s.options, s.slides, index)
        going == SetSlideClasses([s EXCEPT !.ticking = @ /\ ~s.options.autoplay,
                                           !.animating = TRUE, !.current = slide], slide)
    IN  IF IgnoresSlide(s, index) THEN s
        ELSE IF Beyond(s.options, s.slides, index) THEN SnapBack(s, dontAnimate)
        ELSE IF dontAnimate THEN PostSlide(going)
        ELSE IF s.options.fade THEN FadeSlide(going)
        ELSE AnimateSlide(going, Left(s.options, s.slides, index))

ChangeSlide(s, message) ==
    LET index == IF message = "previous"
                 THEN PreviousIndex(s.options, s.slides, s.current)
                 ELSE NextIndex(s.options, s.slides, s.current)
    IN  SlideHandler(s, index, FALSE)

ChangeSlideTo(s, index, dontAnimate) ==
    SlideHandler(s, CheckNavigable(s.options, s.slides, index), dontAnimate)

(* autoPlayIterator: without looping it turns around one slide before the end *)
(* and arrives at the end with the step that turns it.                        *)
AutoPlayIterator(s) ==
    LET atEnd == ~s.options.infinite /\ s.direction = 1 /\ s.current + 1 = s.slides - 1
        back  == ~s.options.infinite /\ s.direction = 0
        turn  == IF atEnd THEN 0 ELSE IF back /\ s.current - 1 = 0 THEN 1 ELSE s.direction
    IN  IF s.paused \/ s.interrupted \/ s.focussed THEN s
        ELSE SlideHandler([s EXCEPT !.direction = turn],
                          IF back THEN s.current - s.options.slidesToScroll
                                  ELSE s.current + s.options.slidesToScroll, FALSE)

--------------------------------------------------------------------------------
(* Building, rebuilding and taking apart. *)

(* Handlers of events of the slider and the window, and of focus events in    *)
(* it.  initSlideEvents binds the handlers of hovering; when reinit calls it, *)
(* they come after those of swiping.                                          *)
InitializeEvents(s) == [s EXCEPT !.listening = TRUE, !.hoverLast = FALSE]

InitSlideEvents(s) == [s EXCEPT !.hoverLast = TRUE]

FocusHandler(s) == [s EXCEPT !.focusable = TRUE]

CleanUpEvents(s) == [s EXCEPT !.listening = FALSE, !.focusable = FALSE, !.rebound = FALSE]

Unload(s) == [s EXCEPT !.clones = 0, !.shown = {}]

Destroy(s) ==
    [CleanUpEvents(FreshTouch(AutoPlayClear(s))) EXCEPT
        !.clones = 0, !.shown = {}, !.indexes = {}, !.unslicked = TRUE]

(* init, apart from checkResponsive(true): what it builds before that, and    *)
(* what it does after it.                                                     *)
InitBuild(s) == InitializeEvents(SetPosition(BuildOut(s)))

InitEnd(s) ==
    LET t == FocusHandler(s)
    IN  IF s.options.autoplay THEN AutoPlay([t EXCEPT !.paused = FALSE]) ELSE t

(* refresh is only called by checkResponsive, so that the checkResponsive of  *)
(* the init in it has nothing to do.  $.extend(_, _.initials) resets neither  *)
(* paused, interrupted, focussed nor what an earlier swipe left in            *)
(* _.initials.touchObject.                                                    *)
Refresh(s, initializing) ==
    LET lastVisible == s.slides - s.options.slidesToShow
        current == IF s.slides <= s.options.slidesToShow THEN 0
                   ELSE IF ~s.options.infinite /\ s.current > lastVisible
                   THEN lastVisible ELSE s.current
        reset   == [Destroy(s) EXCEPT
                       !.current = current, !.animating = FALSE, !.dragging = FALSE,
                       !.direction = 1, !.touch = s.firstTouch, !.sharedTouch = TRUE,
                       !.unslicked = FALSE, !.overtaken = s.callbacks # <<>>]
        again   == InitEnd(InitBuild(reset))
    IN  IF initializing THEN again ELSE ChangeSlideTo(again, current, FALSE)

(* registerBreakpoints and the search in checkResponsive. *)
TargetBreakpoint(w) ==
    LET met == {b \in DOMAIN page.responsive : IF page.mobileFirst THEN w > b ELSE w < b}
    IN  IF met = {} THEN None
        ELSE IF page.mobileFirst THEN Max(met) ELSE Min(met)

CheckResponsive(s, w, initial, forceUpdate) ==
    LET target   == TargetBreakpoint(w)
        entered  == [s EXCEPT !.activeBreakpoint = target,
                              !.current = IF initial THEN 0 ELSE @]
    IN  IF target = s.activeBreakpoint /\ ~(forceUpdate /\ target # None) THEN s
        ELSE IF target = None
        THEN Refresh([entered EXCEPT !.options = s.original], initial)
        ELSE IF page.responsive[target] = Unslick
        THEN Destroy([s EXCEPT !.activeBreakpoint = target])
        ELSE Refresh([entered EXCEPT
                         !.options = Extended(s.original, page.responsive[target])], initial)

(* What reinit does once the slides are counted and a slide is chosen.  It    *)
(* gives the slides their click handler, which they have already.             *)
Rebuild(s, current, w) ==
    LET begun   == [InitSlideEvents(s) EXCEPT !.current = current,
                                              !.overtaken = @ \/ s.callbacks # <<>>]
        rebuilt == CheckResponsive(SetupInfinite(begun), w, FALSE, TRUE)
        bound   == [rebuilt EXCEPT
                       !.rebound = @ \/ (~rebuilt.unslicked /\ rebuilt.options.focusOnSelect)]
        placed  == SetPosition(SetSlideClasses(bound, bound.current))
    IN  AutoPlay([FocusHandler(placed) EXCEPT !.paused = ~placed.options.autoplay])

(* Faulty: no step back from a slide that is gone. *)
Reinit_NoStepBack(s, w) ==
    Rebuild(s, IF s.slides <= s.options.slidesToShow THEN 0 ELSE s.current, w)

Reinit(s, w) ==
    Rebuild(s, IF s.slides <= s.options.slidesToShow THEN 0
               ELSE IF s.current >= s.slides /\ s.current # 0
               THEN s.current - s.options.slidesToScroll ELSE s.current, w)

(* The slides of the page are replaced by `n` of them. *)
ReplaceSlides(s, n, w) == Reinit([Unload(s) EXCEPT !.slides = n], w)

(* The constructor, and init(true). *)
Construct(p, w) ==
    LET fields ==
            [options |-> p.settings, original |-> p.settings, activeBreakpoint |-> None,
             slides |-> p.slides, cache |-> None, indexes |-> {}, hidden |-> {},
             rebound |-> FALSE, clones |-> 0, shown |-> {},
             current |-> 0, animating |-> FALSE, direction |-> 1, track |-> 0,
             paused |-> TRUE, interrupted |-> FALSE, focussed |-> FALSE,
             dragging |-> FALSE, touch |-> NoTouch, firstTouch |-> NoTouch,
             sharedTouch |-> TRUE, unslicked |-> FALSE, listening |-> FALSE,
             focusable |-> FALSE, hoverLast |-> FALSE, windowWidth |-> 0,
             callbacks |-> <<>>, ticking |-> FALSE, resizing |-> FALSE,
             focusing |-> FALSE, filtered |-> FALSE, overtaken |-> FALSE,
             misled |-> FALSE]
    IN  InitEnd(CheckResponsive(InitBuild(fields), w, TRUE, FALSE))

--------------------------------------------------------------------------------
(* Swiping and pausing. *)

(* Another finger, or another button, may begin a swipe during a swipe. *)
SwipeStart(s, fingers) ==
    LET t == [Stray(s) EXCEPT !.interrupted = TRUE]
    IN  IF fingers # 1 \/ s.slides <= s.options.slidesToShow THEN FreshTouch(t)
        ELSE SetTouch([t EXCEPT !.dragging = TRUE],
                      [on |-> TRUE, dir |-> "none", far |-> s.touch.far])

(* Where a finger can be, left-to-right and without verticalSwiping:          *)
(* "straight" above or below the starting point, "back" on it, where          *)
(* swipeDirection returns 'left' and the strip moves by 0.                    *)
Directions == {"left", "right", "vertical", "straight", "back"}

SwipeMove(s, dir, far) ==
    LET lost == ~s.touch.on \/ s.touch.dir = "lost"
        zero == dir \in {"straight", "back"}
        t    == SetTouch(s, IF lost THEN [on |-> TRUE, dir |-> "lost", far |-> FALSE]
                            ELSE IF zero THEN [on |-> TRUE, dir |-> "none", far |-> FALSE]
                            ELSE [on |-> TRUE, dir |-> dir, far |-> far])
    IN  IF ~s.dragging THEN s
        ELSE IF lost \/ dir \in {"vertical", "straight"} THEN Stray(t)
        ELSE IF s.options.fade \/ s.animating THEN t
        ELSE SetCSS(t, IF dir = "back" THEN Left(s.options, s.slides, s.current)
                                       ELSE Dragged)

(* Faulty: a swipe that was too short is not forgotten. *)
SwipeEnd_KeepsShort(s) ==
    LET t == [s EXCEPT !.dragging = FALSE, !.interrupted = FALSE]
    IN  IF ~s.touch.on THEN t
        ELSE IF s.touch.far
        THEN IF s.touch.dir = "vertical" THEN t
             ELSE FreshTouch(SlideHandler(t,
                      IF s.touch.dir = "right" THEN s.current - s.options.slidesToScroll
                                               ELSE s.current + s.options.slidesToScroll,
                      FALSE))
        ELSE IF s.touch.dir = "none" THEN t
        ELSE SlideHandler(t, s.current, FALSE)

(* swipeEnd does not ask whether a swipe was started: mouseleave calls it.    *)
(* Without a move swipeLength is what an earlier swipe has left, and the      *)
(* angle of the swipe is 0, which is left.                                    *)
SwipeEnd(s) ==
    LET t == [s EXCEPT !.dragging = FALSE, !.interrupted = FALSE]
    IN  IF ~s.touch.on THEN t
        ELSE IF s.touch.far
        THEN IF s.touch.dir = "vertical" THEN t
             ELSE FreshTouch(SlideHandler(t,
                      IF s.touch.dir = "right" THEN s.current - s.options.slidesToScroll
                                               ELSE s.current + s.options.slidesToScroll,
                      FALSE))
        ELSE IF s.touch.dir = "none" THEN t
        ELSE FreshTouch(SlideHandler(t, s.current, FALSE))

Interrupt(s, toggle) ==
    [IF toggle THEN s ELSE AutoPlay(s) EXCEPT !.interrupted = toggle]

--------------------------------------------------------------------------------
(* Inputs: events of the user, for which the handlers are bound, and calls of *)
(* the page, which does not call a slider it has taken apart.                 *)

Input(next) ==
    /\ inputs < MaxInputs
    /\ Len(slick.callbacks) < MaxCallbacks
    /\ inputs' = inputs + 1
    /\ slick' = next
    /\ UNCHANGED <<page, width, hasFocus>>

Event(next) == slick.listening /\ Input(next)

Call(next) == ~slick.unslicked /\ Input(next)

(* Arrows, arrow keys, next() and prev(). *)
Arrow == \E message \in {"previous", "next"} : Call(ChangeSlide(slick, message))

(* Dots and goTo(). *)
GoTo == \E index \in -1 .. MaxSlides, dontAnimate \in BOOLEAN :
            Call(ChangeSlideTo(slick, index, dontAnimate))

(* selectHandler, with the data-slick-index of what was clicked, which need   *)
(* not be a position any more.                                                *)
SelectHandler(s, index) ==
    IF s.slides <= s.options.slidesToShow THEN SetSlideClasses(s, index)
    ELSE SlideHandler([s EXCEPT !.misled =
                          @ \/ index \notin -s.clones .. s.slides + s.clones - 1],
                      index, FALSE)

CloneIndexes(s) == -s.clones .. -1 \cup s.slides .. s.slides + s.clones - 1

(* A click on a slide or on a clone of one, which calls selectHandler as      *)
(* often as it is bound: twice stands for more, for the third call goes where *)
(* the second did.                                                            *)
Select ==
    /\ slick.options.focusOnSelect
    /\ \E index \in slick.indexes \cup CloneIndexes(slick) :
          \/ Event(SelectHandler(slick, index))
          \/ /\ slick.rebound
             /\ Len(slick.callbacks) + 1 < MaxCallbacks
             /\ Event(SelectHandler(SelectHandler(slick, index), index))

TouchStart == \E fingers \in 1 .. 2 : Event(SwipeStart(slick, fingers))

TouchMove == \E dir \in Directions, far \in BOOLEAN :
                 slick.dragging /\ Event(SwipeMove(slick, dir, far))

TouchEnd == Event(SwipeEnd(slick))

MouseEnter == Event(Interrupt(slick, TRUE))

(* Both handlers of mouseleave, in the order in which they were bound. *)
MouseLeave == Event(IF slick.hoverLast THEN Interrupt(SwipeEnd(slick), FALSE)
                                       ELSE SwipeEnd(Interrupt(slick, FALSE)))

VisibilityChange ==
    \E hidden \in BOOLEAN : /\ slick.options.autoplay
                            /\ Event([slick EXCEPT !.interrupted = hidden])

OrientationChange == Event(SetPosition(CheckResponsive(slick, width, FALSE, FALSE)))

Play == Call([AutoPlay(slick) EXCEPT !.options.autoplay = TRUE,
                  !.original.autoplay = @ \/ slick.activeBreakpoint = None,
                  !.paused = FALSE, !.focussed = FALSE, !.interrupted = FALSE])

Pause == Call([AutoPlayClear(slick) EXCEPT !.paused = TRUE])

AddSlide == /\ slick.slides < MaxSlides
            /\ LET s == [slick EXCEPT !.slides = @ + 1, !.cache = slick.slides + 1,
                                      !.hidden = {}]
               IN  Call(ReplaceSlides(Numbered(s), s.slides, width))

(* The slides are not numbered anew: `kept` are the indexes of those that     *)
(* stay, `gone` those of the others, and more slides than one can have the    *)
(* same.                                                                      *)
Partings == {p \in [kept : SUBSET slick.indexes, gone : SUBSET slick.indexes] :
                p.kept \cup p.gone = slick.indexes}

Staying(p) == Cardinality(p.kept) .. slick.slides - Cardinality(p.gone)

(* Faulty: removing from an empty slider is not refused. *)
RemoveSlide_FromNone ==
    Call(ReplaceSlides([slick EXCEPT !.cache = slick.slides - 1, !.hidden = {}],
                       slick.slides - 1, width))

RemoveSlide ==
    /\ slick.slides >= 1
    /\ \E p \in Partings : \E n \in Staying(p) \cap {slick.slides - 1, 0} :  \* 0: removeAll
          Call(ReplaceSlides([slick EXCEPT !.cache = n, !.indexes = p.kept,
                                           !.hidden = {}], n, width))

FilterSlides ==
    \E p \in Partings : \E n \in Staying(p) :
        Call(ReplaceSlides([slick EXCEPT !.cache = slick.slides, !.indexes = p.kept,
                                         !.hidden = p.gone, !.filtered = TRUE], n, width))

UnfilterSlides ==
    /\ slick.cache # None
    /\ Call(ReplaceSlides([slick EXCEPT !.indexes = @ \cup slick.hidden, !.hidden = {}],
                          slick.cache, width))

(* setOption, with an option and the refresh flag. *)
SetOption == \E n \in slick.options.slidesToScroll .. MaxSlides :
                 Call(Reinit(Unload(ChangeOptions(slick,
                          [slick.options EXCEPT !.slidesToShow = n])), width))

UnslickCall == Call(Destroy(slick))

(* A focus or blur event inside the slider. *)
FocusChange ==
    /\ inputs < MaxInputs
    /\ inputs' = inputs + 1
    /\ hasFocus' = ~hasFocus
    /\ slick' = [slick EXCEPT !.focusing = @ \/ slick.focusable]
    /\ UNCHANGED <<page, width>>

(* resize, which only knows that the window has another width than when it    *)
(* looked last.                                                               *)
Resize(w) ==
    /\ inputs < MaxInputs
    /\ inputs' = inputs + 1
    /\ width' = w
    /\ slick' = [slick EXCEPT !.resizing =
                     @ \/ (slick.listening /\ w # slick.windowWidth)]
    /\ UNCHANGED <<page, hasFocus>>

--------------------------------------------------------------------------------
(* What the browser calls later. *)

Later(next) == UNCHANGED <<page, width, hasFocus, inputs>> /\ slick' = next

AutoPlayTick ==
    /\ slick.ticking
    /\ Len(slick.callbacks) < MaxCallbacks
    /\ Later(AutoPlayIterator(slick))

(* Animations take equally long, so they end in the order they were started. *)
AnimationEnd ==
    /\ slick.callbacks # <<>>
    /\ Later(PostSlide([slick EXCEPT !.callbacks = Tail(@),
                                     !.overtaken = @ /\ Len(slick.callbacks) > 1]))

FocusTimeout ==
    /\ slick.focusing
    /\ Later(AutoPlay([slick EXCEPT !.focusing = FALSE, !.focussed = hasFocus]))

ResizeTimeout ==
    /\ slick.resizing
    /\ Len(slick.callbacks) < MaxCallbacks
    /\ LET s == CheckResponsive([slick EXCEPT !.resizing = FALSE, !.windowWidth = width],
                                width, FALSE, FALSE)
       IN  Later(IF s.unslicked THEN s ELSE SetPosition(s))

--------------------------------------------------------------------------------
Init ==
    /\ page \in Pages
    /\ width \in Widths
    /\ hasFocus = FALSE
    /\ inputs = 0
    /\ slick = Construct(page, width)

UserInput ==
    \/ Arrow \/ GoTo \/ Select
    \/ TouchStart \/ TouchMove \/ TouchEnd \/ MouseEnter \/ MouseLeave
    \/ VisibilityChange \/ OrientationChange \/ FocusChange
    \/ \E w \in Widths \ {width} : Resize(w)

PageCall ==
    \/ Play \/ Pause \/ AddSlide \/ RemoveSlide \/ FilterSlides \/ UnfilterSlides
    \/ SetOption \/ UnslickCall

Next ==
    \/ UserInput
    \/ PageCall
    \/ AutoPlayTick
    \/ AnimationEnd
    \/ FocusTimeout
    \/ ResizeTimeout

(* The browser runs timers and timeouts that are due; users and pages need    *)
(* not do anything.  This is weak fairness of the four steps, spelled out     *)
(* with the conditions under which they change something: in ENABLED, TLC     *)
(* would evaluate the nested operators above again and again.                 *)
TickDue ==
    /\ slick.ticking
    /\ Len(slick.callbacks) < MaxCallbacks
    /\ AutoPlayIterator(slick) # slick

ResizeDue == slick.resizing /\ Len(slick.callbacks) < MaxCallbacks

Fairness ==
    /\ []<>(~TickDue) \/ []<><<AutoPlayTick>>_vars
    /\ []<>(slick.callbacks = <<>>) \/ []<><<AnimationEnd>>_vars
    /\ []<>(~slick.focusing) \/ []<><<FocusTimeout>>_vars
    /\ []<>(~ResizeDue) \/ []<><<ResizeTimeout>>_vars

Spec == Init /\ [][Next]_vars /\ Fairness

--------------------------------------------------------------------------------
(* Properties. *)

(* Type correctness of the object and its surroundings. *)
TypeOK ==
    /\ page \in Pages /\ width \in Widths /\ hasFocus \in BOOLEAN
    /\ inputs \in 0 .. MaxInputs
    /\ {slick.options, slick.original} \subseteq Options
    /\ slick.activeBreakpoint \in DOMAIN page.responsive \cup {None}
    /\ slick.slides \in 0 .. MaxSlides
    /\ slick.cache \in 0 .. MaxSlides \cup {None}
    /\ slick.indexes \cup slick.hidden \subseteq 0 .. MaxSlides - 1
    /\ slick.clones \in Nat /\ slick.shown \subseteq Int
    /\ slick.current \in Int /\ slick.direction \in {0, 1}
    /\ slick.track \in Int \cup {Dragged, Astray}
    /\ slick.callbacks \in Seq(Int) /\ Len(slick.callbacks) <= MaxCallbacks
    /\ {slick.touch, slick.firstTouch} \subseteq
          [on : BOOLEAN, far : BOOLEAN,
           dir : {"none", "left", "right", "vertical", "lost"}]
    /\ {slick.animating, slick.paused, slick.interrupted, slick.focussed,
        slick.dragging, slick.sharedTouch, slick.unslicked, slick.listening,
        slick.focusable, slick.hoverLast, slick.ticking, slick.resizing,
        slick.focusing, slick.rebound, slick.filtered, slick.overtaken,
        slick.misled} \subseteq BOOLEAN

(* The slider has settled: nothing moves and no finger holds the strip. *)
AtRest == ~slick.unslicked /\ slick.callbacks = <<>> /\ ~slick.dragging

(* Two ways in which a finger leaves the strip anywhere: its swipe turns      *)
(* vertical, or another finger or button ends it (swipeMove, swipeStart), and *)
(* a swipe outlives the slides or options it was begun with, so that there is *)
(* nothing to slide when it ends (swipeEnd, slideHandler).                    *)
Displaced ==
    \/ slick.track = Astray
    \/ slick.track = Dragged /\ slick.slides <= slick.options.slidesToShow

(* The slide a slider stands on exists, whatever is added, removed, resized   *)
(* or slid meanwhile (reinit, refresh, slideHandler), as long as no filter    *)
(* took away more slides than reinit's single step back makes up for, and no  *)
(* click had an index from before slides were removed: removeSlide and the    *)
(* filters leave data-slick-index as it was (selectHandler).                  *)
CurrentExists ==
    \/ slick.filtered \/ slick.misled
    \/ slick.slides = 0 \/ slick.current \in 0 .. slick.slides - 1

(* At rest the strip is where the current slide says: no handler leaves a     *)
(* position behind that a later change of the slides or options outdates,     *)
(* and no swipe leaves the strip where it dragged it, but for the ways named  *)
(* in Displaced.                                                              *)
(* And what is marked slick-active is in view, and something is: the formulas *)
(* of setSlideClasses and getLeft, and the moments at which they are applied, *)
(* agree.  The latter is so for a slider that stands at the start of a page   *)
(* and has whole pages, or scrolls by what it shows.  With centerMode, a      *)
(* slider that does not loop or has no more slides than it shows marks none,  *)
(* and one that shows an even number has half a slide at each end; a slider   *)
(* that fades shows one slide whatever it is told.                            *)
RestInView ==
    LET o == slick.options
        n == slick.slides
        inView == IF o.fade THEN {slick.track}
                  ELSE slick.track .. slick.track +
                           (IF o.centerMode THEN 2 * Half(o) ELSE o.slidesToShow - 1)
        pages  == /\ n > slick.current
                  /\ n % o.slidesToScroll = 0 \/ o.slidesToShow = o.slidesToScroll
                  /\ slick.current % o.slidesToScroll = 0
                  /\ o.centerMode => o.infinite /\ n > o.slidesToShow
                  /\ o.fade => o.slidesToShow = 1
    IN  AtRest /\ ~Displaced =>
            /\ slick.track = IF o.fade THEN slick.current ELSE Left(o, n, slick.current)
            /\ pages => slick.shown # {} /\ slick.shown \subseteq inView

(* `animating` makes slideHandler deaf: while it is set, the end of some      *)
(* animation is still to come and will reset it.                              *)
NeverDeaf == slick.animating /\ ~slick.unslicked => slick.callbacks # <<>>

(* waitForAnimate (README.markdown:114: "Ignores requests to advance the      *)
(* slide while animating"): a looping slider has at most one animation under  *)
(* way, knows it, and announces the slide it stands on when it ends --        *)
(* unless the slides were rebuilt during the animation.  In every case the    *)
(* slider is not left deaf.                                                   *)
OneAnimation ==
    /\ NeverDeaf
    /\ (/\ slick.options.waitForAnimate /\ slick.options.infinite
        /\ ~slick.overtaken /\ ~slick.unslicked)
       => /\ Len(slick.callbacks) = (IF slick.animating THEN 1 ELSE 0)
          /\ slick.animating => Head(slick.callbacks) = slick.current

(* A looping slider wraps unseen: where an animation ends among the clones,   *)
(* postSlide moves the strip by a whole number of rounds, so that the same    *)
(* slides are in view before and after.  With a partial last page this needs  *)
(* sliders that show what they scroll by and only stand at the start of       *)
(* pages: otherwise the two formulas of getLeft for the last page differ.     *)
WrapsUnseen ==
    LET o == slick.options
    IN  (/\ slick.callbacks # <<>> /\ ~slick.overtaken /\ ~slick.unslicked
         /\ o.waitForAnimate /\ o.infinite /\ ~o.fade
         /\ \/ slick.slides % o.slidesToScroll = 0
            \/ o.slidesToScroll = o.slidesToShow /\ ~o.focusOnSelect)
        => (slick.track - Left(o, slick.slides, slick.current)) % slick.slides = 0

(* A swipe needs a move: without one since the last swipe ended, a touchend   *)
(* or mouseleave slides nothing, nor does a tap, whatever that swipe left in  *)
(* touchObject.  There are two exceptions.  swipeEnd keeps the object of a    *)
(* far vertical swipe, whose length makes the next tap a swipe to the left    *)
(* (README.markdown:107: "the user must swipe a length of (1/touchThreshold)  *)
(* * the width of the slider"); and while touchObject is the object of        *)
(* _.initials, refresh brings back what was in it.                            *)
Still(s) ==
    s.current = slick.current /\ s.track = slick.track /\ s.callbacks = slick.callbacks

SwipeNeedsMove ==
    ~slick.dragging /\ ~slick.sharedTouch =>
        /\ Still(SwipeEnd(slick))
        /\ IF slick.touch.far THEN slick.touch.dir = "vertical"
                              ELSE Still(SwipeEnd(SwipeStart(slick, 1)))

(* Autoplay goes on: a looping slider that from some time on plays, and is    *)
(* neither paused, hovered, touched, focussed nor hidden, goes to another     *)
(* slide again and again, whatever stopped and restarted its interval before. *)
Playing ==
    /\ slick.options.autoplay /\ slick.options.infinite
    /\ ~slick.paused /\ ~slick.interrupted /\ ~slick.focussed /\ ~slick.unslicked
    /\ slick.slides > slick.options.slidesToShow

AutoplayGoesOn ==
    []<>(~Playing) \/ []<><<slick'.current # slick.current>>_vars

================================================================================
