----------------------------- MODULE CarouselProofs ----------------------------
(******************************************************************************)
(* What the carousel guarantees for sliders of any kind, any number of        *)
(* slides, and any order of inputs, calls, timers and ends of animations:     *)
(* the types of the object, swipes that need a move, animations that end,     *)
(* a current slide that exists, animations that end where the slide is, and   *)
(* at rest a strip that agrees with the current slide and the marked slides.  *)
(******************************************************************************)
EXTENDS Carousel, FiniteSetTheorems, WellFoundedInduction, TLAPS

--------------------------------------------------------------------------------
(* The arithmetic of indexes, by itself. *)

(* A bounded set of integers has a largest element, which Math.max or a loop  *)
(* that counts upwards would find.                                            *)
LEMMA MaxOfBounded ==
    ASSUME NEW S \in SUBSET Int, S # {}, NEW u \in Int, \A x \in S : x <= u
    PROVE  Max(S) \in S
<1> DEFINE T == {u - x : x \in S}
<1>1. T \subseteq Nat /\ T # {}
    <2>1. \A x \in S : u - x \in Nat
        OBVIOUS
    <2>2. PICK x \in S : TRUE
        OBVIOUS
    <2>3. u - x \in T
        OBVIOUS
    <2>4. QED
        BY <2>1, <2>3
<1>2. PICK m \in T : \A y \in T : ~(<<y, m>> \in OpToRel(<, Nat))
    BY <1>1, NatLessThanWellFounded, WFMin
<1>3. PICK x \in S : m = u - x
    OBVIOUS
<1>4. ASSUME NEW y \in S PROVE x >= y
    <2>1. u - y \in T /\ u - y \in Nat /\ m \in Nat
        BY <1>1, <1>2
    <2>2. ~(u - y < m)
        BY <1>2, <2>1 DEF OpToRel
    <2>3. QED
        BY <1>3, <2>2
<1>5. QED
    BY <1>4 DEF Max

(* A set of natural numbers has a smallest element. *)
LEMMA MinOfNaturals ==
    ASSUME NEW S \in SUBSET Nat, S # {}
    PROVE  Min(S) \in S
<1>1. PICK m \in S : \A y \in S : ~(<<y, m>> \in OpToRel(<, Nat))
    BY NatLessThanWellFounded, WFMin
<1>2. ASSUME NEW y \in S PROVE m =< y
    <2>1. m \in Nat /\ y \in Nat /\ <<y, m>> \in Nat \X Nat
        OBVIOUS
    <2>2. ~(y < m)
        BY <1>1, <2>1 DEF OpToRel
    <2>3. QED
        BY <2>1, <2>2
<1>3. QED
    BY <1>2 DEF Min

(* What is left when pages of k slides are filled. *)
LEMMA RestOf ==
    ASSUME NEW n \in Nat, NEW k \in Nat \ {0}
    PROVE  /\ n % k \in Nat /\ n % k < k /\ n % k <= n
           /\ n % k = 0 /\ n > 0 => n >= k
OBVIOUS

(* getLeft returns a position. *)
LEMMA LeftType ==
    ASSUME NEW o \in Options, NEW n \in Nat, NEW index \in Int
    PROVE  Left(o, n, index) \in Int
<1>1. o.slidesToShow \in Nat /\ o.slidesToScroll \in Nat \ {0}
    BY DEF Options
<1>2. n % o.slidesToScroll \in Int /\ Half(o) \in Int
    BY <1>1, RestOf DEF Half
<1>3. QED
    BY <1>1, <1>2 DEF Left

(* There are clones only around more slides than are shown, and no more than  *)
(* one more than these.                                                       *)
LEMMA ClonesType ==
    ASSUME NEW o \in Options, NEW n \in Nat
    PROVE  /\ Clones(o, n) \in Nat
           /\ Clones(o, n) <= o.slidesToShow + 1
           /\ Clones(o, n) > 0 => n > o.slidesToShow
<1>1. o.slidesToShow \in Nat
    BY DEF Options
<1>2. QED
    BY <1>1 DEF Clones

(* Only positions are marked slick-active. *)
LEMMA ActiveType ==
    ASSUME NEW o \in Options, NEW n \in Nat, NEW c \in Nat, NEW index \in Int
    PROVE  Active(o, n, c, index) \subseteq Int
<1>1. \A from, to : Slice(n, 0, from, to) \subseteq Int /\ Slice(n, c, from, to) \subseteq Int
    BY DEF Slice
<1>2. -c .. n + c - 1 \subseteq Int
    OBVIOUS
<1>3. QED
    BY <1>1, <1>2 DEF Active

(* The slide an accepted index stands for exists, if the index is within one  *)
(* round of the slides.  With a partial last page any index will do.          *)
LEMMA AnimSlideRange ==
    ASSUME NEW o \in Options, NEW n \in Nat, NEW index \in Int
    PROVE  /\ AnimSlide(o, n, index) \in Int
           /\ /\ n > 0
              /\ n % o.slidesToScroll = 0 => -n <= index /\ index < 2 * n
              => AnimSlide(o, n, index) \in 0 .. n - 1
<1>1. o.slidesToScroll \in Nat \ {0}
    BY DEF Options
<1> DEFINE rest == n % o.slidesToScroll
<1>2. rest \in Nat /\ rest <= n
    BY <1>1, RestOf, Zenon
<1> HIDE DEF rest
<1>3. AnimSlide(o, n, index) = IF index < 0 THEN IF rest # 0 THEN n - rest ELSE n + index
                               ELSE IF index >= n THEN IF rest # 0 THEN 0 ELSE index - n
                               ELSE index
    BY DEF AnimSlide, rest
<1>4. QED
    BY <1>2, <1>3 DEF rest

(* The navigable indexes of a slider lie between one step before the slides   *)
(* and one round after them.                                                  *)
LEMMA NavigableRange ==
    ASSUME NEW o \in Options, NEW n \in Nat, NEW v \in NavigableIndexes(o, n)
    PROVE  v \in Int /\ -o.slidesToScroll <= v /\ v < 2 * n
<1>1. o.slidesToScroll \in Nat \ {0} /\ o.slidesToShow \in Nat \ {0} /\ o.infinite \in BOOLEAN
    BY DEF Options
<1>2. Stride(o) \in Nat
    BY <1>1 DEF Stride
<1>3. ASSUME NEW first \in Int, NEW max \in Int, NEW b \in BreakPoints(o, first, max)
      PROVE  b \in Int /\ (b >= first) /\ b < max
    <2>1. CASE b = first
        BY <1>3, <2>1 DEF BreakPoints
    <2>2. CASE b # first
        <3>1. PICK i \in 0 .. 2 * max : b = first + o.slidesToScroll + i * Stride(o)
            BY <1>3, <2>2 DEF BreakPoints
        <3>2. i * Stride(o) \in Nat
            BY <1>2
        <3>3. b < max
            BY <1>3 DEF BreakPoints
        <3> DEFINE w == i * Stride(o)
        <3>4. w \in Nat /\ b = first + o.slidesToScroll + w
            BY <3>1, <3>2
        <3> HIDE DEF w
        <3>5. QED
            BY <1>1, <3>3, <3>4
    <2>3. QED
        BY <2>1, <2>2
<1>4. CASE o.infinite
    BY <1>1, <1>3, <1>4 DEF NavigableIndexes
<1>5. CASE ~o.infinite
    <2>1. v \in BreakPoints(o, 0, n)
        BY <1>5 DEF NavigableIndexes
    <2>2. v \in Int /\ v >= 0 /\ v < n
        BY <1>3, <2>1
    <2>3. QED
        BY <1>1, <2>2
<1>6. QED
    BY <1>4, <1>5

(* checkNavigable returns an index; one within a round of the slides, if      *)
(* there are as many as a step needs.                                         *)
LEMMA CheckNavigableRange ==
    ASSUME NEW o \in Options, NEW n \in Nat, NEW index \in Int
    PROVE  /\ CheckNavigable(o, n, index) \in Int
           /\ n > 0 /\ n >= o.slidesToScroll =>
                 -n <= CheckNavigable(o, n, index) /\ CheckNavigable(o, n, index) < 2 * n
<1> DEFINE navigables == NavigableIndexes(o, n)
           reached == {v \in navigables : v <= index}
<1>1. o.slidesToScroll \in Nat \ {0}
    BY DEF Options
<1>2. \A v \in navigables : v \in Int /\ -o.slidesToScroll <= v /\ v < 2 * n
    BY NavigableRange
<1>3. n > 0 => navigables # {}
    <2>1. n > 0 => -o.slidesToScroll \in BreakPoints(o, -o.slidesToScroll, 2 * n)
                   /\ 0 \in BreakPoints(o, 0, n)
        BY <1>1 DEF BreakPoints
    <2>2. QED
        BY <2>1 DEF NavigableIndexes
<1>4. CheckNavigable(o, n, index) = IF navigables = {} THEN index
                                    ELSE IF reached = {} THEN 0 ELSE Max(reached)
    BY DEF CheckNavigable
<1>5. reached # {} => Max(reached) \in reached
    BY <1>2, MaxOfBounded
<1>6. reached \subseteq navigables
    OBVIOUS
<1> HIDE DEF navigables, reached
<1>7. CASE navigables = {}
    BY <1>3, <1>4, <1>7
<1>8. CASE navigables # {} /\ reached = {}
    BY <1>4, <1>8
<1>9. CASE navigables # {} /\ reached # {}
    <2>1. Max(reached) \in navigables /\ CheckNavigable(o, n, index) = Max(reached)
        BY <1>4, <1>5, <1>6, <1>9
    <2>2. QED
        BY <1>1, <1>2, <2>1
<1>10. QED
    BY <1>7, <1>8, <1>9

(* What arrows and keys ask for: an index within a round of the slides, for a *)
(* slider with whole pages that stands on one of them.                        *)
LEMMA ChangeRange ==
    ASSUME NEW o \in Options, NEW n \in Nat, NEW current \in Int,
           NEW index \in {PreviousIndex(o, n, current), NextIndex(o, n, current)}
    PROVE  /\ index \in Int
           /\ /\ current \in 0 .. n - 1 /\ n > o.slidesToShow
              /\ n % o.slidesToScroll = 0
              => -n <= index /\ index < 2 * n
<1> DEFINE scroll == o.slidesToScroll
           show   == o.slidesToShow
           offset == IndexOffset(o, n, current)
<1>1. scroll \in Nat \ {0} /\ show \in Nat \ {0}
    BY DEF Options
<1>2. ASSUME NEW a \in Int
      PROVE  /\ Remainder(a, scroll) \in Int
             /\ a >= 0 => Remainder(a, scroll) \in 0 .. scroll - 1
    <2>1. CASE a >= 0
        <3>1. a % scroll \in Nat /\ a % scroll < scroll
            BY <1>1, <2>1, RestOf
        <3>2. Remainder(a, scroll) = a % scroll
            BY <2>1 DEF Remainder
        <3> HIDE DEF scroll
        <3>3. QED
            BY <1>1, <3>1, <3>2
    <2>2. CASE ~(a >= 0)
        <3>1. -a \in Nat
            BY <2>2
        <3>2. (-a) % scroll \in Int
            BY <1>1, <3>1, RestOf
        <3>3. QED
            BY <2>2, <3>2 DEF Remainder
    <2>3. QED
        BY <2>1, <2>2
<1>3. offset \in Int
    BY <1>2 DEF IndexOffset
<1>4. current \in 0 .. n - 1 => offset \in 0 .. scroll - 1
    <2>1. current \in 0 .. n - 1 => n - current \in Int /\ n - current >= 0
        OBVIOUS
    <2>2. QED
        BY <1>1, <1>2, <2>1 DEF IndexOffset
<1>5. n % scroll = 0 /\ n > 0 => n >= scroll
    BY <1>1, RestOf
<1>6. \/ index = current - (IF offset = 0 THEN scroll ELSE show - offset)
      \/ index = current + (IF offset = 0 THEN scroll ELSE offset)
    BY DEF PreviousIndex, NextIndex
<1> HIDE DEF scroll, show, offset
<1>7. index \in Int
    BY <1>1, <1>3, <1>6
<1>8. ASSUME current \in 0 .. n - 1, n > show, n % scroll = 0
      PROVE  -n <= index /\ index < 2 * n
    <2>1. n >= scroll /\ offset \in 0 .. scroll - 1
        BY <1>1, <1>4, <1>5, <1>8
    <2>2. QED
        BY <1>1, <1>6, <1>8, <2>1
<1>9. QED
    BY <1>7, <1>8 DEF scroll, show

--------------------------------------------------------------------------------
(* The object. *)

Flags ==
    {"animating", "paused", "interrupted", "focussed", "dragging", "sharedTouch",
     "unslicked", "listening", "focusable", "hoverLast", "ticking", "resizing",
     "focusing", "rebound", "filtered", "overtaken", "misled"}

Fields ==
    {"options", "original", "activeBreakpoint", "slides", "cache", "indexes", "hidden",
     "clones", "shown", "current", "direction", "track", "touch", "firstTouch",
     "windowWidth", "callbacks"}
    \cup Flags

(* Touch objects: without a position there is neither length nor direction.   *)
Touches ==
    {touch \in [on : BOOLEAN, far : BOOLEAN,
                dir : {"none", "left", "right", "vertical", "lost"}] :
        touch.on \/ (~touch.far /\ touch.dir = "none")}

(* The types of the fields, but for activeBreakpoint, which depends on the    *)
(* page.                                                                      *)
Slider(s) ==
    /\ DOMAIN s = Fields
    /\ s.options \in Options /\ s.original \in Options
    /\ s.slides \in 0 .. MaxSlides
    /\ s.cache \in 0 .. MaxSlides \cup {None}
    /\ s.indexes \subseteq 0 .. MaxSlides - 1 /\ s.hidden \subseteq 0 .. MaxSlides - 1
    /\ s.clones \in Nat /\ s.shown \subseteq Int
    /\ s.current \in Int /\ s.direction \in {0, 1}
    /\ s.track \in Int \cup {Dragged, Astray}
    /\ s.callbacks \in Seq(Int)
    /\ s.touch \in Touches /\ s.firstTouch \in Touches
    /\ \A f \in Flags : s[f] \in BOOLEAN

(* `t` differs from `s` in the given fields only. *)
Changes(s, t, fields) ==
    DOMAIN t = DOMAIN s /\ \A f \in DOMAIN s \ fields : t[f] = s[f]

(* What the animations are like: OneAnimation, of any object. *)
Animated(s) ==
    /\ s.animating /\ ~s.unslicked => s.callbacks # <<>>
    /\ (s.options.waitForAnimate /\ s.options.infinite /\ ~s.overtaken /\ ~s.unslicked)
       => /\ Len(s.callbacks) = (IF s.animating THEN 1 ELSE 0)
          /\ s.animating => Head(s.callbacks) = s.current

(* What a swipe that has ended leaves in touchObject: nothing, or a far       *)
(* vertical swipe.                                                            *)
Swiped(s) ==
    ~s.dragging /\ ~s.sharedTouch =>
        IF s.touch.far THEN s.touch.dir = "vertical" ELSE s.touch.dir = "none"

(* At most one animation is begun. *)
Begins(s, t) ==
    t.callbacks = s.callbacks \/ \E x \in Int : t.callbacks = Append(s.callbacks, x)

(* The options scroll no further than they show, the original ones no further *)
(* than `k`, and both are the same until a breakpoint is entered.             *)
Sized(s, k) ==
    /\ s.options.slidesToScroll <= s.options.slidesToShow
    /\ s.original.slidesToScroll <= s.original.slidesToShow
    /\ s.original.slidesToScroll <= k
    /\ s.activeBreakpoint = None => s.options = s.original

(* There are no clones or the ones setupInfinite makes. *)
Cloned(s) == s.clones \in {0, Clones(s.options, s.slides)}

(* What the slider itself does to its options: it loops, waits and shows as   *)
(* before, and does not scroll further.                                       *)
Narrower(o, p) ==
    /\ p \in Options
    /\ p.infinite = o.infinite /\ p.waitForAnimate = o.waitForAnimate
    /\ p.slidesToShow = o.slidesToShow /\ p.slidesToScroll <= o.slidesToScroll

(* A touch object without a swipe.                                            *)
LEMMA NoTouchType ==
    NoTouch \in Touches /\ ~NoTouch.on /\ ~NoTouch.far /\ NoTouch.dir = "none"
BY DEF NoTouch, Touches

(* Changes add up. *)
LEMMA ChangesAdd ==
    ASSUME NEW s, NEW t, NEW u, NEW first, NEW second, NEW all,
           Changes(s, t, first), Changes(t, u, second), first \cup second \subseteq all
    PROVE  Changes(s, u, all)
BY DEF Changes

(* A change of fields the animations do not depend on. *)
LEMMA AnimatedStays ==
    ASSUME NEW s, NEW t, Slider(s), Animated(s),
           Changes(s, t, Fields \ {"animating", "unslicked", "callbacks", "options",
                                   "overtaken", "current"})
    PROVE  Animated(t)
<1>1. /\ t.animating = s.animating /\ t.unslicked = s.unslicked
      /\ t.callbacks = s.callbacks /\ t.options = s.options
      /\ t.overtaken = s.overtaken /\ t.current = s.current
    BY DEF Changes, Slider, Fields, Flags
<1>2. QED
    BY <1>1 DEF Animated

(* A change of fields the swipes do not depend on.                            *)
LEMMA SwipedStays ==
    ASSUME NEW s, NEW t, Slider(s), Swiped(s),
           Changes(s, t, Fields \ {"dragging", "sharedTouch", "touch"})
    PROVE  Swiped(t)
<1>1. t.dragging = s.dragging /\ t.sharedTouch = s.sharedTouch /\ t.touch = s.touch
    BY DEF Changes, Slider, Fields, Flags
<1>2. QED
    BY <1>1 DEF Swiped

--------------------------------------------------------------------------------
(* What the functions that build the slider change. *)

(* The numbers the index arithmetic is applied to. *)
LEMMA Numbers ==
    ASSUME NEW s, Slider(s)
    PROVE  /\ s.options \in Options /\ s.slides \in Nat /\ s.clones \in Nat
           /\ s.current \in Int
<1>1. MaxSlides \in Nat
    BY BoundsAssumption
<1>2. QED
    BY <1>1 DEF Slider

(* A fresh touch object is shared with nobody.                                *)
LEMMA FreshTouchEffect ==
    ASSUME NEW s, Slider(s)
    PROVE  /\ Slider(FreshTouch(s)) /\ Changes(s, FreshTouch(s), {"touch", "sharedTouch"})
           /\ FreshTouch(s).touch = NoTouch /\ ~FreshTouch(s).sharedTouch
<1> DEFINE t == FreshTouch(s)
<1>1. Changes(s, t, {"touch", "sharedTouch"}) /\ t.touch = NoTouch /\ t.sharedTouch = FALSE
    BY DEF FreshTouch, Changes, Slider, Fields, Flags
<1> HIDE DEF t
<1>2. DOMAIN t = Fields /\ \A f \in Flags : t[f] \in BOOLEAN
    <2>1. \A f \in Flags \ {"sharedTouch"} : t[f] = s[f]
        BY <1>1 DEF Changes, Slider, Fields, Flags
    <2>2. QED
        BY <1>1, <2>1 DEF Changes, Slider
<1>3. Slider(t)
    <2>1. /\ t.options = s.options /\ t.original = s.original /\ t.slides = s.slides
          /\ t.cache = s.cache /\ t.indexes = s.indexes /\ t.hidden = s.hidden
          /\ t.clones = s.clones /\ t.shown = s.shown /\ t.current = s.current
          /\ t.direction = s.direction /\ t.track = s.track
          /\ t.callbacks = s.callbacks /\ t.firstTouch = s.firstTouch
        BY <1>1 DEF Changes, Slider, Fields, Flags
    <2>2. QED
        BY <1>1, <1>2, <2>1, NoTouchType DEF Slider
<1>4. QED
    BY <1>1, <1>3 DEF t

(* A write to touchObject, which may be the object in _.initials too.         *)
LEMMA SetTouchEffect ==
    ASSUME NEW s, Slider(s), NEW touch \in Touches
    PROVE  /\ Slider(SetTouch(s, touch))
           /\ Changes(s, SetTouch(s, touch), {"touch", "firstTouch"})
           /\ SetTouch(s, touch).touch = touch
<1> DEFINE t == SetTouch(s, touch)
<1>1. /\ Changes(s, t, {"touch", "firstTouch"}) /\ t.touch = touch
      /\ t.firstTouch \in {touch, s.firstTouch}
    BY DEF SetTouch, Changes, Slider, Fields, Flags
<1> HIDE DEF t
<1>2. Slider(t)
    BY <1>1 DEF Changes, Slider, Fields, Flags
<1>3. QED
    BY <1>1, <1>2 DEF t

(* autoPlay and autoPlayClear.                                                *)
LEMMA TickingEffect ==
    ASSUME NEW s, Slider(s), NEW t \in {AutoPlay(s), AutoPlayClear(s)}
    PROVE  Slider(t) /\ Changes(s, t, {"ticking"})
<1> DEFINE more == s.slides > s.options.slidesToShow
<1>1. more \in BOOLEAN
    OBVIOUS
<1>2. t = [s EXCEPT !.ticking = more] \/ t = [s EXCEPT !.ticking = FALSE]
    BY DEF AutoPlay, AutoPlayClear
<1> HIDE DEF more
<1>3. PICK v \in BOOLEAN : t = [s EXCEPT !.ticking = v]
    BY <1>1, <1>2
<1>4. Changes(s, t, {"ticking"}) /\ t.ticking \in BOOLEAN
    BY <1>3 DEF Changes, Slider, Fields, Flags
<1>5. Slider(t)
    BY <1>4 DEF Changes, Slider, Fields, Flags
<1>6. QED
    BY <1>4, <1>5

(* setPosition places the strip, and nothing else.                            *)
LEMMA SetPositionEffect ==
    ASSUME NEW s, Slider(s)
    PROVE  Slider(SetPosition(s)) /\ Changes(s, SetPosition(s), {"track"})
<1> DEFINE t == SetPosition(s)
           left == Left(s.options, s.slides, s.current)
<1>1. left \in Int
    BY Numbers, LeftType, Zenon
<1> HIDE DEF left
<1>2. Changes(s, t, {"track"}) /\ t.track \in {left, s.current}
    BY DEF SetPosition, SetFade, SetCSS, Changes, Slider, Fields, Flags, left
<1> HIDE DEF t
<1>3. Slider(t)
    BY <1>1, <1>2 DEF Changes, Slider, Fields, Flags
<1>4. QED
    BY <1>2, <1>3 DEF t

(* setSlideClasses marks slides, and nothing else.                            *)
LEMMA SetSlideClassesEffect ==
    ASSUME NEW s, Slider(s), NEW index \in Int
    PROVE  /\ Slider(SetSlideClasses(s, index))
           /\ Changes(s, SetSlideClasses(s, index), {"shown"})
<1> DEFINE t == SetSlideClasses(s, index)
           active == Active(s.options, s.slides, s.clones, index)
<1>1. active \subseteq Int
    BY Numbers, ActiveType, Zenon
<1> HIDE DEF active
<1>2. Changes(s, t, {"shown"}) /\ t.shown = active
    BY DEF SetSlideClasses, Changes, Slider, Fields, Flags, active
<1> HIDE DEF t
<1>3. Slider(t)
    BY <1>1, <1>2 DEF Changes, Slider, Fields, Flags
<1>4. QED
    BY <1>2, <1>3 DEF t

(* A write to _.options, which may be the object originalSettings too.        *)
LEMMA ChangeOptionsEffect ==
    ASSUME NEW s, Slider(s), NEW o \in Options
    PROVE  /\ Slider(ChangeOptions(s, o))
           /\ Changes(s, ChangeOptions(s, o), {"options", "original"})
           /\ ChangeOptions(s, o).options = o
           /\ ChangeOptions(s, o).original \in {o, s.original}
<1> DEFINE t == ChangeOptions(s, o)
<1>1. /\ Changes(s, t, {"options", "original"}) /\ t.options = o
      /\ t.original \in {o, s.original}
    BY DEF ChangeOptions, Changes, Slider, Fields, Flags
<1> HIDE DEF t
<1>2. Slider(t)
    BY <1>1 DEF Changes, Slider, Fields, Flags
<1>3. QED
    BY <1>1, <1>2 DEF t

(* An assignment to an option that is narrower. *)
LEMMA NarrowerEffect ==
    ASSUME NEW s, Slider(s), NEW o, Narrower(s.options, o)
    PROVE  /\ Slider(ChangeOptions(s, o))
           /\ Changes(s, ChangeOptions(s, o), {"options", "original"})
           /\ ChangeOptions(s, o).options = o
           /\ \A k \in Nat : Sized(s, k) => Sized(ChangeOptions(s, o), k)
<1> DEFINE t == ChangeOptions(s, o)
<1>1. o \in Options /\ s.options \in Options /\ s.original \in Options
    BY DEF Narrower, Slider
<1>2. Slider(t) /\ Changes(s, t, {"options", "original"}) /\ t.options = o
    BY <1>1, ChangeOptionsEffect
<1>3. t.original = IF s.activeBreakpoint = None THEN o ELSE s.original
    BY DEF ChangeOptions, Slider, Fields, Flags
<1>4. t.activeBreakpoint = s.activeBreakpoint
    BY <1>2 DEF Changes, Slider, Fields, Flags
<1> HIDE DEF t
<1>5. /\ o.slidesToShow \in Nat /\ o.slidesToScroll \in Nat
      /\ s.options.slidesToShow \in Nat /\ s.options.slidesToScroll \in Nat
    BY <1>1 DEF Options
<1>6. ASSUME NEW k \in Nat, Sized(s, k) PROVE Sized(t, k)
    <2>1. CASE s.activeBreakpoint = None
        <3>1. t.original = o /\ t.options = o /\ s.options = s.original
            BY <1>2, <1>3, <1>6, <2>1 DEF Sized
        <3>2. o.slidesToScroll <= o.slidesToShow /\ o.slidesToScroll <= k
            BY <1>5, <1>6, <3>1 DEF Sized, Narrower
        <3>3. QED
            BY <3>1, <3>2 DEF Sized
    <2>2. CASE s.activeBreakpoint # None
        <3>1. t.original = s.original /\ t.options = o
            BY <1>2, <1>3, <2>2
        <3>2. o.slidesToScroll <= o.slidesToShow
            BY <1>5, <1>6 DEF Sized, Narrower
        <3>3. QED
            BY <1>4, <1>6, <2>2, <3>1, <3>2 DEF Sized
    <2>3. QED
        BY <2>1, <2>2
<1>7. QED
    BY <1>2, <1>6 DEF t

(* Sized depends on the options only. *)
LEMMA SizedStays ==
    ASSUME NEW s, NEW t, Slider(s),
           Changes(s, t, Fields \ {"options", "original", "activeBreakpoint"})
    PROVE  \A k : Sized(s, k) => Sized(t, k)
<1>1. /\ t.options = s.options /\ t.original = s.original
      /\ t.activeBreakpoint = s.activeBreakpoint
    BY DEF Changes, Slider, Fields, Flags
<1>2. QED
    BY <1>1 DEF Sized

(* setupInfinite makes the clones the slides need; with fade, centerMode      *)
(* goes.                                                                      *)
LEMMA SetupInfiniteEffect ==
    ASSUME NEW s, Slider(s)
    PROVE  /\ Slider(SetupInfinite(s))
           /\ Changes(s, SetupInfinite(s), {"options", "original", "clones"})
           /\ Narrower(s.options, SetupInfinite(s).options)
           /\ Cloned(SetupInfinite(s))
           /\ \A k \in Nat : Sized(s, k) => Sized(SetupInfinite(s), k)
<1> DEFINE o == [s.options EXCEPT !.centerMode = @ /\ ~s.options.fade]
           t == ChangeOptions(s, o)
           u == [t EXCEPT !.clones = Clones(t.options, t.slides)]
<1>1. Narrower(s.options, o)
    <2>1. PICK mode \in BOOLEAN : o = [s.options EXCEPT !.centerMode = mode]
        OBVIOUS
    <2>2. s.options \in Options
        BY DEF Slider
    <2>3. QED
        BY <2>1, <2>2 DEF Narrower, Options
<1> HIDE DEF o
<1>2. /\ Slider(t) /\ Changes(s, t, {"options", "original"}) /\ t.options = o
      /\ \A k \in Nat : Sized(s, k) => Sized(t, k)
    BY <1>1, NarrowerEffect
<1>3. SetupInfinite(s) = u
    BY DEF SetupInfinite, o
<1> HIDE DEF t
<1>4. PICK c \in Nat : c = Clones(t.options, t.slides)
    BY <1>2, Numbers, ClonesType, Zenon
<1>5. Changes(t, u, {"clones"}) /\ u.clones = c
    BY <1>2, <1>4 DEF Changes, Slider, Fields, Flags
<1> HIDE DEF u
<1>6. Slider(u)
    BY <1>2, <1>5, ZenonT(40) DEF Changes, Slider, Fields, Flags
<1>7. u.options = t.options /\ u.slides = t.slides
    BY <1>2, <1>5 DEF Changes, Slider, Fields, Flags
<1>8. Cloned(u)
    BY <1>4, <1>5, <1>7 DEF Cloned
<1>9. Changes(s, u, {"options", "original", "clones"})
    BY <1>2, <1>5, ChangesAdd
<1>10. Changes(t, u, Fields \ {"options", "original", "activeBreakpoint"})
    BY <1>5 DEF Changes, Fields, Flags
<1>11. \A k \in Nat : Sized(s, k) => Sized(u, k)
    BY <1>2, <1>10, SizedStays
<1>12. QED
    BY <1>1, <1>2, <1>3, <1>6, <1>7, <1>8, <1>9, <1>11

(* Numbering the slides changes their numbers only.                           *)
LEMMA NumberedEffect ==
    ASSUME NEW s, Slider(s)
    PROVE  /\ Slider(Numbered(s)) /\ Changes(s, Numbered(s), {"indexes"})
           /\ \A k : Sized(s, k) => Sized(Numbered(s), k)
<1> DEFINE new == IF s.options.focusOnSelect THEN 0 .. s.slides - 1 ELSE {}
           t == [s EXCEPT !.indexes = new]
<1>1. new \subseteq 0 .. MaxSlides - 1
    <2>1. MaxSlides \in Nat /\ s.slides \in 0 .. MaxSlides
        BY BoundsAssumption DEF Slider
    <2>2. QED
        BY <2>1
<1>2. Numbered(s) = t
    BY DEF Numbered
<1> HIDE DEF new
<1>3. Changes(s, t, {"indexes"}) /\ t.indexes = new
    BY DEF Changes, Slider, Fields, Flags
<1> HIDE DEF t
<1>4. Slider(t)
    BY <1>1, <1>3 DEF Changes, Slider, Fields, Flags
<1>5. Changes(s, t, Fields \ {"options", "original", "activeBreakpoint"})
    BY <1>3 DEF Changes, Fields, Flags
<1>6. QED
    BY <1>2, <1>3, <1>4, <1>5, SizedStays

(* buildOut: one slide at a time is scrolled with centerMode, then the clones *)
(* and marks are made.                                                        *)
LEMMA BuildOutEffect ==
    ASSUME NEW s, Slider(s)
    PROVE  /\ Slider(BuildOut(s))
           /\ Changes(s, BuildOut(s), {"indexes", "options", "original", "clones", "shown"})
           /\ Narrower(s.options, BuildOut(s).options)
           /\ Cloned(BuildOut(s))
           /\ \A k \in Nat : Sized(s, k) => Sized(BuildOut(s), k)
<1> DEFINE o == [s.options EXCEPT !.slidesToScroll = IF s.options.centerMode THEN 1 ELSE @]
           m == Numbered(s)
           t == ChangeOptions(m, o)
           u == SetupInfinite(t)
           v == SetSlideClasses(u, s.current)
<1>1. Narrower(s.options, o)
    <2>1. s.options \in Options
        BY DEF Slider
    <2>2. PICK scroll \in Nat \ {0} : /\ o = [s.options EXCEPT !.slidesToScroll = scroll]
                                      /\ scroll <= s.options.slidesToScroll
        BY <2>1, SMTT(30) DEF Options
    <2>3. QED
        BY <2>1, <2>2 DEF Narrower, Options
<1>2. BuildOut(s) = v
    BY DEF BuildOut
<1> HIDE DEF o
<1>3. /\ Slider(t) /\ Changes(s, t, {"indexes", "options", "original"}) /\ t.options = o
      /\ \A k \in Nat : Sized(s, k) => Sized(t, k)
    <2>1. /\ Slider(m) /\ Changes(s, m, {"indexes"})
          /\ \A k : Sized(s, k) => Sized(m, k)
        BY NumberedEffect
    <2> HIDE DEF m
    <2>2. m.options = s.options
        BY <2>1 DEF Changes, Slider, Fields, Flags
    <2>3. /\ Slider(t) /\ Changes(m, t, {"options", "original"}) /\ t.options = o
          /\ \A k \in Nat : Sized(m, k) => Sized(t, k)
        BY <1>1, <2>1, <2>2, NarrowerEffect
    <2> HIDE DEF t
    <2>4. QED
        BY <2>1, <2>3, ChangesAdd
<1> HIDE DEF t, m
<1>4. /\ Slider(u) /\ Changes(t, u, {"options", "original", "clones"})
      /\ Narrower(t.options, u.options) /\ Cloned(u)
      /\ \A k \in Nat : Sized(t, k) => Sized(u, k)
    BY <1>3, SetupInfiniteEffect
<1> HIDE DEF u
<1>5. Slider(v) /\ Changes(u, v, {"shown"})
    BY <1>4, SetSlideClassesEffect, Numbers
<1> HIDE DEF v
<1>6. v.options = u.options /\ v.slides = u.slides /\ v.clones = u.clones
    BY <1>4, <1>5 DEF Changes, Slider, Fields, Flags
<1>7. Cloned(v)
    BY <1>4, <1>6 DEF Cloned
<1>8. Narrower(s.options, v.options)
    <2>1. s.options \in Options /\ t.options \in Options /\ u.options \in Options
        BY <1>3, <1>4 DEF Slider
    <2>2. QED
        BY <1>1, <1>3, <1>4, <1>6, <2>1 DEF Narrower, Options
<1>9. Changes(s, v, {"indexes", "options", "original", "clones", "shown"})
    <2>1. Changes(s, u, {"indexes", "options", "original", "clones"})
        BY <1>3, <1>4, ChangesAdd
    <2>2. QED
        BY <1>5, <2>1, ChangesAdd
<1>10. Changes(u, v, Fields \ {"options", "original", "activeBreakpoint"})
    BY <1>5 DEF Changes, Fields, Flags
<1>11. \A k \in Nat : Sized(s, k) => Sized(v, k)
    BY <1>3, <1>4, <1>10, SizedStays
<1>12. QED
    BY <1>2, <1>5, <1>7, <1>8, <1>9, <1>11


--------------------------------------------------------------------------------
(* Going to a slide. *)

(* What going to a slide changes. *)
Going == {"ticking", "animating", "current", "shown", "track", "callbacks"}

InRange(s) == s.slides = 0 \/ s.current \in 0 .. s.slides - 1

(* The slider may have gone to another slide, or begun to. *)
Goes(s, t) ==
    /\ Slider(t) /\ Changes(s, t, Going)
    /\ Begins(s, t)
    /\ Animated(s) => Animated(t)

(* postSlide ends the animation, unless the slider was taken apart. *)
LEMMA PostSlideEffect ==
    ASSUME NEW s, Slider(s)
    PROVE  /\ Slider(PostSlide(s))
           /\ Changes(s, PostSlide(s), {"animating", "track", "ticking"})
           /\ ~s.unslicked => PostSlide(s).animating = FALSE
<1> DEFINE t == [s EXCEPT !.animating = FALSE]
           u == SetPosition(t)
<1>1. CASE s.unslicked
    BY <1>1 DEF PostSlide, Changes
<1>2. CASE ~s.unslicked
    <2>1. Changes(s, t, {"animating"}) /\ t.animating = FALSE
        BY DEF Changes, Slider, Fields, Flags
    <2>2. PostSlide(s) \in {u, AutoPlay(u)}
        BY <1>2 DEF PostSlide
    <2> HIDE DEF t
    <2>3. Slider(t)
        BY <2>1 DEF Changes, Slider, Fields, Flags
    <2>4. Slider(u) /\ Changes(t, u, {"track"})
        BY <2>3, SetPositionEffect
    <2> HIDE DEF u
    <2>5. Slider(AutoPlay(u)) /\ Changes(u, AutoPlay(u), {"ticking"})
        BY <2>4, TickingEffect
    <2>6. PICK v : v = PostSlide(s) /\ v \in {u, AutoPlay(u)}
        BY <2>2
    <2>7. Slider(v) /\ Changes(u, v, {"ticking"})
        BY <2>4, <2>5, <2>6 DEF Changes
    <2>8. Changes(t, v, {"track", "ticking"})
        BY <2>4, <2>7, ChangesAdd
    <2>9. Changes(s, v, {"animating", "track", "ticking"})
        BY <2>1, <2>8, ChangesAdd
    <2>10. v.animating = FALSE
        BY <2>1, <2>3, <2>8 DEF Changes, Slider, Fields, Flags
    <2>11. QED
        BY <2>6, <2>7, <2>9, <2>10
<1>3. QED
    BY <1>1, <1>2

(* An animation that begins will call postSlide with the current slide. *)
LEMMA AnimateEffect ==
    ASSUME NEW s, Slider(s), NEW position \in Int,
           NEW t \in {AnimateSlide(s, position), FadeSlide(s)}
    PROVE  /\ Slider(t) /\ Changes(s, t, {"track", "callbacks"})
           /\ t.callbacks = Append(s.callbacks, s.current)
           /\ Len(t.callbacks) = Len(s.callbacks) + 1
           /\ s.callbacks = <<>> => Head(t.callbacks) = s.current
<1>1. s.current \in Int /\ s.callbacks \in Seq(Int)
    BY DEF Slider
<1>2. PICK p \in Int : t = [s EXCEPT !.track = p, !.callbacks = Append(@, s.current)]
    BY <1>1 DEF AnimateSlide, FadeSlide
<1>3. /\ Changes(s, t, {"track", "callbacks"}) /\ t.track = p
      /\ t.callbacks = Append(s.callbacks, s.current)
    BY <1>2 DEF Changes, Slider, Fields, Flags
<1>4. PICK c : c = Append(s.callbacks, s.current)
    OBVIOUS
<1>5. c \in Seq(Int) /\ Len(c) = Len(s.callbacks) + 1
    BY <1>1, <1>4
<1>6. s.callbacks = <<>> => Head(c) = s.current
    BY <1>1, <1>4
<1>7. Slider(t)
    BY <1>3, <1>4, <1>5 DEF Changes, Slider, Fields, Flags
<1>8. QED
    BY <1>3, <1>4, <1>5, <1>6, <1>7

(* A request that slideHandler accepts: the slider is marked as animating and *)
(* stands on the slide it goes to.                                            *)
LEMMA DepartureEffect ==
    ASSUME NEW s, Slider(s), NEW slide \in Int
    PROVE  LET t == SetSlideClasses([s EXCEPT !.ticking = @ /\ ~s.options.autoplay,
                                              !.animating = TRUE, !.current = slide], slide)
           IN  /\ Slider(t) /\ Changes(s, t, {"ticking", "animating", "current", "shown"})
               /\ t.animating = TRUE /\ t.current = slide
<1> DEFINE on == s.ticking /\ ~s.options.autoplay
           t == [s EXCEPT !.ticking = @ /\ ~s.options.autoplay,
                          !.animating = TRUE, !.current = slide]
           u == SetSlideClasses(t, slide)
<1>1. on \in BOOLEAN
    OBVIOUS
<1>2. t = [s EXCEPT !.ticking = on, !.animating = TRUE, !.current = slide]
    OBVIOUS
<1> HIDE DEF on, t
<1>3. PICK v \in BOOLEAN : t = [s EXCEPT !.ticking = v, !.animating = TRUE, !.current = slide]
    BY <1>1, <1>2
<1>4. /\ Changes(s, t, {"ticking", "animating", "current"}) /\ t.ticking = v
      /\ t.animating = TRUE /\ t.current = slide
    BY <1>3 DEF Changes, Slider, Fields, Flags
<1>5. Slider(t)
    BY <1>4, ZenonT(40) DEF Changes, Slider, Fields, Flags
<1>6. Slider(u) /\ Changes(t, u, {"shown"})
    BY <1>5, SetSlideClassesEffect
<1> HIDE DEF u
<1>7. Changes(s, u, {"ticking", "animating", "current", "shown"})
    BY <1>4, <1>6, ChangesAdd
<1>8. u.animating = TRUE /\ u.current = slide
    BY <1>4, <1>5, <1>6 DEF Changes, Slider, Fields, Flags
<1>9. QED
    BY <1>6, <1>7, <1>8 DEF t, u

(* slideHandler: whatever it is asked, the slider goes somewhere or stays;    *)
(* an index within a round of the slides takes it to a slide that exists.     *)
LEMMA SlideHandlerEffect ==
    ASSUME NEW s, Slider(s), NEW index \in Int, NEW dontAnimate
    PROVE  LET t == SlideHandler(s, index, dontAnimate)
               n == s.slides
           IN  /\ Goes(s, t)
               /\ /\ InRange(s)
                  /\ n > s.options.slidesToShow /\ n % s.options.slidesToScroll = 0
                     => -n <= index /\ index < 2 * n
                  => InRange(t)
<1> DEFINE o == s.options
           n == s.slides
           slide == AnimSlide(o, n, index)
           going == SetSlideClasses([s EXCEPT !.ticking = @ /\ ~s.options.autoplay,
                                              !.animating = TRUE, !.current = slide], slide)
           position == Left(o, n, index)
           here == Left(o, n, s.current)
           t == SlideHandler(s, index, dontAnimate)
           Fits == n > o.slidesToShow /\ n % o.slidesToScroll = 0
                   => -n <= index /\ index < 2 * n
<1>1. /\ o \in Options /\ n \in Nat /\ s.current \in Int /\ s.callbacks \in Seq(Int)
      /\ o.slidesToShow \in Nat
    BY Numbers DEF Slider, Options
<1>2. slide \in Int /\ (n > 0 /\ (n % o.slidesToScroll = 0 => -n <= index /\ index < 2 * n)
                        => slide \in 0 .. n - 1)
    BY <1>1, AnimSlideRange, Zenon
<1>3. position \in Int /\ here \in Int
    BY <1>1, LeftType, Zenon
<1>4. /\ Slider(going) /\ Changes(s, going, {"ticking", "animating", "current", "shown"})
      /\ going.animating = TRUE /\ going.current = slide
    BY <1>2, DepartureEffect
<1>5. t = IF IgnoresSlide(s, index) THEN s
          ELSE IF Beyond(o, n, index) THEN SnapBack(s, dontAnimate)
          ELSE IF dontAnimate THEN PostSlide(going)
          ELSE IF o.fade THEN FadeSlide(going)
          ELSE AnimateSlide(going, position)
    BY DEF SlideHandler
<1> HIDE DEF t, going, slide, position, here
<1>6. going.slides = n /\ going.options = o /\ going.callbacks = s.callbacks
      /\ going.unslicked = s.unslicked /\ going.overtaken = s.overtaken
    BY <1>4 DEF Changes, Slider, Fields, Flags
<1>7. CASE IgnoresSlide(s, index)
    <2>1. t = s
        BY <1>5, <1>7
    <2>2. Goes(s, s)
        BY DEF Goes, Changes, Begins
    <2>3. QED
        BY <2>1, <2>2 DEF t
<1>8. CASE ~IgnoresSlide(s, index) /\ Beyond(o, n, index)
    <2>1. t = SnapBack(s, dontAnimate) /\ ~o.infinite
        BY <1>5, <1>8 DEF Beyond
    <2>2. t \in {s, PostSlide(s), AnimateSlide(s, here)}
        BY <2>1 DEF SnapBack, here
    <2>3. CASE t = s
        BY <2>3 DEF Goes, Changes, Begins, t
    <2>4. CASE t = PostSlide(s)
        <3>1. /\ Slider(t) /\ Changes(s, t, {"animating", "track", "ticking"})
              /\ ~s.unslicked => t.animating = FALSE
            BY <2>4, PostSlideEffect
        <3>2. /\ t.callbacks = s.callbacks /\ t.current = s.current /\ t.slides = n
              /\ t.options = o /\ t.unslicked = s.unslicked
            BY <3>1 DEF Changes, Slider, Fields, Flags
        <3>3. Animated(t)
            BY <2>1, <3>1, <3>2 DEF Animated
        <3>4. Changes(s, t, Going)
            BY <3>1 DEF Changes, Going
        <3>5. QED
            BY <3>1, <3>2, <3>3, <3>4 DEF Goes, Begins, InRange, t
    <2>5. CASE t = AnimateSlide(s, here)
        <3>1. /\ Slider(t) /\ Changes(s, t, {"track", "callbacks"})
              /\ t.callbacks = Append(s.callbacks, s.current)
              /\ Len(t.callbacks) = Len(s.callbacks) + 1
            BY <1>3, <2>5, AnimateEffect
        <3>2. t.current = s.current /\ t.slides = n /\ t.options = o
            BY <3>1 DEF Changes, Slider, Fields, Flags
        <3>3. t.callbacks # <<>>
            <4>1. Len(s.callbacks) \in Nat /\ Len(<<>>) = 0
                BY <1>1
            <4>2. Len(t.callbacks) # 0
                BY <3>1, <4>1
            <4>3. QED
                BY <4>1, <4>2
        <3>4. Animated(t)
            BY <2>1, <3>2, <3>3 DEF Animated
        <3>5. Changes(s, t, Going) /\ Begins(s, t)
            BY <1>1, <3>1 DEF Changes, Going, Begins
        <3>6. QED
            BY <3>1, <3>2, <3>4, <3>5 DEF Goes, InRange, t
    <2>6. QED
        BY <2>2, <2>3, <2>4, <2>5
<1>9. CASE ~IgnoresSlide(s, index) /\ ~Beyond(o, n, index)
    <2>1. n > o.slidesToShow /\ (o.waitForAnimate => ~s.animating)
        BY <1>1, <1>9 DEF IgnoresSlide
    <2>2. t \in {PostSlide(going), FadeSlide(going), AnimateSlide(going, position)}
        BY <1>5, <1>9
    <2>3. Fits => slide \in 0 .. n - 1
        BY <1>1, <1>2, <2>1
    <2>4. Animated(s) /\ o.waitForAnimate /\ o.infinite /\ ~s.overtaken /\ ~s.unslicked
          => s.callbacks = <<>> /\ Len(s.callbacks) = 0
        BY <1>1, <2>1 DEF Animated
    <2>5. CASE t = PostSlide(going)
        <3>1. /\ Slider(t) /\ Changes(going, t, {"animating", "track", "ticking"})
              /\ ~s.unslicked => t.animating = FALSE
            BY <1>4, <1>6, <2>5, PostSlideEffect
        <3>2. /\ t.callbacks = s.callbacks /\ t.current = slide /\ t.slides = n
              /\ t.options = o /\ t.unslicked = s.unslicked /\ t.overtaken = s.overtaken
            BY <1>4, <1>6, <3>1, ZenonT(40) DEF Changes, Slider, Fields, Flags
        <3>3. Animated(s) => Animated(t)
            BY <2>4, <3>1, <3>2 DEF Animated
        <3>4. Changes(s, t, Going)
            BY <1>4, <3>1 DEF Changes, Going
        <3>5. QED
            BY <2>3, <3>1, <3>2, <3>3, <3>4 DEF Goes, Begins, InRange, t
    <2>6. CASE t # PostSlide(going)
        <3>1. /\ Slider(t) /\ Changes(going, t, {"track", "callbacks"})
              /\ t.callbacks = Append(s.callbacks, slide)
              /\ Len(t.callbacks) = Len(s.callbacks) + 1
              /\ s.callbacks = <<>> => Head(t.callbacks) = slide
            BY <1>3, <1>4, <1>6, <2>2, <2>6, AnimateEffect
        <3>2. /\ t.current = slide /\ t.slides = n /\ t.animating = TRUE
              /\ t.options = o /\ t.unslicked = s.unslicked /\ t.overtaken = s.overtaken
            BY <1>4, <1>6, <3>1 DEF Changes, Slider, Fields, Flags
        <3>3. t.callbacks # <<>>
            <4>1. Len(s.callbacks) \in Nat /\ Len(<<>>) = 0
                BY <1>1
            <4>2. Len(t.callbacks) # 0
                BY <3>1, <4>1
            <4>3. QED
                BY <4>1, <4>2
        <3>4. Animated(s) => Animated(t)
            BY <2>4, <3>1, <3>2, <3>3 DEF Animated
        <3>5. Changes(s, t, Going) /\ Begins(s, t)
            BY <1>2, <1>4, <3>1 DEF Changes, Going, Begins
        <3>6. QED
            BY <2>3, <3>1, <3>2, <3>4, <3>5 DEF Goes, InRange, t
    <2>7. QED
        BY <2>5, <2>6
<1>10. QED
    BY <1>7, <1>8, <1>9

--------------------------------------------------------------------------------
(* What every handler keeps. *)

(* A breakpoint that says how far to scroll also says how many slides to      *)
(* show, so that setOption cannot take the one from the other.                *)
SensibleBreakpoints ==
    \A p \in Pages : \A b \in DOMAIN p.responsive :
        p.responsive[b] # Unslick /\ "slidesToScroll" \in DOMAIN p.responsive[b]
        => "slidesToShow" \in DOMAIN p.responsive[b]

(* The options, clones and current slide fit the slides there are, which a    *)
(* filter may have reduced; and a click may have led to a slide there was.    *)
Fit(s, p) ==
    /\ Sized(s, p.settings.slidesToScroll) /\ Cloned(s)
    /\ s.filtered \/ s.cache \in {None, s.slides}
    /\ s.filtered \/ s.misled \/ InRange(s)

(* The object of a page, but for its swipes. *)
Sound(s, p) ==
    /\ Slider(s) /\ s.activeBreakpoint \in DOMAIN p.responsive \cup {None}
    /\ Animated(s)
    /\ SensibleBreakpoints => Fit(s, p)

(* The inductive invariant, of the object of a page. *)
Good(s, p) == Sound(s, p) /\ Swiped(s)

(* Fields that do not matter to Good, but for their types. *)
Harmless ==
    {"shown", "direction", "track", "windowWidth", "firstTouch", "paused",
     "interrupted", "focussed", "listening", "focusable", "hoverLast", "ticking",
     "resizing", "focusing", "rebound", "indexes", "hidden"}

(* A handler that records swipes. *)
LEMMA TouchStays ==
    ASSUME NEW s, NEW t, NEW p, Sound(s, p), Slider(t),
           Changes(s, t, Harmless \cup {"dragging", "touch", "sharedTouch"})
    PROVE  /\ Sound(t, p) /\ (Swiped(t) => Good(t, p))
           /\ Begins(s, t) /\ t.callbacks = s.callbacks
<1>1. DOMAIN s = Fields
    BY DEF Sound, Slider
<1>2. /\ t.options = s.options /\ t.original = s.original
      /\ t.activeBreakpoint = s.activeBreakpoint /\ t.slides = s.slides
      /\ t.cache = s.cache /\ t.clones = s.clones /\ t.current = s.current
      /\ t.filtered = s.filtered /\ t.misled = s.misled /\ t.callbacks = s.callbacks
    BY <1>1 DEF Changes, Harmless, Fields, Flags
<1>3. Changes(s, t, Fields \ {"animating", "unslicked", "callbacks", "options",
                              "overtaken", "current"})
    BY DEF Changes, Harmless, Fields, Flags
<1>4. Animated(t)
    BY <1>3, AnimatedStays DEF Sound
<1>5. Fit(s, p) => Fit(t, p)
    BY <1>2 DEF Fit, Sized, Cloned, InRange
<1>6. QED
    BY <1>2, <1>4, <1>5 DEF Good, Sound, Begins

(* A handler that changes fields that do not matter. *)
LEMMA GoodStays ==
    ASSUME NEW s, NEW t, NEW p, Good(s, p), Slider(t), Changes(s, t, Harmless)
    PROVE  Good(t, p) /\ Begins(s, t) /\ t.callbacks = s.callbacks
<1>1. /\ Changes(s, t, Fields \ {"dragging", "sharedTouch", "touch"})
      /\ Changes(s, t, Harmless \cup {"dragging", "touch", "sharedTouch"})
    BY DEF Changes, Harmless, Fields, Flags
<1>2. Swiped(t)
    BY <1>1, SwipedStays DEF Good, Sound
<1>3. QED
    BY <1>1, <1>2, TouchStays DEF Good

(* A handler that goes to a slide. *)
LEMMA GoesSound ==
    ASSUME NEW s, NEW t, NEW p, Sound(s, p), Goes(s, t),
           /\ Cloned(s) /\ s.options.slidesToScroll <= s.options.slidesToShow /\ InRange(s)
           /\ ~s.misled
           => InRange(t)
    PROVE  Sound(t, p) /\ Begins(s, t) /\ (Swiped(s) => Swiped(t))
<1>1. /\ t.options = s.options /\ t.original = s.original
      /\ t.activeBreakpoint = s.activeBreakpoint /\ t.slides = s.slides
      /\ t.cache = s.cache /\ t.clones = s.clones /\ t.filtered = s.filtered
      /\ t.misled = s.misled
    BY DEF Goes, Changes, Going, Sound, Slider, Fields, Flags
<1>2. Changes(s, t, Fields \ {"dragging", "sharedTouch", "touch"})
    BY DEF Goes, Going, Changes, Fields, Flags
<1>3. Swiped(s) => Swiped(t)
    BY <1>2, SwipedStays DEF Sound
<1>4. Fit(s, p) => Fit(t, p)
    BY <1>1 DEF Fit, Sized, Cloned
<1>5. QED
    BY <1>1, <1>3, <1>4 DEF Sound, Goes

(* slideHandler, asked for an index within a round of the slides. *)
LEMMA SlideHandlerSound ==
    ASSUME NEW s, NEW p, Sound(s, p), NEW index \in Int, NEW dontAnimate,
           /\ Cloned(s) /\ s.options.slidesToScroll <= s.options.slidesToShow /\ ~s.misled
           /\ s.slides > 0 => s.current \in 0 .. s.slides - 1
           /\ s.slides > s.options.slidesToShow /\ s.slides % s.options.slidesToScroll = 0
           => -s.slides <= index /\ index < 2 * s.slides
    PROVE  /\ Sound(SlideHandler(s, index, dontAnimate), p)
           /\ Begins(s, SlideHandler(s, index, dontAnimate))
           /\ Swiped(s) => Swiped(SlideHandler(s, index, dontAnimate))
<1> DEFINE t == SlideHandler(s, index, dontAnimate)
           Fits == s.slides > s.options.slidesToShow
                   /\ s.slides % s.options.slidesToScroll = 0
                   => -s.slides <= index /\ index < 2 * s.slides
<1>1. Slider(s)
    BY DEF Sound
<1>2. Goes(s, t) /\ (InRange(s) /\ Fits => InRange(t))
    BY <1>1, SlideHandlerEffect, Zenon
<1>3. InRange(s) => (s.slides > 0 => s.current \in 0 .. s.slides - 1)
    BY DEF InRange
<1> HIDE DEF t
<1>4. Cloned(s) /\ s.options.slidesToScroll <= s.options.slidesToShow /\ InRange(s)
      /\ ~s.misled => InRange(t)
    BY <1>2, <1>3
<1>5. QED
    BY <1>2, <1>4, GoesSound DEF t

(* Arrows, keys, next() and prev(). *)
LEMMA ChangeSlideGood ==
    ASSUME NEW s, NEW p, Good(s, p), NEW message
    PROVE  Good(ChangeSlide(s, message), p) /\ Begins(s, ChangeSlide(s, message))
<1> DEFINE o == s.options
           n == s.slides
           index == IF message = "previous" THEN PreviousIndex(o, n, s.current)
                                            ELSE NextIndex(o, n, s.current)
<1>1. o \in Options /\ n \in Nat /\ s.current \in Int /\ Slider(s)
    BY Numbers DEF Good, Sound
<1>2. index \in {PreviousIndex(o, n, s.current), NextIndex(o, n, s.current)}
    OBVIOUS
<1>3. ChangeSlide(s, message) = SlideHandler(s, index, FALSE)
    BY DEF ChangeSlide
<1> HIDE DEF index
<1>4. /\ index \in Int
      /\ /\ s.current \in 0 .. n - 1 /\ n > o.slidesToShow
         /\ n % o.slidesToScroll = 0
         => -n <= index /\ index < 2 * n
    BY <1>1, <1>2, ChangeRange, Zenon
<1>5. o.slidesToShow \in Nat
    BY <1>1 DEF Options
<1> DEFINE Whole == n % o.slidesToScroll = 0
<1>6. /\ n > 0 => s.current \in 0 .. n - 1
      /\ n > o.slidesToShow /\ Whole
      => -n <= index /\ index < 2 * n
    <2> HIDE DEF Whole
    <2>1. n > o.slidesToShow => n > 0
        BY <1>1, <1>5
    <2>2. QED
        BY <1>4, <2>1 DEF Whole
<1>7. QED
    BY <1>3, <1>4, <1>6, SlideHandlerSound, Zenon DEF Good

(* Dots, goTo() and the end of refresh: checkNavigable keeps the index within *)
(* a round of the slides.                                                     *)
LEMMA ChangeSlideToGood ==
    ASSUME NEW s, NEW p, Good(s, p), NEW index \in Int, NEW dontAnimate
    PROVE  /\ Good(ChangeSlideTo(s, index, dontAnimate), p)
           /\ Begins(s, ChangeSlideTo(s, index, dontAnimate))
<1> DEFINE o == s.options
           n == s.slides
           checked == CheckNavigable(o, n, index)
           Whole == n % o.slidesToScroll = 0
<1>1. /\ o \in Options /\ n \in Nat
      /\ o.slidesToShow \in Nat /\ o.slidesToScroll \in Nat \ {0}
    BY Numbers DEF Good, Sound, Options
<1>2. checked \in Int /\ (n > 0 /\ n >= o.slidesToScroll
                          => -n <= checked /\ checked < 2 * n)
    BY <1>1, CheckNavigableRange, Zenon
<1>3. ChangeSlideTo(s, index, dontAnimate) = SlideHandler(s, checked, dontAnimate)
    BY DEF ChangeSlideTo
<1> HIDE DEF checked
<1>4. o.slidesToScroll <= o.slidesToShow /\ n > o.slidesToShow /\ Whole
      => -n <= checked /\ checked < 2 * n
    <2> HIDE DEF Whole
    <2>1. QED
        BY <1>1, <1>2
<1>5. QED
    BY <1>2, <1>3, <1>4, SlideHandlerSound, Zenon DEF Good

(* A step of slidesToScroll, or of nothing, from the current slide. *)
LEMMA StepSound ==
    ASSUME NEW s, NEW p, Sound(s, p),
           NEW index \in {s.current - s.options.slidesToScroll, s.current,
                          s.current + s.options.slidesToScroll}
    PROVE  LET t == SlideHandler(s, index, FALSE)
           IN  Sound(t, p) /\ Begins(s, t) /\ (Swiped(s) => Swiped(t))
<1> DEFINE o == s.options
           n == s.slides
           Whole == n % o.slidesToScroll = 0
<1>1. /\ o \in Options /\ n \in Nat /\ s.current \in Int
      /\ o.slidesToShow \in Nat /\ o.slidesToScroll \in Nat \ {0}
    BY Numbers DEF Sound, Options
<1>2. index \in Int
    BY <1>1
<1>3. /\ o.slidesToScroll <= o.slidesToShow
      /\ n > 0 => s.current \in 0 .. n - 1
      /\ n > o.slidesToShow /\ Whole
      => -n <= index /\ index < 2 * n
    <2> HIDE DEF Whole
    <2>1. QED
        BY <1>1
<1>4. QED
    BY <1>2, <1>3, SlideHandlerSound, Zenon

(* A click on what is not there is noted.                                     *)
LEMMA MisledEffect ==
    ASSUME NEW s, Slider(s), NEW lost \in BOOLEAN
    PROVE  LET t == [s EXCEPT !.misled = @ \/ lost]
           IN  Slider(t) /\ Changes(s, t, {"misled"}) /\ t.misled = (s.misled \/ lost)
<1> DEFINE m == s.misled \/ lost
           t == [s EXCEPT !.misled = m]
<1>1. m \in BOOLEAN
    OBVIOUS
<1>2. [s EXCEPT !.misled = @ \/ lost] = t
    OBVIOUS
<1> HIDE DEF m
<1>3. Changes(s, t, {"misled"}) /\ t.misled = m
    BY DEF Changes, Slider, Fields, Flags
<1> HIDE DEF t
<1>4. Slider(t)
    BY <1>1, <1>3 DEF Changes, Slider, Fields, Flags
<1>5. QED
    BY <1>2, <1>3, <1>4 DEF m

(* A click on what is not there excuses what the slider then stands on.       *)
LEMMA MisledGood ==
    ASSUME NEW s, NEW p, Good(s, p), NEW lost \in BOOLEAN
    PROVE  LET t == [s EXCEPT !.misled = @ \/ lost]
           IN  /\ Good(t, p) /\ Changes(s, t, {"misled"}) /\ t.misled = (s.misled \/ lost)
<1> DEFINE m == s.misled \/ lost
           t == [s EXCEPT !.misled = @ \/ lost]
<1>1. s.misled => m
    OBVIOUS
<1>2. Slider(t) /\ Changes(s, t, {"misled"}) /\ t.misled = m
    BY MisledEffect DEF Good, Sound
<1> HIDE DEF m, t
<1>3. /\ t.options = s.options /\ t.original = s.original
      /\ t.activeBreakpoint = s.activeBreakpoint /\ t.slides = s.slides
      /\ t.cache = s.cache /\ t.clones = s.clones /\ t.current = s.current
      /\ t.filtered = s.filtered
    BY <1>2 DEF Good, Sound, Changes, Slider, Fields, Flags
<1>4. /\ Changes(s, t, Fields \ {"animating", "unslicked", "callbacks", "options",
                                  "overtaken", "current"})
      /\ Changes(s, t, Fields \ {"dragging", "sharedTouch", "touch"})
    BY <1>2 DEF Changes, Fields, Flags
<1>5. Animated(t) /\ Swiped(t)
    BY <1>4, AnimatedStays, SwipedStays DEF Good, Sound
<1>6. Fit(s, p) => Fit(t, p)
    BY <1>1, <1>2, <1>3 DEF Fit, Sized, Cloned, InRange
<1>7. Good(t, p)
    BY <1>2, <1>3, <1>5, <1>6 DEF Good, Sound
<1>8. QED
    BY <1>2, <1>7 DEF m, t

(* selectHandler, whatever slide was clicked. *)
LEMMA SelectGood ==
    ASSUME NEW s, NEW p, Good(s, p), NEW i \in Int
    PROVE  Good(SelectHandler(s, i), p) /\ Begins(s, SelectHandler(s, i))
<1> DEFINE lost == i \notin -s.clones .. s.slides + s.clones - 1
           t == [s EXCEPT !.misled = @ \/ lost]
           o == t.options
           n == t.slides
           Whole == n % o.slidesToScroll = 0
<1>1. Slider(s)
    BY DEF Good, Sound
<1>2. CASE s.slides <= s.options.slidesToShow
    <2> DEFINE u == SetSlideClasses(s, i)
    <2>1. Slider(u) /\ Changes(s, u, {"shown"})
        BY <1>1, SetSlideClassesEffect
    <2>2. SelectHandler(s, i) = u
        BY <1>2 DEF SelectHandler
    <2> HIDE DEF u
    <2>3. Changes(s, u, Harmless)
        BY <2>1 DEF Changes, Harmless
    <2>4. QED
        BY <2>1, <2>2, <2>3, GoodStays
<1>3. CASE ~(s.slides <= s.options.slidesToShow)
    <2>1. SelectHandler(s, i) = SlideHandler(t, i, FALSE)
        BY <1>3 DEF SelectHandler
    <2>2. lost \in BOOLEAN
        OBVIOUS
    <2>3. /\ s.clones \in Nat /\ s.slides \in Nat
          /\ ~lost => -s.clones <= i /\ i < s.slides + s.clones
        BY <1>1, Numbers
    <2> HIDE DEF lost
    <2>4. Good(t, p) /\ Changes(s, t, {"misled"}) /\ t.misled = (s.misled \/ lost)
        BY <2>2, MisledGood
    <2> HIDE DEF t
    <2>5. t.callbacks = s.callbacks /\ t.clones = s.clones /\ n = s.slides
        BY <1>1, <2>4 DEF Changes, Slider, Fields, Flags
    <2>6. o \in Options /\ n \in Nat /\ o.slidesToShow \in Nat
        BY <2>4, Numbers DEF Good, Sound, Options
    <2>7. Cloned(t) => t.clones <= o.slidesToShow + 1
        <3>1. Clones(o, n) \in Nat /\ Clones(o, n) <= o.slidesToShow + 1
            BY <2>6, ClonesType, Zenon
        <3>2. QED
            BY <2>6, <3>1 DEF Cloned
    <2>8. Cloned(t) /\ ~t.misled /\ n > o.slidesToShow /\ Whole => -n <= i /\ i < 2 * n
        <3> SUFFICES ASSUME Cloned(t), ~t.misled, n > o.slidesToShow
                     PROVE  -n <= i /\ i < 2 * n
            BY Zenon
        <3>1. ~lost
            BY <2>4, Zenon
        <3>2. s.clones <= n
            <4>1. t.clones <= o.slidesToShow + 1
                BY <2>7, Zenon
            <4>2. QED
                BY <2>3, <2>5, <2>6, <4>1
        <3>3. -s.clones <= i /\ i < n + s.clones
            BY <2>3, <2>5, <3>1
        <3>4. QED
            BY <2>3, <2>6, <3>2, <3>3
    <2>9. /\ Sound(t, p)
          /\ /\ Cloned(t) /\ t.options.slidesToScroll <= t.options.slidesToShow /\ ~t.misled
             /\ t.slides > 0 => t.current \in 0 .. t.slides - 1
             /\ t.slides > t.options.slidesToShow /\ t.slides % t.options.slidesToScroll = 0
             => -t.slides <= i /\ i < 2 * t.slides
        BY <2>4, <2>8, Zenon DEF Good
    <2>10. /\ Sound(SlideHandler(t, i, FALSE), p) /\ Begins(t, SlideHandler(t, i, FALSE))
           /\ Swiped(t) => Swiped(SlideHandler(t, i, FALSE))
        BY <2>9, SlideHandlerSound, Zenon
    <2>11. QED
        BY <2>1, <2>4, <2>5, <2>10 DEF Good, Begins
<1>4. QED
    BY <1>2, <1>3

(* autoPlayIterator turns around or not, and takes a step. *)
LEMMA AutoPlayIteratorGood ==
    ASSUME NEW s, NEW p, Good(s, p)
    PROVE  Good(AutoPlayIterator(s), p) /\ Begins(s, AutoPlayIterator(s))
<1>1. CASE s.paused \/ s.interrupted \/ s.focussed
    BY <1>1 DEF AutoPlayIterator, Begins
<1>2. CASE ~(s.paused \/ s.interrupted \/ s.focussed)
    <2>1. s.direction \in {0, 1}
        BY DEF Good, Sound, Slider
    <2>2. PICK turn \in {0, 1} :
              \E index \in {s.current - s.options.slidesToScroll,
                            s.current + s.options.slidesToScroll} :
                  AutoPlayIterator(s) = SlideHandler([s EXCEPT !.direction = turn], index, FALSE)
        BY <1>2, <2>1 DEF AutoPlayIterator
    <2> DEFINE t == [s EXCEPT !.direction = turn]
    <2>3. Changes(s, t, {"direction"}) /\ t.direction = turn
        BY DEF Changes, Good, Sound, Slider, Fields, Flags
    <2>4. PICK index \in {s.current - s.options.slidesToScroll,
                          s.current + s.options.slidesToScroll} :
              AutoPlayIterator(s) = SlideHandler(t, index, FALSE)
        BY <2>2
    <2> HIDE DEF t
    <2>5. Slider(t)
        BY <2>3 DEF Good, Sound, Changes, Slider, Fields, Flags
    <2>6. Changes(s, t, Harmless)
        BY <2>3 DEF Changes, Harmless
    <2>7. Good(t, p) /\ t.callbacks = s.callbacks /\ t.current = s.current
          /\ t.options = s.options
        BY <2>3, <2>5, <2>6, GoodStays DEF Changes, Good, Sound, Slider, Fields, Flags
    <2>8. Good(AutoPlayIterator(s), p) /\ Begins(t, AutoPlayIterator(s))
        BY <2>4, <2>7, StepSound DEF Good
    <2>9. QED
        BY <2>7, <2>8 DEF Begins
<1>3. QED
    BY <1>1, <1>2

--------------------------------------------------------------------------------
(* Building, rebuilding and taking apart. *)

(* destroy leaves a slider without clones, swipe or interval. *)
LEMMA DestroyEffect ==
    ASSUME NEW s, Slider(s)
    PROVE  /\ Slider(Destroy(s))
           /\ Changes(s, Destroy(s), {"listening", "focusable", "rebound", "touch",
                                      "sharedTouch", "ticking", "clones", "shown",
                                      "indexes", "unslicked"})
           /\ Destroy(s).unslicked = TRUE /\ Destroy(s).clones = 0
           /\ Destroy(s).touch = NoTouch
<1> DEFINE t == AutoPlayClear(s)
           u == FreshTouch(t)
           v == Destroy(s)
<1>1. Slider(t) /\ Changes(s, t, {"ticking"})
    BY TickingEffect
<1> HIDE DEF t
<1>2. /\ Slider(u) /\ Changes(t, u, {"touch", "sharedTouch"})
      /\ u.touch = NoTouch /\ ~u.sharedTouch
    BY <1>1, FreshTouchEffect
<1>3. v = [CleanUpEvents(u) EXCEPT !.clones = 0, !.shown = {}, !.indexes = {},
                                   !.unslicked = TRUE]
    BY DEF Destroy, t
<1> HIDE DEF u, v
<1>4. /\ Changes(u, v, {"listening", "focusable", "rebound", "clones", "shown",
                         "indexes", "unslicked"})
      /\ v.listening = FALSE /\ v.focusable = FALSE /\ v.rebound = FALSE
      /\ v.clones = 0 /\ v.shown = {} /\ v.indexes = {} /\ v.unslicked = TRUE
    BY <1>2, <1>3 DEF CleanUpEvents, Changes, Slider, Fields, Flags
<1>5. Slider(v)
    <2>1. /\ v.clones \in Nat /\ v.shown \subseteq Int
          /\ v.indexes \subseteq 0 .. MaxSlides - 1
        BY <1>4
    <2>2. ASSUME NEW f \in Flags PROVE v[f] \in BOOLEAN
        <3>1. CASE f \in {"listening", "focusable", "rebound", "unslicked"}
            BY <1>4, <3>1
        <3>2. CASE f \notin {"listening", "focusable", "rebound", "unslicked"}
            <4>1. v[f] = u[f]
                BY <1>2, <1>4, <3>2 DEF Changes, Slider, Fields, Flags
            <4>2. QED
                BY <1>2, <4>1 DEF Slider
        <3>3. QED
            BY <3>1, <3>2
    <2>3. QED
        BY <1>2, <1>4, <2>1, <2>2, ZenonT(40) DEF Changes, Slider, Fields, Flags
<1>6. v.touch = NoTouch
    BY <1>2, <1>4 DEF Changes, Slider, Fields, Flags
<1>7. Changes(s, u, {"ticking", "touch", "sharedTouch"})
    BY <1>1, <1>2, ChangesAdd
<1>8. Changes(s, v, {"listening", "focusable", "rebound", "touch", "sharedTouch",
                     "ticking", "clones", "shown", "indexes", "unslicked"})
    BY <1>4, <1>7, ChangesAdd
<1>9. QED
    BY <1>4, <1>5, <1>6, <1>8 DEF v

(* A slider taken apart: nothing animates it and no swipe is left. *)
LEMMA DestroyGood ==
    ASSUME NEW s, NEW p, Good(s, p)
    PROVE  Good(Destroy(s), p) /\ Begins(s, Destroy(s))
<1> DEFINE t == Destroy(s)
<1>1. Slider(s)
    BY DEF Good, Sound
<1>2. /\ Slider(t) /\ t.unslicked = TRUE /\ t.clones = 0 /\ t.touch = NoTouch
      /\ Changes(s, t, {"listening", "focusable", "rebound", "touch", "sharedTouch",
                        "ticking", "clones", "shown", "indexes", "unslicked"})
    BY <1>1, DestroyEffect
<1> HIDE DEF t
<1>3. /\ t.options = s.options /\ t.original = s.original
      /\ t.activeBreakpoint = s.activeBreakpoint /\ t.slides = s.slides
      /\ t.cache = s.cache /\ t.current = s.current
      /\ t.filtered = s.filtered /\ t.misled = s.misled /\ t.callbacks = s.callbacks
    BY <1>1, <1>2, SMTT(30) DEF Changes, Slider, Fields, Flags
<1>4. Animated(t) /\ Swiped(t)
    BY <1>2, NoTouchType DEF Animated, Swiped
<1>5. Fit(s, p) => Fit(t, p)
    BY <1>2, <1>3 DEF Fit, Sized, Cloned, InRange
<1>6. QED
    BY <1>2, <1>3, <1>4, <1>5 DEF Good, Sound, Begins, t

(* What init builds before it looks at breakpoints. *)
LEMMA InitBuildEffect ==
    ASSUME NEW s, Slider(s)
    PROVE  /\ Slider(InitBuild(s))
           /\ Changes(s, InitBuild(s), {"indexes", "options", "original", "clones", "shown",
                                        "track", "listening", "hoverLast"})
           /\ Narrower(s.options, InitBuild(s).options)
           /\ Cloned(InitBuild(s))
           /\ \A k \in Nat : Sized(s, k) => Sized(InitBuild(s), k)
<1> DEFINE t == BuildOut(s)
           u == SetPosition(t)
           v == InitBuild(s)
<1>1. /\ Slider(t) /\ Changes(s, t, {"indexes", "options", "original", "clones", "shown"})
      /\ Narrower(s.options, t.options) /\ Cloned(t)
      /\ \A k \in Nat : Sized(s, k) => Sized(t, k)
    BY BuildOutEffect
<1> HIDE DEF t
<1>2. Slider(u) /\ Changes(t, u, {"track"})
    BY <1>1, SetPositionEffect
<1>3. v = [u EXCEPT !.listening = TRUE, !.hoverLast = FALSE]
    BY DEF InitBuild, InitializeEvents, t
<1> HIDE DEF u, v
<1>4. /\ Changes(u, v, {"listening", "hoverLast"})
      /\ v.listening = TRUE /\ v.hoverLast = FALSE
    BY <1>2, <1>3 DEF Changes, Slider, Fields, Flags
<1>5. Slider(v)
    BY <1>2, <1>4, ZenonT(40) DEF Changes, Slider, Fields, Flags
<1>6. Changes(t, v, {"track", "listening", "hoverLast"})
    BY <1>2, <1>4, ChangesAdd
<1>7. v.options = t.options /\ v.slides = t.slides /\ v.clones = t.clones
    BY <1>1, <1>6 DEF Changes, Slider, Fields, Flags
<1>8. Changes(t, v, Fields \ {"options", "original", "activeBreakpoint"})
    BY <1>6 DEF Changes, Fields, Flags
<1>9. \A k \in Nat : Sized(s, k) => Sized(v, k)
    BY <1>1, <1>8, SizedStays
<1>10. Cloned(v) /\ Narrower(s.options, v.options)
    BY <1>1, <1>7 DEF Cloned
<1>11. Changes(s, v, {"indexes", "options", "original", "clones", "shown", "track",
                      "listening", "hoverLast"})
    BY <1>1, <1>6, ChangesAdd
<1>12. QED
    BY <1>5, <1>9, <1>10, <1>11 DEF v

(* What init does at its end. *)
LEMMA InitEndEffect ==
    ASSUME NEW s, Slider(s)
    PROVE  /\ Slider(InitEnd(s))
           /\ Changes(s, InitEnd(s), {"focusable", "paused", "ticking"})
<1> DEFINE t == FocusHandler(s)
           u == [t EXCEPT !.paused = FALSE]
<1>1. Changes(s, t, {"focusable"}) /\ t.focusable = TRUE
    BY DEF FocusHandler, Changes, Slider, Fields, Flags
<1>2. InitEnd(s) \in {AutoPlay(u), t}
    BY DEF InitEnd
<1> HIDE DEF t
<1>3. Slider(t)
    BY <1>1 DEF Changes, Slider, Fields, Flags
<1>4. Changes(t, u, {"paused"}) /\ u.paused = FALSE
    BY <1>3 DEF Changes, Slider, Fields, Flags
<1> HIDE DEF u
<1>5. Slider(u)
    BY <1>3, <1>4 DEF Changes, Slider, Fields, Flags
<1>6. PICK v : v = InitEnd(s) /\ v \in {AutoPlay(u), t}
    BY <1>2
<1>7. Slider(v) /\ Changes(t, v, {"paused", "ticking"})
    <2>1. CASE v = t
        BY <1>3, <2>1 DEF Changes
    <2>2. CASE v = AutoPlay(u)
        <3>1. Slider(v) /\ Changes(u, v, {"ticking"})
            BY <1>5, <2>2, TickingEffect
        <3>2. QED
            BY <1>4, <3>1, ChangesAdd
    <2>3. QED
        BY <1>6, <2>1, <2>2
<1>8. Changes(s, v, {"focusable", "paused", "ticking"})
    BY <1>1, <1>7, ChangesAdd
<1>9. QED
    BY <1>6, <1>7, <1>8

(* An object that a refresh can bring back: its options are known and fit,    *)
(* its current slide exists.                                                  *)
Ready(s, p) ==
    /\ Slider(s) /\ s.activeBreakpoint \in DOMAIN p.responsive \cup {None}
    /\ SensibleBreakpoints => /\ Sized(s, p.settings.slidesToScroll)
                              /\ s.filtered \/ s.cache \in {None, s.slides}
                              /\ s.filtered \/ s.misled \/ InRange(s)

(* What refresh resets, and that it forgets no animation that is under way. *)
LEMMA ResetEffect ==
    ASSUME NEW s, Slider(s), NEW current \in Int
    PROVE  LET r == [Destroy(s) EXCEPT
                       !.current = current, !.animating = FALSE, !.dragging = FALSE,
                       !.direction = 1, !.touch = s.firstTouch, !.sharedTouch = TRUE,
                       !.unslicked = FALSE, !.overtaken = s.callbacks # <<>>]
           IN  /\ Slider(r)
               /\ Changes(s, r, {"listening", "focusable", "rebound", "touch",
                                 "sharedTouch", "ticking", "clones", "shown", "indexes",
                                 "unslicked", "current", "animating", "dragging",
                                 "direction", "overtaken"})
               /\ r.current = current /\ r.animating = FALSE /\ r.sharedTouch = TRUE
               /\ ~r.overtaken => s.callbacks = <<>>
<1> DEFINE t == Destroy(s)
           late == s.callbacks # <<>>
           r == [t EXCEPT
                   !.current = current, !.animating = FALSE, !.dragging = FALSE,
                   !.direction = 1, !.touch = s.firstTouch, !.sharedTouch = TRUE,
                   !.unslicked = FALSE, !.overtaken = s.callbacks # <<>>]
<1>1. /\ Slider(t)
      /\ Changes(s, t, {"listening", "focusable", "rebound", "touch", "sharedTouch",
                        "ticking", "clones", "shown", "indexes", "unslicked"})
    BY DestroyEffect
<1>2. late \in BOOLEAN
    OBVIOUS
<1>3. r = [t EXCEPT
             !.current = current, !.animating = FALSE, !.dragging = FALSE,
             !.direction = 1, !.touch = s.firstTouch, !.sharedTouch = TRUE,
             !.unslicked = FALSE, !.overtaken = late]
    OBVIOUS
<1> HIDE DEF t, late, r
<1>4. PICK v \in BOOLEAN : v = late
    BY <1>2
<1>5. r = [t EXCEPT
             !.current = current, !.animating = FALSE, !.dragging = FALSE,
             !.direction = 1, !.touch = s.firstTouch, !.sharedTouch = TRUE,
             !.unslicked = FALSE, !.overtaken = v]
    BY <1>3, <1>4
<1>6. DOMAIN t = Fields
    BY <1>1 DEF Slider
<1>7. /\ DOMAIN r = Fields
      /\ \A f \in Fields \ {"touch", "sharedTouch", "unslicked", "current", "animating",
                            "dragging", "direction", "overtaken"} : r[f] = t[f]
      /\ r.current = current /\ r.animating = FALSE /\ r.dragging = FALSE
      /\ r.direction = 1 /\ r.touch = s.firstTouch /\ r.sharedTouch = TRUE
      /\ r.unslicked = FALSE /\ r.overtaken = v
    BY <1>5, <1>6 DEF Fields, Flags
<1>8. Slider(r)
    <2>1. ASSUME NEW f \in Flags PROVE r[f] \in BOOLEAN
        <3> DEFINE set == {"sharedTouch", "unslicked", "animating", "dragging", "overtaken"}
        <3>1. CASE f \in set
            BY <1>7, <3>1
        <3>2. CASE f \notin set
            <4>1. f \in Fields \ {"touch", "sharedTouch", "unslicked", "current",
                                  "animating", "dragging", "direction", "overtaken"}
                BY <3>2 DEF Fields, Flags
            <4>2. r[f] = t[f]
                BY <1>7, <4>1
            <4>3. QED
                BY <1>1, <4>2 DEF Slider
        <3>3. QED
            BY <3>1, <3>2
    <2>2. /\ r.options = t.options /\ r.original = t.original /\ r.slides = t.slides
          /\ r.cache = t.cache /\ r.clones = t.clones /\ r.shown = t.shown
          /\ r.indexes = t.indexes /\ r.hidden = t.hidden
          /\ r.track = t.track /\ r.callbacks = t.callbacks /\ r.firstTouch = t.firstTouch
        BY <1>7 DEF Fields, Flags
    <2>3. s.firstTouch \in Touches
        BY DEF Slider
    <2>4. QED
        BY <1>1, <1>7, <2>1, <2>2, <2>3 DEF Slider
<1>9. Changes(t, r, {"touch", "sharedTouch", "unslicked", "current", "animating",
                     "dragging", "direction", "overtaken"})
    BY <1>6, <1>7 DEF Changes
<1>10. Changes(s, r, {"listening", "focusable", "rebound", "touch", "sharedTouch",
                      "ticking", "clones", "shown", "indexes", "unslicked", "current",
                      "animating", "dragging", "direction", "overtaken"})
    BY <1>1, <1>9, ChangesAdd
<1>11. ~r.overtaken => s.callbacks = <<>>
    BY <1>4, <1>7 DEF late
<1>12. QED
    BY <1>7, <1>8, <1>10, <1>11 DEF r, t

(* refresh, of an object whose options checkResponsive may just have          *)
(* replaced: whatever was under way, the slider is in order again.            *)
LEMMA RefreshGood ==
    ASSUME NEW s, NEW p \in Pages, Ready(s, p), NEW initializing \in BOOLEAN
    PROVE  /\ Good(Refresh(s, initializing), p) /\ Begins(s, Refresh(s, initializing))
           /\ initializing => Refresh(s, initializing).callbacks = s.callbacks
<1> DEFINE lastVisible == s.slides - s.options.slidesToShow
           current == IF s.slides <= s.options.slidesToShow THEN 0
                      ELSE IF ~s.options.infinite /\ s.current > lastVisible
                      THEN lastVisible ELSE s.current
           r == [Destroy(s) EXCEPT
                   !.current = current, !.animating = FALSE, !.dragging = FALSE,
                   !.direction = 1, !.touch = s.firstTouch, !.sharedTouch = TRUE,
                   !.unslicked = FALSE, !.overtaken = s.callbacks # <<>>]
           t == InitBuild(r)
           u == InitEnd(t)
<1>1. Refresh(s, initializing) = IF initializing THEN u ELSE ChangeSlideTo(u, current, FALSE)
    BY DEF Refresh
<1>2. Slider(s) /\ s.slides \in Nat /\ s.current \in Int /\ s.options.slidesToShow \in Nat \ {0}
    BY Numbers DEF Ready, Options
<1>3. current \in Int /\ (InRange(s) /\ s.slides > 0 => current \in 0 .. s.slides - 1)
    BY <1>2 DEF InRange
<1> HIDE DEF current
<1>4. /\ Slider(r)
      /\ Changes(s, r, {"listening", "focusable", "rebound", "touch", "sharedTouch",
                        "ticking", "clones", "shown", "indexes", "unslicked", "current",
                        "animating", "dragging", "direction", "overtaken"})
      /\ r.current = current /\ r.animating = FALSE /\ r.sharedTouch = TRUE
      /\ ~r.overtaken => s.callbacks = <<>>
    BY <1>2, <1>3, ResetEffect
<1> HIDE DEF r
<1>5. /\ Slider(t)
      /\ Changes(r, t, {"indexes", "options", "original", "clones", "shown", "track",
                        "listening", "hoverLast"})
      /\ Cloned(t) /\ \A k \in Nat : Sized(r, k) => Sized(t, k)
    BY <1>4, InitBuildEffect
<1> HIDE DEF t
<1>6. Slider(u) /\ Changes(t, u, {"focusable", "paused", "ticking"})
    BY <1>5, InitEndEffect
<1> HIDE DEF u
<1>7. /\ r.activeBreakpoint = s.activeBreakpoint /\ r.options = s.options
      /\ r.original = s.original /\ r.slides = s.slides /\ r.cache = s.cache
      /\ r.filtered = s.filtered /\ r.misled = s.misled /\ r.callbacks = s.callbacks
    <2>1. ASSUME NEW f \in {"activeBreakpoint", "options", "original", "slides", "cache",
                            "filtered", "misled", "callbacks"}
          PROVE  r[f] = s[f]
        <3>1. f \in Fields
            BY DEF Fields, Flags
        <3>2. f \in DOMAIN s
            BY <1>2, <3>1 DEF Slider
        <3>3. QED
            BY <1>4, <3>2 DEF Changes
    <2>2. QED
        BY <2>1
<1>8. /\ t.activeBreakpoint = r.activeBreakpoint /\ t.slides = r.slides
      /\ t.cache = r.cache /\ t.filtered = r.filtered /\ t.callbacks = r.callbacks
      /\ t.misled = r.misled
      /\ t.current = r.current /\ t.animating = r.animating
      /\ t.sharedTouch = r.sharedTouch /\ t.overtaken = r.overtaken
    BY <1>4, <1>5 DEF Changes, Slider, Fields, Flags
<1>9. /\ u.activeBreakpoint = t.activeBreakpoint /\ u.slides = t.slides
      /\ u.cache = t.cache /\ u.filtered = t.filtered /\ u.callbacks = t.callbacks
      /\ u.misled = t.misled
      /\ u.current = t.current /\ u.animating = t.animating
      /\ u.sharedTouch = t.sharedTouch /\ u.overtaken = t.overtaken
      /\ u.options = t.options /\ u.clones = t.clones
    BY <1>5, <1>6 DEF Changes, Slider, Fields, Flags
<1>10. Animated(u)
    <2>1. u.animating = FALSE /\ (~u.overtaken => u.callbacks = <<>>)
        BY <1>4, <1>7, <1>8, <1>9
    <2>2. Len(<<>>) = 0
        OBVIOUS
    <2>3. QED
        BY <2>1, <2>2 DEF Animated
<1>11. Swiped(u)
    BY <1>4, <1>8, <1>9 DEF Swiped
<1>12. SensibleBreakpoints => Fit(u, p)
    <2> SUFFICES ASSUME SensibleBreakpoints PROVE Fit(u, p)
        OBVIOUS
    <2>1. Sized(u, p.settings.slidesToScroll)
        <3>1. p.settings.slidesToScroll \in Nat
            BY PagesAssumption DEF Sensible, Options
        <3>2. Sized(r, p.settings.slidesToScroll)
            BY <1>7 DEF Ready, Sized
        <3>3. Changes(t, u, Fields \ {"options", "original", "activeBreakpoint"})
            BY <1>6 DEF Changes, Fields, Flags
        <3>4. QED
            BY <1>5, <3>1, <3>2, <3>3, SizedStays
    <2>2. Cloned(u)
        BY <1>5, <1>9 DEF Cloned
    <2>3. u.filtered \/ u.cache \in {None, u.slides}
        BY <1>7, <1>8, <1>9 DEF Ready
    <2>4. u.filtered \/ u.misled \/ InRange(u)
        <3>1. CASE InRange(s) /\ s.slides > 0
            BY <1>3, <1>4, <1>7, <1>8, <1>9, <3>1 DEF InRange
        <3>2. CASE s.slides = 0
            BY <1>7, <1>8, <1>9, <3>2 DEF InRange
        <3>3. CASE s.filtered \/ s.misled
            BY <1>7, <1>8, <1>9, <3>3
        <3>4. QED
            BY <1>2, <3>1, <3>2, <3>3 DEF Ready
    <2>5. QED
        BY <2>1, <2>2, <2>3, <2>4 DEF Fit
<1>13. Good(u, p) /\ u.callbacks = s.callbacks
    BY <1>6, <1>7, <1>8, <1>9, <1>10, <1>11, <1>12 DEF Good, Sound, Ready
<1>14. Good(ChangeSlideTo(u, current, FALSE), p) /\ Begins(u, ChangeSlideTo(u, current, FALSE))
    BY <1>3, <1>13, ChangeSlideToGood
<1>15. QED
    BY <1>1, <1>13, <1>14 DEF Begins

(* The search of checkResponsive finds a breakpoint of the page, if any. *)
LEMMA TargetBreakpointType ==
    ASSUME page \in Pages, NEW w \in Nat
    PROVE  TargetBreakpoint(w) \in DOMAIN page.responsive \cup {None}
<1> DEFINE met == {b \in DOMAIN page.responsive :
                      IF page.mobileFirst THEN w > b ELSE w < b}
<1>1. met \subseteq DOMAIN page.responsive /\ met \subseteq Nat
    BY PagesAssumption
<1>2. TargetBreakpoint(w) = IF met = {} THEN None
                            ELSE IF page.mobileFirst THEN Max(met) ELSE Min(met)
    BY DEF TargetBreakpoint
<1>3. page.mobileFirst => \A b \in met : b <= w
    BY <1>1
<1> HIDE DEF met
<1>4. met # {} => Min(met) \in met
    BY <1>1, MinOfNaturals
<1>5. met # {} /\ page.mobileFirst => Max(met) \in met
    <2>1. met \in SUBSET Int
        BY <1>1
    <2>2. QED
        BY <1>3, <2>1, MaxOfBounded
<1>6. QED
    BY <1>1, <1>2, <1>4, <1>5

(* Options extended by what a breakpoint sets are options, if the settings of *)
(* the page extended by it are.                                               *)
LEMMA ExtendedType ==
    ASSUME NEW o \in Options, NEW settings \in Options, NEW c,
           Extended(settings, c) \in Options
    PROVE  /\ Extended(o, c) \in Options
           /\ \A name \in DOMAIN o :
                 Extended(o, c)[name] = IF name \in DOMAIN c
                                        THEN Extended(settings, c)[name] ELSE o[name]
<1> DEFINE Names == {"infinite", "fade", "centerMode", "slidesToShow", "slidesToScroll",
                     "autoplay", "waitForAnimate", "focusOnSelect"}
           e == Extended(o, c)
           f == Extended(settings, c)
<1>1. DOMAIN o = Names /\ DOMAIN settings = Names /\ DOMAIN f = Names
    BY DEF Options
<1>2. DOMAIN f = DOMAIN settings \cup DOMAIN c
    BY DEF Extended
<1>3. DOMAIN c \subseteq Names
    BY <1>1, <1>2
<1>4. e = [name \in Names |-> IF name \in DOMAIN c THEN c[name] ELSE o[name]]
    <2>1. DOMAIN o \cup DOMAIN c = Names
        BY <1>1, <1>3
    <2>2. QED
        BY <2>1 DEF Extended
<1>5. f = [name \in Names |-> IF name \in DOMAIN c THEN c[name] ELSE settings[name]]
    <2>1. DOMAIN settings \cup DOMAIN c = Names
        BY <1>1, <1>3
    <2>2. QED
        BY <2>1 DEF Extended
<1>6. f \in Options
    OBVIOUS
<1> DEFINE g == [name \in Names |-> IF name \in DOMAIN c THEN f[name] ELSE o[name]]
<1>7. e = g
    <2> HIDE DEF Names, e, f
    <2>1. \A name \in Names : name \in DOMAIN c => f[name] = c[name]
        BY <1>5
    <2>2. QED
        BY <1>4, <2>1
<1> HIDE DEF e, f
<1>8. g \in Options
    BY <1>6 DEF Options
<1>9. \A name \in Names : g[name] = IF name \in DOMAIN c THEN f[name] ELSE o[name]
    OBVIOUS
<1>10. QED
    BY <1>1, <1>7, <1>8, <1>9 DEF e, f

(* They scroll no further than they show, if the breakpoint is sensible. *)
LEMMA ExtendedFits ==
    ASSUME NEW o \in Options, NEW settings \in Options, NEW c,
           Sensible(Extended(settings, c)),
           "slidesToScroll" \in DOMAIN c => "slidesToShow" \in DOMAIN c,
           o.slidesToScroll <= o.slidesToShow, o.slidesToScroll <= settings.slidesToScroll
    PROVE  Extended(o, c).slidesToScroll <= Extended(o, c).slidesToShow
<1> DEFINE e == Extended(o, c)
           f == Extended(settings, c)
<1>1. f \in Options /\ f.slidesToScroll <= f.slidesToShow
    BY DEF Sensible
<1>2. "slidesToScroll" \in DOMAIN o /\ "slidesToShow" \in DOMAIN o
      /\ "slidesToScroll" \in DOMAIN settings
    BY DEF Options
<1>3. /\ e.slidesToScroll = IF "slidesToScroll" \in DOMAIN c THEN f.slidesToScroll
                            ELSE o.slidesToScroll
      /\ e.slidesToShow = IF "slidesToShow" \in DOMAIN c THEN f.slidesToShow
                          ELSE o.slidesToShow
    BY <1>1, <1>2, ExtendedType
<1>4. "slidesToScroll" \notin DOMAIN c => f.slidesToScroll = settings.slidesToScroll
    BY <1>2 DEF Extended
<1> HIDE DEF e, f
<1>5. /\ o.slidesToScroll \in Nat /\ o.slidesToShow \in Nat
      /\ f.slidesToScroll \in Nat /\ f.slidesToShow \in Nat
      /\ settings.slidesToScroll \in Nat
    BY <1>1 DEF Options
<1>6. QED
    BY <1>1, <1>3, <1>4, <1>5 DEF e

(* What checkResponsive hands to refresh: the options of the breakpoint it    *)
(* enters, or the original ones.                                              *)
LEMMA EnteredReady ==
    ASSUME NEW s, NEW e, NEW p, Good(s, p),
           Changes(s, e, {"activeBreakpoint", "current", "options"}),
           e.activeBreakpoint \in DOMAIN p.responsive \cup {None},
           e.current \in {0, s.current}, e.options \in Options,
           e.activeBreakpoint = None => e.options = s.original,
           SensibleBreakpoints => e.options.slidesToScroll <= e.options.slidesToShow
    PROVE  Ready(e, p) /\ e.callbacks = s.callbacks
<1>1. Slider(s) /\ s.slides \in Nat
    BY Numbers DEF Good, Sound
<1>2. e.current \in Int
    BY <1>1 DEF Slider
<1>3. Slider(e)
    <2>1. DOMAIN e = Fields /\ \A f \in Flags : e[f] = s[f]
        BY <1>1 DEF Changes, Slider, Fields, Flags
    <2>2. /\ e.original = s.original /\ e.slides = s.slides /\ e.cache = s.cache
          /\ e.indexes = s.indexes /\ e.hidden = s.hidden /\ e.clones = s.clones
          /\ e.shown = s.shown /\ e.direction = s.direction /\ e.track = s.track
          /\ e.callbacks = s.callbacks /\ e.touch = s.touch
          /\ e.firstTouch = s.firstTouch
        BY <1>1 DEF Changes, Slider, Fields, Flags
    <2>3. QED
        BY <1>1, <1>2, <2>1, <2>2 DEF Slider
<1>4. /\ e.original = s.original /\ e.slides = s.slides /\ e.cache = s.cache
      /\ e.filtered = s.filtered /\ e.misled = s.misled /\ e.callbacks = s.callbacks
    BY <1>1 DEF Changes, Slider, Fields, Flags
<1>5. SensibleBreakpoints => /\ Sized(e, p.settings.slidesToScroll)
                             /\ e.filtered \/ e.cache \in {None, e.slides}
                             /\ e.filtered \/ e.misled \/ InRange(e)
    <2> SUFFICES ASSUME SensibleBreakpoints
                 PROVE  /\ Sized(e, p.settings.slidesToScroll)
                        /\ e.filtered \/ e.cache \in {None, e.slides}
                        /\ e.filtered \/ e.misled \/ InRange(e)
        OBVIOUS
    <2>1. Fit(s, p)
        BY DEF Good, Sound
    <2>2. Sized(e, p.settings.slidesToScroll)
        BY <1>4, <2>1 DEF Fit, Sized
    <2>3. e.filtered \/ e.misled \/ InRange(e)
        <3>1. InRange(s) => InRange(e)
            BY <1>1, <1>4 DEF InRange
        <3>2. QED
            BY <1>4, <2>1, <3>1 DEF Fit
    <2>4. QED
        BY <1>4, <2>1, <2>2, <2>3 DEF Fit
<1>6. QED
    BY <1>3, <1>4, <1>5 DEF Ready

(* checkResponsive: a slider that enters or leaves a breakpoint is refreshed  *)
(* or taken apart.                                                            *)
LEMMA CheckResponsiveGood ==
    ASSUME page \in Pages, NEW s, Good(s, page), NEW w \in Nat,
           NEW initial \in BOOLEAN, NEW forceUpdate
    PROVE  /\ Good(CheckResponsive(s, w, initial, forceUpdate), page)
           /\ Begins(s, CheckResponsive(s, w, initial, forceUpdate))
           /\ initial => CheckResponsive(s, w, initial, forceUpdate).callbacks = s.callbacks
<1> DEFINE target == TargetBreakpoint(w)
           change == page.responsive[target]
           current == IF initial THEN 0 ELSE s.current
           entered == [s EXCEPT !.activeBreakpoint = target, !.current = current]
           known == [entered EXCEPT !.options = s.original]
           new == [entered EXCEPT !.options = Extended(s.original, change)]
           alone == [s EXCEPT !.activeBreakpoint = target]
           t == CheckResponsive(s, w, initial, forceUpdate)
<1>1. target \in DOMAIN page.responsive \cup {None}
    BY TargetBreakpointType
<1>2. Slider(s) /\ s.original \in Options /\ current \in {0, s.current}
    BY DEF Good, Sound, Slider
<1>3. entered = [s EXCEPT !.activeBreakpoint = target,
                          !.current = IF initial THEN 0 ELSE @]
    BY DEF current
<1>4. t = IF target = s.activeBreakpoint /\ ~(forceUpdate /\ target # None) THEN s
          ELSE IF target = None THEN Refresh(known, initial)
          ELSE IF change = Unslick THEN Destroy(alone)
          ELSE Refresh(new, initial)
    BY <1>3 DEF CheckResponsive
<1> HIDE DEF t
<1>5. CASE t = s
    BY <1>5 DEF Begins, t
<1>6. CASE target = None /\ t = Refresh(known, initial)
    <2>1. SensibleBreakpoints => s.original.slidesToScroll <= s.original.slidesToShow
        BY DEF Good, Sound, Fit, Sized
    <2>2. /\ Changes(s, known, {"activeBreakpoint", "current", "options"})
          /\ known.activeBreakpoint = target /\ known.current = current
          /\ known.options = s.original
        <3> HIDE DEF target, current
        <3>1. QED
            BY <1>2 DEF Changes, Slider, Fields, Flags
    <2> HIDE DEF target, current, known
    <2>3. Ready(known, page) /\ known.callbacks = s.callbacks
        BY <1>1, <1>2, <2>1, <2>2, EnteredReady
    <2>4. /\ Good(t, page) /\ Begins(known, t)
          /\ initial => t.callbacks = known.callbacks
        BY <1>6, <2>3, RefreshGood
    <2>5. QED
        BY <2>3, <2>4 DEF Begins, t
<1>7. CASE target # None /\ t = Destroy(alone)
    <2>1. Changes(s, alone, {"activeBreakpoint"}) /\ alone.activeBreakpoint = target
        BY <1>2 DEF Changes, Slider, Fields, Flags
    <2> HIDE DEF target, alone
    <2>2. Slider(alone)
        BY <1>2, <2>1 DEF Changes, Slider, Fields, Flags
    <2>3. /\ alone.options = s.options /\ alone.original = s.original
          /\ alone.slides = s.slides /\ alone.cache = s.cache
          /\ alone.clones = s.clones /\ alone.current = s.current
          /\ alone.filtered = s.filtered /\ alone.misled = s.misled
          /\ alone.callbacks = s.callbacks
        BY <1>2, <2>1 DEF Changes, Slider, Fields, Flags
    <2>4. Animated(alone) /\ Swiped(alone)
        <3>1. /\ Changes(s, alone, Fields \ {"animating", "unslicked", "callbacks",
                                             "options", "overtaken", "current"})
              /\ Changes(s, alone, Fields \ {"dragging", "sharedTouch", "touch"})
            BY <2>1 DEF Changes, Fields, Flags
        <3>2. QED
            BY <3>1, AnimatedStays, SwipedStays DEF Good, Sound
    <2>5. Fit(s, page) => Fit(alone, page)
        BY <1>7, <2>1, <2>3 DEF Fit, Sized, Cloned, InRange
    <2>6. Good(alone, page)
        BY <1>1, <2>1, <2>2, <2>4, <2>5 DEF Good, Sound
    <2>7. Good(t, page) /\ Begins(alone, t) /\ t.callbacks = s.callbacks
        <3>1. Changes(alone, t, {"listening", "focusable", "rebound", "touch",
                                 "sharedTouch", "ticking", "clones", "shown", "indexes",
                                 "unslicked"})
            BY <1>7, <2>2, DestroyEffect
        <3>2. t.callbacks = alone.callbacks
            BY <2>2, <3>1 DEF Changes, Slider, Fields, Flags
        <3>3. QED
            BY <1>7, <2>3, <2>6, <3>2, DestroyGood
    <2>8. QED
        BY <2>3, <2>7 DEF Begins, t
<1>8. CASE target # None /\ change # Unslick /\ t = Refresh(new, initial)
    <2> DEFINE o == Extended(s.original, change)
    <2>1. target \in DOMAIN page.responsive
        BY <1>1, <1>8
    <2>2. page.settings \in Options /\ Sensible(Extended(page.settings, change))
        BY <1>8, <2>1, PagesAssumption DEF Sensible
    <2>3. SensibleBreakpoints
          => ("slidesToScroll" \in DOMAIN change => "slidesToShow" \in DOMAIN change)
        BY <1>8, <2>1 DEF SensibleBreakpoints
    <2> HIDE DEF target, change, current
    <2>4. o \in Options
        BY <1>2, <2>2, ExtendedType DEF Sensible
    <2>5. SensibleBreakpoints => o.slidesToScroll <= o.slidesToShow
        <3>1. SensibleBreakpoints
              => /\ s.original.slidesToScroll <= s.original.slidesToShow
                 /\ s.original.slidesToScroll <= page.settings.slidesToScroll
            BY DEF Good, Sound, Fit, Sized
        <3>2. QED
            BY <1>2, <2>2, <2>3, <3>1, ExtendedFits
    <2>6. /\ Changes(s, new, {"activeBreakpoint", "current", "options"})
          /\ new.activeBreakpoint = target /\ new.current = current
          /\ new.options = o
        <3> HIDE DEF o
        <3>1. new = [entered EXCEPT !.options = o]
            BY DEF o
        <3>2. QED
            BY <1>2, <3>1 DEF Changes, Slider, Fields, Flags
    <2> HIDE DEF new, o
    <2>7. Ready(new, page) /\ new.callbacks = s.callbacks
        BY <1>1, <1>2, <1>8, <2>4, <2>5, <2>6, EnteredReady
    <2>8. /\ Good(t, page) /\ Begins(new, t)
          /\ initial => t.callbacks = new.callbacks
        BY <1>8, <2>7, RefreshGood
    <2>9. QED
        BY <2>7, <2>8 DEF Begins, t
<1>9. QED
    BY <1>4, <1>5, <1>6, <1>7, <1>8

(* Placing the strip, marking slides, and setting or clearing the interval.   *)
LEMMA PlacingGood ==
    ASSUME NEW s, NEW p, Good(s, p), NEW index \in Int,
           NEW t \in {SetPosition(s), SetSlideClasses(s, index), AutoPlay(s), AutoPlayClear(s)}
    PROVE  Good(t, p) /\ Begins(s, t) /\ t.callbacks = s.callbacks
<1>1. Slider(s)
    BY DEF Good, Sound
<1>2. Slider(t) /\ Changes(s, t, {"track", "shown", "ticking"})
    <2>1. CASE t = SetPosition(s)
        <3>1. Slider(t) /\ Changes(s, t, {"track"})
            BY <1>1, <2>1, SetPositionEffect
        <3>2. QED
            BY <3>1 DEF Changes
    <2>2. CASE t = SetSlideClasses(s, index)
        <3>1. Slider(t) /\ Changes(s, t, {"shown"})
            BY <1>1, <2>2, SetSlideClassesEffect
        <3>2. QED
            BY <3>1 DEF Changes
    <2>3. CASE t \in {AutoPlay(s), AutoPlayClear(s)}
        <3>1. Slider(t) /\ Changes(s, t, {"ticking"})
            BY <1>1, <2>3, TickingEffect
        <3>2. QED
            BY <3>1 DEF Changes
    <2>4. QED
        BY <2>1, <2>2, <2>3
<1>3. Changes(s, t, Harmless)
    BY <1>2 DEF Changes, Harmless
<1>4. QED
    BY <1>2, <1>3, GoodStays

(* What reinit is given is in order, except for the clones and the current    *)
(* slide.                                                                     *)
Rebuildable(s, p) ==
    /\ Slider(s) /\ s.activeBreakpoint \in DOMAIN p.responsive \cup {None}
    /\ Animated(s) /\ Swiped(s)
    /\ SensibleBreakpoints => /\ Sized(s, p.settings.slidesToScroll)
                              /\ s.filtered \/ s.cache \in {None, s.slides}

(* The slider reinit starts from, once it has chosen a slide. *)
LEMMA BegunGood ==
    ASSUME NEW s, NEW p \in Pages, Rebuildable(s, p), NEW current \in Int,
           SensibleBreakpoints
           => s.filtered \/ s.misled \/ s.slides = 0 \/ current \in 0 .. s.slides - 1
    PROVE  LET begun == [InitSlideEvents(s) EXCEPT !.current = current,
                                                   !.overtaken = @ \/ s.callbacks # <<>>]
           IN  /\ Good(SetupInfinite(begun), p)
               /\ SetupInfinite(begun).callbacks = s.callbacks
<1> DEFINE late == s.overtaken \/ s.callbacks # <<>>
           t == [InitSlideEvents(s) EXCEPT !.current = current,
                                           !.overtaken = @ \/ s.callbacks # <<>>]
           u == SetupInfinite(t)
<1>1. Slider(s) /\ late \in BOOLEAN /\ s.slides \in Nat
    BY Numbers DEF Rebuildable
<1>2. t = [s EXCEPT !.hoverLast = TRUE, !.current = current, !.overtaken = late]
    <2>1. InitSlideEvents(s).overtaken = s.overtaken
        BY <1>1 DEF InitSlideEvents, Slider, Fields, Flags
    <2>2. t = [InitSlideEvents(s) EXCEPT !.current = current, !.overtaken = late]
        BY <2>1
    <2> HIDE DEF t, late
    <2>3. QED
        BY <2>2 DEF InitSlideEvents
<1> HIDE DEF t, late
<1>3. PICK v \in BOOLEAN : v = late
    BY <1>1
<1>4. t = [s EXCEPT !.hoverLast = TRUE, !.current = current, !.overtaken = v]
    BY <1>2, <1>3
<1>5. /\ Changes(s, t, {"hoverLast", "current", "overtaken"}) /\ t.hoverLast = TRUE
      /\ t.current = current /\ t.overtaken = v
    BY <1>1, <1>4 DEF Changes, Slider, Fields, Flags
<1>6. Slider(t)
    BY <1>1, <1>5, ZenonT(40) DEF Changes, Slider, Fields, Flags
<1>7. /\ Slider(u) /\ Changes(t, u, {"options", "original", "clones"})
      /\ Cloned(u) /\ \A k \in Nat : Sized(t, k) => Sized(u, k)
    BY <1>6, SetupInfiniteEffect
<1> HIDE DEF u
<1>8. /\ t.options = s.options /\ t.original = s.original
      /\ t.activeBreakpoint = s.activeBreakpoint
    BY <1>1, <1>5 DEF Changes, Slider, Fields, Flags
<1>9. Changes(s, u, {"hoverLast", "current", "overtaken", "options", "original", "clones"})
    BY <1>5, <1>7, ChangesAdd
<1>10. /\ u.activeBreakpoint = s.activeBreakpoint /\ u.slides = s.slides
       /\ u.cache = s.cache /\ u.filtered = s.filtered /\ u.callbacks = s.callbacks
       /\ u.misled = s.misled
       /\ u.animating = s.animating /\ u.unslicked = s.unslicked
       /\ u.dragging = s.dragging /\ u.sharedTouch = s.sharedTouch /\ u.touch = s.touch
    BY <1>1, <1>9 DEF Changes, Slider, Fields, Flags
<1>11. u.current = current /\ u.overtaken = v
    BY <1>5, <1>6, <1>7 DEF Changes, Slider, Fields, Flags
<1>12. Animated(u)
    <2>1. ~u.overtaken => s.callbacks = <<>>
        BY <1>3, <1>11 DEF late
    <2>2. s.animating /\ ~s.unslicked => s.callbacks # <<>>
        BY DEF Rebuildable, Animated
    <2>3. Len(<<>>) = 0
        OBVIOUS
    <2>4. u.animating \in BOOLEAN
        BY <1>7 DEF Slider, Flags
    <2>5. QED
        BY <1>10, <2>1, <2>2, <2>3, <2>4 DEF Animated
<1>13. Swiped(u)
    BY <1>10 DEF Swiped, Rebuildable
<1>14. SensibleBreakpoints => Fit(u, p)
    <2> SUFFICES ASSUME SensibleBreakpoints PROVE Fit(u, p)
        OBVIOUS
    <2>1. p.settings.slidesToScroll \in Nat
        BY PagesAssumption DEF Sensible, Options
    <2>2. Sized(t, p.settings.slidesToScroll)
        BY <1>8 DEF Rebuildable, Sized
    <2>3. u.filtered \/ u.misled \/ InRange(u)
        BY <1>10, <1>11 DEF InRange
    <2>4. QED
        BY <1>7, <1>10, <2>1, <2>2, <2>3 DEF Fit, Rebuildable
<1>15. QED
    BY <1>7, <1>10, <1>12, <1>13, <1>14 DEF Good, Sound, Rebuildable, t, u

(* The click handlers of the slides, bound again.                             *)
LEMMA BoundEffect ==
    ASSUME NEW s, Slider(s)
    PROVE  LET t == [s EXCEPT
                       !.rebound = @ \/ (~s.unslicked /\ s.options.focusOnSelect)]
           IN  Slider(t) /\ Changes(s, t, {"rebound"})
<1> DEFINE again == s.rebound \/ (~s.unslicked /\ s.options.focusOnSelect)
           t == [s EXCEPT !.rebound = again]
<1>1. again \in BOOLEAN
    OBVIOUS
<1>2. [s EXCEPT !.rebound = @ \/ (~s.unslicked /\ s.options.focusOnSelect)] = t
    OBVIOUS
<1> HIDE DEF again
<1>3. Changes(s, t, {"rebound"}) /\ t.rebound = again
    BY DEF Changes, Slider, Fields, Flags
<1> HIDE DEF t
<1>4. Slider(t)
    BY <1>1, <1>3 DEF Changes, Slider, Fields, Flags
<1>5. QED
    BY <1>2, <1>3, <1>4

(* reinit, once it has chosen a slide that exists. *)
LEMMA RebuildGood ==
    ASSUME page \in Pages, NEW s, Rebuildable(s, page), NEW current \in Int,
           SensibleBreakpoints
           => s.filtered \/ s.misled \/ s.slides = 0 \/ current \in 0 .. s.slides - 1,
           NEW w \in Nat
    PROVE  Good(Rebuild(s, current, w), page) /\ Begins(s, Rebuild(s, current, w))
<1> DEFINE begun   == [InitSlideEvents(s) EXCEPT !.current = current,
                                                 !.overtaken = @ \/ s.callbacks # <<>>]
           set     == SetupInfinite(begun)
           rebuilt == CheckResponsive(set, w, FALSE, TRUE)
           bound   == [rebuilt EXCEPT !.rebound =
                          @ \/ (~rebuilt.unslicked /\ rebuilt.options.focusOnSelect)]
           marked  == SetSlideClasses(bound, bound.current)
           placed  == SetPosition(marked)
           quiet   == ~placed.options.autoplay
           ready   == [FocusHandler(placed) EXCEPT !.paused = ~placed.options.autoplay]
           t       == Rebuild(s, current, w)
<1>1. t = AutoPlay(ready)
    BY DEF Rebuild
<1>2. Good(set, page) /\ set.callbacks = s.callbacks
    BY BegunGood
<1> HIDE DEF set, t
<1>3. Good(rebuilt, page) /\ Begins(set, rebuilt)
    BY <1>2, CheckResponsiveGood
<1> HIDE DEF rebuilt
<1>4. Slider(bound) /\ Changes(rebuilt, bound, {"rebound"})
    BY <1>3, BoundEffect DEF Good, Sound
<1> HIDE DEF bound
<1>5. Good(bound, page) /\ bound.callbacks = rebuilt.callbacks
    <2>1. Changes(rebuilt, bound, Harmless)
        BY <1>4 DEF Changes, Harmless
    <2>2. QED
        BY <1>3, <1>4, <2>1, GoodStays
<1>6. Good(marked, page) /\ marked.callbacks = rebuilt.callbacks
    <2>1. bound.current \in Int
        BY <1>4 DEF Slider
    <2>2. QED
        BY <1>5, <2>1, PlacingGood
<1> HIDE DEF marked
<1>7. Good(placed, page) /\ placed.callbacks = marked.callbacks
    BY <1>6, PlacingGood
<1>8. quiet \in BOOLEAN
    OBVIOUS
<1>9. ready = [placed EXCEPT !.focusable = TRUE, !.paused = quiet]
    BY DEF FocusHandler
<1> HIDE DEF placed, quiet, ready
<1>10. PICK v \in BOOLEAN : ready = [placed EXCEPT !.focusable = TRUE, !.paused = v]
    BY <1>8, <1>9
<1>11. /\ Changes(placed, ready, {"focusable", "paused"})
       /\ ready.focusable = TRUE /\ ready.paused = v
    BY <1>7, <1>10 DEF Good, Sound, Changes, Slider, Fields, Flags
<1>12. Slider(ready)
    BY <1>7, <1>11 DEF Good, Sound, Changes, Slider, Fields, Flags
<1>13. Changes(placed, ready, Harmless)
    BY <1>11 DEF Changes, Harmless
<1>14. Good(ready, page) /\ ready.callbacks = placed.callbacks
    BY <1>7, <1>12, <1>13, GoodStays
<1>15. Good(t, page) /\ t.callbacks = ready.callbacks
    BY <1>1, <1>14, PlacingGood
<1>16. QED
    BY <1>2, <1>3, <1>6, <1>7, <1>14, <1>15 DEF Begins, t

(* reinit steps back from a slide that is gone, which is enough when one      *)
(* slide, the last, is.                                                       *)
LEMMA ReinitGood ==
    ASSUME page \in Pages, NEW s, Rebuildable(s, page), NEW w \in Nat,
           SensibleBreakpoints
           => s.filtered \/ s.misled \/ s.slides = 0 \/ s.slides <= s.options.slidesToShow
              \/ s.current \in 0 .. s.slides
    PROVE  Good(Reinit(s, w), page) /\ Begins(s, Reinit(s, w))
<1> DEFINE current == IF s.slides <= s.options.slidesToShow THEN 0
                      ELSE IF s.current >= s.slides /\ s.current # 0
                      THEN s.current - s.options.slidesToScroll ELSE s.current
<1>1. /\ s.slides \in Nat /\ s.current \in Int
      /\ s.options.slidesToShow \in Nat \ {0} /\ s.options.slidesToScroll \in Nat \ {0}
    BY Numbers DEF Rebuildable, Options
<1>2. current \in Int
    BY <1>1
<1>3. SensibleBreakpoints
      => s.filtered \/ s.misled \/ s.slides = 0 \/ current \in 0 .. s.slides - 1
    <2>1. SensibleBreakpoints => s.options.slidesToScroll <= s.options.slidesToShow
        BY DEF Rebuildable, Sized
    <2>2. QED
        BY <1>1, <2>1
<1>4. Reinit(s, w) = Rebuild(s, current, w)
    BY DEF Reinit
<1> HIDE DEF current
<1>5. QED
    BY <1>2, <1>3, <1>4, RebuildGood

(* Adding, removing and filtering slides. *)
LEMMA ReplaceSlidesGood ==
    ASSUME page \in Pages, NEW s, NEW t, Good(s, page), NEW n \in 0 .. MaxSlides,
           NEW w \in Nat, Slider(t),
           Changes(s, t, {"slides", "cache", "filtered", "indexes", "hidden"}),
           s.filtered => t.filtered,
           SensibleBreakpoints
           => \/ t.filtered
              \/ /\ t.cache \in {None, n}
                 /\ n \in {0, s.slides - 1, s.slides, s.slides + 1}
    PROVE  /\ Good(ReplaceSlides(t, n, w), page)
           /\ Begins(s, ReplaceSlides(t, n, w))
<1> DEFINE u == [Unload(t) EXCEPT !.slides = n]
<1>1. Slider(s) /\ s.slides \in Nat /\ s.current \in Int /\ n \in Nat
    BY Numbers, BoundsAssumption DEF Good, Sound
<1>2. u = [t EXCEPT !.clones = 0, !.shown = {}, !.slides = n]
    BY DEF Unload
<1> HIDE DEF u
<1>3. /\ Changes(t, u, {"clones", "shown", "slides"})
      /\ u.clones = 0 /\ u.shown = {} /\ u.slides = n
    BY <1>2 DEF Changes, Slider, Fields, Flags
<1>4. Slider(u)
    <2>1. /\ DOMAIN u = Fields
          /\ \A f \in Fields \ {"clones", "shown", "slides"} : u[f] = t[f]
        BY <1>3 DEF Changes, Slider
    <2>2. \A f \in Flags : u[f] \in BOOLEAN
        BY <2>1 DEF Slider, Fields, Flags
    <2>3. /\ u.options = t.options /\ u.original = t.original /\ u.cache = t.cache
          /\ u.current = t.current /\ u.direction = t.direction /\ u.track = t.track
          /\ u.callbacks = t.callbacks /\ u.touch = t.touch /\ u.firstTouch = t.firstTouch
          /\ u.indexes = t.indexes /\ u.hidden = t.hidden
        BY <2>1 DEF Fields, Flags
    <2>4. u.clones \in Nat /\ u.shown \subseteq Int /\ u.slides \in 0 .. MaxSlides
        BY <1>3
    <2>5. QED
        BY <2>1, <2>2, <2>3, <2>4 DEF Slider
<1>5. Changes(s, u, {"cache", "filtered", "indexes", "hidden", "clones", "shown", "slides"})
    BY <1>3, ChangesAdd
<1>6. /\ u.options = s.options /\ u.original = s.original
      /\ u.activeBreakpoint = s.activeBreakpoint
      /\ u.current = s.current /\ u.callbacks = s.callbacks /\ u.misled = s.misled
    BY <1>1, <1>5 DEF Changes, Slider, Fields, Flags
<1>7. u.cache = t.cache /\ u.filtered = t.filtered
    BY <1>3 DEF Changes, Slider, Fields, Flags
<1>8. Animated(u) /\ Swiped(u)
    <2>1. /\ Changes(s, u, Fields \ {"animating", "unslicked", "callbacks",
                                     "options", "overtaken", "current"})
          /\ Changes(s, u, Fields \ {"dragging", "sharedTouch", "touch"})
        BY <1>5 DEF Changes, Fields, Flags
    <2>2. QED
        BY <1>1, <2>1, AnimatedStays, SwipedStays DEF Good, Sound
<1>9. Rebuildable(u, page)
    BY <1>3, <1>4, <1>6, <1>7, <1>8 DEF Rebuildable, Good, Sound, Fit, Sized
<1>10. SensibleBreakpoints
       => u.filtered \/ u.misled \/ u.slides = 0 \/ u.slides <= u.options.slidesToShow
          \/ u.current \in 0 .. u.slides
    <2> SUFFICES ASSUME SensibleBreakpoints, ~t.filtered, ~s.misled, n # 0,
                        ~(n <= u.options.slidesToShow)
                 PROVE  s.current \in 0 .. n
        BY <1>3, <1>6, <1>7
    <2>1. InRange(s) /\ n \in {s.slides - 1, s.slides, s.slides + 1}
        <3>1. s.filtered \/ s.misled \/ InRange(s)
            BY DEF Good, Sound, Fit
        <3>2. QED
            BY <3>1
    <2>2. u.options.slidesToShow \in Nat \ {0} /\ n > 1
        <3>1. u.options.slidesToShow \in Nat \ {0}
            BY <1>4 DEF Slider, Options
        <3>2. QED
            BY <1>1, <3>1
    <2>3. s.slides > 0
        BY <1>1, <2>1, <2>2
    <2>4. QED
        BY <1>1, <2>1, <2>3 DEF InRange
<1>11. Good(Reinit(u, w), page) /\ Begins(u, Reinit(u, w))
    BY <1>9, <1>10, ReinitGood
<1>12. QED
    BY <1>6, <1>11 DEF Begins, ReplaceSlides, u

(* The constructor and init(true). *)
LEMMA ConstructGood ==
    ASSUME page \in Pages, NEW w \in Nat
    PROVE  Good(Construct(page, w), page) /\ Construct(page, w).callbacks = <<>>
<1> DEFINE fields ==
            [options |-> page.settings, original |-> page.settings, activeBreakpoint |-> None,
             slides |-> page.slides, cache |-> None, indexes |-> {}, hidden |-> {},
             rebound |-> FALSE, clones |-> 0, shown |-> {},
             current |-> 0, animating |-> FALSE, direction |-> 1, track |-> 0,
             paused |-> TRUE, interrupted |-> FALSE, focussed |-> FALSE,
             dragging |-> FALSE, touch |-> NoTouch, firstTouch |-> NoTouch,
             sharedTouch |-> TRUE, unslicked |-> FALSE, listening |-> FALSE,
             focusable |-> FALSE, hoverLast |-> FALSE, windowWidth |-> 0,
             callbacks |-> <<>>, ticking |-> FALSE, resizing |-> FALSE,
             focusing |-> FALSE, filtered |-> FALSE, overtaken |-> FALSE,
             misled |-> FALSE]
           built   == InitBuild(fields)
           checked == CheckResponsive(built, w, TRUE, FALSE)
           t       == Construct(page, w)
<1>1. t = InitEnd(checked)
    BY DEF Construct
<1>2. /\ page.settings \in Options /\ page.slides \in 0 .. MaxSlides
      /\ page.settings.slidesToScroll <= page.settings.slidesToShow
    BY PagesAssumption DEF Sensible
<1>3. /\ DOMAIN fields = Fields
      /\ fields.options = page.settings /\ fields.original = page.settings
      /\ fields.activeBreakpoint = None /\ fields.slides = page.slides
      /\ fields.cache = None /\ fields.clones = 0 /\ fields.shown = {}
      /\ fields.indexes = {} /\ fields.hidden = {}
      /\ fields.current = 0 /\ fields.direction = 1 /\ fields.track = 0
      /\ fields.touch = NoTouch /\ fields.firstTouch = NoTouch /\ fields.callbacks = <<>>
      /\ fields.animating = FALSE /\ fields.sharedTouch = TRUE
    BY DEF Fields, Flags
<1>4. \A f \in Flags : fields[f] \in BOOLEAN
    <2>1. /\ fields.animating = FALSE /\ fields.paused = TRUE /\ fields.interrupted = FALSE
          /\ fields.focussed = FALSE /\ fields.dragging = FALSE
          /\ fields.sharedTouch = TRUE /\ fields.unslicked = FALSE
          /\ fields.listening = FALSE /\ fields.focusable = FALSE
          /\ fields.hoverLast = FALSE /\ fields.ticking = FALSE
          /\ fields.resizing = FALSE /\ fields.focusing = FALSE
          /\ fields.filtered = FALSE /\ fields.overtaken = FALSE
          /\ fields.rebound = FALSE /\ fields.misled = FALSE
        OBVIOUS
    <2> HIDE DEF fields
    <2>2. QED
        BY <2>1 DEF Flags
<1> HIDE DEF fields, t
<1>5. Slider(fields)
    <2>1. <<>> \in Seq(Int) /\ (\A S : {} \subseteq S) /\ 0 \in Nat /\ 0 \in Int
        OBVIOUS
    <2>2. QED
        BY <1>2, <1>3, <1>4, <2>1, NoTouchType DEF Slider
<1>6. /\ Slider(built)
      /\ Changes(fields, built, {"indexes", "options", "original", "clones", "shown",
                                 "track", "listening", "hoverLast"})
      /\ Cloned(built) /\ \A k \in Nat : Sized(fields, k) => Sized(built, k)
    BY <1>5, InitBuildEffect
<1> HIDE DEF built
<1>7. /\ built.activeBreakpoint = None /\ built.slides = page.slides
      /\ built.cache = None /\ built.current = 0 /\ built.callbacks = <<>>
      /\ built.animating = FALSE /\ built.sharedTouch = TRUE
    BY <1>3, <1>5, <1>6, SMTT(30) DEF Changes, Slider, Fields, Flags
<1>8. Animated(built) /\ Swiped(built)
    <2>1. Len(<<>>) = 0
        OBVIOUS
    <2>2. QED
        BY <1>7, <2>1 DEF Animated, Swiped
<1>9. Fit(built, page)
    <2>1. page.settings.slidesToScroll \in Nat /\ page.settings.slidesToShow \in Nat
        BY <1>2 DEF Options
    <2>2. Sized(fields, page.settings.slidesToScroll)
        BY <1>2, <1>3, <2>1 DEF Sized
    <2>3. InRange(built)
        <3>1. page.slides \in Nat
            BY <1>2, BoundsAssumption
        <3>2. QED
            BY <1>7, <3>1 DEF InRange
    <2>4. QED
        BY <1>6, <1>7, <2>1, <2>2, <2>3 DEF Fit
<1>10. Good(built, page)
    BY <1>6, <1>7, <1>8, <1>9 DEF Good, Sound
<1>11. Good(checked, page) /\ checked.callbacks = <<>>
    BY <1>7, <1>10, CheckResponsiveGood
<1> HIDE DEF checked
<1>12. Slider(t) /\ Changes(checked, t, {"focusable", "paused", "ticking"})
    BY <1>1, <1>11, InitEndEffect DEF Good, Sound
<1>13. Changes(checked, t, Harmless)
    BY <1>12 DEF Changes, Harmless
<1>14. QED
    BY <1>11, <1>12, <1>13, GoodStays DEF t

--------------------------------------------------------------------------------
(* Swiping, pausing, and the other handlers. *)

(* The strip may be left where it was dragged.                                *)
LEMMA StrayEffect ==
    ASSUME NEW s, Slider(s)
    PROVE  /\ Slider(Stray(s)) /\ Changes(s, Stray(s), {"track"})
           /\ Stray(s).track = IF s.track = Dragged /\ s.dragging THEN Astray ELSE s.track
<1> DEFINE place == IF s.track = Dragged /\ s.dragging THEN Astray ELSE s.track
           t == [s EXCEPT !.track = place]
<1>1. place \in Int \cup {Dragged, Astray}
    BY DEF Slider
<1>2. Stray(s) = t
    BY DEF Stray
<1> HIDE DEF place
<1>3. Changes(s, t, {"track"}) /\ t.track = place
    BY DEF Changes, Slider, Fields, Flags
<1> HIDE DEF t
<1>4. Slider(t)
    BY <1>1, <1>3 DEF Changes, Slider, Fields, Flags
<1>5. QED
    BY <1>2, <1>3, <1>4 DEF place

(* swipeStart begins a swipe, or forgets the one there was. *)
LEMMA SwipeStartEffect ==
    ASSUME NEW s, Slider(s), NEW fingers
    PROVE  LET v == SwipeStart(s, fingers)
           IN  /\ Slider(v)
               /\ Changes(s, v, {"track", "interrupted", "dragging", "touch",
                                 "firstTouch", "sharedTouch"})
               /\ v.track = IF s.track = Dragged /\ s.dragging THEN Astray ELSE s.track
               /\ v.touch = NoTouch \/ v.dragging = TRUE
<1> DEFINE r == Stray(s)
           t == [r EXCEPT !.interrupted = TRUE]
           u == [t EXCEPT !.dragging = TRUE]
           touch == [on |-> TRUE, dir |-> "none", far |-> s.touch.far]
           place == IF s.track = Dragged /\ s.dragging THEN Astray ELSE s.track
           v == SwipeStart(s, fingers)
<1>1. touch \in Touches
    BY DEF Slider, Touches
<1>2. Slider(r) /\ Changes(s, r, {"track"}) /\ r.track = place
    BY StrayEffect
<1>3. v \in {FreshTouch(t), SetTouch(u, touch)}
    BY DEF SwipeStart
<1> HIDE DEF r, place
<1>4. Changes(r, t, {"interrupted"}) /\ t.interrupted = TRUE
    BY <1>2 DEF Changes, Slider, Fields, Flags
<1> HIDE DEF t, touch, v
<1>5. Changes(s, t, {"track", "interrupted"})
    BY <1>2, <1>4, ChangesAdd
<1>6. Slider(t) /\ t.track = place
    BY <1>2, <1>4, ZenonT(40) DEF Changes, Slider, Fields, Flags
<1>7. Changes(t, u, {"dragging"}) /\ u.dragging = TRUE
    BY <1>6 DEF Changes, Slider, Fields, Flags
<1> HIDE DEF u
<1>8. Slider(u) /\ u.track = place
    BY <1>6, <1>7, ZenonT(40) DEF Changes, Slider, Fields, Flags
<1>9. CASE v = FreshTouch(t)
    <2>1. /\ Slider(v) /\ Changes(t, v, {"touch", "sharedTouch"}) /\ v.touch = NoTouch
        BY <1>6, <1>9, FreshTouchEffect
    <2>2. v.track = place
        BY <1>6, <2>1 DEF Changes, Slider, Fields, Flags
    <2>3. Changes(s, v, {"track", "interrupted", "dragging", "touch", "firstTouch",
                         "sharedTouch"})
        BY <1>5, <2>1, ChangesAdd
    <2>4. QED
        BY <2>1, <2>2, <2>3 DEF v, place
<1>10. CASE v = SetTouch(u, touch)
    <2>1. Slider(v) /\ Changes(u, v, {"touch", "firstTouch"})
        BY <1>1, <1>8, <1>10, SetTouchEffect
    <2>2. v.dragging = TRUE /\ v.track = place
        BY <1>7, <1>8, <2>1 DEF Changes, Slider, Fields, Flags
    <2>3. Changes(s, u, {"track", "interrupted", "dragging"})
        BY <1>5, <1>7, ChangesAdd
    <2>4. Changes(s, v, {"track", "interrupted", "dragging", "touch", "firstTouch",
                         "sharedTouch"})
        BY <2>1, <2>3, ChangesAdd
    <2>5. QED
        BY <2>1, <2>2, <2>4 DEF v, place
<1>11. QED
    BY <1>3, <1>9, <1>10

(* It leaves the slider in order. *)
LEMMA SwipeStartGood ==
    ASSUME NEW s, NEW p, Good(s, p), NEW fingers
    PROVE  Good(SwipeStart(s, fingers), p) /\ Begins(s, SwipeStart(s, fingers))
<1> DEFINE v == SwipeStart(s, fingers)
<1>1. /\ Slider(v)
      /\ Changes(s, v, {"track", "interrupted", "dragging", "touch", "firstTouch",
                        "sharedTouch"})
      /\ v.touch = NoTouch \/ v.dragging = TRUE
    BY SwipeStartEffect DEF Good, Sound
<1> HIDE DEF v
<1>2. Swiped(v)
    BY <1>1, NoTouchType DEF Swiped
<1>3. Changes(s, v, Harmless \cup {"dragging", "touch", "sharedTouch"})
    BY <1>1 DEF Changes, Harmless
<1>4. QED
    BY <1>1, <1>2, <1>3, TouchStays DEF Good, v

(* swipeMove changes the touch objects, and moves the strip: not at all, to   *)
(* where it was dragged, to where the current slide says, or with the finger. *)
LEMMA SwipeMoveEffect ==
    ASSUME NEW s, Slider(s), s.dragging, NEW dir \in Directions, NEW far \in BOOLEAN
    PROVE  LET v == SwipeMove(s, dir, far)
               still == s.options.fade \/ s.animating
           IN  /\ Slider(v) /\ Changes(s, v, {"touch", "firstTouch", "track"})
               /\ \/ v.track = s.track /\ (s.track = Dragged => still)
                  \/ v.track = Astray /\ s.track = Dragged
                  \/ ~still /\ v.track = Left(s.options, s.slides, s.current)
                  \/ /\ ~still /\ v.track = Dragged
                     /\ v.touch.on /\ v.touch.dir \in {"left", "right"}
<1> DEFINE lost == ~s.touch.on \/ s.touch.dir = "lost"
           zero == dir \in {"straight", "back"}
           still == s.options.fade \/ s.animating
           place == Left(s.options, s.slides, s.current)
           touch == IF lost THEN [on |-> TRUE, dir |-> "lost", far |-> FALSE]
                    ELSE IF zero THEN [on |-> TRUE, dir |-> "none", far |-> FALSE]
                    ELSE [on |-> TRUE, dir |-> dir, far |-> far]
           t == SetTouch(s, touch)
           v == SwipeMove(s, dir, far)
<1>1. touch \in Touches
    BY DEF Touches, Directions
<1>2. v = IF lost \/ dir \in {"vertical", "straight"} THEN Stray(t)
          ELSE IF still THEN t
          ELSE SetCSS(t, IF dir = "back" THEN place ELSE Dragged)
    BY DEF SwipeMove, place
<1>3. ~lost /\ dir \in {"left", "right"} => touch.on /\ touch.dir \in {"left", "right"}
    OBVIOUS
<1>4. place \in Int
    BY Numbers, LeftType, Zenon
<1> HIDE DEF lost, still, place, touch, v
<1>5. /\ Slider(t) /\ Changes(s, t, {"touch", "firstTouch"}) /\ t.touch = touch
    BY <1>1, SetTouchEffect
<1> HIDE DEF t
<1>6. t.track = s.track /\ t.dragging = s.dragging
    BY <1>5 DEF Changes, Slider, Fields, Flags
<1>7. CASE lost \/ dir \in {"vertical", "straight"}
    <2>1. /\ Slider(v) /\ Changes(t, v, {"track"})
          /\ v.track = IF t.track = Dragged /\ t.dragging THEN Astray ELSE t.track
        BY <1>2, <1>5, <1>7, StrayEffect
    <2>2. Changes(s, v, {"touch", "firstTouch", "track"})
        BY <1>5, <2>1, ChangesAdd
    <2>3. QED
        BY <1>6, <2>1, <2>2 DEF v
<1>8. CASE ~(lost \/ dir \in {"vertical", "straight"}) /\ still
    <2>1. v = t
        BY <1>2, <1>8
    <2>2. Changes(s, v, {"touch", "firstTouch", "track"})
        BY <1>5, <2>1 DEF Changes
    <2>3. QED
        BY <1>5, <1>6, <1>8, <2>1, <2>2 DEF still, v
<1>9. CASE ~(lost \/ dir \in {"vertical", "straight"}) /\ ~still
    <2> DEFINE position == IF dir = "back" THEN place ELSE Dragged
    <2>1. v = SetCSS(t, position)
        BY <1>2, <1>9
    <2>2. position \in Int \cup {Dragged}
        BY <1>4
    <2>3. position = place \/ (position = Dragged /\ dir \in {"left", "right"})
        BY <1>9 DEF Directions
    <2> HIDE DEF position
    <2>4. Changes(t, v, {"track"}) /\ v.track = position
        BY <1>5, <2>1 DEF SetCSS, Changes, Slider, Fields, Flags
    <2>5. Slider(v) /\ v.touch = touch
        <3>1. DOMAIN v = Fields /\ \A f \in Flags : v[f] = t[f]
            BY <1>5, <2>4 DEF Changes, Slider, Fields, Flags
        <3>2. /\ v.original = t.original /\ v.slides = t.slides /\ v.cache = t.cache
              /\ v.indexes = t.indexes /\ v.hidden = t.hidden /\ v.clones = t.clones
              /\ v.shown = t.shown /\ v.direction = t.direction
              /\ v.options = t.options /\ v.current = t.current
              /\ v.callbacks = t.callbacks /\ v.touch = t.touch
              /\ v.firstTouch = t.firstTouch
            BY <1>5, <2>4 DEF Changes, Slider, Fields, Flags
        <3>3. QED
            BY <1>5, <2>2, <2>4, <3>1, <3>2 DEF Slider
    <2>6. Changes(s, v, {"touch", "firstTouch", "track"})
        BY <1>5, <2>4, ChangesAdd
    <2>7. QED
        BY <1>3, <1>9, <2>3, <2>4, <2>5, <2>6 DEF place, still, v
<1>10. QED
    BY <1>7, <1>8, <1>9

(* swipeMove only goes on with a swipe that was begun. *)
LEMMA SwipeMoveGood ==
    ASSUME NEW s, NEW p, Good(s, p), NEW dir \in Directions, NEW far \in BOOLEAN
    PROVE  Good(SwipeMove(s, dir, far), p) /\ Begins(s, SwipeMove(s, dir, far))
<1> DEFINE v == SwipeMove(s, dir, far)
<1>1. Slider(s)
    BY DEF Good, Sound
<1>2. CASE ~s.dragging
    BY <1>2 DEF SwipeMove, Begins
<1>3. CASE s.dragging
    <2>1. Slider(v) /\ Changes(s, v, {"touch", "firstTouch", "track"})
        BY <1>1, <1>3, SwipeMoveEffect
    <2> HIDE DEF v
    <2>2. v.dragging = s.dragging
        BY <1>1, <2>1 DEF Changes, Slider, Fields, Flags
    <2>3. Swiped(v)
        BY <1>3, <2>2 DEF Swiped
    <2>4. Changes(s, v, Harmless \cup {"dragging", "touch", "sharedTouch"})
        BY <2>1 DEF Changes, Harmless
    <2>5. QED
        BY <2>1, <2>3, <2>4, TouchStays DEF Good, v
<1>4. QED
    BY <1>1, <1>2, <1>3

(* The end of a swipe forgets it. *)
LEMMA ForgetGood ==
    ASSUME NEW s, NEW p, Sound(s, p)
    PROVE  Good(FreshTouch(s), p) /\ FreshTouch(s).callbacks = s.callbacks
<1> DEFINE t == FreshTouch(s)
<1>1. /\ Slider(t) /\ Changes(s, t, {"touch", "sharedTouch"}) /\ t.touch = NoTouch
    BY FreshTouchEffect DEF Sound
<1> HIDE DEF t
<1>2. Swiped(t)
    BY <1>1, NoTouchType DEF Swiped
<1>3. Changes(s, t, Harmless \cup {"dragging", "touch", "sharedTouch"})
    BY <1>1 DEF Changes
<1>4. QED
    BY <1>1, <1>2, <1>3, TouchStays DEF t

(* swipeEnd and mouseleave: the finger lets go of the strip.  A swipe that is *)
(* not forgotten is vertical, or never moved.                                 *)
LEMMA SwipeEndGood ==
    ASSUME NEW s, NEW p, Good(s, p)
    PROVE  Good(SwipeEnd(s), p) /\ Begins(s, SwipeEnd(s))
<1> DEFINE t == [s EXCEPT !.dragging = FALSE, !.interrupted = FALSE]
           v == SwipeEnd(s)
           steps == {s.current - s.options.slidesToScroll, s.current,
                     s.current + s.options.slidesToScroll}
           forgotten == IF s.touch.far THEN s.touch.dir # "vertical"
                                       ELSE s.touch.dir # "none"
<1>1. Slider(s)
    BY DEF Good, Sound
<1>2. \/ v = t /\ (s.touch.on => ~forgotten)
      \/ s.touch.on /\ \E index \in steps : v = FreshTouch(SlideHandler(t, index, FALSE))
    BY DEF SwipeEnd
<1>3. /\ Changes(s, t, {"dragging", "interrupted"}) /\ t.dragging = FALSE
      /\ t.interrupted = FALSE
    BY <1>1 DEF Changes, Slider, Fields, Flags
<1> HIDE DEF t, v
<1>4. Slider(t)
    BY <1>1, <1>3 DEF Changes, Slider, Fields, Flags
<1>5. /\ t.touch = s.touch /\ t.current = s.current /\ t.options = s.options
      /\ t.callbacks = s.callbacks /\ t.sharedTouch = s.sharedTouch
    BY <1>1, <1>3 DEF Changes, Slider, Fields, Flags
<1>6. Changes(s, t, Harmless \cup {"dragging", "touch", "sharedTouch"})
    BY <1>3 DEF Changes, Harmless
<1>7. CASE v = t /\ (s.touch.on => ~forgotten)
    <2>1. Swiped(t)
        <3>1. s.touch \in Touches
            BY <1>1 DEF Slider
        <3>2. QED
            BY <1>5, <1>7, <3>1 DEF Swiped, Touches
    <2>2. QED
        BY <1>4, <1>5, <1>6, <1>7, <2>1, TouchStays DEF Good, Begins, v
<1>8. ASSUME NEW index \in steps, v = FreshTouch(SlideHandler(t, index, FALSE))
      PROVE  Good(v, p) /\ Begins(s, v)
    <2> DEFINE u == SlideHandler(t, index, FALSE)
    <2>1. Sound(t, p)
        BY <1>4, <1>6, TouchStays DEF Good
    <2>2. Sound(u, p) /\ Begins(t, u)
        BY <1>5, <2>1, StepSound
    <2> HIDE DEF u
    <2>3. Good(FreshTouch(u), p) /\ FreshTouch(u).callbacks = u.callbacks
        BY <2>2, ForgetGood
    <2>4. QED
        BY <1>5, <1>8, <2>2, <2>3 DEF Begins, u
<1>9. QED
    BY <1>2, <1>7, <1>8 DEF v

(* Handlers that set flags only. *)
LEMMA FlagsGood ==
    ASSUME NEW s, NEW t, NEW p, Good(s, p),
           Changes(s, t, {"paused", "interrupted", "focussed", "resizing", "focusing",
                          "windowWidth"}),
           t.paused \in BOOLEAN, t.interrupted \in BOOLEAN, t.focussed \in BOOLEAN,
           t.resizing \in BOOLEAN, t.focusing \in BOOLEAN
    PROVE  Good(t, p) /\ Begins(s, t) /\ t.callbacks = s.callbacks
<1>1. Slider(s)
    BY DEF Good, Sound
<1>2. Slider(t)
    <2>1. ASSUME NEW f \in Flags PROVE t[f] \in BOOLEAN
        <3> DEFINE set == {"paused", "interrupted", "focussed", "resizing", "focusing"}
        <3>1. CASE f \in set
            BY <3>1
        <3>2. CASE f \notin set
            <4>1. f \in Fields /\ f # "windowWidth"
                BY DEF Fields, Flags
            <4>2. t[f] = s[f]
                BY <1>1, <3>2, <4>1 DEF Changes, Slider
            <4>3. QED
                BY <1>1, <4>2 DEF Slider
        <3>3. QED
            BY <3>1, <3>2
    <2>2. /\ DOMAIN t = Fields
          /\ t.options = s.options /\ t.original = s.original /\ t.slides = s.slides
          /\ t.cache = s.cache /\ t.clones = s.clones /\ t.shown = s.shown
          /\ t.current = s.current /\ t.direction = s.direction /\ t.track = s.track
          /\ t.callbacks = s.callbacks /\ t.touch = s.touch /\ t.firstTouch = s.firstTouch
          /\ t.indexes = s.indexes /\ t.hidden = s.hidden
        BY <1>1 DEF Changes, Slider, Fields, Flags
    <2>3. QED
        BY <1>1, <2>1, <2>2 DEF Slider
<1>3. Changes(s, t, Harmless)
    BY DEF Changes, Harmless
<1>4. QED
    BY <1>2, <1>3, GoodStays

(* The flags that events set have values. *)
LEMMA FlagsType ==
    ASSUME NEW s, NEW p, Good(s, p)
    PROVE  /\ Slider(s) /\ s.paused \in BOOLEAN /\ s.interrupted \in BOOLEAN
           /\ s.focussed \in BOOLEAN /\ s.resizing \in BOOLEAN /\ s.focusing \in BOOLEAN
           /\ s.listening \in BOOLEAN /\ s.focusable \in BOOLEAN
BY DEF Good, Sound, Slider, Flags

(* interrupt, from mouseenter and mouseleave. *)
LEMMA InterruptGood ==
    ASSUME NEW s, NEW p, Good(s, p), NEW toggle \in BOOLEAN
    PROVE  Good(Interrupt(s, toggle), p) /\ Interrupt(s, toggle).callbacks = s.callbacks
<1> DEFINE t == IF toggle THEN s ELSE AutoPlay(s)
           u == [t EXCEPT !.interrupted = toggle]
<1>1. Good(AutoPlay(s), p) /\ AutoPlay(s).callbacks = s.callbacks
    BY PlacingGood
<1>2. Good(t, p) /\ t.callbacks = s.callbacks
    BY <1>1
<1>3. Interrupt(s, toggle) = u
    BY DEF Interrupt
<1> HIDE DEF t
<1>4. /\ Slider(t) /\ t.paused \in BOOLEAN /\ t.focussed \in BOOLEAN
      /\ t.resizing \in BOOLEAN /\ t.focusing \in BOOLEAN
    BY <1>2, FlagsType
<1>5. /\ Changes(t, u, {"interrupted"}) /\ u.interrupted = toggle
      /\ u.paused = t.paused /\ u.focussed = t.focussed
      /\ u.resizing = t.resizing /\ u.focusing = t.focusing
    BY <1>4 DEF Changes, Slider, Fields, Flags
<1> HIDE DEF u
<1>6. Changes(t, u, {"paused", "interrupted", "focussed", "resizing", "focusing",
                     "windowWidth"})
    BY <1>5 DEF Changes
<1>7. Good(u, p) /\ u.callbacks = t.callbacks
    BY <1>2, <1>4, <1>5, <1>6, FlagsGood
<1>8. QED
    BY <1>2, <1>3, <1>7

(* Play sets autoplay for good where no breakpoint is active, which does not  *)
(* matter to what the options show and where they scroll.                     *)
LEMMA PlayGood ==
    ASSUME NEW s, NEW p, Good(s, p)
    PROVE  LET t == [AutoPlay(s) EXCEPT !.options.autoplay = TRUE,
                        !.original.autoplay = @ \/ s.activeBreakpoint = None,
                        !.paused = FALSE, !.focussed = FALSE, !.interrupted = FALSE]
           IN  Good(t, p) /\ t.callbacks = s.callbacks
<1> DEFINE r == AutoPlay(s)
           o == [r.options EXCEPT !.autoplay = TRUE]
           plays == r.original.autoplay \/ s.activeBreakpoint = None
           q == [r.original EXCEPT !.autoplay = plays]
           t == [AutoPlay(s) EXCEPT !.options.autoplay = TRUE,
                        !.original.autoplay = @ \/ s.activeBreakpoint = None,
                        !.paused = FALSE, !.focussed = FALSE, !.interrupted = FALSE]
<1>1. Good(r, p) /\ r.callbacks = s.callbacks /\ Slider(r)
    BY PlacingGood, Numbers DEF Good, Sound
<1>2. r.activeBreakpoint = s.activeBreakpoint
    <2>1. Slider(s)
        BY DEF Good, Sound
    <2>2. Changes(s, r, {"ticking"})
        BY <2>1, TickingEffect
    <2>3. QED
        BY <2>1, <2>2 DEF Changes, Slider, Fields, Flags
<1>3. t = [r EXCEPT !.options = o, !.original = q, !.paused = FALSE,
                    !.focussed = FALSE, !.interrupted = FALSE]
    <2>1. "autoplay" \in DOMAIN r.original /\ "autoplay" \in DOMAIN r.options
        BY <1>1 DEF Slider, Options
    <2>2. QED
        BY <2>1
<1> HIDE DEF r, t
<1>4. /\ o \in Options /\ o.infinite = r.options.infinite
      /\ o.waitForAnimate = r.options.waitForAnimate
      /\ o.slidesToShow = r.options.slidesToShow /\ o.fade = r.options.fade
      /\ o.slidesToScroll = r.options.slidesToScroll
      /\ o.centerMode = r.options.centerMode
    BY <1>1 DEF Slider, Options
<1>5. /\ q \in Options /\ q.slidesToShow = r.original.slidesToShow
      /\ q.slidesToScroll = r.original.slidesToScroll
    <2>1. plays \in BOOLEAN /\ r.original \in Options
        BY <1>1 DEF Slider, Options
    <2> HIDE DEF plays
    <2>2. PICK v \in BOOLEAN : q = [r.original EXCEPT !.autoplay = v]
        BY <2>1
    <2>3. QED
        BY <2>1, <2>2 DEF Options
<1>6. r.activeBreakpoint = None /\ r.options = r.original => o = q
    <2>1. r.activeBreakpoint = None => plays = TRUE
        BY <1>2
    <2> HIDE DEF plays
    <2>2. QED
        BY <2>1
<1> HIDE DEF o, q, plays
<1>7. /\ Changes(r, t, {"options", "original", "paused", "focussed", "interrupted"})
      /\ t.options = o /\ t.original = q /\ t.paused = FALSE /\ t.focussed = FALSE
      /\ t.interrupted = FALSE
    BY <1>1, <1>3 DEF Changes, Slider, Fields, Flags
<1>8. Slider(t)
    <2>1. ASSUME NEW f \in Flags PROVE t[f] \in BOOLEAN
        <3>1. CASE f \in {"paused", "focussed", "interrupted"}
            BY <1>7, <3>1
        <3>2. CASE f \notin {"paused", "focussed", "interrupted"}
            <4>1. f \in Fields /\ f # "options" /\ f # "original"
                BY DEF Fields, Flags
            <4>2. t[f] = r[f]
                BY <1>1, <1>7, <3>2, <4>1 DEF Changes, Slider
            <4>3. QED
                BY <1>1, <4>2 DEF Slider
        <3>3. QED
            BY <3>1, <3>2
    <2>2. /\ DOMAIN t = Fields
          /\ t.slides = r.slides /\ t.cache = r.cache /\ t.clones = r.clones
          /\ t.shown = r.shown /\ t.current = r.current /\ t.direction = r.direction
          /\ t.track = r.track /\ t.callbacks = r.callbacks /\ t.touch = r.touch
          /\ t.firstTouch = r.firstTouch /\ t.indexes = r.indexes /\ t.hidden = r.hidden
        BY <1>1, <1>7 DEF Changes, Slider, Fields, Flags
    <2>3. QED
        BY <1>1, <1>4, <1>5, <1>7, <2>1, <2>2 DEF Slider
<1>9. /\ t.activeBreakpoint = r.activeBreakpoint /\ t.slides = r.slides
      /\ t.cache = r.cache /\ t.clones = r.clones /\ t.current = r.current
      /\ t.filtered = r.filtered /\ t.callbacks = r.callbacks
      /\ t.animating = r.animating /\ t.unslicked = r.unslicked
      /\ t.overtaken = r.overtaken /\ t.misled = r.misled
    BY <1>1, <1>7 DEF Changes, Slider, Fields, Flags
<1>10. Animated(t)
    BY <1>1, <1>4, <1>7, <1>9 DEF Good, Sound, Animated
<1>11. Swiped(t)
    <2>1. Changes(r, t, Fields \ {"dragging", "sharedTouch", "touch"})
        BY <1>7 DEF Changes, Fields, Flags
    <2>2. QED
        BY <1>1, <2>1, SwipedStays DEF Good
<1>12. Fit(r, p) => Fit(t, p)
    <2>1. Clones(o, r.slides) = Clones(r.options, r.slides)
        BY <1>4 DEF Clones
    <2>2. Cloned(r) => Cloned(t)
        BY <1>7, <1>9, <2>1 DEF Cloned
    <2>3. Sized(r, p.settings.slidesToScroll) => Sized(t, p.settings.slidesToScroll)
        BY <1>4, <1>5, <1>6, <1>7, <1>9 DEF Sized
    <2>4. QED
        BY <1>9, <2>2, <2>3 DEF Fit, InRange
<1>13. QED
    BY <1>1, <1>8, <1>9, <1>10, <1>11, <1>12 DEF Good, Sound, t, r

(* setOption, with a number of slides to show. *)
LEMMA SetOptionGood ==
    ASSUME page \in Pages, NEW s, Good(s, page), NEW w \in Nat,
           NEW n \in s.options.slidesToScroll .. MaxSlides
    PROVE  LET t == Reinit(Unload(ChangeOptions(s, [s.options EXCEPT !.slidesToShow = n])), w)
           IN  Good(t, page) /\ Begins(s, t)
<1> DEFINE o == [s.options EXCEPT !.slidesToShow = n]
           t == ChangeOptions(s, o)
           u == Unload(t)
<1>1. /\ Slider(s) /\ s.slides \in Nat /\ s.options.slidesToScroll \in Nat \ {0}
      /\ s.options \in Options /\ s.original \in Options
    BY Numbers DEF Good, Sound, Slider, Options
<1>2. n \in Nat \ {0} /\ s.options.slidesToScroll <= n
    BY <1>1, BoundsAssumption
<1>3. /\ o \in Options /\ o.infinite = s.options.infinite
      /\ o.waitForAnimate = s.options.waitForAnimate
      /\ o.slidesToShow = n /\ o.slidesToScroll = s.options.slidesToScroll
    BY <1>1, <1>2 DEF Options
<1> HIDE DEF o
<1>4. /\ Slider(t) /\ Changes(s, t, {"options", "original"}) /\ t.options = o
    BY <1>1, <1>3, ChangeOptionsEffect
<1>5. t.original = IF s.activeBreakpoint = None THEN o ELSE s.original
    BY <1>1 DEF ChangeOptions, Slider, Fields, Flags
<1> HIDE DEF t
<1>6. /\ Changes(t, u, {"clones", "shown"}) /\ u.clones = 0 /\ u.shown = {}
    BY <1>4 DEF Unload, Changes, Slider, Fields, Flags
<1> HIDE DEF u
<1>7. Slider(u)
    <2>1. u.clones \in Nat /\ u.shown \subseteq Int
        BY <1>6
    <2>2. DOMAIN u = Fields /\ \A f \in Flags : u[f] = t[f]
        BY <1>4, <1>6 DEF Changes, Slider, Fields, Flags
    <2>3. /\ u.original = t.original /\ u.slides = t.slides /\ u.cache = t.cache
          /\ u.indexes = t.indexes /\ u.hidden = t.hidden /\ u.track = t.track
          /\ u.direction = t.direction /\ u.options = t.options
          /\ u.current = t.current /\ u.callbacks = t.callbacks
          /\ u.touch = t.touch /\ u.firstTouch = t.firstTouch
        BY <1>4, <1>6 DEF Changes, Slider, Fields, Flags
    <2>4. QED
        BY <1>4, <2>1, <2>2, <2>3 DEF Slider
<1>8. Changes(s, u, {"options", "original", "clones", "shown"})
    BY <1>4, <1>6, ChangesAdd
<1>9. /\ u.activeBreakpoint = s.activeBreakpoint /\ u.slides = s.slides
      /\ u.cache = s.cache /\ u.current = s.current /\ u.filtered = s.filtered
      /\ u.callbacks = s.callbacks /\ u.animating = s.animating
      /\ u.unslicked = s.unslicked /\ u.overtaken = s.overtaken /\ u.misled = s.misled
    BY <1>1, <1>8 DEF Changes, Slider, Fields, Flags
<1>10. u.options = o /\ u.original = t.original
    BY <1>4, <1>6 DEF Changes, Slider, Fields, Flags
<1>11. Animated(u)
    BY <1>3, <1>9, <1>10 DEF Good, Sound, Animated
<1>12. Swiped(u)
    <2>1. Changes(s, u, Fields \ {"dragging", "sharedTouch", "touch"})
        BY <1>8 DEF Changes, Fields, Flags
    <2>2. QED
        BY <1>1, <2>1, SwipedStays DEF Good
<1>13. \A k : Sized(s, k) => Sized(u, k)
    <2> SUFFICES ASSUME NEW k, Sized(s, k) PROVE Sized(u, k)
        OBVIOUS
    <2>1. CASE s.activeBreakpoint = None
        <3>1. u.original = o /\ s.options = s.original
            BY <1>5, <1>10, <2>1 DEF Sized
        <3>2. QED
            BY <1>2, <1>3, <1>9, <1>10, <3>1 DEF Sized
    <2>2. CASE s.activeBreakpoint # None
        BY <1>2, <1>3, <1>5, <1>9, <1>10, <2>2 DEF Sized
    <2>3. QED
        BY <2>1, <2>2
<1>14. Rebuildable(u, page)
    BY <1>7, <1>9, <1>11, <1>12, <1>13 DEF Rebuildable, Good, Sound, Fit
<1>15. SensibleBreakpoints
       => u.filtered \/ u.misled \/ u.slides = 0 \/ u.slides <= u.options.slidesToShow
          \/ u.current \in 0 .. u.slides
    <2>1. InRange(s) => s.slides = 0 \/ s.current \in 0 .. s.slides
        BY <1>1 DEF InRange
    <2>2. QED
        BY <1>9, <2>1 DEF Good, Sound, Fit
<1>16. Good(Reinit(u, w), page) /\ Begins(u, Reinit(u, w))
    BY <1>14, <1>15, ReinitGood
<1>17. QED
    BY <1>9, <1>16 DEF Begins, u, t, o

(* The end of an animation that was under way: postSlide. *)
LEMMA AnimationEndGood ==
    ASSUME NEW s, NEW p, Good(s, p), s.callbacks # <<>>
    PROVE  LET t == PostSlide([s EXCEPT !.callbacks = Tail(@),
                                        !.overtaken = @ /\ Len(s.callbacks) > 1])
           IN  Good(t, p) /\ Len(t.callbacks) < Len(s.callbacks)
<1> DEFINE late == s.overtaken /\ Len(s.callbacks) > 1
           t == [s EXCEPT !.callbacks = Tail(@), !.overtaken = @ /\ Len(s.callbacks) > 1]
           u == PostSlide(t)
<1>1. /\ Slider(s) /\ s.callbacks \in Seq(Int) /\ late \in BOOLEAN
      /\ s.overtaken \in BOOLEAN
    BY DEF Good, Sound, Slider, Flags
<1>2. PICK left : left = Tail(s.callbacks)
    OBVIOUS
<1>3. left \in Seq(Int) /\ Len(left) = Len(s.callbacks) - 1 /\ Len(s.callbacks) \in Nat \ {0}
    BY <1>1, <1>2
<1>4. t = [s EXCEPT !.callbacks = left, !.overtaken = late]
    BY <1>2
<1> HIDE DEF late, t
<1>5. PICK v \in BOOLEAN : v = late
    BY <1>1
<1>6. /\ Changes(s, t, {"callbacks", "overtaken"}) /\ t.callbacks = left
      /\ t.overtaken = v
    BY <1>1, <1>4, <1>5 DEF Changes, Slider, Fields, Flags
<1>7. Slider(t)
    BY <1>1, <1>3, <1>6 DEF Changes, Slider, Fields, Flags
<1>8. /\ Slider(u) /\ Changes(t, u, {"animating", "track", "ticking"})
      /\ ~t.unslicked => u.animating = FALSE
    BY <1>7, PostSlideEffect
<1> HIDE DEF u
<1>9. Changes(s, u, {"callbacks", "overtaken", "animating", "track", "ticking"})
    BY <1>6, <1>8, ChangesAdd
<1>10. /\ u.options = s.options /\ u.original = s.original
       /\ u.activeBreakpoint = s.activeBreakpoint /\ u.slides = s.slides
       /\ u.cache = s.cache /\ u.clones = s.clones /\ u.current = s.current
       /\ u.filtered = s.filtered /\ u.misled = s.misled /\ u.unslicked = s.unslicked
    BY <1>1, <1>9 DEF Changes, Slider, Fields, Flags
<1>11. u.callbacks = left /\ u.overtaken = v /\ t.unslicked = s.unslicked
    BY <1>1, <1>6, <1>7, <1>8 DEF Changes, Slider, Fields, Flags
<1>12. Animated(u)
    <2> SUFFICES ASSUME ~s.unslicked, s.options.waitForAnimate, s.options.infinite, ~v
                 PROVE  Len(left) = 0
        BY <1>8, <1>10, <1>11 DEF Animated
    <2>1. CASE s.overtaken
        <3>1. ~(Len(s.callbacks) > 1)
            BY <1>5, <2>1 DEF late
        <3>2. PICK count \in Nat \ {0} : Len(s.callbacks) = count
            BY <1>3
        <3>3. ~(count > 1) /\ Len(left) = count - 1
            BY <1>3, <3>1, <3>2
        <3>4. QED
            BY <3>3
    <2>2. CASE ~s.overtaken
        <3>1. Animated(s)
            BY DEF Good, Sound
        <3>2. Len(s.callbacks) = IF s.animating THEN 1 ELSE 0
            BY <2>2, <3>1 DEF Animated
        <3>3. Len(s.callbacks) = 0 \/ Len(s.callbacks) = 1
            BY <3>2
        <3>4. QED
            BY <1>3, <3>3
    <2>3. QED
        BY <2>1, <2>2
<1>13. Swiped(u)
    <2>1. Changes(s, u, Fields \ {"dragging", "sharedTouch", "touch"})
        BY <1>9 DEF Changes, Fields, Flags
    <2>2. QED
        BY <1>1, <2>1, SwipedStays DEF Good
<1>14. Fit(s, p) => Fit(u, p)
    BY <1>10 DEF Fit, Sized, Cloned, InRange
<1>15. Good(u, p)
    BY <1>8, <1>10, <1>12, <1>13, <1>14 DEF Good, Sound
<1>16. Len(left) < Len(s.callbacks)
    BY <1>3
<1>17. QED
    BY <1>11, <1>15, <1>16 DEF u, t

--------------------------------------------------------------------------------
(* The steps. *)

(* The inductive invariant; the length of the queue of callbacks is bounded.  *)
IInv ==
    /\ page \in Pages /\ width \in Widths /\ hasFocus \in BOOLEAN
    /\ inputs \in 0 .. MaxInputs
    /\ Good(slick, page)
    /\ Len(slick.callbacks) <= MaxCallbacks

(* What a handler leaves behind: the object is in order, and at most one      *)
(* animation more is under way.                                               *)
Handled == Good(slick', page) /\ Begins(slick, slick')

(* The bounds and widths are numbers, and so is the length of a queue that    *)
(* one animation may have joined.                                             *)
LEMMA StepNumbers ==
    ASSUME IInv
    PROVE  /\ width \in Nat /\ MaxInputs \in Nat /\ MaxCallbacks \in Nat
           /\ MaxSlides \in Nat /\ inputs \in Nat
           /\ Slider(slick) /\ slick.callbacks \in Seq(Int) /\ Len(slick.callbacks) \in Nat
<1>1. width \in Nat /\ MaxInputs \in Nat /\ MaxCallbacks \in Nat /\ MaxSlides \in Nat
    BY BoundsAssumption DEF IInv
<1>2. Slider(slick)
    BY DEF IInv, Good, Sound
<1>3. slick.callbacks \in Seq(Int)
    BY <1>2 DEF Slider
<1>4. inputs \in Nat
    BY <1>1 DEF IInv
<1>5. QED
    BY <1>1, <1>2, <1>3, <1>4

(* A step that handles something keeps the invariant. *)
LEMMA HandledInv ==
    ASSUME IInv, Handled,
           Len(slick.callbacks) < MaxCallbacks \/ slick'.callbacks = slick.callbacks,
           page' = page, width' \in Widths, hasFocus' \in BOOLEAN,
           inputs' = inputs \/ (inputs < MaxInputs /\ inputs' = inputs + 1)
    PROVE  IInv'
<1>1. /\ MaxInputs \in Nat /\ MaxCallbacks \in Nat /\ inputs \in Nat
      /\ slick.callbacks \in Seq(Int) /\ Len(slick.callbacks) \in Nat
    BY StepNumbers
<1>2. inputs' \in 0 .. MaxInputs
    BY <1>1 DEF IInv
<1>3. Len(slick'.callbacks) <= MaxCallbacks
    <2>1. CASE slick'.callbacks = slick.callbacks
        BY <2>1 DEF IInv
    <2>2. CASE slick'.callbacks # slick.callbacks
        <3>1. PICK x \in Int : slick'.callbacks = Append(slick.callbacks, x)
            BY <2>2 DEF Handled, Begins
        <3>2. Len(slick'.callbacks) = Len(slick.callbacks) + 1
            BY <1>1, <3>1
        <3>3. QED
            BY <1>1, <2>2, <3>2
    <2>3. QED
        BY <2>1, <2>2
<1>4. Good(slick', page')
    BY DEF Handled
<1>5. page' \in Pages
    BY DEF IInv
<1>6. QED
    BY <1>2, <1>3, <1>4, <1>5 DEF IInv

(* An input keeps the invariant if what it calls does. *)
LEMMA InputInv ==
    ASSUME IInv, Handled, inputs < MaxInputs, Len(slick.callbacks) < MaxCallbacks,
           inputs' = inputs + 1, UNCHANGED <<page, width, hasFocus>>
    PROVE  IInv'
BY HandledInv DEF IInv

(* Slides and clones are numbered.                                            *)
LEMMA ClickedType ==
    ASSUME NEW s, Slider(s), NEW index \in s.indexes \cup CloneIndexes(s)
    PROVE  index \in Int /\ -s.clones <= index
<1>1. s.clones \in Nat /\ s.slides \in Nat /\ MaxSlides \in Nat
    BY Numbers, BoundsAssumption
<1>2. s.indexes \subseteq 0 .. MaxSlides - 1
    BY DEF Slider
<1>3. CASE index \in s.indexes
    BY <1>1, <1>2, <1>3
<1>4. CASE index \in CloneIndexes(s)
    BY <1>1, <1>4 DEF CloneIndexes
<1>5. QED
    BY <1>3, <1>4

(* Slides that stay have numbers from before, and are no more than there were. *)
LEMMA PartingRange ==
    ASSUME Slider(slick), NEW p \in Partings, NEW n \in Staying(p)
    PROVE  /\ p.kept \subseteq 0 .. MaxSlides - 1 /\ p.gone \subseteq 0 .. MaxSlides - 1
           /\ n \in 0 .. slick.slides /\ n \in 0 .. MaxSlides
<1>1. slick.indexes \subseteq 0 .. MaxSlides - 1 /\ slick.slides \in 0 .. MaxSlides
    BY DEF Slider
<1>2. MaxSlides \in Nat
    BY BoundsAssumption
<1>3. p.kept \subseteq 0 .. MaxSlides - 1 /\ p.gone \subseteq 0 .. MaxSlides - 1
    BY <1>1 DEF Partings
<1>4. IsFiniteSet(0 .. MaxSlides - 1)
    BY <1>2, FS_Interval
<1>5. IsFiniteSet(p.kept) /\ IsFiniteSet(p.gone)
    BY <1>3, <1>4, FS_Subset
<1>6. Cardinality(p.kept) \in Nat /\ Cardinality(p.gone) \in Nat
    BY <1>5, FS_CardinalityType
<1>7. n \in Cardinality(p.kept) .. slick.slides - Cardinality(p.gone)
    BY DEF Staying
<1>8. QED
    BY <1>1, <1>2, <1>3, <1>6, <1>7

(* Events of the user. *)
LEMMA UserInputInv ==
    ASSUME IInv, UserInput
    PROVE  IInv'
<1>1. page \in Pages /\ Good(slick, page) /\ width \in Nat /\ Slider(slick)
    BY StepNumbers DEF IInv
<1>2. CASE Arrow
    <2>1. PICK message : Call(ChangeSlide(slick, message))
        BY <1>2 DEF Arrow
    <2>2. Handled
        BY <1>1, <2>1, ChangeSlideGood DEF Call, Input, Handled
    <2>3. QED
        BY <2>1, <2>2, InputInv DEF Call, Input
<1>3. CASE GoTo
    <2>1. PICK index \in -1 .. MaxSlides, dontAnimate \in BOOLEAN :
              Call(ChangeSlideTo(slick, index, dontAnimate))
        BY <1>3 DEF GoTo
    <2>2. index \in Int
        BY StepNumbers
    <2>3. Handled
        BY <1>1, <2>1, <2>2, ChangeSlideToGood DEF Call, Input, Handled
    <2>4. QED
        BY <2>1, <2>3, InputInv DEF Call, Input
<1>4. CASE Select
    <2>1. PICK index \in slick.indexes \cup CloneIndexes(slick) :
              \/ Event(SelectHandler(slick, index))
              \/ /\ Len(slick.callbacks) + 1 < MaxCallbacks
                 /\ Event(SelectHandler(SelectHandler(slick, index), index))
        BY <1>4 DEF Select
    <2>2. index \in Int
        BY <1>1, ClickedType
    <2> DEFINE t == SelectHandler(slick, index)
    <2>3. Good(t, page) /\ Begins(slick, t)
        BY <1>1, <2>2, SelectGood
    <2>4. CASE Event(t)
        <3>1. Handled
            BY <2>3, <2>4 DEF Event, Input, Handled
        <3>2. QED
            BY <2>4, <3>1, InputInv DEF Event, Input
    <2>5. CASE Len(slick.callbacks) + 1 < MaxCallbacks /\ Event(SelectHandler(t, index))
        <3> DEFINE u == SelectHandler(t, index)
        <3>1. slick' = u
            BY <2>5 DEF Event, Input
        <3> HIDE DEF t
        <3>2. Good(u, page) /\ Begins(t, u)
            BY <2>2, <2>3, SelectGood
        <3> HIDE DEF u
        <3>3. /\ slick.callbacks \in Seq(Int) /\ Len(slick.callbacks) \in Nat
              /\ MaxCallbacks \in Nat /\ MaxInputs \in Nat /\ inputs \in Nat
            BY StepNumbers
        <3>4. t.callbacks \in Seq(Int) /\ Len(t.callbacks) <= Len(slick.callbacks) + 1
              /\ Len(t.callbacks) \in Nat
            <4>1. CASE t.callbacks = slick.callbacks
                BY <3>3, <4>1
            <4>2. CASE t.callbacks # slick.callbacks
                <5>1. PICK x \in Int : t.callbacks = Append(slick.callbacks, x)
                    BY <2>3, <4>2 DEF Begins
                <5>2. QED
                    BY <3>3, <5>1
            <4>3. QED
                BY <4>1, <4>2
        <3>5. Len(u.callbacks) <= Len(t.callbacks) + 1
            <4>1. CASE u.callbacks = t.callbacks
                BY <3>4, <4>1
            <4>2. CASE u.callbacks # t.callbacks
                <5>1. PICK x \in Int : u.callbacks = Append(t.callbacks, x)
                    BY <3>2, <4>2 DEF Begins
                <5>2. QED
                    BY <3>4, <5>1
            <4>3. QED
                BY <4>1, <4>2
        <3>6. Len(slick'.callbacks) <= MaxCallbacks
            <4>1. Len(u.callbacks) \in Nat
                BY <3>2 DEF Good, Sound, Slider
            <4>2. QED
                BY <2>5, <3>1, <3>3, <3>4, <3>5, <4>1
        <3>7. inputs' \in 0 .. MaxInputs /\ page' = page /\ UNCHANGED <<width, hasFocus>>
            BY <2>5, <3>3 DEF Event, Input
        <3>8. QED
            BY <3>1, <3>2, <3>6, <3>7 DEF IInv
    <2>6. QED
        BY <2>1, <2>4, <2>5
<1>5. CASE TouchStart
    <2>1. PICK fingers : Event(SwipeStart(slick, fingers))
        BY <1>5 DEF TouchStart
    <2>2. Handled
        BY <1>1, <2>1, SwipeStartGood DEF Event, Input, Handled
    <2>3. QED
        BY <2>1, <2>2, InputInv DEF Event, Input
<1>6. CASE TouchMove
    <2>1. PICK dir \in Directions, far \in BOOLEAN : Event(SwipeMove(slick, dir, far))
        BY <1>6 DEF TouchMove
    <2>2. Handled
        BY <1>1, <2>1, SwipeMoveGood DEF Event, Input, Handled
    <2>3. QED
        BY <2>1, <2>2, InputInv DEF Event, Input
<1>7. CASE TouchEnd
    <2>1. Handled
        BY <1>1, <1>7, SwipeEndGood DEF TouchEnd, Event, Input, Handled
    <2>2. QED
        BY <1>7, <2>1, InputInv DEF TouchEnd, Event, Input
<1>8. CASE MouseEnter
    <2>1. Handled
        BY <1>1, <1>8, InterruptGood DEF MouseEnter, Event, Input, Handled, Begins
    <2>2. QED
        BY <1>8, <2>1, InputInv DEF MouseEnter, Event, Input
<1>9. CASE MouseLeave
    <2>1. slick' \in {Interrupt(SwipeEnd(slick), FALSE), SwipeEnd(Interrupt(slick, FALSE))}
        BY <1>9 DEF MouseLeave, Event, Input
    <2>2. ASSUME slick' = Interrupt(SwipeEnd(slick), FALSE) PROVE Handled
        <3> DEFINE t == SwipeEnd(slick)
        <3>1. Good(t, page) /\ Begins(slick, t)
            BY <1>1, SwipeEndGood
        <3> HIDE DEF t
        <3>2. Good(Interrupt(t, FALSE), page) /\ Interrupt(t, FALSE).callbacks = t.callbacks
            BY <3>1, InterruptGood
        <3>3. QED
            BY <2>2, <3>1, <3>2 DEF Handled, Begins, t
    <2>3. ASSUME slick' = SwipeEnd(Interrupt(slick, FALSE)) PROVE Handled
        <3> DEFINE t == Interrupt(slick, FALSE)
        <3>1. Good(t, page) /\ t.callbacks = slick.callbacks
            BY <1>1, InterruptGood
        <3> HIDE DEF t
        <3>2. Good(SwipeEnd(t), page) /\ Begins(t, SwipeEnd(t))
            BY <3>1, SwipeEndGood
        <3>3. QED
            BY <2>3, <3>1, <3>2 DEF Handled, Begins, t
    <2>4. Handled
        BY <2>1, <2>2, <2>3
    <2>5. QED
        BY <1>9, <2>4, InputInv DEF MouseLeave, Event, Input
<1>10. CASE VisibilityChange
    <2>1. PICK hidden \in BOOLEAN : Event([slick EXCEPT !.interrupted = hidden])
        BY <1>10 DEF VisibilityChange
    <2>2. PICK t : t = [slick EXCEPT !.interrupted = hidden]
        OBVIOUS
    <2>3. slick' = t
        BY <2>1, <2>2 DEF Event, Input
    <2>4. /\ Changes(slick, t, {"interrupted"}) /\ t.interrupted = hidden
          /\ t.paused = slick.paused /\ t.focussed = slick.focussed
          /\ t.resizing = slick.resizing /\ t.focusing = slick.focusing
        BY <1>1, <2>2 DEF Changes, Slider, Fields, Flags
    <2>5. Changes(slick, t, {"paused", "interrupted", "focussed", "resizing", "focusing",
                             "windowWidth"})
        BY <2>4 DEF Changes
    <2>6. /\ slick.paused \in BOOLEAN /\ slick.focussed \in BOOLEAN
          /\ slick.resizing \in BOOLEAN /\ slick.focusing \in BOOLEAN
        BY <1>1, FlagsType
    <2>7. Good(t, page) /\ Begins(slick, t)
        BY <1>1, <2>4, <2>5, <2>6, FlagsGood
    <2>8. QED
        BY <2>1, <2>3, <2>7, InputInv DEF Event, Input, Handled
<1>11. CASE OrientationChange
    <2> DEFINE t == CheckResponsive(slick, width, FALSE, FALSE)
    <2>1. Good(t, page) /\ Begins(slick, t)
        BY <1>1, CheckResponsiveGood
    <2>2. slick' = SetPosition(t)
        BY <1>11 DEF OrientationChange, Event, Input
    <2> HIDE DEF t
    <2>3. Good(SetPosition(t), page) /\ SetPosition(t).callbacks = t.callbacks
        BY <2>1, PlacingGood
    <2>4. Handled
        BY <2>1, <2>2, <2>3 DEF Handled, Begins
    <2>5. QED
        BY <1>11, <2>4, InputInv DEF OrientationChange, Event, Input
<1>12. CASE FocusChange
    <2> DEFINE due == slick.focusing \/ slick.focusable
    <2>1. due \in BOOLEAN
        BY <1>1, FlagsType
    <2>2. slick' = [slick EXCEPT !.focusing = due]
        BY <1>12 DEF FocusChange
    <2> HIDE DEF due
    <2>3. PICK v \in BOOLEAN : slick' = [slick EXCEPT !.focusing = v]
        BY <2>1, <2>2
    <2>4. PICK t : t = [slick EXCEPT !.focusing = v]
        OBVIOUS
    <2>5. /\ Changes(slick, t, {"focusing"}) /\ t.focusing = v
          /\ t.paused = slick.paused /\ t.focussed = slick.focussed
          /\ t.resizing = slick.resizing /\ t.interrupted = slick.interrupted
        BY <1>1, <2>4 DEF Changes, Slider, Fields, Flags
    <2>6. Changes(slick, t, {"paused", "interrupted", "focussed", "resizing", "focusing",
                             "windowWidth"})
        BY <2>5 DEF Changes
    <2>7. /\ slick.paused \in BOOLEAN /\ slick.focussed \in BOOLEAN
          /\ slick.resizing \in BOOLEAN /\ slick.interrupted \in BOOLEAN
        BY <1>1, FlagsType
    <2>8. Good(t, page) /\ Begins(slick, t) /\ t.callbacks = slick.callbacks
        BY <1>1, <2>5, <2>6, <2>7, FlagsGood
    <2>9. Handled /\ slick'.callbacks = slick.callbacks
        BY <2>3, <2>4, <2>8 DEF Handled
    <2>10. hasFocus' \in BOOLEAN
        BY <1>12 DEF FocusChange
    <2>11. QED
        BY <1>12, <2>9, <2>10, HandledInv DEF FocusChange, IInv
<1>13. CASE \E w \in Widths \ {width} : Resize(w)
    <2>1. PICK w \in Widths : Resize(w)
        BY <1>13
    <2> DEFINE due == slick.resizing \/ (slick.listening /\ w # slick.windowWidth)
    <2>2. due \in BOOLEAN
        BY <1>1, FlagsType
    <2>3. slick' = [slick EXCEPT !.resizing = due]
        BY <2>1 DEF Resize
    <2> HIDE DEF due
    <2>4. PICK v \in BOOLEAN : slick' = [slick EXCEPT !.resizing = v]
        BY <2>2, <2>3
    <2>5. PICK t : t = [slick EXCEPT !.resizing = v]
        OBVIOUS
    <2>6. /\ Changes(slick, t, {"resizing"}) /\ t.resizing = v
          /\ t.paused = slick.paused /\ t.focussed = slick.focussed
          /\ t.focusing = slick.focusing /\ t.interrupted = slick.interrupted
        BY <1>1, <2>5 DEF Changes, Slider, Fields, Flags
    <2>7. Changes(slick, t, {"paused", "interrupted", "focussed", "resizing", "focusing",
                             "windowWidth"})
        BY <2>6 DEF Changes
    <2>8. /\ slick.paused \in BOOLEAN /\ slick.focussed \in BOOLEAN
          /\ slick.focusing \in BOOLEAN /\ slick.interrupted \in BOOLEAN
        BY <1>1, FlagsType
    <2>9. Good(t, page) /\ Begins(slick, t) /\ t.callbacks = slick.callbacks
        BY <1>1, <2>6, <2>7, <2>8, FlagsGood
    <2>10. Handled /\ slick'.callbacks = slick.callbacks
        BY <2>4, <2>5, <2>9 DEF Handled
    <2>11. QED
        BY <2>1, <2>10, HandledInv DEF Resize, IInv
<1>14. QED
    BY <1>2, <1>3, <1>4, <1>5, <1>6, <1>7, <1>8, <1>9, <1>10, <1>11, <1>12, <1>13
       DEF UserInput

(* addSlide: one more slide.                                                  *)
LEMMA AddedEffect ==
    ASSUME NEW s, Slider(s), s.slides + 1 \in 0 .. MaxSlides
    PROVE  LET t == [s EXCEPT !.slides = @ + 1, !.cache = s.slides + 1, !.hidden = {}]
           IN  /\ Slider(t) /\ Changes(s, t, {"slides", "cache", "hidden"})
               /\ t.slides = s.slides + 1 /\ t.cache = s.slides + 1
<1> DEFINE n == s.slides + 1
           t == [s EXCEPT !.slides = n, !.cache = n, !.hidden = {}]
<1>1. t = [s EXCEPT !.slides = @ + 1, !.cache = s.slides + 1, !.hidden = {}]
    OBVIOUS
<1>2. n \in 0 .. MaxSlides
    OBVIOUS
<1> HIDE DEF n
<1>3. /\ Changes(s, t, {"slides", "cache", "hidden"})
      /\ t.slides = n /\ t.cache = n /\ t.hidden = {}
    BY DEF Changes, Slider, Fields, Flags
<1> HIDE DEF t
<1>4. Slider(t)
    BY <1>2, <1>3, ZenonT(40) DEF Changes, Slider, Fields, Flags
<1>5. QED
    BY <1>1, <1>3, <1>4 DEF n

(* removeSlide: the slides keep the numbers they have.                        *)
LEMMA RemovedEffect ==
    ASSUME NEW s, Slider(s), NEW kept \in SUBSET (0 .. MaxSlides - 1),
           NEW t, \E n \in 0 .. MaxSlides :
                      t = [s EXCEPT !.cache = n, !.indexes = kept, !.hidden = {}]
    PROVE  Slider(t) /\ Changes(s, t, {"cache", "indexes", "hidden"})
<1>1. PICK n \in 0 .. MaxSlides :
          t = [s EXCEPT !.cache = n, !.indexes = kept, !.hidden = {}]
    OBVIOUS
<1>2. /\ Changes(s, t, {"cache", "indexes", "hidden"})
      /\ t.cache = n /\ t.indexes = kept /\ t.hidden = {}
    BY <1>1 DEF Changes, Slider, Fields, Flags
<1>3. Slider(t)
    BY <1>2 DEF Changes, Slider, Fields, Flags
<1>4. QED
    BY <1>2, <1>3

(* slickFilter: those taken out are kept, with their numbers.                  *)
LEMMA FilteredEffect ==
    ASSUME NEW s, Slider(s), NEW kept \in SUBSET (0 .. MaxSlides - 1),
           NEW gone \in SUBSET (0 .. MaxSlides - 1)
    PROVE  LET t == [s EXCEPT !.cache = s.slides, !.indexes = kept, !.hidden = gone,
                              !.filtered = TRUE]
           IN  /\ Slider(t) /\ Changes(s, t, {"cache", "indexes", "hidden", "filtered"})
               /\ t.filtered = TRUE
<1> DEFINE t == [s EXCEPT !.cache = s.slides, !.indexes = kept, !.hidden = gone,
                          !.filtered = TRUE]
<1>1. /\ Changes(s, t, {"cache", "indexes", "hidden", "filtered"})
      /\ t.cache = s.slides /\ t.indexes = kept /\ t.hidden = gone /\ t.filtered = TRUE
    BY DEF Changes, Slider, Fields, Flags
<1> HIDE DEF t
<1>2. Slider(t)
    <2>1. \A f \in Flags : t[f] \in BOOLEAN
        BY <1>1, ZenonT(40) DEF Changes, Slider, Fields, Flags
    <2>2. /\ t.cache \in 0 .. MaxSlides \cup {None}
          /\ t.indexes \subseteq 0 .. MaxSlides - 1 /\ t.hidden \subseteq 0 .. MaxSlides - 1
        BY <1>1 DEF Slider
    <2>3. DOMAIN t = Fields
          /\ \A f \in Fields \ {"cache", "indexes", "hidden", "filtered"} : t[f] = s[f]
        BY <1>1 DEF Changes, Slider
    <2>4. QED
        BY <2>1, <2>2, <2>3 DEF Slider, Fields
<1>3. QED
    BY <1>1, <1>2 DEF t

(* slickUnfilter: they come back.                                             *)
LEMMA UnfilteredEffect ==
    ASSUME NEW s, Slider(s)
    PROVE  LET t == [s EXCEPT !.indexes = @ \cup s.hidden, !.hidden = {}]
           IN  Slider(t) /\ Changes(s, t, {"indexes", "hidden"})
<1> DEFINE all == s.indexes \cup s.hidden
           t == [s EXCEPT !.indexes = all, !.hidden = {}]
<1>1. all \subseteq 0 .. MaxSlides - 1
    BY DEF Slider
<1>2. [s EXCEPT !.indexes = @ \cup s.hidden, !.hidden = {}] = t
    OBVIOUS
<1> HIDE DEF all
<1>3. Changes(s, t, {"indexes", "hidden"}) /\ t.indexes = all /\ t.hidden = {}
    BY DEF Changes, Slider, Fields, Flags
<1> HIDE DEF t
<1>4. Slider(t)
    BY <1>1, <1>3, ZenonT(40) DEF Changes, Slider, Fields, Flags
<1>5. QED
    BY <1>2, <1>3, <1>4

(* A call that replaces the slides: `n` slides take the place of those of the *)
(* slider, of which `t` is what the call has changed before.                  *)
Replacement(n, t) ==
    /\ Slider(t)
    /\ Changes(slick, t, {"slides", "cache", "filtered", "indexes", "hidden"})
    /\ slick.filtered => t.filtered
    /\ SensibleBreakpoints
       => \/ t.filtered
          \/ /\ t.cache \in {None, n}
             /\ n \in {0, slick.slides - 1, slick.slides, slick.slides + 1}
    /\ Call(ReplaceSlides(t, n, width))

(* Adding, removing, filtering and unfiltering slides are such calls.         *)
LEMMA ReplacingCall ==
    ASSUME page \in Pages, Good(slick, page),
           AddSlide \/ RemoveSlide \/ FilterSlides \/ UnfilterSlides
    PROVE  \E n \in 0 .. MaxSlides : \E t : Replacement(n, t)
<1>1. Slider(slick) /\ MaxSlides \in Nat /\ slick.slides \in Nat
    BY BoundsAssumption, Numbers DEF Good, Sound
<1>2. ASSUME NEW n \in 0 .. MaxSlides, NEW t, Slider(t),
             Changes(slick, t, {"slides", "cache", "filtered", "indexes", "hidden"}),
             slick.filtered => t.filtered,
             SensibleBreakpoints
             => \/ t.filtered
                \/ /\ t.cache \in {None, n}
                   /\ n \in {0, slick.slides - 1, slick.slides, slick.slides + 1},
             Call(ReplaceSlides(t, n, width))
      PROVE  \E m \in 0 .. MaxSlides : \E u : Replacement(m, u)
    <2>1. Replacement(n, t)
        BY <1>2 DEF Replacement
    <2>2. QED
        BY <2>1
<1>3. CASE AddSlide
    <2> DEFINE n == slick.slides + 1
               s == [slick EXCEPT !.slides = @ + 1, !.cache = slick.slides + 1, !.hidden = {}]
               t == Numbered(s)
    <2>1. n \in 0 .. MaxSlides
        BY <1>1, <1>3 DEF AddSlide
    <2>2. Slider(s) /\ s.slides = n /\ s.cache = n
          /\ Changes(slick, s, {"slides", "cache", "hidden"})
        BY <1>1, <2>1, AddedEffect
    <2>3. Call(ReplaceSlides(t, s.slides, width))
        BY <1>3 DEF AddSlide
    <2> HIDE DEF s
    <2>4. Slider(t) /\ Changes(s, t, {"indexes"})
        BY <2>2, NumberedEffect
    <2> HIDE DEF t
    <2>5. Changes(slick, t, {"slides", "cache", "filtered", "indexes", "hidden"})
        BY <2>2, <2>4, ChangesAdd
    <2>6. t.filtered = slick.filtered /\ t.cache = n
        BY <1>1, <2>2, <2>4 DEF Changes, Slider, Fields, Flags
    <2>7. Call(ReplaceSlides(t, n, width))
        BY <2>2, <2>3
    <2>8. n \in {0, slick.slides - 1, slick.slides, slick.slides + 1}
        OBVIOUS
    <2> HIDE DEF n
    <2>9. QED
        BY <1>2, <2>1, <2>4, <2>5, <2>6, <2>7, <2>8
<1>4. CASE RemoveSlide
    <2>1. PICK p \in Partings : \E n \in Staying(p) \cap {slick.slides - 1, 0} :
              Call(ReplaceSlides([slick EXCEPT !.cache = n, !.indexes = p.kept,
                                               !.hidden = {}], n, width))
        BY <1>4 DEF RemoveSlide
    <2>2. PICK n \in Staying(p) \cap {slick.slides - 1, 0} :
              Call(ReplaceSlides([slick EXCEPT !.cache = n, !.indexes = p.kept,
                                               !.hidden = {}], n, width))
        BY <2>1
    <2>3. p.kept \subseteq 0 .. MaxSlides - 1 /\ n \in 0 .. MaxSlides
        BY <1>1, PartingRange
    <2> DEFINE t == [slick EXCEPT !.cache = n, !.indexes = p.kept, !.hidden = {}]
    <2>4. /\ Slider(t) /\ Changes(slick, t, {"cache", "indexes", "hidden"})
          /\ t.cache = n
        <3> DEFINE kept == p.kept
        <3>1. kept \in SUBSET (0 .. MaxSlides - 1)
            BY <2>3
        <3>2. t = [slick EXCEPT !.cache = n, !.indexes = kept, !.hidden = {}]
            OBVIOUS
        <3> HIDE DEF t, kept
        <3>3. Slider(slick) /\ n \in 0 .. MaxSlides
            BY <1>1, <2>3
        <3>4. Slider(t) /\ Changes(slick, t, {"cache", "indexes", "hidden"})
            <4>1. \E m \in 0 .. MaxSlides :
                      t = [slick EXCEPT !.cache = m, !.indexes = kept, !.hidden = {}]
                BY <3>2, <3>3
            <4>2. QED
                BY <3>1, <3>3, <4>1, RemovedEffect, Zenon
        <3>5. t.cache = n
            BY <3>2, <3>3 DEF Slider, Fields, Flags
        <3>6. QED
            BY <3>4, <3>5
    <2>5. Call(ReplaceSlides(t, n, width))
        BY <2>2
    <2> HIDE DEF t
    <2>6. Changes(slick, t, {"slides", "cache", "filtered", "indexes", "hidden"})
        BY <2>4 DEF Changes
    <2>7. t.filtered = slick.filtered
        BY <1>1, <2>4 DEF Changes, Slider, Fields, Flags
    <2>8. QED
        BY <1>2, <2>2, <2>3, <2>4, <2>5, <2>6, <2>7
<1>5. CASE FilterSlides
    <2>1. PICK p \in Partings : \E n \in Staying(p) :
              Call(ReplaceSlides([slick EXCEPT !.cache = slick.slides, !.indexes = p.kept,
                                     !.hidden = p.gone, !.filtered = TRUE], n, width))
        BY <1>5 DEF FilterSlides
    <2>2. PICK n \in Staying(p) :
              Call(ReplaceSlides([slick EXCEPT !.cache = slick.slides, !.indexes = p.kept,
                                     !.hidden = p.gone, !.filtered = TRUE], n, width))
        BY <2>1
    <2>3. /\ p.kept \subseteq 0 .. MaxSlides - 1 /\ p.gone \subseteq 0 .. MaxSlides - 1
          /\ n \in 0 .. MaxSlides
        BY <1>1, PartingRange
    <2> DEFINE t == [slick EXCEPT !.cache = slick.slides, !.indexes = p.kept,
                                  !.hidden = p.gone, !.filtered = TRUE]
    <2>4. /\ Slider(t) /\ Changes(slick, t, {"cache", "indexes", "hidden", "filtered"})
          /\ t.filtered = TRUE
        BY <1>1, <2>3, FilteredEffect
    <2>5. Call(ReplaceSlides(t, n, width))
        BY <2>2
    <2> HIDE DEF t
    <2>6. Changes(slick, t, {"slides", "cache", "filtered", "indexes", "hidden"})
        BY <2>4 DEF Changes
    <2>7. QED
        BY <1>2, <2>3, <2>4, <2>5, <2>6
<1>6. CASE UnfilterSlides
    <2> DEFINE n == slick.cache
               t == [slick EXCEPT !.indexes = @ \cup slick.hidden, !.hidden = {}]
    <2>1. n # None /\ Call(ReplaceSlides(t, n, width))
        BY <1>6 DEF UnfilterSlides
    <2>2. n \in 0 .. MaxSlides
        BY <1>1, <2>1 DEF Slider
    <2>3. SensibleBreakpoints => slick.filtered \/ n = slick.slides
        BY <1>1, <2>1 DEF Good, Sound, Fit
    <2>4. Slider(t) /\ Changes(slick, t, {"indexes", "hidden"})
        BY <1>1, UnfilteredEffect
    <2> HIDE DEF t
    <2>5. Changes(slick, t, {"slides", "cache", "filtered", "indexes", "hidden"})
        BY <2>4 DEF Changes
    <2>6. t.filtered = slick.filtered /\ t.cache = n
        BY <1>1, <2>4 DEF Changes, Slider, Fields, Flags
    <2> HIDE DEF n
    <2>7. QED
        BY <1>2, <2>1, <2>2, <2>3, <2>4, <2>5, <2>6
<1>7. QED
    BY <1>3, <1>4, <1>5, <1>6

(* Calls of the page. *)
LEMMA PageCallInv ==
    ASSUME IInv, PageCall
    PROVE  IInv'
<1>1. /\ page \in Pages /\ Good(slick, page) /\ width \in Nat /\ Slider(slick)
      /\ MaxSlides \in Nat /\ slick.slides \in Nat
    BY StepNumbers, Numbers DEF IInv
<1>2. CASE Play
    <2> DEFINE t == [AutoPlay(slick) EXCEPT !.options.autoplay = TRUE,
                        !.original.autoplay = @ \/ slick.activeBreakpoint = None,
                        !.paused = FALSE, !.focussed = FALSE, !.interrupted = FALSE]
    <2>1. Good(t, page) /\ t.callbacks = slick.callbacks
        BY <1>1, PlayGood
    <2>2. slick' = t
        BY <1>2 DEF Play, Call, Input
    <2> HIDE DEF t
    <2>3. Handled
        BY <2>1, <2>2 DEF Handled, Begins
    <2>4. QED
        BY <1>2, <2>3, InputInv DEF Play, Call, Input
<1>3. CASE Pause
    <2> DEFINE s == AutoPlayClear(slick)
               t == [s EXCEPT !.paused = TRUE]
    <2>1. Good(s, page) /\ s.callbacks = slick.callbacks
        BY <1>1, PlacingGood
    <2>2. slick' = t
        BY <1>3 DEF Pause, Call, Input
    <2> HIDE DEF s
    <2>3. /\ Slider(s) /\ s.focussed \in BOOLEAN /\ s.resizing \in BOOLEAN
          /\ s.focusing \in BOOLEAN /\ s.interrupted \in BOOLEAN
        BY <2>1, FlagsType
    <2>4. /\ Changes(s, t, {"paused"}) /\ t.paused = TRUE /\ t.focussed = s.focussed
          /\ t.resizing = s.resizing /\ t.focusing = s.focusing
          /\ t.interrupted = s.interrupted
        BY <2>3 DEF Changes, Slider, Fields, Flags
    <2> HIDE DEF t
    <2>5. Changes(s, t, {"paused", "interrupted", "focussed", "resizing", "focusing",
                         "windowWidth"})
        BY <2>4 DEF Changes
    <2>6. Good(t, page) /\ t.callbacks = s.callbacks
        BY <2>1, <2>3, <2>4, <2>5, FlagsGood
    <2>7. Handled
        BY <2>1, <2>2, <2>6 DEF Handled, Begins
    <2>8. QED
        BY <1>3, <2>7, InputInv DEF Pause, Call, Input
<1>4. CASE AddSlide \/ RemoveSlide \/ FilterSlides \/ UnfilterSlides
    <2>1. PICK n \in 0 .. MaxSlides : \E t : Replacement(n, t)
        BY <1>1, <1>4, ReplacingCall
    <2>2. PICK t : Replacement(n, t)
        BY <2>1
    <2>3. slick' = ReplaceSlides(t, n, width)
        BY <2>2 DEF Replacement, Call, Input
    <2>4. Good(ReplaceSlides(t, n, width), page)
          /\ Begins(slick, ReplaceSlides(t, n, width))
        BY <1>1, <2>2, ReplaceSlidesGood DEF Replacement
    <2>5. Handled
        BY <2>3, <2>4 DEF Handled
    <2>6. QED
        BY <2>2, <2>5, InputInv DEF Replacement, Call, Input
<1>5. CASE SetOption
    <2>1. PICK n \in slick.options.slidesToScroll .. MaxSlides :
              Call(Reinit(Unload(ChangeOptions(slick,
                       [slick.options EXCEPT !.slidesToShow = n])), width))
        BY <1>5 DEF SetOption
    <2> DEFINE t == Reinit(Unload(ChangeOptions(slick,
                        [slick.options EXCEPT !.slidesToShow = n])), width)
    <2>2. Good(t, page) /\ Begins(slick, t)
        BY <1>1, SetOptionGood
    <2>3. slick' = t
        BY <2>1 DEF Call, Input
    <2> HIDE DEF t
    <2>4. Handled
        BY <2>2, <2>3 DEF Handled
    <2>5. QED
        BY <2>1, <2>4, InputInv DEF Call, Input
<1>6. CASE UnslickCall
    <2>1. Handled
        BY <1>1, <1>6, DestroyGood DEF UnslickCall, Call, Input, Handled
    <2>2. QED
        BY <1>6, <2>1, InputInv DEF UnslickCall, Call, Input
<1>7. QED
    BY <1>2, <1>3, <1>4, <1>5, <1>6 DEF PageCall

(* What the browser calls later. *)
LEMMA AutoPlayTickInv ==
    ASSUME IInv, AutoPlayTick
    PROVE  IInv'
<1>1. page \in Pages /\ Good(slick, page)
    BY DEF IInv
<1>2. Handled
    BY <1>1, AutoPlayIteratorGood DEF AutoPlayTick, Later, Handled
<1>3. QED
    BY <1>2, HandledInv DEF AutoPlayTick, Later, IInv

(* postSlide takes its index off the queue.                                   *)
LEMMA AnimationEndInv ==
    ASSUME IInv, AnimationEnd
    PROVE  IInv'
<1> DEFINE t == PostSlide([slick EXCEPT !.callbacks = Tail(@),
                                        !.overtaken = @ /\ Len(slick.callbacks) > 1])
<1>1. Good(slick, page) /\ slick.callbacks # <<>>
    BY DEF IInv, AnimationEnd
<1>2. Good(t, page) /\ Len(t.callbacks) < Len(slick.callbacks)
    BY <1>1, AnimationEndGood
<1>3. slick' = t /\ UNCHANGED <<page, width, hasFocus, inputs>>
    BY DEF AnimationEnd, Later
<1> HIDE DEF t
<1>4. t.callbacks \in Seq(Int)
    BY <1>2 DEF Good, Sound, Slider
<1>5. Len(t.callbacks) \in Nat
    BY <1>4
<1>6. Len(t.callbacks) <= MaxCallbacks
    BY <1>2, <1>5, StepNumbers DEF IInv
<1>7. Good(slick', page')
    BY <1>2, <1>3
<1>8. Len(slick'.callbacks) <= MaxCallbacks
    BY <1>3, <1>6
<1>9. QED
    BY <1>3, <1>7, <1>8 DEF IInv

(* The timeout of a focus event.                                              *)
LEMMA FocusTimeoutInv ==
    ASSUME IInv, FocusTimeout
    PROVE  IInv'
<1> DEFINE t == [slick EXCEPT !.focusing = FALSE, !.focussed = hasFocus]
<1>1. Good(slick, page) /\ hasFocus \in BOOLEAN
    BY DEF IInv
<1>2. slick' = AutoPlay(t) /\ UNCHANGED <<page, width, hasFocus, inputs>>
    BY DEF FocusTimeout, Later
<1>3. /\ Slider(slick) /\ slick.paused \in BOOLEAN
      /\ slick.resizing \in BOOLEAN /\ slick.interrupted \in BOOLEAN
    BY <1>1, FlagsType
<1>4. /\ Changes(slick, t, {"focusing", "focussed"}) /\ t.paused = slick.paused
      /\ t.focussed = hasFocus /\ t.focusing = FALSE
      /\ t.resizing = slick.resizing /\ t.interrupted = slick.interrupted
    BY <1>3 DEF Changes, Slider, Fields, Flags
<1> HIDE DEF t
<1>5. Changes(slick, t, {"paused", "interrupted", "focussed", "resizing", "focusing",
                         "windowWidth"})
    BY <1>4 DEF Changes
<1>6. Good(t, page) /\ t.callbacks = slick.callbacks
    BY <1>1, <1>3, <1>4, <1>5, FlagsGood
<1>7. Good(AutoPlay(t), page) /\ AutoPlay(t).callbacks = t.callbacks
    BY <1>6, PlacingGood
<1>8. Handled /\ slick'.callbacks = slick.callbacks
    BY <1>2, <1>6, <1>7 DEF Handled, Begins
<1>9. QED
    BY <1>2, <1>8, HandledInv DEF IInv

(* The timeout of a resize, which may refresh the slider or take it apart.    *)
LEMMA ResizeTimeoutInv ==
    ASSUME IInv, ResizeTimeout
    PROVE  IInv'
<1> DEFINE r == [slick EXCEPT !.resizing = FALSE, !.windowWidth = width]
           s == CheckResponsive(r, width, FALSE, FALSE)
<1>1. Good(slick, page) /\ page \in Pages /\ width \in Nat
    BY StepNumbers DEF IInv
<1>2. /\ slick' \in {s, SetPosition(s)} /\ Len(slick.callbacks) < MaxCallbacks
      /\ UNCHANGED <<page, width, hasFocus, inputs>>
    BY DEF ResizeTimeout, Later
<1>3. /\ Slider(slick) /\ slick.paused \in BOOLEAN /\ slick.focussed \in BOOLEAN
      /\ slick.focusing \in BOOLEAN /\ slick.interrupted \in BOOLEAN
    BY <1>1, FlagsType
<1>4. /\ Changes(slick, r, {"resizing", "windowWidth"}) /\ r.resizing = FALSE
      /\ r.paused = slick.paused /\ r.focussed = slick.focussed
      /\ r.focusing = slick.focusing /\ r.interrupted = slick.interrupted
    BY <1>3 DEF Changes, Slider, Fields, Flags
<1> HIDE DEF r
<1>5. Changes(slick, r, {"paused", "interrupted", "focussed", "resizing", "focusing",
                         "windowWidth"})
    BY <1>4 DEF Changes
<1>6. Good(r, page) /\ r.callbacks = slick.callbacks
    BY <1>1, <1>3, <1>4, <1>5, FlagsGood
<1>7. Good(s, page) /\ Begins(r, s)
    BY <1>1, <1>6, CheckResponsiveGood
<1> HIDE DEF s
<1>8. Good(SetPosition(s), page) /\ SetPosition(s).callbacks = s.callbacks
    BY <1>7, PlacingGood
<1>9. Handled
    BY <1>2, <1>6, <1>7, <1>8 DEF Handled, Begins
<1>10. QED
    BY <1>2, <1>9, HandledInv DEF IInv

(* A slider just made is in order.                                            *)
LEMMA InitInv == Init => IInv
<1> SUFFICES ASSUME Init PROVE IInv
    OBVIOUS
<1>1. /\ page \in Pages /\ width \in Widths /\ hasFocus = FALSE /\ inputs = 0
      /\ slick = Construct(page, width)
    BY DEF Init
<1>2. width \in Nat /\ MaxInputs \in Nat /\ MaxCallbacks \in Nat
    BY <1>1, BoundsAssumption
<1>3. Good(slick, page) /\ slick.callbacks = <<>>
    BY <1>1, <1>2, ConstructGood
<1>4. Len(<<>>) = 0
    OBVIOUS
<1>5. Len(slick.callbacks) <= MaxCallbacks
    BY <1>2, <1>3, <1>4
<1>6. inputs \in 0 .. MaxInputs
    BY <1>1, <1>2
<1>7. QED
    BY <1>1, <1>3, <1>5, <1>6 DEF IInv

(* Every step, and every stutter, keeps the invariant.                        *)
LEMMA NextInv ==
    ASSUME IInv, [Next]_vars
    PROVE  IInv'
<1>1. CASE Next
    BY <1>1, UserInputInv, PageCallInv, AutoPlayTickInv, AnimationEndInv,
       FocusTimeoutInv, ResizeTimeoutInv DEF Next
<1>2. CASE UNCHANGED vars
    BY <1>2 DEF vars, IInv
<1>3. QED
    BY <1>1, <1>2

(* The invariant holds throughout.                                            *)
LEMMA Invariance == Spec => []IInv
<1>1. IInv /\ [Next]_vars => IInv'
    BY NextInv
<1>2. QED
    BY InitInv, <1>1, PTL DEF Spec

--------------------------------------------------------------------------------
(* Where animations end. *)

(* An animation is under way that waitForAnimate protects from others, and    *)
(* that nothing has overtaken.                                                *)
Protected(s) ==
    /\ s.callbacks # <<>> /\ ~s.overtaken /\ ~s.unslicked
    /\ s.options.waitForAnimate /\ s.options.infinite /\ ~s.options.fade

(* `a` and `b` differ by a round of `n` slides, or not at all. *)
RoundsApart(n, a, b) == a - b \in {-n, 0, n}

(* The strip is on its way to the current slide, or to its place a round      *)
(* before or after it, if all pages are whole.                                *)
Wrapped(s) ==
    Protected(s)
    => /\ s.animating /\ s.slides > s.options.slidesToShow
       /\ s.slides % s.options.slidesToScroll = 0
          => /\ s.track \in Int
             /\ RoundsApart(s.slides, s.track, Left(s.options, s.slides, s.current))

(* A slider, and where its animations end. *)
Aligned(s) == Slider(s) /\ Wrapped(s)

(* With whole pages the slide slideHandler chooses is the one it was asked    *)
(* for, give or take a round, and so is the place of the strip.               *)
LEMMA WholeRounds ==
    ASSUME NEW o \in Options, NEW n \in Nat, NEW index \in Int, o.infinite,
           n > o.slidesToShow, n % o.slidesToScroll = 0
    PROVE  RoundsApart(n, Left(o, n, index), Left(o, n, AnimSlide(o, n, index)))
<1> DEFINE slide == AnimSlide(o, n, index)
           half == IF o.centerMode THEN Half(o) ELSE 0
<1>1. /\ o.slidesToShow \in Nat \ {0} /\ o.slidesToScroll \in Nat \ {0}
      /\ Half(o) \in Int
    BY DEF Options, Half
<1>2. slide \in Int /\ slide - index \in {-n, 0, n}
    BY <1>1 DEF AnimSlide
<1> HIDE DEF slide
<1>3. ASSUME NEW i \in Int PROVE Left(o, n, i) = i - half
    BY <1>1 DEF Left
<1>4. half \in Int
    BY <1>1
<1> HIDE DEF half
<1>5. Left(o, n, index) = index - half /\ Left(o, n, slide) = slide - half
    BY <1>2, <1>3
<1>6. QED
    BY <1>2, <1>4, <1>5 DEF RoundsApart, slide

(* A change of fields that do not matter to where animations end. *)
LEMMA AlignedStays ==
    ASSUME NEW s, NEW t, Aligned(s), Slider(t),
           Changes(s, t, Fields \ {"animating", "unslicked", "callbacks", "options",
                                   "overtaken", "current", "slides", "track"})
    PROVE  Aligned(t)
<1>1. /\ t.animating = s.animating /\ t.unslicked = s.unslicked
      /\ t.callbacks = s.callbacks /\ t.options = s.options
      /\ t.overtaken = s.overtaken /\ t.current = s.current
      /\ t.slides = s.slides /\ t.track = s.track
    BY DEF Aligned, Changes, Slider, Fields, Flags
<1>2. QED
    BY <1>1 DEF Aligned, Wrapped, Protected

(* setPosition puts the strip where the animation would end. *)
LEMMA SetPositionAligned ==
    ASSUME NEW s, Aligned(s)
    PROVE  Aligned(SetPosition(s))
<1> DEFINE t == SetPosition(s)
           left == Left(s.options, s.slides, s.current)
<1>1. Slider(t) /\ Changes(s, t, {"track"})
    BY SetPositionEffect DEF Aligned
<1>2. ~s.options.fade => t.track = left
    BY DEF Aligned, SetPosition, SetCSS, Slider, Fields, Flags
<1>3. left \in Int /\ s.slides \in Nat
    BY Numbers, LeftType, Zenon DEF Aligned
<1> HIDE DEF t
<1>4. /\ t.animating = s.animating /\ t.unslicked = s.unslicked
      /\ t.callbacks = s.callbacks /\ t.options = s.options
      /\ t.overtaken = s.overtaken /\ t.current = s.current /\ t.slides = s.slides
    BY <1>1 DEF Aligned, Changes, Slider, Fields, Flags
<1>5. ~s.options.fade => t.track \in Int /\ RoundsApart(s.slides, t.track, left)
    <2> HIDE DEF left
    <2>1. QED
        BY <1>2, <1>3 DEF RoundsApart
<1>6. QED
    BY <1>1, <1>4, <1>5 DEF Aligned, Wrapped, Protected, t

(* The slider was taken apart, or its strip follows no finger. *)
Free(s) == s.unslicked \/ s.track # Dragged

(* setPosition takes the strip from the finger. *)
LEMMA SetPositionFree ==
    ASSUME NEW s, Slider(s)
    PROVE  SetPosition(s).track # Dragged
<1>1. Left(s.options, s.slides, s.current) \in Int /\ s.current \in Int
    BY Numbers, LeftType, Zenon
<1>2. SetPosition(s).track \in {Left(s.options, s.slides, s.current), s.current}
    BY DEF SetPosition, SetFade, SetCSS, Slider, Fields, Flags
<1>3. QED
    BY <1>1, <1>2, TrackAssumption

(* So does postSlide. *)
LEMMA PostSlideFree ==
    ASSUME NEW s, Slider(s)
    PROVE  Free(PostSlide(s))
<1> DEFINE t == [s EXCEPT !.animating = FALSE]
           u == SetPosition(t)
<1>1. CASE s.unslicked
    BY <1>1 DEF PostSlide, Free
<1>2. CASE ~s.unslicked
    <2>1. Changes(s, t, {"animating"}) /\ t.animating = FALSE
        BY DEF Changes, Slider, Fields, Flags
    <2>2. PostSlide(s) \in {u, AutoPlay(u)}
        BY <1>2 DEF PostSlide
    <2> HIDE DEF t
    <2>3. Slider(t)
        BY <2>1 DEF Changes, Slider, Fields, Flags
    <2>4. Slider(u) /\ u.track # Dragged
        BY <2>3, SetPositionEffect, SetPositionFree
    <2> HIDE DEF u
    <2>5. AutoPlay(u).track = u.track
        BY <2>4 DEF AutoPlay, Slider, Fields, Flags
    <2>6. QED
        BY <2>2, <2>4, <2>5 DEF Free
<1>3. QED
    BY <1>1, <1>2

(* And slideHandler, unless it leaves the slider as it is.                    *)
LEMMA SlideHandlerFree ==
    ASSUME NEW s, Slider(s), NEW index \in Int, NEW dontAnimate
    PROVE  LET t == SlideHandler(s, index, dontAnimate)
           IN  /\ t = s \/ Free(t)
               /\ ~IgnoresSlide(s, index) /\ ~s.options.fade => Free(t)
<1> DEFINE o == s.options
           n == s.slides
           slide == AnimSlide(o, n, index)
           going == SetSlideClasses([s EXCEPT !.ticking = @ /\ ~s.options.autoplay,
                                              !.animating = TRUE, !.current = slide], slide)
           position == Left(o, n, index)
           here == Left(o, n, s.current)
           t == SlideHandler(s, index, dontAnimate)
<1>1. o \in Options /\ n \in Nat /\ s.current \in Int
    BY Numbers
<1>2. slide \in Int /\ position \in Int /\ here \in Int
    BY <1>1, AnimSlideRange, LeftType, Zenon
<1>3. Slider(going) /\ going.current = slide
    BY <1>2, DepartureEffect
<1>4. t = IF IgnoresSlide(s, index) THEN s
          ELSE IF Beyond(o, n, index) THEN SnapBack(s, dontAnimate)
          ELSE IF dontAnimate THEN PostSlide(going)
          ELSE IF o.fade THEN FadeSlide(going)
          ELSE AnimateSlide(going, position)
    BY DEF SlideHandler
<1>5. SnapBack(s, dontAnimate) = IF o.fade THEN s
                                 ELSE IF dontAnimate THEN PostSlide(s)
                                 ELSE AnimateSlide(s, here)
    BY DEF SnapBack
<1> HIDE DEF t, going, slide, position, here
<1>6. Free(PostSlide(s)) /\ Free(PostSlide(going))
    BY <1>3, PostSlideFree
<1>7. Free(AnimateSlide(s, here)) /\ Free(AnimateSlide(going, position))
    <2>1. /\ AnimateSlide(s, here).track = here
          /\ AnimateSlide(going, position).track = position
        BY <1>3 DEF AnimateSlide, Slider, Fields, Flags
    <2>2. QED
        BY <1>2, <2>1, TrackAssumption DEF Free
<1>8. Free(FadeSlide(going))
    <2>1. FadeSlide(going).track = slide
        BY <1>3 DEF FadeSlide, Slider, Fields, Flags
    <2>2. QED
        BY <1>2, <2>1, TrackAssumption DEF Free
<1>9. QED
    BY <1>4, <1>5, <1>6, <1>7, <1>8 DEF t

(* slideHandler begins an animation that ends where the slide is. *)
LEMMA SlideHandlerAligned ==
    ASSUME NEW s, Aligned(s), NEW index \in Int, NEW dontAnimate
    PROVE  Aligned(SlideHandler(s, index, dontAnimate))
<1> DEFINE o == s.options
           n == s.slides
           slide == AnimSlide(o, n, index)
           going == SetSlideClasses([s EXCEPT !.ticking = @ /\ ~s.options.autoplay,
                                              !.animating = TRUE, !.current = slide], slide)
           position == Left(o, n, index)
           t == SlideHandler(s, index, dontAnimate)
<1>1. Slider(s) /\ o \in Options /\ n \in Nat /\ o.slidesToShow \in Nat
    BY Numbers DEF Aligned, Options
<1>2. slide \in Int /\ position \in Int
    BY <1>1, AnimSlideRange, LeftType, Zenon
<1>3. /\ Slider(going) /\ Changes(s, going, {"ticking", "animating", "current", "shown"})
      /\ going.animating = TRUE /\ going.current = slide
    BY <1>1, <1>2, DepartureEffect
<1>4. t = IF IgnoresSlide(s, index) THEN s
          ELSE IF Beyond(o, n, index) THEN SnapBack(s, dontAnimate)
          ELSE IF dontAnimate THEN PostSlide(going)
          ELSE IF o.fade THEN FadeSlide(going)
          ELSE AnimateSlide(going, position)
    BY DEF SlideHandler
<1>5. Goes(s, t)
    BY <1>1, SlideHandlerEffect
<1>6. /\ o.infinite /\ n > o.slidesToShow /\ n % o.slidesToScroll = 0
      => RoundsApart(n, position, Left(o, n, slide))
    BY <1>1, WholeRounds
<1> HIDE DEF t, going, slide, position
<1>7. /\ t.options = o /\ t.slides = n /\ t.overtaken = s.overtaken
      /\ t.unslicked = s.unslicked
    BY <1>1, <1>5 DEF Goes, Changes, Going, Slider, Fields, Flags
<1>8. CASE IgnoresSlide(s, index)
    BY <1>4, <1>8 DEF t
<1>9. CASE ~Protected(t)
    BY <1>5, <1>9 DEF Aligned, Goes, Wrapped, t
<1>10. CASE ~IgnoresSlide(s, index) /\ Protected(t)
    <2>1. o.infinite /\ o.waitForAnimate /\ ~o.fade
        BY <1>7, <1>10 DEF Protected
    <2>2. ~s.animating /\ n > o.slidesToShow
        BY <1>1, <1>10, <2>1 DEF IgnoresSlide
    <2>3. s.callbacks = <<>>
        BY <1>7, <1>10, <2>1, <2>2 DEF Aligned, Wrapped, Protected
    <2>4. t \in {PostSlide(going), AnimateSlide(going, position)}
        BY <1>4, <1>10, <2>1 DEF Beyond
    <2>5. CASE t = PostSlide(going)
        <3>1. Changes(going, t, {"animating", "track", "ticking"})
            BY <1>3, <2>5, PostSlideEffect
        <3>2. t.callbacks = <<>>
            BY <1>3, <2>3, <3>1 DEF Changes, Slider, Fields, Flags
        <3>3. QED
            BY <1>10, <3>2 DEF Protected
    <2>6. CASE t = AnimateSlide(going, position)
        <3>1. t.track = position /\ t.current = slide /\ t.animating = TRUE
            BY <1>3, <2>6 DEF AnimateSlide, Slider, Fields, Flags
        <3>2. Wrapped(t)
            BY <1>2, <1>6, <1>7, <2>1, <2>2, <3>1 DEF Wrapped
        <3>3. QED
            BY <1>5, <3>2 DEF Aligned, Goes, t
    <2>7. QED
        BY <2>4, <2>5, <2>6
<1>11. QED
    BY <1>8, <1>9, <1>10

(* Arrows, keys, dots, goTo(), autoplay and the end of refresh all call       *)
(* slideHandler.                                                              *)
LEMMA GoingAligned ==
    ASSUME NEW s, Aligned(s)
    PROVE  /\ \A message : Aligned(ChangeSlide(s, message))
           /\ \A index \in Int : \A dontAnimate :
                 Aligned(ChangeSlideTo(s, index, dontAnimate))
           /\ Aligned(AutoPlayIterator(s))
<1>1. s.options \in Options /\ s.slides \in Nat /\ s.current \in Int
    BY Numbers DEF Aligned
<1>2. ASSUME NEW message PROVE Aligned(ChangeSlide(s, message))
    <2>1. PICK index \in {PreviousIndex(s.options, s.slides, s.current),
                          NextIndex(s.options, s.slides, s.current)} :
              ChangeSlide(s, message) = SlideHandler(s, index, FALSE)
        BY DEF ChangeSlide
    <2>2. index \in Int
        BY <1>1, ChangeRange
    <2>3. QED
        BY <2>1, <2>2, SlideHandlerAligned
<1>3. ASSUME NEW index \in Int, NEW dontAnimate
      PROVE  Aligned(ChangeSlideTo(s, index, dontAnimate))
    <2>1. CheckNavigable(s.options, s.slides, index) \in Int
        BY <1>1, CheckNavigableRange
    <2>2. QED
        BY <2>1, SlideHandlerAligned DEF ChangeSlideTo
<1>4. Aligned(AutoPlayIterator(s))
    <2>1. CASE s.paused \/ s.interrupted \/ s.focussed
        BY <2>1 DEF AutoPlayIterator
    <2>2. CASE ~(s.paused \/ s.interrupted \/ s.focussed)
        <3>1. s.direction \in {0, 1}
            BY DEF Aligned, Slider
        <3>2. PICK turn \in {0, 1} :
                  \E index \in {s.current - s.options.slidesToScroll,
                                s.current + s.options.slidesToScroll} :
                      AutoPlayIterator(s)
                      = SlideHandler([s EXCEPT !.direction = turn], index, FALSE)
            BY <2>2, <3>1 DEF AutoPlayIterator
        <3> DEFINE t == [s EXCEPT !.direction = turn]
        <3>3. PICK index \in {s.current - s.options.slidesToScroll,
                              s.current + s.options.slidesToScroll} :
                  AutoPlayIterator(s) = SlideHandler(t, index, FALSE)
            BY <3>2
        <3>4. index \in Int
            BY <1>1 DEF Options
        <3>5. Changes(s, t, {"direction"}) /\ t.direction = turn
            BY DEF Aligned, Changes, Slider, Fields, Flags
        <3> HIDE DEF t
        <3>6. Slider(t)
            BY <3>5 DEF Aligned, Changes, Slider, Fields, Flags
        <3>7. Aligned(t)
            <4>1. Changes(s, t, Fields \ {"animating", "unslicked", "callbacks", "options",
                                          "overtaken", "current", "slides", "track"})
                BY <3>5 DEF Changes, Fields, Flags
            <4>2. QED
                BY <3>6, <4>1, AlignedStays
        <3>8. QED
            BY <3>3, <3>4, <3>7, SlideHandlerAligned
    <2>3. QED
        BY <2>1, <2>2
<1>5. QED
    BY <1>2, <1>3, <1>4

(* The strip that init builds follows no finger. *)
LEMMA InitBuildFree ==
    ASSUME NEW s, Slider(s)
    PROVE  Free(InitBuild(s))
<1> DEFINE t == BuildOut(s)
           u == SetPosition(t)
<1>1. Slider(t)
    BY BuildOutEffect
<1>2. InitBuild(s) = [u EXCEPT !.listening = TRUE, !.hoverLast = FALSE]
    BY DEF InitBuild, InitializeEvents
<1> HIDE DEF t
<1>3. Slider(u) /\ u.track # Dragged
    BY <1>1, SetPositionEffect, SetPositionFree
<1> HIDE DEF u
<1>4. InitBuild(s).track = u.track
    BY <1>2, <1>3 DEF Slider, Fields, Flags
<1>5. QED
    BY <1>3, <1>4 DEF Free

(* refresh notes that it overtakes the animations under way, before it goes   *)
(* to the current slide.  The strip it builds is where that is.               *)
LEMMA RefreshAligned ==
    ASSUME NEW s, Slider(s), NEW initializing
    PROVE  Aligned(Refresh(s, initializing)) /\ Free(Refresh(s, initializing))
<1> DEFINE lastVisible == s.slides - s.options.slidesToShow
           current == IF s.slides <= s.options.slidesToShow THEN 0
                      ELSE IF ~s.options.infinite /\ s.current > lastVisible
                      THEN lastVisible ELSE s.current
           r == [Destroy(s) EXCEPT
                   !.current = current, !.animating = FALSE, !.dragging = FALSE,
                   !.direction = 1, !.touch = s.firstTouch, !.sharedTouch = TRUE,
                   !.unslicked = FALSE, !.overtaken = s.callbacks # <<>>]
           t == InitBuild(r)
           u == InitEnd(t)
<1>1. Refresh(s, initializing) = IF initializing THEN u ELSE ChangeSlideTo(u, current, FALSE)
    BY DEF Refresh
<1>2. s.slides \in Nat /\ s.current \in Int /\ s.options.slidesToShow \in Nat \ {0}
    BY Numbers DEF Options
<1>3. current \in Int
    BY <1>2
<1> HIDE DEF current
<1>4. /\ Slider(r)
      /\ Changes(s, r, {"listening", "focusable", "rebound", "touch", "sharedTouch",
                        "ticking", "clones", "shown", "indexes", "unslicked", "current",
                        "animating", "dragging", "direction", "overtaken"})
      /\ ~r.overtaken => s.callbacks = <<>>
    BY <1>3, ResetEffect
<1> HIDE DEF r
<1>5. /\ Slider(t)
      /\ Changes(r, t, {"indexes", "options", "original", "clones", "shown", "track",
                        "listening", "hoverLast"})
      /\ Free(t)
    BY <1>4, InitBuildEffect, InitBuildFree
<1> HIDE DEF t
<1>6. Slider(u) /\ Changes(t, u, {"focusable", "paused", "ticking"})
    BY <1>5, InitEndEffect
<1> HIDE DEF u
<1>7. r.callbacks = s.callbacks
    BY <1>4 DEF Changes, Slider, Fields, Flags
<1>8. t.callbacks = r.callbacks /\ t.overtaken = r.overtaken
    BY <1>4, <1>5 DEF Changes, Slider, Fields, Flags
<1>9. u.callbacks = t.callbacks /\ u.overtaken = t.overtaken
    BY <1>5, <1>6 DEF Changes, Slider, Fields, Flags
<1>10. Aligned(u)
    BY <1>4, <1>6, <1>7, <1>8, <1>9 DEF Aligned, Wrapped, Protected
<1>11. Aligned(ChangeSlideTo(u, current, FALSE))
    BY <1>3, <1>10, GoingAligned
<1>12. Free(u)
    BY <1>5, <1>6 DEF Free, Changes, Slider, Fields, Flags
<1>13. Free(ChangeSlideTo(u, current, FALSE))
    <2>1. CheckNavigable(u.options, u.slides, current) \in Int
        BY <1>3, <1>6, Numbers, CheckNavigableRange
    <2>2. QED
        BY <1>6, <1>12, <2>1, SlideHandlerFree DEF ChangeSlideTo
<1>14. QED
    BY <1>1, <1>10, <1>11, <1>12, <1>13

(* Nothing animates a slider that was taken apart. *)
LEMMA DestroyAligned ==
    ASSUME NEW s, Slider(s)
    PROVE  Aligned(Destroy(s))
BY DestroyEffect DEF Aligned, Wrapped, Protected

(* checkResponsive leaves the slider alone, takes it apart or refreshes it. *)
LEMMA CheckResponsiveAligned ==
    ASSUME page \in Pages, NEW s, Aligned(s), NEW w \in Nat,
           NEW initial \in BOOLEAN, NEW forceUpdate
    PROVE  LET t == CheckResponsive(s, w, initial, forceUpdate)
           IN  Aligned(t) /\ (t = s \/ Free(t))
<1> DEFINE target == TargetBreakpoint(w)
           change == page.responsive[target]
           current == IF initial THEN 0 ELSE s.current
           entered == [s EXCEPT !.activeBreakpoint = target, !.current = current]
           Entered(o) == [entered EXCEPT !.options = o]
           alone == [s EXCEPT !.activeBreakpoint = target]
           t == CheckResponsive(s, w, initial, forceUpdate)
<1>1. target \in DOMAIN page.responsive \cup {None}
    BY TargetBreakpointType
<1>2. Slider(s) /\ s.original \in Options /\ current \in Int
    BY DEF Aligned, Slider
<1>3. entered = [s EXCEPT !.activeBreakpoint = target,
                          !.current = IF initial THEN 0 ELSE @]
    BY DEF current
<1>4. t = IF target = s.activeBreakpoint /\ ~(forceUpdate /\ target # None) THEN s
          ELSE IF target = None THEN Refresh(Entered(s.original), initial)
          ELSE IF change = Unslick THEN Destroy(alone)
          ELSE Refresh(Entered(Extended(s.original, change)), initial)
    BY <1>3 DEF CheckResponsive
<1> HIDE DEF t
<1>5. ASSUME NEW o \in Options PROVE Slider(Entered(o))
    <2>1. /\ Changes(s, Entered(o), {"activeBreakpoint", "current", "options"})
          /\ Entered(o).current = current /\ Entered(o).options = o
        <3> HIDE DEF target, current
        <3>1. QED
            BY <1>2 DEF Changes, Slider, Fields, Flags
    <2> HIDE DEF Entered
    <2>2. QED
        BY <1>2, <2>1 DEF Changes, Slider, Fields, Flags
<1>6. Slider(alone)
    <2>1. Changes(s, alone, {"activeBreakpoint"})
        BY <1>2 DEF Changes, Slider, Fields, Flags
    <2> HIDE DEF alone
    <2>2. QED
        BY <1>2, <2>1 DEF Changes, Slider, Fields, Flags
<1>7. CASE target # None /\ change # Unslick
    <2>1. page.settings \in Options /\ Sensible(Extended(page.settings, change))
        BY <1>1, <1>7, PagesAssumption DEF Sensible
    <2>2. Extended(s.original, change) \in Options
        BY <1>2, <2>1, ExtendedType DEF Sensible
    <2> HIDE DEF Entered, change, target
    <2>3. t \in {s, Refresh(Entered(Extended(s.original, change)), initial)}
        BY <1>4, <1>7
    <2>4. QED
        BY <1>5, <2>2, <2>3, RefreshAligned DEF t
<1>8. CASE target = None \/ change = Unslick
    <2> HIDE DEF Entered, change, target, alone
    <2>1. t \in {s, Refresh(Entered(s.original), initial), Destroy(alone)}
        BY <1>4, <1>8
    <2>2. QED
        BY <1>2, <1>5, <1>6, <2>1, RefreshAligned, DestroyAligned, DestroyEffect
           DEF t, Free
<1>9. QED
    BY <1>7, <1>8

(* Marking slides, and setting or clearing the interval. *)
LEMMA MarkingAligned ==
    ASSUME NEW s, Aligned(s), NEW index \in Int,
           NEW t \in {SetSlideClasses(s, index), AutoPlay(s), AutoPlayClear(s)}
    PROVE  Aligned(t)
<1>1. Slider(t) /\ Changes(s, t, {"shown", "ticking"})
    <2>1. CASE t = SetSlideClasses(s, index)
        <3>1. Slider(t) /\ Changes(s, t, {"shown"})
            BY <2>1, SetSlideClassesEffect DEF Aligned
        <3>2. QED
            BY <3>1 DEF Changes
    <2>2. CASE t \in {AutoPlay(s), AutoPlayClear(s)}
        <3>1. Slider(t) /\ Changes(s, t, {"ticking"})
            BY <2>2, TickingEffect DEF Aligned
        <3>2. QED
            BY <3>1 DEF Changes
    <2>3. QED
        BY <2>1, <2>2
<1>2. Changes(s, t, Fields \ {"animating", "unslicked", "callbacks", "options",
                              "overtaken", "current", "slides", "track"})
    BY <1>1 DEF Changes, Fields, Flags
<1>3. QED
    BY <1>1, <1>2, AlignedStays

(* selectHandler marks a slide or goes to one. *)
LEMMA SelectAligned ==
    ASSUME NEW s, Aligned(s), NEW index \in Int
    PROVE  Aligned(SelectHandler(s, index))
<1> DEFINE lost == index \notin -s.clones .. s.slides + s.clones - 1
           t == [s EXCEPT !.misled = @ \/ lost]
<1>1. SelectHandler(s, index) \in {SetSlideClasses(s, index), SlideHandler(t, index, FALSE)}
    BY DEF SelectHandler
<1>2. lost \in BOOLEAN
    OBVIOUS
<1> HIDE DEF lost
<1>3. Slider(t) /\ Changes(s, t, {"misled"})
    BY <1>2, MisledEffect DEF Aligned
<1> HIDE DEF t
<1>4. Aligned(t)
    <2>1. Changes(s, t, Fields \ {"animating", "unslicked", "callbacks", "options",
                                  "overtaken", "current", "slides", "track"})
        BY <1>3 DEF Changes, Fields, Flags
    <2>2. QED
        BY <1>3, <2>1, AlignedStays
<1>5. QED
    BY <1>1, <1>4, MarkingAligned, SlideHandlerAligned

(* reinit notes that it overtakes the animations under way, before it looks   *)
(* at breakpoints and places the strip.                                       *)
LEMMA RebuildAligned ==
    ASSUME page \in Pages, NEW s, Slider(s), NEW current \in Int, NEW w \in Nat
    PROVE  Aligned(Rebuild(s, current, w)) /\ Free(Rebuild(s, current, w))
<1> DEFINE late    == s.overtaken \/ s.callbacks # <<>>
           begun   == [InitSlideEvents(s) EXCEPT !.current = current,
                                                 !.overtaken = @ \/ s.callbacks # <<>>]
           set     == SetupInfinite(begun)
           rebuilt == CheckResponsive(set, w, FALSE, TRUE)
           bound   == [rebuilt EXCEPT !.rebound =
                          @ \/ (~rebuilt.unslicked /\ rebuilt.options.focusOnSelect)]
           marked  == SetSlideClasses(bound, bound.current)
           placed  == SetPosition(marked)
           quiet   == ~placed.options.autoplay
           ready   == [FocusHandler(placed) EXCEPT !.paused = ~placed.options.autoplay]
           t       == Rebuild(s, current, w)
<1>1. t = AutoPlay(ready)
    BY DEF Rebuild
<1>2. begun = [s EXCEPT !.hoverLast = TRUE, !.current = current, !.overtaken = late]
    <2>1. InitSlideEvents(s).overtaken = s.overtaken
        BY DEF InitSlideEvents, Slider, Fields, Flags
    <2>2. begun = [InitSlideEvents(s) EXCEPT !.current = current, !.overtaken = late]
        BY <2>1
    <2> HIDE DEF begun, late
    <2>3. QED
        BY <2>2 DEF InitSlideEvents
<1>3. late \in BOOLEAN
    OBVIOUS
<1> HIDE DEF begun, late, t
<1>4. PICK v \in BOOLEAN : v = late
    BY <1>3
<1>5. /\ Changes(s, begun, {"hoverLast", "current", "overtaken"})
      /\ begun.hoverLast = TRUE /\ begun.current = current /\ begun.overtaken = v
    <2>1. begun = [s EXCEPT !.hoverLast = TRUE, !.current = current, !.overtaken = v]
        BY <1>2, <1>4
    <2>2. QED
        BY <2>1 DEF Changes, Slider, Fields, Flags
<1>6. Slider(begun) /\ begun.callbacks = s.callbacks
    BY <1>5, ZenonT(40) DEF Changes, Slider, Fields, Flags
<1>7. Slider(set) /\ Changes(begun, set, {"options", "original", "clones"})
    BY <1>6, SetupInfiniteEffect
<1> HIDE DEF set
<1>8. set.callbacks = begun.callbacks /\ set.overtaken = begun.overtaken
    BY <1>6, <1>7 DEF Changes, Slider, Fields, Flags
<1>9. ~late => s.callbacks = <<>>
    BY DEF late
<1>10. Aligned(set)
    BY <1>4, <1>5, <1>6, <1>7, <1>8, <1>9 DEF Aligned, Wrapped, Protected
<1>11. Aligned(rebuilt)
    BY <1>10, CheckResponsiveAligned
<1> HIDE DEF rebuilt
<1>12. Slider(bound) /\ Changes(rebuilt, bound, {"rebound"})
    BY <1>11, BoundEffect DEF Aligned
<1> HIDE DEF bound
<1>13. Aligned(bound)
    <2>1. Changes(rebuilt, bound, Fields \ {"animating", "unslicked", "callbacks", "options",
                                            "overtaken", "current", "slides", "track"})
        BY <1>12 DEF Changes, Fields, Flags
    <2>2. QED
        BY <1>11, <1>12, <2>1, AlignedStays
<1>14. bound.current \in Int
    BY <1>12 DEF Slider
<1>15. Aligned(marked)
    BY <1>14, <1>13, MarkingAligned
<1> HIDE DEF marked
<1>16. Aligned(placed) /\ placed.track # Dragged
    BY <1>15, SetPositionAligned, SetPositionFree DEF Aligned
<1>17. quiet \in BOOLEAN
    OBVIOUS
<1>18. ready = [placed EXCEPT !.focusable = TRUE, !.paused = quiet]
    BY DEF FocusHandler
<1> HIDE DEF placed, quiet, ready
<1>19. PICK q \in BOOLEAN : ready = [placed EXCEPT !.focusable = TRUE, !.paused = q]
    BY <1>17, <1>18
<1>20. /\ Changes(placed, ready, {"focusable", "paused"})
       /\ ready.focusable = TRUE /\ ready.paused = q
    BY <1>16, <1>19 DEF Aligned, Changes, Slider, Fields, Flags
<1>21. Slider(ready)
    BY <1>16, <1>20, ZenonT(40) DEF Aligned, Changes, Slider, Fields, Flags
<1>22. Aligned(ready)
    <2>1. Changes(placed, ready, Fields \ {"animating", "unslicked", "callbacks", "options",
                                           "overtaken", "current", "slides", "track"})
        BY <1>20 DEF Changes, Fields, Flags
    <2>2. QED
        BY <1>16, <1>21, <2>1, AlignedStays
<1>23. Aligned(t)
    BY <1>1, <1>22, MarkingAligned
<1>24. t.track = placed.track
    <2>1. Changes(ready, t, {"ticking"})
        BY <1>1, <1>21, TickingEffect
    <2>2. QED
        BY <1>16, <1>20, <1>21, <2>1 DEF Aligned, Changes, Slider, Fields, Flags
<1>25. QED
    BY <1>16, <1>23, <1>24 DEF Free, t

(* reinit chooses a slide. *)
LEMMA ReinitAligned ==
    ASSUME page \in Pages, NEW s, Slider(s), NEW w \in Nat
    PROVE  Aligned(Reinit(s, w)) /\ Free(Reinit(s, w))
<1> DEFINE current == IF s.slides <= s.options.slidesToShow THEN 0
                      ELSE IF s.current >= s.slides /\ s.current # 0
                      THEN s.current - s.options.slidesToScroll ELSE s.current
<1>1. s.current \in Int /\ s.options.slidesToScroll \in Nat
    BY Numbers DEF Options
<1>2. current \in Int
    BY <1>1
<1>3. Reinit(s, w) = Rebuild(s, current, w)
    BY DEF Reinit
<1> HIDE DEF current
<1>4. QED
    BY <1>2, <1>3, RebuildAligned

(* Adding, removing and filtering slides. *)
LEMMA ReplaceSlidesAligned ==
    ASSUME page \in Pages, NEW s, Slider(s), NEW n \in 0 .. MaxSlides, NEW w \in Nat
    PROVE  Aligned(ReplaceSlides(s, n, w)) /\ Free(ReplaceSlides(s, n, w))
<1> DEFINE t == [Unload(s) EXCEPT !.slides = n]
<1>1. t = [s EXCEPT !.clones = 0, !.shown = {}, !.slides = n]
    BY DEF Unload
<1> HIDE DEF t
<1>2. /\ Changes(s, t, {"clones", "shown", "slides"})
      /\ t.clones \in Nat /\ t.shown \subseteq Int /\ t.slides = n
    BY <1>1 DEF Changes, Slider, Fields, Flags
<1>3. Slider(t)
    <2>1. \A f \in Flags : t[f] \in BOOLEAN
        <3>1. \A f \in Flags : t[f] = s[f]
            BY <1>2 DEF Changes, Slider, Fields, Flags
        <3>2. QED
            BY <3>1 DEF Slider
    <2>2. /\ DOMAIN t = Fields
          /\ t.options = s.options /\ t.original = s.original /\ t.cache = s.cache
          /\ t.current = s.current /\ t.direction = s.direction /\ t.track = s.track
          /\ t.callbacks = s.callbacks /\ t.touch = s.touch /\ t.firstTouch = s.firstTouch
          /\ t.indexes = s.indexes /\ t.hidden = s.hidden
        BY <1>2 DEF Changes, Slider, Fields, Flags
    <2>3. QED
        BY <1>2, <2>1, <2>2 DEF Slider
<1>4. QED
    BY <1>3, ReinitAligned DEF ReplaceSlides, t

(* setOption, with a number of slides to show. *)
LEMMA SetOptionAligned ==
    ASSUME page \in Pages, NEW s, Slider(s), NEW w \in Nat,
           NEW n \in s.options.slidesToScroll .. MaxSlides
    PROVE  LET t == Reinit(Unload(ChangeOptions(s,
                        [s.options EXCEPT !.slidesToShow = n])), w)
           IN  Aligned(t) /\ Free(t)
<1> DEFINE o == [s.options EXCEPT !.slidesToShow = n]
           t == ChangeOptions(s, o)
           u == Unload(t)
<1>1. s.options \in Options /\ n \in Nat \ {0}
    BY Numbers, BoundsAssumption DEF Options
<1>2. o \in Options
    BY <1>1 DEF Options
<1> HIDE DEF o
<1>3. Slider(t)
    BY <1>2, ChangeOptionsEffect
<1> HIDE DEF t
<1>4. /\ Changes(t, u, {"clones", "shown"})
      /\ u.clones \in Nat /\ u.shown \subseteq Int
    BY <1>3 DEF Unload, Changes, Slider, Fields, Flags
<1> HIDE DEF u
<1>5. Slider(u)
    BY <1>3, <1>4, ZenonT(40) DEF Changes, Slider, Fields, Flags
<1>6. Aligned(Reinit(u, w)) /\ Free(Reinit(u, w))
    BY <1>5, ReinitAligned
<1>7. QED
    BY <1>6 DEF u, t, o

(* Handlers that record swipes and set flags. *)
LEMMA RecordingAligned ==
    ASSUME NEW s, NEW t, Aligned(s), Slider(t),
           Changes(s, t, {"touch", "firstTouch", "sharedTouch", "dragging", "paused",
                          "interrupted", "focussed", "resizing", "focusing",
                          "windowWidth"})
    PROVE  Aligned(t)
<1>1. Changes(s, t, Fields \ {"animating", "unslicked", "callbacks", "options",
                              "overtaken", "current", "slides", "track"})
    BY DEF Changes, Fields, Flags
<1>2. QED
    BY <1>1, AlignedStays

(* The strip only follows a finger, or is left by it, while no animation is   *)
(* protected.                                                                 *)
LEMMA MovedAligned ==
    ASSUME NEW s, NEW t, Aligned(s), Slider(t),
           Changes(s, t, {"touch", "firstTouch", "sharedTouch", "dragging",
                          "interrupted", "track"}),
           t.track = s.track \/ s.track = Dragged \/ ~s.animating
    PROVE  Aligned(t)
<1>1. /\ t.animating = s.animating /\ t.unslicked = s.unslicked
      /\ t.callbacks = s.callbacks /\ t.options = s.options
      /\ t.overtaken = s.overtaken /\ t.current = s.current /\ t.slides = s.slides
    BY DEF Aligned, Changes, Slider, Fields, Flags
<1>2. Protected(t) => Protected(s)
    BY <1>1 DEF Protected
<1>3. CASE t.track = s.track
    BY <1>1, <1>2, <1>3 DEF Aligned, Wrapped
<1>4. CASE s.track = Dragged
    <2>1. s.track \notin Int
        BY <1>4, TrackAssumption
    <2>2. QED
        BY <1>1, <1>2, <2>1 DEF Aligned, Wrapped
<1>5. CASE ~s.animating
    BY <1>2, <1>5 DEF Aligned, Wrapped
<1>6. QED
    BY <1>3, <1>4, <1>5

(* swipeStart records where the finger is. *)
LEMMA SwipeStartAligned ==
    ASSUME NEW s, Aligned(s), NEW fingers
    PROVE  Aligned(SwipeStart(s, fingers))
<1> DEFINE v == SwipeStart(s, fingers)
<1>1. /\ Slider(v)
      /\ Changes(s, v, {"track", "interrupted", "dragging", "touch", "firstTouch",
                        "sharedTouch"})
      /\ v.track = IF s.track = Dragged /\ s.dragging THEN Astray ELSE s.track
    BY SwipeStartEffect DEF Aligned
<1> HIDE DEF v
<1>2. Changes(s, v, {"touch", "firstTouch", "sharedTouch", "dragging", "interrupted",
                     "track"})
    BY <1>1 DEF Changes
<1>3. QED
    BY <1>1, <1>2, MovedAligned DEF v

(* swipeMove does not drag the strip of a slider that is animating. *)
LEMMA SwipeMoveAligned ==
    ASSUME NEW s, Aligned(s), NEW dir \in Directions, NEW far \in BOOLEAN
    PROVE  Aligned(SwipeMove(s, dir, far))
<1> DEFINE v == SwipeMove(s, dir, far)
<1>1. CASE ~s.dragging
    BY <1>1 DEF SwipeMove
<1>2. CASE s.dragging
    <2>1. /\ Slider(v) /\ Changes(s, v, {"touch", "firstTouch", "track"})
          /\ v.track = s.track \/ s.track = Dragged \/ ~(s.options.fade \/ s.animating)
        BY <1>2, SwipeMoveEffect DEF Aligned
    <2> HIDE DEF v
    <2>2. Changes(s, v, {"touch", "firstTouch", "sharedTouch", "dragging", "interrupted",
                         "track"})
        BY <2>1 DEF Changes
    <2>3. QED
        BY <2>1, <2>2, MovedAligned DEF v
<1>3. QED
    BY <1>1, <1>2

(* swipeEnd lets go of the strip and may go to another slide. *)
LEMMA SwipeEndAligned ==
    ASSUME NEW s, Aligned(s)
    PROVE  Aligned(SwipeEnd(s))
<1> DEFINE t == [s EXCEPT !.dragging = FALSE, !.interrupted = FALSE]
           v == SwipeEnd(s)
           steps == {s.current - s.options.slidesToScroll, s.current,
                     s.current + s.options.slidesToScroll}
<1>1. Slider(s) /\ steps \subseteq Int
    BY Numbers DEF Aligned, Options
<1>2. v = t \/ \E index \in steps : v = FreshTouch(SlideHandler(t, index, FALSE))
    BY DEF SwipeEnd
<1>3. /\ Changes(s, t, {"dragging", "interrupted"}) /\ t.dragging = FALSE
      /\ t.interrupted = FALSE
    BY <1>1 DEF Changes, Slider, Fields, Flags
<1> HIDE DEF t, v, steps
<1>4. Slider(t)
    BY <1>1, <1>3 DEF Changes, Slider, Fields, Flags
<1>5. Aligned(t)
    <2>1. Changes(s, t, {"touch", "firstTouch", "sharedTouch", "dragging", "paused",
                         "interrupted", "focussed", "resizing", "focusing", "windowWidth"})
        BY <1>3 DEF Changes
    <2>2. QED
        BY <1>4, <2>1, RecordingAligned
<1>6. ASSUME NEW index \in steps, v = FreshTouch(SlideHandler(t, index, FALSE))
      PROVE  Aligned(v)
    <2> DEFINE u == SlideHandler(t, index, FALSE)
    <2>1. Aligned(u)
        BY <1>1, <1>5, SlideHandlerAligned
    <2> HIDE DEF u
    <2>2. Slider(FreshTouch(u)) /\ Changes(u, FreshTouch(u), {"touch", "sharedTouch"})
        BY <2>1, FreshTouchEffect DEF Aligned
    <2>3. Changes(u, FreshTouch(u),
                  {"touch", "firstTouch", "sharedTouch", "dragging", "paused",
                   "interrupted", "focussed", "resizing", "focusing", "windowWidth"})
        BY <2>2 DEF Changes
    <2>4. Aligned(FreshTouch(u))
        BY <2>1, <2>2, <2>3, RecordingAligned
    <2>5. QED
        BY <1>6, <2>4 DEF u
<1>7. QED
    BY <1>2, <1>5, <1>6 DEF v

(* interrupt, from mouseenter and mouseleave. *)
LEMMA InterruptAligned ==
    ASSUME NEW s, Aligned(s), NEW toggle \in BOOLEAN
    PROVE  Aligned(Interrupt(s, toggle))
<1> DEFINE t == IF toggle THEN s ELSE AutoPlay(s)
           u == [t EXCEPT !.interrupted = toggle]
<1>1. Aligned(t)
    BY MarkingAligned
<1>2. Interrupt(s, toggle) = u
    BY DEF Interrupt
<1> HIDE DEF t
<1>3. Changes(t, u, {"interrupted"}) /\ u.interrupted = toggle
    BY <1>1 DEF Aligned, Changes, Slider, Fields, Flags
<1> HIDE DEF u
<1>4. Slider(u)
    BY <1>1, <1>3 DEF Aligned, Changes, Slider, Fields, Flags
<1>5. Changes(t, u, {"touch", "firstTouch", "sharedTouch", "dragging", "paused",
                     "interrupted", "focussed", "resizing", "focusing", "windowWidth"})
    BY <1>3 DEF Changes
<1>6. QED
    BY <1>1, <1>2, <1>4, <1>5, RecordingAligned

(* Play sets autoplay, on which the place of the strip does not depend. *)
LEMMA PlayAligned ==
    ASSUME NEW s, NEW p, Good(s, p), Aligned(s)
    PROVE  Aligned([AutoPlay(s) EXCEPT !.options.autoplay = TRUE,
                        !.original.autoplay = @ \/ s.activeBreakpoint = None,
                        !.paused = FALSE, !.focussed = FALSE, !.interrupted = FALSE])
<1> DEFINE r == AutoPlay(s)
           o == [r.options EXCEPT !.autoplay = TRUE]
           plays == r.original.autoplay \/ s.activeBreakpoint = None
           q == [r.original EXCEPT !.autoplay = plays]
           t == [AutoPlay(s) EXCEPT !.options.autoplay = TRUE,
                        !.original.autoplay = @ \/ s.activeBreakpoint = None,
                        !.paused = FALSE, !.focussed = FALSE, !.interrupted = FALSE]
<1>1. Aligned(r) /\ Slider(r)
    BY MarkingAligned DEF Aligned
<1>2. Good(t, p)
    BY PlayGood
<1>3. t = [r EXCEPT !.options = o, !.original = q, !.paused = FALSE,
                    !.focussed = FALSE, !.interrupted = FALSE]
    <2>1. "autoplay" \in DOMAIN r.original /\ "autoplay" \in DOMAIN r.options
        BY <1>1 DEF Slider, Options
    <2>2. QED
        BY <2>1
<1> HIDE DEF r, t
<1>4. /\ o.infinite = r.options.infinite /\ o.fade = r.options.fade
      /\ o.waitForAnimate = r.options.waitForAnimate
      /\ o.slidesToShow = r.options.slidesToShow
      /\ o.slidesToScroll = r.options.slidesToScroll
      /\ o.centerMode = r.options.centerMode
    BY <1>1 DEF Slider, Options
<1> HIDE DEF o, q, plays
<1>5. /\ t.options = o /\ t.slides = r.slides /\ t.current = r.current
      /\ t.callbacks = r.callbacks /\ t.animating = r.animating
      /\ t.unslicked = r.unslicked /\ t.overtaken = r.overtaken /\ t.track = r.track
    BY <1>1, <1>3 DEF Slider, Fields, Flags
<1>6. Left(t.options, t.slides, t.current) = Left(r.options, r.slides, r.current)
    BY <1>4, <1>5 DEF Left, Half
<1>7. QED
    BY <1>1, <1>2, <1>4, <1>5, <1>6 DEF Aligned, Good, Sound, Wrapped, Protected, t

(* A queue that is not empty has a first callback. *)
LEMMA SomethingQueued ==
    ASSUME NEW q \in Seq(Int), q # <<>>
    PROVE  Len(q) # 0
OBVIOUS

(* A protected animation is the only one; when it ends none is left. *)
LEMMA AnimationEndAligned ==
    ASSUME NEW s, NEW p, Good(s, p), Aligned(s), s.callbacks # <<>>
    PROVE  LET t == PostSlide([s EXCEPT !.callbacks = Tail(@),
                                        !.overtaken = @ /\ Len(s.callbacks) > 1])
           IN  Aligned(t) /\ Free(t)
<1> DEFINE late == s.overtaken /\ Len(s.callbacks) > 1
           left == Tail(s.callbacks)
           r == [s EXCEPT !.callbacks = Tail(@),
                          !.overtaken = @ /\ Len(s.callbacks) > 1]
           t == PostSlide(r)
<1>1. Slider(s) /\ s.callbacks \in Seq(Int) /\ s.overtaken \in BOOLEAN
    BY DEF Aligned, Slider, Flags
<1>2. late \in BOOLEAN /\ r = [s EXCEPT !.callbacks = left, !.overtaken = late]
    BY <1>1
<1>3. left \in Seq(Int) /\ Len(left) = Len(s.callbacks) - 1 /\ Len(s.callbacks) \in Nat \ {0}
    BY <1>1
<1>4. Good(t, p)
    BY AnimationEndGood
<1> HIDE DEF late, left, r, t
<1>5. PICK v \in BOOLEAN : v = late
    BY <1>2
<1>6. r = [s EXCEPT !.callbacks = left, !.overtaken = v]
    BY <1>2, <1>5
<1>7. /\ Changes(s, r, {"callbacks", "overtaken"}) /\ r.callbacks = left
      /\ r.overtaken = v
    BY <1>1, <1>6 DEF Changes, Slider, Fields, Flags
<1>8. Slider(r)
    BY <1>1, <1>3, <1>7 DEF Changes, Slider, Fields, Flags
<1>9. Changes(r, t, {"animating", "track", "ticking"})
    BY <1>8, PostSlideEffect DEF t
<1>10. /\ t.callbacks = left /\ t.overtaken = v /\ t.unslicked = s.unslicked
       /\ t.options = s.options
    BY <1>1, <1>7, <1>8, <1>9 DEF Changes, Slider, Fields, Flags
<1>11. ~Protected(t)
    <2> SUFFICES ASSUME Protected(t) PROVE FALSE
        OBVIOUS
    <2>1. left # <<>> /\ Len(s.callbacks) > 1
        <3>1. left # <<>>
            BY <1>10 DEF Protected
        <3>2. Len(left) # 0
            BY <1>3, <3>1, SomethingQueued
        <3>3. QED
            BY <1>3, <3>1, <3>2
    <2>2. ~s.overtaken
        BY <1>5, <1>10, <2>1 DEF Protected, late
    <2>3. Len(s.callbacks) = (IF s.animating THEN 1 ELSE 0)
        BY <1>10, <2>2 DEF Protected, Good, Sound, Animated
    <2>4. QED
        BY <2>1, <2>3
<1>12. Free(t)
    BY <1>8, PostSlideFree DEF t
<1>13. QED
    BY <1>4, <1>11, <1>12 DEF Aligned, Wrapped, Good, Sound, t, r

(* The inductive invariant with it. *)
AInv == IInv /\ Aligned(slick)

(* User input. *)
LEMMA UserInputAligned ==
    ASSUME AInv, UserInput
    PROVE  Aligned(slick)'
<1>1. page \in Pages /\ Aligned(slick) /\ width \in Nat /\ Slider(slick)
    BY StepNumbers DEF AInv, IInv
<1>2. CASE Arrow
    BY <1>1, <1>2, GoingAligned DEF Arrow, Call, Input
<1>3. CASE GoTo
    <2>1. PICK index \in -1 .. MaxSlides, dontAnimate \in BOOLEAN :
              Call(ChangeSlideTo(slick, index, dontAnimate))
        BY <1>3 DEF GoTo
    <2>2. index \in Int
        BY StepNumbers DEF AInv
    <2>3. QED
        BY <1>1, <2>1, <2>2, GoingAligned DEF Call, Input
<1>4. CASE Select
    <2>1. PICK index \in slick.indexes \cup CloneIndexes(slick) :
              slick' \in {SelectHandler(slick, index),
                          SelectHandler(SelectHandler(slick, index), index)}
        BY <1>4 DEF Select, Event, Input
    <2>2. index \in Int
        BY <1>1, ClickedType
    <2>3. Aligned(SelectHandler(slick, index))
        BY <1>1, <2>2, SelectAligned
    <2>4. Aligned(SelectHandler(SelectHandler(slick, index), index))
        BY <2>2, <2>3, SelectAligned
    <2>5. QED
        BY <2>1, <2>3, <2>4
<1>5. CASE TouchStart
    BY <1>1, <1>5, SwipeStartAligned DEF TouchStart, Event, Input
<1>6. CASE TouchMove
    BY <1>1, <1>6, SwipeMoveAligned DEF TouchMove, Event, Input
<1>7. CASE TouchEnd
    BY <1>1, <1>7, SwipeEndAligned DEF TouchEnd, Event, Input
<1>8. CASE MouseEnter
    BY <1>1, <1>8, InterruptAligned DEF MouseEnter, Event, Input
<1>9. CASE MouseLeave
    <2>1. slick' \in {Interrupt(SwipeEnd(slick), FALSE), SwipeEnd(Interrupt(slick, FALSE))}
        BY <1>9 DEF MouseLeave, Event, Input
    <2>2. Aligned(SwipeEnd(slick)) /\ Aligned(Interrupt(slick, FALSE))
        BY <1>1, SwipeEndAligned, InterruptAligned
    <2>3. QED
        BY <2>1, <2>2, SwipeEndAligned, InterruptAligned
<1>10. ASSUME NEW f \in {"interrupted", "focusing", "resizing"},
              Changes(slick, slick', {f}), slick'[f] \in BOOLEAN
       PROVE  Aligned(slick)'
    <2>1. PICK t : t = slick'
        OBVIOUS
    <2>2. Slider(t)
        BY <1>1, <1>10, <2>1 DEF Changes, Slider, Fields, Flags
    <2>3. Changes(slick, t,
                  {"touch", "firstTouch", "sharedTouch", "dragging", "paused",
                   "interrupted", "focussed", "resizing", "focusing", "windowWidth"})
        BY <1>10, <2>1 DEF Changes
    <2>4. QED
        BY <1>1, <2>1, <2>2, <2>3, RecordingAligned
<1>11. CASE VisibilityChange
    <2>1. PICK hidden \in BOOLEAN : slick' = [slick EXCEPT !.interrupted = hidden]
        BY <1>11 DEF VisibilityChange, Event, Input
    <2>2. Changes(slick, slick', {"interrupted"}) /\ slick'.interrupted = hidden
        BY <1>1, <2>1 DEF Changes, Slider, Fields, Flags
    <2>3. QED
        BY <1>10, <2>2
<1>12. CASE OrientationChange
    <2> DEFINE t == CheckResponsive(slick, width, FALSE, FALSE)
    <2>1. Aligned(t)
        BY <1>1, CheckResponsiveAligned
    <2>2. slick' = SetPosition(t)
        BY <1>12 DEF OrientationChange, Event, Input
    <2> HIDE DEF t
    <2>3. QED
        BY <2>1, <2>2, SetPositionAligned
<1>13. CASE FocusChange
    <2> DEFINE due == slick.focusing \/ slick.focusable
    <2>1. due \in BOOLEAN /\ slick' = [slick EXCEPT !.focusing = due]
        BY <1>13 DEF FocusChange
    <2> HIDE DEF due
    <2>2. Changes(slick, slick', {"focusing"}) /\ slick'.focusing = due
        BY <1>1, <2>1 DEF Changes, Slider, Fields, Flags
    <2>3. QED
        BY <1>10, <2>1, <2>2
<1>14. CASE \E w \in Widths \ {width} : Resize(w)
    <2>1. PICK w \in Widths : Resize(w)
        BY <1>14
    <2> DEFINE due == slick.resizing \/ (slick.listening /\ w # slick.windowWidth)
    <2>2. due \in BOOLEAN /\ slick' = [slick EXCEPT !.resizing = due]
        BY <2>1 DEF Resize
    <2> HIDE DEF due
    <2>3. Changes(slick, slick', {"resizing"}) /\ slick'.resizing = due
        BY <1>1, <2>2 DEF Changes, Slider, Fields, Flags
    <2>4. QED
        BY <1>10, <2>2, <2>3
<1>15. QED
    BY <1>2, <1>3, <1>4, <1>5, <1>6, <1>7, <1>8, <1>9, <1>11, <1>12, <1>13, <1>14
       DEF UserInput

(* Calls of the page. *)
LEMMA PageCallAligned ==
    ASSUME AInv, PageCall
    PROVE  Aligned(slick)'
<1>1. /\ page \in Pages /\ Good(slick, page) /\ Aligned(slick) /\ Slider(slick)
      /\ width \in Nat /\ MaxSlides \in Nat /\ slick.slides \in 0 .. MaxSlides
    BY StepNumbers DEF AInv, IInv, Slider
<1>2. CASE Play
    BY <1>1, <1>2, PlayAligned DEF Play, Call, Input
<1>3. CASE Pause
    <2> DEFINE s == AutoPlayClear(slick)
               t == [s EXCEPT !.paused = TRUE]
    <2>1. Aligned(s)
        BY <1>1, MarkingAligned
    <2>2. slick' = t
        BY <1>3 DEF Pause, Call, Input
    <2> HIDE DEF s
    <2>3. Changes(s, t, {"paused"}) /\ t.paused = TRUE
        BY <2>1 DEF Aligned, Changes, Slider, Fields, Flags
    <2> HIDE DEF t
    <2>4. Slider(t)
        BY <2>1, <2>3 DEF Aligned, Changes, Slider, Fields, Flags
    <2>5. Changes(s, t, {"touch", "firstTouch", "sharedTouch", "dragging", "paused",
                         "interrupted", "focussed", "resizing", "focusing", "windowWidth"})
        BY <2>3 DEF Changes
    <2>6. QED
        BY <2>1, <2>2, <2>4, <2>5, RecordingAligned
<1>4. CASE AddSlide \/ RemoveSlide \/ FilterSlides \/ UnfilterSlides
    <2>1. PICK n \in 0 .. MaxSlides : \E t : Replacement(n, t)
        BY <1>1, <1>4, ReplacingCall
    <2>2. PICK t : Replacement(n, t)
        BY <2>1
    <2>3. Slider(t) /\ slick' = ReplaceSlides(t, n, width)
        BY <2>2 DEF Replacement, Call, Input
    <2>4. QED
        BY <1>1, <2>3, ReplaceSlidesAligned
<1>5. CASE SetOption
    BY <1>1, <1>5, SetOptionAligned DEF SetOption, Call, Input
<1>6. CASE UnslickCall
    BY <1>1, <1>6, DestroyAligned DEF UnslickCall, Call, Input
<1>7. QED
    BY <1>2, <1>3, <1>4, <1>5, <1>6 DEF PageCall

(* What the browser calls later. *)
LEMMA LaterAligned ==
    ASSUME AInv, AutoPlayTick \/ AnimationEnd \/ FocusTimeout \/ ResizeTimeout
    PROVE  Aligned(slick)'
<1>1. /\ page \in Pages /\ Good(slick, page) /\ Aligned(slick) /\ Slider(slick)
      /\ width \in Nat /\ hasFocus \in BOOLEAN
    BY StepNumbers DEF AInv, IInv
<1>2. CASE AutoPlayTick
    BY <1>1, <1>2, GoingAligned DEF AutoPlayTick, Later
<1>3. CASE AnimationEnd
    BY <1>1, <1>3, AnimationEndAligned DEF AnimationEnd, Later
<1>4. CASE FocusTimeout
    <2> DEFINE t == [slick EXCEPT !.focusing = FALSE, !.focussed = hasFocus]
    <2>1. slick' = AutoPlay(t)
        BY <1>4 DEF FocusTimeout, Later
    <2>2. /\ Changes(slick, t, {"focusing", "focussed"})
          /\ t.focusing = FALSE /\ t.focussed = hasFocus
        BY <1>1 DEF Changes, Slider, Fields, Flags
    <2> HIDE DEF t
    <2>3. Slider(t)
        BY <1>1, <2>2 DEF Changes, Slider, Fields, Flags
    <2>4. Changes(slick, t,
                  {"touch", "firstTouch", "sharedTouch", "dragging", "paused",
                   "interrupted", "focussed", "resizing", "focusing", "windowWidth"})
        BY <2>2 DEF Changes
    <2>5. Aligned(t)
        BY <1>1, <2>3, <2>4, RecordingAligned
    <2>6. QED
        BY <2>1, <2>5, MarkingAligned
<1>5. CASE ResizeTimeout
    <2> DEFINE r == [slick EXCEPT !.resizing = FALSE, !.windowWidth = width]
               s == CheckResponsive(r, width, FALSE, FALSE)
    <2>1. slick' \in {s, SetPosition(s)}
        BY <1>5 DEF ResizeTimeout, Later
    <2>2. /\ Changes(slick, r, {"resizing", "windowWidth"})
          /\ r.resizing = FALSE /\ r.windowWidth = width
        BY <1>1 DEF Changes, Slider, Fields, Flags
    <2> HIDE DEF r
    <2>3. Slider(r)
        BY <1>1, <2>2 DEF Changes, Slider, Fields, Flags
    <2>4. Changes(slick, r,
                  {"touch", "firstTouch", "sharedTouch", "dragging", "paused",
                   "interrupted", "focussed", "resizing", "focusing", "windowWidth"})
        BY <2>2 DEF Changes
    <2>5. Aligned(r)
        BY <1>1, <2>3, <2>4, RecordingAligned
    <2>6. Aligned(s)
        BY <1>1, <2>5, CheckResponsiveAligned
    <2> HIDE DEF s
    <2>7. QED
        BY <2>1, <2>6, SetPositionAligned
<1>6. QED
    BY <1>2, <1>3, <1>4, <1>5

(* The invariant with it holds throughout. *)
LEMMA AlignedInvariance == Spec => []AInv
<1>1. Init => AInv
    <2> SUFFICES ASSUME Init PROVE AInv
        OBVIOUS
    <2>1. page \in Pages /\ width \in Nat /\ slick = Construct(page, width)
        BY BoundsAssumption DEF Init
    <2>2. Good(slick, page) /\ slick.callbacks = <<>>
        BY <2>1, ConstructGood
    <2>3. QED
        BY <2>2, InitInv DEF AInv, Aligned, Wrapped, Protected, Good, Sound
<1>2. AInv /\ [Next]_vars => AInv'
    <2> SUFFICES ASSUME AInv, [Next]_vars PROVE AInv'
        OBVIOUS
    <2>1. IInv'
        BY NextInv DEF AInv
    <2>2. CASE Next
        <3>1. Aligned(slick)'
            BY <2>2, UserInputAligned, PageCallAligned, LaterAligned DEF Next
        <3>2. QED
            BY <2>1, <3>1 DEF AInv
    <2>3. CASE UNCHANGED vars
        BY <2>1, <2>3 DEF AInv, vars
    <2>4. QED
        BY <2>2, <2>3
<1>3. QED
    BY <1>1, <1>2, PTL DEF Spec

(* Rounds are multiples of the number of slides. *)
LEMMA RoundsVanish ==
    ASSUME NEW n \in Nat \ {0}, NEW a \in Int, NEW b \in Int, RoundsApart(n, a, b)
    PROVE  (a - b) % n = 0
<1>1. (-n) % n = 0 /\ 0 % n = 0 /\ n % n = 0
    OBVIOUS
<1>2. QED
    BY <1>1 DEF RoundsApart

--------------------------------------------------------------------------------
(* Pages: where sliders are sent, and what is marked there. *)

(* A number is a whole number of pages of k slides, and what is left.         *)
LEMMA Division ==
    ASSUME NEW n \in Int, NEW k \in Nat \ {0}
    PROVE  \E q \in Int : \E r \in 0 .. k - 1 : r = n % k /\ n = k * q + r
<1>1. PICK q \in Int, r \in 0 .. k - 1 : q = n \div k /\ r = n % k
    OBVIOUS
<1>2. n = k * q + r
    BY <1>1
<1>3. QED
    BY <1>1, <1>2

(* Whole pages leave nothing. *)
LEMMA Multiples ==
    ASSUME NEW k \in Nat \ {0}, NEW a \in Int
    PROVE  (k * a) % k = 0
OBVIOUS

(* Steps of whole pages lead from the start of a page to the start of one. *)
LEMMA PagesAdd ==
    ASSUME NEW k \in Nat \ {0}, NEW a \in Int, NEW b \in Int, a % k = 0, b % k = 0
    PROVE  (a + b) % k = 0 /\ (a - b) % k = 0
<1>1. PICK x \in Int, y \in Int : a = k * x /\ b = k * y
    <2>1. PICK x \in Int : \E r \in 0 .. k - 1 : r = a % k /\ a = k * x + r
        BY Division
    <2>2. PICK y \in Int : \E r \in 0 .. k - 1 : r = b % k /\ b = k * y + r
        BY Division
    <2>3. a = k * x /\ b = k * y
        BY <2>1, <2>2
    <2>4. QED
        BY <2>3
<1>2. a + b = k * (x + y) /\ a - b = k * (x - y)
    BY <1>1
<1>3. (k * (x + y)) % k = 0 /\ (k * (x - y)) % k = 0
    BY Multiples
<1>4. QED
    BY <1>2, <1>3

(* Where a partial last page starts. *)
LEMMA WithoutRest ==
    ASSUME NEW n \in Nat, NEW k \in Nat \ {0}, NEW rest \in Nat, rest = n % k
    PROVE  (n - rest) % k = 0
OBVIOUS

(* At the start of a page of which less than k slides are left, the rest is   *)
(* what is left.                                                              *)
LEMMA LastPage ==
    ASSUME NEW n \in Nat, NEW k \in Nat \ {0}, NEW index \in Nat,
           index % k = 0, index <= n, n < index + k
    PROVE  n % k = n - index
OBVIOUS

(* No page, and one page. *)
LEMMA FirstPages ==
    ASSUME NEW k \in Nat \ {0}
    PROVE  0 % k = 0 /\ k % k = 0 /\ (-k) % k = 0
OBVIOUS

(* The start of the page before the first. *)
LEMMA PageBefore ==
    ASSUME NEW k \in Nat \ {0}, NEW index \in Int,
           index % k = 0, -k <= index, index < 0
    PROVE  index = -k
<1>1. (index + k) % k = 0
    BY FirstPages, PagesAdd
<1>2. index + k \in Nat /\ index + k < k
    OBVIOUS
<1>3. (index + k) % k = index + k
    BY <1>2
<1>4. QED
    BY <1>1, <1>2, <1>3

(* The slide an accepted index stands for is none before the first, and at    *)
(* the start of a page if the index is.                                       *)
LEMMA AnimSlidePages ==
    ASSUME NEW o \in Options, NEW n \in Nat, NEW index \in Int
    PROVE  /\ (n % o.slidesToScroll = 0 => -n <= index) => AnimSlide(o, n, index) >= 0
           /\ index % o.slidesToScroll = 0 => AnimSlide(o, n, index) % o.slidesToScroll = 0
<1> DEFINE k == o.slidesToScroll
           rest == n % k
<1>1. k \in Nat \ {0}
    BY DEF Options
<1>2. rest \in Nat /\ rest <= n
    BY <1>1, RestOf, Zenon
<1>3. AnimSlide(o, n, index) = IF index < 0 THEN IF rest # 0 THEN n - rest ELSE n + index
                               ELSE IF index >= n THEN IF rest # 0 THEN 0 ELSE index - n
                               ELSE index
    BY DEF AnimSlide
<1>4. /\ (n - rest) % k = 0 /\ 0 % k = 0
      /\ rest = 0 /\ index % k = 0 => (n + index) % k = 0 /\ (index - n) % k = 0
    <2>1. (n - rest) % k = 0
        <3>1. rest = n % k
            OBVIOUS
        <3> HIDE DEF rest
        <3>2. QED
            BY <1>1, <1>2, <3>1, WithoutRest
    <2>2. 0 % k = 0
        BY <1>1, FirstPages
    <2>3. ASSUME rest = 0, index % k = 0
          PROVE  (n + index) % k = 0 /\ (index - n) % k = 0
        <3>1. n \in Int /\ n % k = 0
            BY <2>3
        <3>2. (n + index) % k = 0
            BY <1>1, <2>3, <3>1, PagesAdd, Zenon
        <3>3. (index - n) % k = 0
            BY <1>1, <2>3, <3>1, PagesAdd, Zenon
        <3>4. QED
            BY <3>2, <3>3
    <2>4. QED
        BY <2>1, <2>2, <2>3
<1> DEFINE slide == AnimSlide(o, n, index)
<1> HIDE DEF rest, k, slide
<1>5. (rest = 0 => -n <= index) => slide >= 0
    BY <1>2, <1>3 DEF slide
<1>6. index % k = 0 => slide % k = 0
    BY <1>2, <1>3, <1>4 DEF slide
<1>7. QED
    BY <1>5, <1>6 DEF rest, k, slide

(* A looping slider that scrolls no further than it shows can be sent to the  *)
(* starts of pages only.                                                      *)
LEMMA NavigablePages ==
    ASSUME NEW o \in Options, NEW n \in Nat, o.infinite,
           o.slidesToScroll <= o.slidesToShow, NEW v \in NavigableIndexes(o, n)
    PROVE  v % o.slidesToScroll = 0
<1> DEFINE k == o.slidesToScroll
<1>1. k \in Nat \ {0} /\ Stride(o) = k
    BY DEF Options, Stride
<1>2. v \in BreakPoints(o, -k, 2 * n)
    BY DEF NavigableIndexes
<1>3. v = -k \/ \E i \in 0 .. 2 * (2 * n) : v = -k + k + i * k
    BY <1>1, <1>2 DEF BreakPoints
<1> HIDE DEF k
<1>4. CASE v = -k
    BY <1>1, <1>4, FirstPages DEF k
<1>5. CASE v # -k
    <2>1. PICK i \in Int : v = -k + k + i * k
        BY <1>3, <1>5
    <2>2. v = k * i
        BY <1>1, <2>1
    <2>3. QED
        BY <1>1, <2>2, Multiples DEF k
<1>6. QED
    BY <1>4, <1>5

(* checkNavigable finds such a start, and none before the page before the      *)
(* first.                                                                     *)
LEMMA CheckNavigablePages ==
    ASSUME NEW o \in Options, NEW n \in Nat, NEW index \in Int, o.infinite,
           o.slidesToScroll <= o.slidesToShow
    PROVE  /\ CheckNavigable(o, n, index) % o.slidesToScroll = 0
           /\ -o.slidesToScroll <= CheckNavigable(o, n, index)
<1> DEFINE navigables == NavigableIndexes(o, n)
           reached == {v \in navigables : v <= index}
           k == o.slidesToScroll
<1>1. k \in Nat \ {0} /\ 0 % k = 0
    BY FirstPages DEF Options
<1>2. \A v \in navigables : v \in Int /\ -k <= v /\ v % k = 0
    BY NavigableRange, NavigablePages
<1>3. -k \in navigables
    <2>1. -k < 2 * n
        BY <1>1
    <2>2. QED
        BY <2>1 DEF NavigableIndexes, BreakPoints
<1>4. CheckNavigable(o, n, index) = IF navigables = {} THEN index
                                    ELSE IF reached = {} THEN 0 ELSE Max(reached)
    BY DEF CheckNavigable
<1>5. reached # {} => Max(reached) \in reached
    BY <1>2, MaxOfBounded
<1>6. reached \subseteq navigables
    OBVIOUS
<1> HIDE DEF navigables, reached, k
<1>7. CheckNavigable(o, n, index) \in navigables \cup {0}
    BY <1>3, <1>4, <1>5, <1>6
<1>8. QED
    BY <1>1, <1>2, <1>7 DEF k

(* Arrows and keys ask for no index further before the slides than there are  *)
(* slides, even of a slider that a filter left behind its last slide; a       *)
(* slider at the start of a page is asked to take a whole page.               *)
LEMMA ChangePages ==
    ASSUME NEW o \in Options, NEW n \in Nat, NEW current \in Nat,
           NEW index \in {PreviousIndex(o, n, current), NextIndex(o, n, current)},
           o.slidesToScroll <= o.slidesToShow
    PROVE  /\ n > o.slidesToShow => -n <= index
           /\ current % o.slidesToScroll = 0
              => index \in {current - o.slidesToScroll, current + o.slidesToScroll}
<1> DEFINE scroll == o.slidesToScroll
           show   == o.slidesToShow
           offset == IndexOffset(o, n, current)
           Whole  == n % scroll = 0
           Start  == current % scroll = 0
           ahead  == n - current
<1>1. scroll \in Nat \ {0} /\ show \in Nat \ {0} /\ scroll <= show
    BY DEF Options
<1>2. offset = IF ~Whole THEN 0 ELSE Remainder(ahead, scroll)
    BY DEF IndexOffset
<1>3. \/ index = current - (IF offset = 0 THEN scroll ELSE show - offset)
      \/ index = current + (IF offset = 0 THEN scroll ELSE offset)
    BY DEF PreviousIndex, NextIndex
<1>4. Whole /\ Start => ahead % scroll = 0 /\ (-ahead) % scroll = 0
    <2>1. Whole /\ Start => (n - current) % scroll = 0 /\ (current - n) % scroll = 0
        BY <1>1, PagesAdd
    <2>2. -ahead = current - n
        OBVIOUS
    <2>3. QED
        BY <2>1, <2>2
<1>5. ahead \in Int /\ ahead <= n /\ current = n - ahead
    OBVIOUS
<1> HIDE DEF scroll, show, offset, Whole, Start, ahead
<1>6. ASSUME Whole PROVE /\ offset \in Int
                         /\ ahead >= 0 => 0 <= offset /\ offset < scroll
                         /\ ahead < 0 => -scroll < offset /\ offset <= 0
                         /\ Start => offset = 0
    <2>1. CASE ahead >= 0
        <3>1. ahead % scroll \in Nat /\ ahead % scroll < scroll
            BY <1>1, <1>5, <2>1, RestOf
        <3>2. offset = ahead % scroll
            BY <1>2, <1>6, <2>1 DEF Remainder
        <3>3. QED
            BY <1>1, <1>4, <1>5, <1>6, <2>1, <3>1, <3>2
    <2>2. CASE ahead < 0
        <3> DEFINE back == (-ahead) % scroll
        <3>1. back \in Nat /\ back < scroll
            BY <1>1, <1>5, <2>2, RestOf
        <3>2. offset = -back
            BY <1>2, <1>5, <1>6, <2>2 DEF Remainder
        <3>3. Start => back = 0
            BY <1>4, <1>6
        <3> HIDE DEF back
        <3>4. QED
            BY <1>1, <1>5, <2>2, <3>1, <3>2, <3>3
    <2>3. QED
        BY <1>5, <2>1, <2>2
<1>7. ~Whole => offset = 0
    BY <1>2
<1>8. n > show => -n <= index
    <2>1. CASE offset = 0
        BY <1>1, <1>3, <2>1
    <2>2. CASE offset # 0
        BY <1>1, <1>3, <1>5, <1>6, <1>7, <2>2
    <2>3. QED
        BY <2>1, <2>2
<1>9. Start => index \in {current - scroll, current + scroll}
    BY <1>3, <1>6, <1>7
<1>10. QED
    BY <1>8, <1>9 DEF scroll, show, Start

(* A slider that shows what it scrolls by, and goes to the start of a page:   *)
(* the strip goes to the place of the slide, give or take a round.            *)
LEMMA PartRounds ==
    ASSUME NEW o \in Options, NEW n \in Nat, NEW index \in Int, o.infinite,
           o.slidesToShow = o.slidesToScroll, n > o.slidesToShow,
           o.centerMode => o.slidesToScroll = 1,
           index % o.slidesToScroll = 0, -o.slidesToScroll <= index
    PROVE  RoundsApart(n, Left(o, n, index), Left(o, n, AnimSlide(o, n, index)))
<1> DEFINE k == o.slidesToScroll
           rest == n % k
           slide == AnimSlide(o, n, index)
<1>1. k \in Nat \ {0}
    BY DEF Options
<1>2. rest \in Nat /\ rest < k
    BY <1>1, RestOf, Zenon
<1>3. CASE rest = 0
    BY <1>3, WholeRounds
<1>4. CASE rest # 0
    <2>1. ~o.centerMode
        BY <1>1, <1>2, <1>4
    <2>2. ASSUME NEW i \in Int
          PROVE  Left(o, n, i) = IF i + k > n THEN IF i > n THEN n ELSE i + rest - k ELSE i
        BY <1>1, <1>4, <2>1 DEF Left
    <2>3. slide = IF index < 0 THEN n - rest ELSE IF index >= n THEN 0 ELSE index
        BY <1>4 DEF AnimSlide
    <2>4. index < 0 => index = -k
        BY <1>1, PageBefore
    <2>5. index # n
        BY <1>4
    <2> HIDE DEF k, rest, slide
    <2>6. n > k
        BY DEF k
    <2>7. CASE index < 0
        <3>1. slide = n - rest /\ index = -k
            BY <2>3, <2>4, <2>7
        <3>2. Left(o, n, slide) = n - k /\ Left(o, n, index) = -k
            BY <1>1, <1>2, <2>2, <2>6, <3>1
        <3>3. QED
            BY <1>1, <3>2 DEF RoundsApart, slide
    <2>8. CASE index > n
        <3>1. slide = 0
            BY <2>3, <2>8
        <3>2. Left(o, n, slide) = 0 /\ Left(o, n, index) = n
            BY <1>1, <1>2, <2>2, <2>6, <2>8, <3>1
        <3>3. QED
            BY <3>2 DEF RoundsApart, slide
    <2>9. CASE 0 <= index /\ index < n
        <3>1. slide = index
            BY <2>3, <2>9
        <3>2. Left(o, n, index) \in Int
            BY LeftType
        <3>3. QED
            BY <3>1, <3>2 DEF RoundsApart, slide
    <2>10. QED
        BY <2>5, <2>7, <2>8, <2>9
<1>5. QED
    BY <1>3, <1>4

(* A slice that begins among the slides and their clones holds something, all *)
(* of it within its bounds and among the slides and clones.                   *)
LEMMA SliceInView ==
    ASSUME NEW n \in Nat, NEW c \in Nat, NEW from \in Nat, NEW to \in Nat,
           NEW first \in Int, NEW last \in Int,
           from < to, from < n + c + c, first + c <= from,
           to <= last + c + 1 \/ n + c <= last + 1
    PROVE  Slice(n, c, from, to) # {} /\ Slice(n, c, from, to) \subseteq first .. last
<1>1. Slice(n, c, from, to) = {p \in -c .. n + c - 1 : from <= p + c /\ p + c < to}
    BY DEF Slice
<1>2. from - c \in Slice(n, c, from, to)
    BY <1>1
<1>3. ASSUME NEW p \in Slice(n, c, from, to) PROVE p \in first .. last
    <2>1. p \in -c .. n + c - 1 /\ from <= p + c /\ p + c < to
        BY <1>1
    <2>2. QED
        BY <2>1
<1>4. QED
    BY <1>2, <1>3

(* What setSlideClasses marks is in view where getLeft puts the strip: the    *)
(* two formulas agree for a slider at the start of a page, if its pages are   *)
(* whole or as long as what it shows.                                         *)
LEMMA ActiveInView ==
    ASSUME NEW o \in Options, NEW n \in Nat, NEW current \in Nat, NEW i \in Int,
           i = current \/ (n <= o.slidesToShow /\ i \in Nat),
           o.slidesToScroll <= o.slidesToShow, o.centerMode => o.slidesToScroll = 1,
           n <= o.slidesToShow => current = 0, current < n,
           n % o.slidesToScroll = 0 \/ o.slidesToShow = o.slidesToScroll,
           current % o.slidesToScroll = 0,
           o.centerMode => o.infinite /\ n > o.slidesToShow,
           o.fade => o.slidesToShow = 1
    PROVE  LET active == Active(o, n, Clones(o, n), i)
               left == IF o.fade THEN current ELSE Left(o, n, current)
               last == IF o.fade THEN current
                       ELSE IF o.centerMode THEN left + 2 * Half(o)
                       ELSE left + o.slidesToShow - 1
           IN  active # {} /\ active \subseteq left .. last
<1> DEFINE show   == o.slidesToShow
           scroll == o.slidesToScroll
           half   == Half(o)
           rest   == n % scroll
           part   == n % show
           c      == Clones(o, n)
           Seen(first, last) == /\ Active(o, n, c, i) # {}
                                /\ Active(o, n, c, i) \subseteq first .. last
           first  == IF o.infinite THEN show + i ELSE i
           left   == Left(o, n, current)
<1>1. /\ show \in Nat \ {0} /\ scroll \in Nat \ {0} /\ half \in Nat /\ 2 * half <= show
      /\ show = 1 => half = 0
    BY DEF Options, Half
<1>2. /\ rest \in Nat /\ part \in Nat /\ part < show
      /\ scroll = 1 => rest = 0
      /\ show = scroll => rest = part
    BY <1>1, RestOf
<1>3. /\ show = scroll /\ current + show > n => part = n - current
      /\ rest = 0 \/ show = scroll
    BY <1>1, LastPage
<1>4. c = IF ~o.infinite \/ o.fade \/ n <= show THEN 0
          ELSE IF o.centerMode THEN show + 1 ELSE show
    BY DEF Clones
<1>5. ~o.centerMode => left = IF n <= show THEN current
                              ELSE IF o.infinite
                              THEN IF rest # 0 /\ current + scroll > n
                                   THEN IF current > n THEN n ELSE current + rest - show
                                   ELSE current
                              ELSE IF current + show > n THEN n - show ELSE current
    BY DEF Left
<1>6. o.centerMode => left = current - half
    BY <1>1, <1>2 DEF Left
<1>7. Active(o, n, c, i) = 
        IF o.centerMode
        THEN IF ~o.infinite THEN {}
             ELSE IF half <= i /\ i <= n - 1 - half
             THEN Slice(n, 0, i - half, i + half + 1)
             ELSE Slice(n, c, first - half + 1, first + half + 2)
        ELSE IF 0 <= i /\ i <= n - show
             THEN Slice(n, 0, i, i + show)
             ELSE IF n + 2 * c <= show THEN -c .. n + c - 1
             ELSE IF show = scroll /\ n - i < show
             THEN Slice(n, c, first - (show - part), first + part)
             ELSE Slice(n, c, first, first + show)
    BY DEF Active
<1> HIDE DEF show, scroll, half, rest, part, c, first, left
<1>8. 0 <= i /\ (i < n \/ n <= show)
    BY DEF show
<1>9. CASE o.centerMode
    <2>1. i = current /\ o.infinite
        BY <1>1, <1>9 DEF show
    <2>2. Seen(current - half, current + half)
        <3>1. CASE half <= i /\ i <= n - 1 - half
            <4>1. PICK from \in Nat, to \in Nat : from = i - half /\ to = i + half + 1
                BY <1>1, <3>1
            <4>2. /\ Slice(n, 0, from, to) # {}
                  /\ Slice(n, 0, from, to) \subseteq current - half .. current + half
                <5>1. PICK a \in Int, b \in Int : a = current - half /\ b = current + half
                    BY <1>1
                <5>2. /\ from \in Nat /\ 0 \in Nat /\ from < to /\ from < n + 0 + 0 /\ a + 0 <= from
                      /\ to <= b + 0 + 1 \/ n + 0 <= b + 1
                    BY <1>1, <1>8, <2>1, <3>1, <4>1, <5>1
                <5>3. Slice(n, 0, from, to) # {} /\ Slice(n, 0, from, to) \subseteq a .. b
                    BY <5>2, SliceInView
                <5>4. QED
                    BY <5>1, <5>3
            <4>3. QED
                BY <1>7, <1>9, <2>1, <3>1, <4>1, <4>2
        <3>2. CASE ~(half <= i /\ i <= n - 1 - half)
            <4>1. first = show + current
                BY <2>1 DEF first
            <4>2. ~o.fade /\ n > show
                BY <1>1, <1>8, <1>9, <3>2 DEF show
            <4>3. c = show + 1
                BY <1>1, <1>4, <1>9, <2>1, <4>2
            <4>4. PICK from \in Nat, to \in Nat : /\ from = first - half + 1
                                                  /\ to = first + half + 2
                BY <1>1, <4>1
            <4>5. /\ Slice(n, c, from, to) # {}
                  /\ Slice(n, c, from, to) \subseteq current - half .. current + half
                <5>1. PICK a \in Int, b \in Int : a = current - half /\ b = current + half
                    BY <1>1
                <5>2. /\ from \in Nat /\ c \in Nat /\ from < to /\ from < n + c + c /\ a + c <= from
                      /\ to <= b + c + 1 \/ n + c <= b + 1
                    BY <1>1, <1>8, <2>1, <4>1, <4>3, <4>4, <5>1
                <5>3. Slice(n, c, from, to) # {} /\ Slice(n, c, from, to) \subseteq a .. b
                    BY <5>2, SliceInView
                <5>4. QED
                    BY <5>1, <5>3
            <4>6. QED
                BY <1>7, <1>9, <2>1, <3>2, <4>4, <4>5
        <3>3. QED
            BY <3>1, <3>2
    <2>3. o.fade => half = 0
        BY <1>1 DEF show
    <2>4. QED
        BY <1>1, <1>6, <1>9, <2>2, <2>3 DEF c, half, left
<1>10. CASE ~o.centerMode /\ n <= show
    <2>1. current = 0 /\ left = 0 /\ c = 0
        BY <1>4, <1>5, <1>10 DEF show
    <2>2. Seen(0, show - 1)
        <3>1. CASE i <= n - show
            <4>1. PICK to \in Nat : to = i + show
                BY <1>1, <1>8
            <4>2. Slice(n, 0, i, to) # {} /\ Slice(n, 0, i, to) \subseteq 0 .. show - 1
                <5>1. PICK a \in Int, b \in Int : a = 0 /\ b = show - 1
                    BY <1>1
                <5>2. /\ i \in Nat /\ 0 \in Nat /\ i < to /\ i < n + 0 + 0 /\ a + 0 <= i
                      /\ to <= b + 0 + 1 \/ n + 0 <= b + 1
                    BY <1>1, <1>8, <1>10, <3>1, <4>1, <5>1
                <5>3. Slice(n, 0, i, to) # {} /\ Slice(n, 0, i, to) \subseteq a .. b
                    BY <5>2, SliceInView
                <5>4. QED
                    BY <5>1, <5>3
            <4>3. QED
                BY <1>7, <1>8, <1>10, <3>1, <4>1, <4>2
        <3>2. CASE ~(i <= n - show)
            <4>1. Active(o, n, c, i) = 0 .. n - 1
                BY <1>7, <1>10, <2>1, <3>2
            <4>2. QED
                BY <1>1, <1>8, <1>10, <4>1
        <3>3. QED
            BY <3>1, <3>2
    <2>3. o.fade => show = 1
        BY DEF show
    <2>4. QED
        BY <1>1, <1>10, <2>1, <2>2, <2>3 DEF c, left, show
<1>11. CASE ~o.centerMode /\ n > show
    <2>1. i = current /\ i \in Nat /\ i < n
        BY <1>1, <1>11 DEF show
    <2>2. o.fade => show = 1 /\ scroll = 1
        BY <1>1 DEF show, scroll
    <2>3. o.fade => left = current
        BY <1>1, <1>2, <1>5, <1>8, <1>11, <2>1, <2>2
    <2>4. c \in Nat /\ scroll <= show
        BY <1>1, <1>4 DEF show, scroll
    <2>5. Seen(left, left + show - 1)
        <3>1. CASE i <= n - show
            <4>1. left = current
                BY <1>1, <1>2, <1>5, <1>11, <2>1, <2>4, <3>1
            <4>2. QED
                <5>1. PICK to \in Nat : to = i + show
                    BY <1>1, <1>8
                <5>2. /\ Slice(n, 0, i, to) # {}
                      /\ Slice(n, 0, i, to) \subseteq current .. current + show - 1
                    <6>1. PICK a \in Int, b \in Int : a = current /\ b = current + show - 1
                        BY <1>1
                    <6>2. /\ i \in Nat /\ 0 \in Nat /\ i < to /\ i < n + 0 + 0 /\ a + 0 <= i
                          /\ to <= b + 0 + 1 \/ n + 0 <= b + 1
                        BY <1>1, <2>1, <3>1, <5>1, <6>1
                    <6>3. Slice(n, 0, i, to) # {} /\ Slice(n, 0, i, to) \subseteq a .. b
                        BY <5>1, <6>2, SliceInView
                    <6>4. QED
                        BY <6>1, <6>3
                <5>3. QED
                    BY <1>7, <1>8, <1>11, <3>1, <4>1, <5>1, <5>2
        <3>2. CASE i > n - show /\ show = scroll
            <4>1. part = n - current /\ rest = part /\ ~o.fade
                BY <1>1, <1>2, <1>3, <1>8, <2>1, <2>2, <3>2
            <4>2. left = n - show
                BY <1>1, <1>5, <1>8, <1>11, <2>1, <3>2, <4>1
            <4>3. Active(o, n, c, i) = Slice(n, c, first - (show - part), first + part)
                BY <1>1, <1>2, <1>7, <1>11, <2>1, <2>4, <3>2, <4>1
            <4>4. IF o.infinite THEN c = show /\ first = show + current
                                ELSE c = 0 /\ first = current
                BY <1>1, <1>4, <1>11, <2>1, <4>1 DEF first
            <4>5. QED
                <5>1. PICK from \in Nat, to \in Nat : /\ from = first - (show - part)
                                                      /\ to = first + part
                    BY <1>1, <1>8, <1>11, <4>1, <4>4
                <5>2. /\ Slice(n, c, from, to) # {}
                      /\ Slice(n, c, from, to) \subseteq n - show .. n - 1
                    <6>1. PICK a \in Int, b \in Int : a = n - show /\ b = n - 1
                        BY <1>1
                    <6>2. /\ from \in Nat /\ c \in Nat
                          /\ from < to /\ from < n + c + c /\ a + c <= from
                          /\ to <= b + c + 1 \/ n + c <= b + 1
                        BY <1>1, <1>8, <1>11, <4>1, <4>4, <5>1, <6>1
                    <6>3. Slice(n, c, from, to) # {} /\ Slice(n, c, from, to) \subseteq a .. b
                        BY <6>2, SliceInView
                    <6>4. QED
                        BY <6>1, <6>3
                <5>3. left + show - 1 = n - 1
                    BY <1>1, <4>2
                <5>4. QED
                    BY <4>2, <4>3, <5>1, <5>2, <5>3
        <3>3. CASE i > n - show /\ show # scroll
            <4>1. rest = 0 /\ ~o.fade
                BY <1>3, <2>2, <3>3
            <4>2. Active(o, n, c, i) = Slice(n, c, first, first + show)
                BY <1>1, <1>7, <1>11, <2>4, <3>3
            <4>3. IF o.infinite THEN c = show /\ first = show + current
                                ELSE c = 0 /\ first = current
                BY <1>1, <1>4, <1>11, <2>1, <4>1 DEF first
            <4>4. left = IF o.infinite THEN current ELSE n - show
                BY <1>1, <1>5, <1>11, <2>1, <3>3, <4>1
            <4>5. QED
                <5>1. PICK from \in Nat, to \in Nat : from = first /\ to = first + show
                    BY <1>1, <4>3
                <5>2. /\ Slice(n, c, from, to) # {}
                      /\ Slice(n, c, from, to) \subseteq left .. left + show - 1
                    <6>1. PICK a \in Int, b \in Int : a = left /\ b = left + show - 1
                        <7>1. left \in {current, n - show}
                            BY <4>4
                        <7>2. left \in Int /\ left + show - 1 \in Int
                            BY <1>1, <7>1
                        <7>3. QED
                            BY <7>2
                    <6>2. /\ from \in Nat /\ c \in Nat
                          /\ from < to /\ from < n + c + c /\ a + c <= from
                          /\ to <= b + c + 1 \/ n + c <= b + 1
                        BY <1>1, <1>11, <2>1, <3>3, <4>3, <4>4, <5>1, <6>1
                    <6>3. Slice(n, c, from, to) # {} /\ Slice(n, c, from, to) \subseteq a .. b
                        BY <6>2, SliceInView
                    <6>4. QED
                        BY <6>1, <6>3
                <5>3. QED
                    BY <4>2, <5>1, <5>2
        <3>4. QED
            BY <1>1, <3>1, <3>2, <3>3
    <2>6. QED
        BY <1>1, <1>11, <2>2, <2>3, <2>5 DEF c, left, show
<1>12. QED
    BY <1>1, <1>9, <1>10, <1>11

--------------------------------------------------------------------------------
(* What a slider shows at rest, and going to slides. *)

(* Where the strip belongs; with fade, the slide that is opaque.              *)
Place(s) == IF s.options.fade THEN s.current ELSE Left(s.options, s.slides, s.current)

(* When no animation is under way and no finger moved it, the strip is there. *)
Placed(s) ==
    s.callbacks = <<>> /\ s.track \notin {Dragged, Astray} => s.track = Place(s)

(* What setSlideClasses marked last: the current slide, or one that was       *)
(* clicked on in a slider without more slides than it shows, by its index.    *)
Marked(s) ==
    \E i \in Int :
        /\ i = s.current \/ (s.slides <= s.options.slidesToShow /\ i \in Nat)
        /\ s.shown = Active(s.options, s.slides, s.clones, i)

(* The clones are those the options ask for, centerMode goes with steps of one *)
(* slide, and a slider without more slides than it shows stands at the first. *)
Shaped(s) ==
    /\ s.clones = Clones(s.options, s.slides)
    /\ s.options.centerMode => s.options.slidesToScroll = 1
    /\ s.slides <= s.options.slidesToShow => s.current = 0

(* A protected animation of a slider with a partial last page ends where the  *)
(* slide is, give or take a round.                                            *)
Parted(s) ==
    /\ Protected(s) /\ s.options.slidesToShow = s.options.slidesToScroll
    /\ ~s.options.focusOnSelect
    => s.track \in Int /\ RoundsApart(s.slides, s.track, Left(s.options, s.slides, s.current))

(* A looping slider only stands at the start of pages, unless a click may     *)
(* choose any slide.                                                          *)
OnPage(o, i) == o.infinite /\ ~o.focusOnSelect => i % o.slidesToScroll = 0

(* A slider in shape, with the right slides marked.                           *)
Formed(s) ==
    /\ Slider(s) /\ s.options.slidesToScroll <= s.options.slidesToShow /\ s.current >= 0
    /\ ~s.unslicked => Shaped(s) /\ Marked(s)

(* A slider that shows what it should, wherever it stands. *)
Showing(s) == Formed(s) /\ Wrapped(s) /\ (~s.unslicked => Placed(s) /\ Parted(s))

(* A slider that also stands where it should. *)
Viewed(s) == Showing(s) /\ (~s.unslicked => OnPage(s.options, s.current))

(* A change of fields that do not matter to what is shown. *)
LEMMA ShowingStays ==
    ASSUME NEW s, NEW t, Showing(s), Slider(t),
           Changes(s, t, Fields \ {"options", "slides", "clones", "shown", "current", "track",
                                   "callbacks", "animating", "unslicked", "overtaken"})
    PROVE  Showing(t) /\ (Viewed(s) => Viewed(t))
<1>1. /\ t.options = s.options /\ t.slides = s.slides /\ t.clones = s.clones
      /\ t.shown = s.shown /\ t.current = s.current /\ t.track = s.track
      /\ t.callbacks = s.callbacks /\ t.animating = s.animating
      /\ t.unslicked = s.unslicked /\ t.overtaken = s.overtaken
    BY DEF Showing, Formed, Changes, Slider, Fields, Flags
<1>2. Formed(t)
    BY <1>1 DEF Showing, Formed, Shaped, Marked
<1>3. Wrapped(t)
    BY <1>1 DEF Showing, Wrapped, Protected
<1>4. ~t.unslicked => Placed(t) /\ Parted(t)
    BY <1>1 DEF Showing, Placed, Place, Parted, Protected
<1>5. QED
    BY <1>1, <1>2, <1>3, <1>4 DEF Showing, Viewed

(* A slider in shape whose strip is where it belongs. *)
LEMMA PlacedShowing ==
    ASSUME NEW s, Formed(s), Wrapped(s), ~s.unslicked => s.track = Place(s)
    PROVE  Showing(s)
<1> DEFINE left == Left(s.options, s.slides, s.current)
<1>1. left \in Int /\ s.slides \in Nat
    BY Numbers, LeftType, Zenon DEF Formed
<1>2. Protected(s) => s.track = left
    BY DEF Protected, Place
<1> HIDE DEF left
<1>3. Protected(s) => s.track \in Int /\ RoundsApart(s.slides, s.track, left)
    BY <1>1, <1>2 DEF RoundsApart
<1>4. QED
    BY <1>3 DEF Showing, Placed, Parted, left

(* setPosition puts the strip where it belongs. *)
LEMMA SetPositionPlace ==
    ASSUME NEW s, Slider(s)
    PROVE  SetPosition(s).track = Place(s)
BY DEF SetPosition, SetFade, SetCSS, Place, Slider, Fields, Flags

(* A change of fields that do not matter to the shape. *)
LEMMA FormedStays ==
    ASSUME NEW s, NEW t, Formed(s), Slider(t),
           Changes(s, t, Fields \ {"options", "slides", "clones", "shown", "current",
                                   "unslicked"})
    PROVE  Formed(t) /\ Place(t) = Place(s)
<1>1. /\ t.options = s.options /\ t.slides = s.slides /\ t.clones = s.clones
      /\ t.shown = s.shown /\ t.current = s.current /\ t.unslicked = s.unslicked
    BY DEF Formed, Changes, Slider, Fields, Flags
<1>2. QED
    BY <1>1 DEF Formed, Shaped, Marked, Place

(* So a slider in shape shows what it should after setPosition.               *)
LEMMA SetPositionShowing ==
    ASSUME NEW s, Formed(s), Wrapped(s)
    PROVE  LET t == SetPosition(s)
           IN  /\ Showing(t)
               /\ (~s.unslicked => OnPage(s.options, s.current)) => Viewed(t)
<1> DEFINE t == SetPosition(s)
<1>1. /\ Slider(s) /\ Slider(t) /\ Changes(s, t, {"track"}) /\ t.track = Place(s)
    BY SetPositionEffect, SetPositionPlace DEF Formed
<1>2. Wrapped(t)
    BY <1>1, SetPositionAligned DEF Aligned
<1> HIDE DEF t
<1>3. Changes(s, t, Fields \ {"options", "slides", "clones", "shown", "current",
                              "unslicked"})
    BY <1>1 DEF Changes, Fields, Flags
<1>4. Formed(t) /\ Place(t) = Place(s)
    BY <1>1, <1>3, FormedStays
<1>5. Showing(t)
    BY <1>1, <1>2, <1>4, PlacedShowing
<1>6. t.options = s.options /\ t.current = s.current /\ t.unslicked = s.unslicked
    BY <1>1 DEF Changes, Slider, Fields, Flags
<1>7. QED
    BY <1>5, <1>6 DEF Viewed, t

(* setSlideClasses marks the current slide. *)
LEMMA MarkingFormed ==
    ASSUME NEW s, Slider(s), s.options.slidesToScroll <= s.options.slidesToShow,
           s.current >= 0, ~s.unslicked => Shaped(s)
    PROVE  Formed(SetSlideClasses(s, s.current))
<1> DEFINE t == SetSlideClasses(s, s.current)
<1>1. s.current \in Int
    BY Numbers
<1>2. Slider(t) /\ Changes(s, t, {"shown"})
    BY <1>1, SetSlideClassesEffect
<1>3. t.shown = Active(s.options, s.slides, s.clones, s.current)
    BY DEF SetSlideClasses, Slider, Fields, Flags
<1> HIDE DEF t
<1>4. /\ t.options = s.options /\ t.slides = s.slides /\ t.clones = s.clones
      /\ t.current = s.current /\ t.unslicked = s.unslicked
    BY <1>2 DEF Changes, Slider, Fields, Flags
<1>5. Marked(t)
    BY <1>1, <1>3, <1>4 DEF Marked
<1>6. ~s.unslicked => Shaped(t)
    BY <1>4 DEF Shaped
<1>7. QED
    BY <1>2, <1>4, <1>5, <1>6 DEF Formed, t

(* postSlide puts the strip where it belongs, too. *)
LEMMA PostSlideShowing ==
    ASSUME NEW s, Formed(s), Aligned(PostSlide(s))
    PROVE  LET t == PostSlide(s)
           IN  /\ Showing(t)
               /\ (~s.unslicked => OnPage(s.options, s.current)) => Viewed(t)
<1> DEFINE t == PostSlide(s)
           r == [s EXCEPT !.animating = FALSE]
           u == SetPosition(r)
<1>1. /\ Slider(s) /\ Slider(t) /\ Changes(s, t, {"animating", "track", "ticking"})
    BY PostSlideEffect DEF Formed
<1>2. ~s.unslicked => t \in {u, AutoPlay(u)}
    BY DEF PostSlide
<1>3. Changes(s, r, {"animating"}) /\ r.animating = FALSE
    BY <1>1 DEF Changes, Slider, Fields, Flags
<1> HIDE DEF t, r
<1>4. Slider(r)
    BY <1>1, <1>3 DEF Changes, Slider, Fields, Flags
<1>5. Slider(u) /\ u.track = Place(r)
    BY <1>4, SetPositionEffect, SetPositionPlace
<1> HIDE DEF u
<1>6. AutoPlay(u).track = u.track
    BY <1>5 DEF AutoPlay, Slider, Fields, Flags
<1>7. Place(r) = Place(s)
    <2>1. Changes(s, r, Fields \ {"options", "slides", "clones", "shown", "current",
                                  "unslicked"})
        BY <1>3 DEF Changes, Fields, Flags
    <2>2. QED
        BY <1>4, <2>1, FormedStays
<1>8. Changes(s, t, Fields \ {"options", "slides", "clones", "shown", "current",
                              "unslicked"})
    BY <1>1 DEF Changes, Fields, Flags
<1>9. Formed(t) /\ Place(t) = Place(s)
    BY <1>1, <1>8, FormedStays
<1>10. t.options = s.options /\ t.current = s.current /\ t.unslicked = s.unslicked
    BY <1>1 DEF Changes, Slider, Fields, Flags
<1>11. ~t.unslicked => t.track = Place(t)
    BY <1>2, <1>5, <1>6, <1>7, <1>9, <1>10
<1>12. Showing(t)
    BY <1>9, <1>11, PlacedShowing DEF Aligned, t
<1>13. QED
    BY <1>10, <1>12 DEF Viewed, t

(* An index that takes the slider to a slide that exists, and to the start of *)
(* a page where only those will do.                                           *)
Suits(s, index) ==
    /\ s.slides > s.options.slidesToShow /\ s.slides % s.options.slidesToScroll = 0
       => -s.slides <= index
    /\ ~s.unslicked /\ s.options.infinite /\ ~s.options.focusOnSelect
       => index % s.options.slidesToScroll = 0 /\ -s.options.slidesToScroll <= index

(* An animation has just begun. *)
LEMMA AnimatingShowing ==
    ASSUME NEW s, Formed(s), NEW position \in Int,
           NEW t \in {AnimateSlide(s, position), FadeSlide(s)}, Wrapped(t), Parted(t)
    PROVE  /\ Showing(t)
           /\ (~s.unslicked => OnPage(s.options, s.current)) => Viewed(t)
<1>1. /\ Slider(s) /\ Slider(t) /\ Changes(s, t, {"track", "callbacks"})
      /\ Len(t.callbacks) = Len(s.callbacks) + 1
    BY AnimateEffect DEF Formed
<1>2. t.callbacks # <<>>
    <2>1. s.callbacks \in Seq(Int)
        BY <1>1 DEF Slider
    <2>2. Len(s.callbacks) \in Nat
        BY <2>1
    <2>3. QED
        BY <1>1, <2>2
<1>3. Changes(s, t, Fields \ {"options", "slides", "clones", "shown", "current",
                              "unslicked"})
    BY <1>1 DEF Changes, Fields, Flags
<1>4. Formed(t)
    BY <1>1, <1>3, FormedStays
<1>5. t.options = s.options /\ t.current = s.current /\ t.unslicked = s.unslicked
    BY <1>1 DEF Changes, Slider, Fields, Flags
<1>6. QED
    BY <1>2, <1>4, <1>5 DEF Showing, Viewed, Placed

(* slideHandler takes a slider that shows what it should to another slide, or *)
(* leaves it where it is.  If it is not deaf it then stands where it should.  *)
LEMMA SlideHandlerViewed ==
    ASSUME NEW s, Showing(s), NEW index \in Int, Suits(s, index), NEW dontAnimate
    PROVE  LET t == SlideHandler(s, index, dontAnimate)
           IN  Showing(t) /\ (Viewed(s) \/ ~s.animating => Viewed(t))
<1> DEFINE o == s.options
           n == s.slides
           k == o.slidesToScroll
           slide == AnimSlide(o, n, index)
           going == SetSlideClasses([s EXCEPT !.ticking = @ /\ ~s.options.autoplay,
                                              !.animating = TRUE, !.current = slide], slide)
           position == Left(o, n, index)
           here == Left(o, n, s.current)
           t == SlideHandler(s, index, dontAnimate)
<1>1. /\ Formed(s) /\ Slider(s) /\ o \in Options /\ n \in Nat
      /\ k \in Nat \ {0} /\ o.slidesToShow \in Nat /\ k <= o.slidesToShow
      /\ s.current \in Int /\ s.current >= 0
    BY Numbers DEF Showing, Formed, Options
<1>2. slide \in Int /\ position \in Int /\ here \in Int
    BY <1>1, AnimSlideRange, LeftType, Zenon
<1>3. /\ Slider(going) /\ Changes(s, going, {"ticking", "animating", "current", "shown"})
      /\ going.current = slide
    BY <1>1, <1>2, DepartureEffect
<1>4. going.shown = Active(o, n, s.clones, slide)
    BY <1>1 DEF SetSlideClasses, Slider, Fields, Flags
<1>5. t = IF IgnoresSlide(s, index) THEN s
          ELSE IF Beyond(o, n, index) THEN SnapBack(s, dontAnimate)
          ELSE IF dontAnimate THEN PostSlide(going)
          ELSE IF o.fade THEN FadeSlide(going)
          ELSE AnimateSlide(going, position)
    BY DEF SlideHandler
<1>6. Goes(s, t) /\ Aligned(t)
    BY <1>1, SlideHandlerEffect, SlideHandlerAligned DEF Showing, Aligned
<1>7. /\ (n % k = 0 => -n <= index) => slide >= 0
      /\ index % k = 0 => slide % k = 0
    BY <1>1, AnimSlidePages
<1>8. SnapBack(s, dontAnimate) \in {s, PostSlide(s), AnimateSlide(s, here)}
    BY DEF SnapBack
<1>9. ~o.infinite => OnPage(o, s.current)
    BY DEF OnPage
<1> HIDE DEF t, going, slide, position, here
<1>10. /\ t.options = o /\ t.slides = n /\ t.unslicked = s.unslicked
    BY <1>1, <1>6 DEF Goes, Changes, Going, Slider, Fields, Flags
<1>11. CASE IgnoresSlide(s, index)
    <2>1. t = s
        BY <1>5, <1>11
    <2>2. ASSUME ~s.animating, ~s.unslicked PROVE OnPage(o, s.current)
        <3>1. s.current = index \/ n <= o.slidesToShow
            BY <1>11, <2>2 DEF IgnoresSlide
        <3>2. CASE s.current = index
            BY <2>2, <3>2 DEF Suits, OnPage
        <3>3. CASE n <= o.slidesToShow
            <4>1. s.current = 0
                BY <1>1, <2>2, <3>3 DEF Formed, Shaped
            <4>2. 0 % k = 0
                BY <1>1, FirstPages
            <4>3. QED
                BY <4>1, <4>2 DEF OnPage
        <3>4. QED
            BY <3>1, <3>2, <3>3
    <2>3. QED
        BY <2>1, <2>2 DEF Viewed, t
<1>12. CASE ~IgnoresSlide(s, index) /\ Beyond(o, n, index)
    <2>1. ~o.infinite
        BY <1>12 DEF Beyond
    <2>2. Showing(t)
        <3>1. CASE t = s
            BY <3>1
        <3>2. CASE t = PostSlide(s)
            BY <1>1, <1>6, <3>2, PostSlideShowing
        <3>3. CASE t = AnimateSlide(s, here)
            <4>1. Wrapped(t) /\ Parted(t)
                BY <1>6, <1>10, <2>1 DEF Aligned, Parted, Protected
            <4>2. QED
                BY <1>1, <1>2, <3>3, <4>1, AnimatingShowing
        <3>4. QED
            BY <1>5, <1>8, <1>12, <3>1, <3>2, <3>3
    <2>3. OnPage(t.options, t.current)
        BY <1>10, <2>1 DEF OnPage
    <2>4. QED
        BY <2>2, <2>3 DEF Viewed, t
<1>13. CASE ~IgnoresSlide(s, index) /\ ~Beyond(o, n, index)
    <2>1. n > o.slidesToShow
        BY <1>1, <1>13 DEF IgnoresSlide
    <2>2. slide >= 0
        BY <1>7, <2>1 DEF Suits
    <2>3. /\ going.options = o /\ going.slides = n /\ going.clones = s.clones
          /\ going.unslicked = s.unslicked
        BY <1>1, <1>3 DEF Changes, Slider, Fields, Flags
    <2>4. Formed(going)
        <3>1. ~s.unslicked => Shaped(going)
            BY <1>1, <2>1, <2>3 DEF Formed, Shaped
        <3>2. Marked(going)
            BY <1>2, <1>3, <1>4, <2>3 DEF Marked
        <3>3. QED
            BY <1>1, <1>3, <2>2, <2>3, <3>1, <3>2 DEF Formed
    <2>5. ~going.unslicked => OnPage(going.options, going.current)
        BY <1>3, <1>7, <2>3 DEF Suits, OnPage
    <2>6. CASE t = PostSlide(going)
        BY <1>6, <2>4, <2>5, <2>6, PostSlideShowing DEF t
    <2>7. CASE o.fade /\ t = FadeSlide(going)
        <3>1. Wrapped(t) /\ Parted(t)
            BY <1>6, <1>10, <2>7 DEF Aligned, Parted, Protected
        <3>2. QED
            BY <1>2, <2>4, <2>5, <2>7, <3>1, AnimatingShowing DEF t
    <2>8. CASE t = AnimateSlide(going, position)
        <3>1. t.track = position /\ t.current = slide
            BY <1>3, <2>8 DEF AnimateSlide, Slider, Fields, Flags
        <3>2. Parted(t)
            <4>1. SUFFICES ASSUME Protected(t), o.slidesToShow = k, ~o.focusOnSelect
                           PROVE  RoundsApart(n, position, Left(o, n, slide))
                BY <1>2, <1>10, <3>1 DEF Parted
            <4>2. o.infinite /\ ~s.unslicked
                BY <1>10, <4>1 DEF Protected
            <4>3. o.centerMode => k = 1
                BY <1>1, <4>2 DEF Formed, Shaped
            <4>4. index % k = 0 /\ -k <= index
                BY <4>1, <4>2 DEF Suits
            <4>5. QED
                BY <1>1, <2>1, <4>1, <4>2, <4>3, <4>4, PartRounds DEF position, slide
        <3>3. QED
            BY <1>2, <1>6, <2>4, <2>5, <2>8, <3>2, AnimatingShowing DEF Aligned, t
    <2>9. QED
        BY <1>5, <1>13, <2>6, <2>7, <2>8
<1>14. QED
    BY <1>11, <1>12, <1>13

(* A step of the options, or none, suits a slider that stands where it should. *)
LEMMA StepSuits ==
    ASSUME NEW s, Viewed(s),
           NEW index \in {s.current - s.options.slidesToScroll, s.current,
                          s.current + s.options.slidesToScroll}
    PROVE  index \in Int /\ Suits(s, index)
<1> DEFINE k == s.options.slidesToScroll
<1>1. Slider(s)
    BY DEF Viewed, Showing, Formed
<1>2. /\ s.options \in Options /\ s.slides \in Nat /\ s.current \in Int
    BY <1>1, Numbers
<1>3. /\ k \in Nat \ {0} /\ s.options.slidesToShow \in Nat /\ k <= s.options.slidesToShow
      /\ s.current >= 0
    BY <1>2 DEF Options, Viewed, Showing, Formed
<1>4. PICK c \in Nat : c = s.current
    BY <1>2, <1>3
<1>5. index \in {c - k, c, c + k}
    BY <1>4
<1>6. c % k = 0 => index % k = 0
    BY <1>3, <1>4, <1>5, FirstPages, PagesAdd
<1>7. ~s.unslicked /\ s.options.infinite /\ ~s.options.focusOnSelect => c % k = 0
    BY <1>4 DEF Viewed, OnPage
<1> HIDE DEF k
<1>8. index \in Int /\ -k <= index
    BY <1>3, <1>5
<1>9. s.slides > s.options.slidesToShow => -s.slides <= index
    BY <1>2, <1>3, <1>8
<1>10. QED
    BY <1>6, <1>7, <1>8, <1>9 DEF Suits, k

(* slideHandler asked for a step, by swipes and autoplay.                     *)
LEMMA StepViewed ==
    ASSUME NEW s, Viewed(s), NEW dontAnimate,
           NEW index \in {s.current - s.options.slidesToScroll, s.current,
                          s.current + s.options.slidesToScroll}
    PROVE  Viewed(SlideHandler(s, index, dontAnimate))
BY StepSuits, SlideHandlerViewed DEF Viewed

(* Arrows and keys ask for a step, too, from the start of a page. *)
LEMMA ChangeSlideViewed ==
    ASSUME NEW s, Viewed(s), NEW message
    PROVE  Viewed(ChangeSlide(s, message))
<1>1. Slider(s)
    BY DEF Viewed, Showing, Formed
<1>2. /\ s.options \in Options /\ s.slides \in Nat /\ s.current \in Int
    BY <1>1, Numbers
<1>3. s.options.slidesToScroll <= s.options.slidesToShow /\ s.current >= 0
    BY DEF Viewed, Showing, Formed
<1>4. PICK c \in Nat : c = s.current
    BY <1>2, <1>3
<1>5. PICK index \in {PreviousIndex(s.options, s.slides, c), NextIndex(s.options, s.slides, c)} :
          ChangeSlide(s, message) = SlideHandler(s, index, FALSE)
    BY <1>4 DEF ChangeSlide
<1>6. index \in Int
    BY <1>2, <1>4, ChangeRange
<1>7. /\ s.slides > s.options.slidesToShow => -s.slides <= index
      /\ c % s.options.slidesToScroll = 0
         => index \in {c - s.options.slidesToScroll, c + s.options.slidesToScroll}
    BY <1>2, <1>3, <1>5, ChangePages
<1>8. Suits(s, index)
    <2>1. CASE c % s.options.slidesToScroll = 0
        BY <1>4, <1>7, <2>1, StepSuits
    <2>2. CASE c % s.options.slidesToScroll # 0
        BY <1>4, <1>7, <2>2 DEF Suits, Viewed, OnPage
    <2>3. QED
        BY <2>1, <2>2
<1>9. QED
    BY <1>5, <1>6, <1>8, SlideHandlerViewed DEF Viewed

(* Dots, goTo() and refresh ask for a navigable index. *)
LEMMA ChangeSlideToViewed ==
    ASSUME NEW s, Showing(s), NEW index \in Int, NEW dontAnimate,
           Viewed(s) \/ ~s.animating
    PROVE  Viewed(ChangeSlideTo(s, index, dontAnimate))
<1>1. Slider(s)
    BY DEF Showing, Formed
<1>2. /\ s.options \in Options /\ s.slides \in Nat
    BY <1>1, Numbers
<1>3. /\ s.options.slidesToScroll <= s.options.slidesToShow
      /\ s.options.slidesToScroll \in Nat \ {0} /\ s.options.slidesToShow \in Nat
    BY <1>2 DEF Showing, Formed, Options
<1>4. PICK i : i = CheckNavigable(s.options, s.slides, index)
    OBVIOUS
<1>5. /\ i \in Int
      /\ s.slides > 0 /\ s.slides >= s.options.slidesToScroll => -s.slides <= i
    BY <1>2, <1>4, CheckNavigableRange
<1>6. s.options.infinite => i % s.options.slidesToScroll = 0 /\ -s.options.slidesToScroll <= i
    BY <1>2, <1>3, <1>4, CheckNavigablePages
<1>7. s.slides > s.options.slidesToShow => -s.slides <= i
    BY <1>2, <1>3, <1>5
<1>8. Suits(s, i)
    BY <1>6, <1>7 DEF Suits
<1>9. QED
    BY <1>4, <1>5, <1>8, SlideHandlerViewed DEF ChangeSlideTo

(* autoPlayIterator asks for a step, or for nothing while it is paused.       *)
LEMMA AutoPlayIteratorViewed ==
    ASSUME NEW s, Viewed(s)
    PROVE  Viewed(AutoPlayIterator(s))
<1>1. Slider(s)
    BY DEF Viewed, Showing, Formed
<1>2. CASE s.paused \/ s.interrupted \/ s.focussed
    BY <1>2 DEF AutoPlayIterator
<1>3. CASE ~(s.paused \/ s.interrupted \/ s.focussed)
    <2>1. s.direction \in {0, 1}
        BY <1>1 DEF Slider
    <2>2. PICK turn \in {0, 1} :
              \E index \in {s.current - s.options.slidesToScroll,
                            s.current + s.options.slidesToScroll} :
                  AutoPlayIterator(s)
                  = SlideHandler([s EXCEPT !.direction = turn], index, FALSE)
        BY <1>3, <2>1 DEF AutoPlayIterator
    <2> DEFINE t == [s EXCEPT !.direction = turn]
    <2>3. PICK index \in {s.current - s.options.slidesToScroll,
                          s.current + s.options.slidesToScroll} :
              AutoPlayIterator(s) = SlideHandler(t, index, FALSE)
        BY <2>2
    <2>4. /\ Changes(s, t, {"direction"}) /\ t.direction = turn
          /\ t.current = s.current /\ t.options = s.options
        BY <1>1 DEF Changes, Slider, Fields, Flags
    <2> HIDE DEF t
    <2>5. Slider(t)
        BY <1>1, <2>4 DEF Changes, Slider, Fields, Flags
    <2>6. Viewed(t)
        <3>1. Changes(s, t, Fields \ {"options", "slides", "clones", "shown", "current", "track",
                                      "callbacks", "animating", "unslicked", "overtaken"})
            BY <2>4 DEF Changes, Fields, Flags
        <3>2. QED
            BY <2>5, <3>1, ShowingStays DEF Viewed
    <2>7. QED
        BY <2>3, <2>4, <2>6, StepViewed
<1>4. QED
    BY <1>2, <1>3

(* A click on a slide: with no more slides than are shown it is only marked.  *)
(* The index that was clicked may have been given before slides were removed. *)
LEMMA SelectViewed ==
    ASSUME NEW s, Viewed(s), Cloned(s), s.options.focusOnSelect,
           NEW index \in Int, -s.clones <= index
    PROVE  LET t == SelectHandler(s, index)
           IN  /\ Viewed(t) /\ Cloned(t) /\ t.options.focusOnSelect
               /\ -t.clones <= index
<1> DEFINE lost == index \notin -s.clones .. s.slides + s.clones - 1
           r == [s EXCEPT !.misled = @ \/ lost]
           t == SelectHandler(s, index)
<1>1. Slider(s) /\ Formed(s)
    BY DEF Viewed, Showing, Formed
<1>2. /\ s.options \in Options /\ s.slides \in Nat /\ s.clones \in Nat /\ s.current \in Int
    BY <1>1, Numbers
<1>3. s.options.slidesToShow \in Nat
    BY <1>2 DEF Options
<1>4. t = IF s.slides <= s.options.slidesToShow THEN SetSlideClasses(s, index)
          ELSE SlideHandler(r, index, FALSE)
    BY DEF SelectHandler
<1>5. Slider(r) /\ Changes(s, r, {"misled"})
    BY <1>1, MisledEffect
<1> HIDE DEF r, t
<1>6. CASE s.slides <= s.options.slidesToShow
    <2>1. Slider(t) /\ Changes(s, t, {"shown"})
        BY <1>1, <1>4, <1>6, SetSlideClassesEffect
    <2>2. t.shown = Active(s.options, s.slides, s.clones, index)
        BY <1>1, <1>4, <1>6 DEF SetSlideClasses, Slider, Fields, Flags
    <2>3. /\ t.options = s.options /\ t.slides = s.slides /\ t.clones = s.clones
          /\ t.current = s.current /\ t.track = s.track /\ t.callbacks = s.callbacks
          /\ t.animating = s.animating /\ t.unslicked = s.unslicked
          /\ t.overtaken = s.overtaken
        BY <1>1, <2>1 DEF Changes, Slider, Fields, Flags
    <2>4. ~s.unslicked => Marked(t)
        <3>1. ~s.unslicked => s.clones = 0
            BY <1>1, <1>6 DEF Formed, Shaped, Clones
        <3>2. ~s.unslicked => index \in Nat
            BY <3>1
        <3>3. QED
            BY <1>6, <2>2, <2>3, <3>2 DEF Marked
    <2>5. Formed(t)
        BY <1>1, <2>1, <2>3, <2>4 DEF Formed, Shaped
    <2>6. Wrapped(t) /\ (~t.unslicked => Placed(t) /\ Parted(t))
        BY <2>3 DEF Viewed, Showing, Wrapped, Protected, Placed, Place, Parted
    <2>7. QED
        BY <2>3, <2>5, <2>6 DEF Viewed, Showing, Cloned, t
<1>7. CASE ~(s.slides <= s.options.slidesToShow)
    <2>1. /\ r.options = s.options /\ r.slides = s.slides /\ r.clones = s.clones
        BY <1>1, <1>5 DEF Changes, Slider, Fields, Flags
    <2>2. Viewed(r)
        <3>1. Changes(s, r, Fields \ {"options", "slides", "clones", "shown", "current", "track",
                                      "callbacks", "animating", "unslicked", "overtaken"})
            BY <1>5 DEF Changes, Fields, Flags
        <3>2. QED
            BY <1>5, <3>1, ShowingStays DEF Viewed
    <2>3. s.clones <= s.options.slidesToShow + 1
        BY <1>3 DEF Cloned, Clones
    <2>4. -s.slides <= index
        BY <1>2, <1>3, <1>7, <2>3
    <2>5. Suits(r, index)
        BY <2>1, <2>4 DEF Suits
    <2>6. Viewed(t)
        BY <1>4, <1>7, <2>2, <2>5, SlideHandlerViewed DEF Viewed
    <2>7. Goes(r, t)
        BY <1>4, <1>5, <1>7, SlideHandlerEffect
    <2>8. t.options = r.options /\ t.slides = r.slides /\ t.clones = r.clones
        BY <1>5, <2>7 DEF Goes, Changes, Going, Slider, Fields, Flags
    <2>9. QED
        BY <2>1, <2>6, <2>8 DEF Cloned, t
<1>8. QED
    BY <1>6, <1>7

--------------------------------------------------------------------------------
(* Building, refreshing and rebuilding leave it showing what it should. *)

(* The clones setupInfinite makes are the ones its options ask for; but for   *)
(* centerMode, which may go, the options stay.                                *)
LEMMA SetupInfiniteShape ==
    ASSUME NEW s, Slider(s)
    PROVE  LET t == SetupInfinite(s)
           IN  /\ t.clones = Clones(t.options, t.slides)
               /\ \E mode \in BOOLEAN : /\ t.options = [s.options EXCEPT !.centerMode = mode]
                                        /\ mode => s.options.centerMode
<1> DEFINE o == [s.options EXCEPT !.centerMode = @ /\ ~s.options.fade]
           t == ChangeOptions(s, o)
           u == [t EXCEPT !.clones = Clones(t.options, t.slides)]
<1>1. PICK mode \in BOOLEAN : /\ o = [s.options EXCEPT !.centerMode = mode]
                              /\ mode => s.options.centerMode
    OBVIOUS
<1>2. s.options \in Options
    BY DEF Slider
<1>3. o \in Options
    BY <1>1, <1>2 DEF Options
<1>4. SetupInfinite(s) = u
    BY DEF SetupInfinite
<1> HIDE DEF o
<1>5. Slider(t) /\ t.options = o
    BY <1>3, ChangeOptionsEffect
<1> HIDE DEF t
<1>6. u.options = t.options /\ u.slides = t.slides /\ u.clones = Clones(t.options, t.slides)
    BY <1>5 DEF Slider, Fields, Flags
<1>7. QED
    BY <1>1, <1>4, <1>5, <1>6

(* buildOut leaves a slider in shape with its current slide marked. *)
LEMMA BuildOutFormed ==
    ASSUME NEW s, Slider(s), s.options.slidesToScroll <= s.options.slidesToShow,
           s.current >= 0, s.slides <= s.options.slidesToShow => s.current = 0
    PROVE  LET t == BuildOut(s)
           IN  /\ Formed(t)
               /\ t.options.infinite = s.options.infinite
               /\ t.options.slidesToShow = s.options.slidesToShow
<1> DEFINE o == [s.options EXCEPT !.slidesToScroll = IF s.options.centerMode THEN 1 ELSE @]
           m == Numbered(s)
           t == ChangeOptions(m, o)
           u == SetupInfinite(t)
           v == SetSlideClasses(u, s.current)
<1>1. s.options \in Options /\ s.current \in Int
    BY DEF Slider
<1>2. /\ o \in Options
      /\ o.centerMode => o.slidesToScroll = 1
      /\ o.slidesToScroll <= o.slidesToShow
      /\ o.slidesToShow = s.options.slidesToShow /\ o.infinite = s.options.infinite
    <2>1. PICK scroll \in Nat \ {0} : /\ o = [s.options EXCEPT !.slidesToScroll = scroll]
                                      /\ s.options.centerMode => scroll = 1
                                      /\ scroll <= s.options.slidesToScroll
        BY <1>1 DEF Options
    <2>2. QED
        BY <1>1, <2>1 DEF Options
<1> HIDE DEF o
<1>3. BuildOut(s) = v
    BY DEF BuildOut, o
<1>4. Slider(m) /\ Changes(s, m, {"indexes"})
    BY NumberedEffect
<1> HIDE DEF m
<1>5. Slider(t) /\ Changes(m, t, {"options", "original"}) /\ t.options = o
    BY <1>2, <1>4, ChangeOptionsEffect
<1> HIDE DEF t
<1>6. Slider(t) /\ Changes(s, t, {"indexes", "options", "original"}) /\ t.options = o
    BY <1>4, <1>5, ChangesAdd
<1>7. Slider(u) /\ Changes(t, u, {"options", "original", "clones"})
    BY <1>6, SetupInfiniteEffect
<1>8. u.clones = Clones(u.options, u.slides)
    BY <1>6, SetupInfiniteShape
<1>9. PICK mode \in BOOLEAN : /\ u.options = [o EXCEPT !.centerMode = mode]
                              /\ mode => o.centerMode
    <2>1. \E mode \in BOOLEAN : /\ u.options = [t.options EXCEPT !.centerMode = mode]
                                /\ mode => t.options.centerMode
        BY <1>6, SetupInfiniteShape
    <2>2. QED
        BY <1>6, <2>1
<1> HIDE DEF u
<1>10. /\ u.options.centerMode => u.options.slidesToScroll = 1
      /\ u.options.slidesToScroll <= u.options.slidesToShow
      /\ u.options.slidesToShow = s.options.slidesToShow
      /\ u.options.infinite = s.options.infinite
    BY <1>2, <1>9 DEF Options
<1>11. u.current = s.current /\ u.slides = s.slides
    BY <1>6, <1>7 DEF Changes, Slider, Fields, Flags
<1>12. Shaped(u)
    BY <1>8, <1>10, <1>11 DEF Shaped
<1>13. v = SetSlideClasses(u, u.current)
    BY <1>11
<1>14. Formed(v)
    BY <1>7, <1>10, <1>11, <1>12, <1>13, MarkingFormed
<1>15. v.options = u.options
    BY <1>7 DEF SetSlideClasses, Slider, Fields, Flags
<1>16. QED
    BY <1>3, <1>10, <1>14, <1>15 DEF v

(* The part of init that builds a slider ends with the strip where it belongs. *)
LEMMA InitBuildFormed ==
    ASSUME NEW s, Slider(s), s.options.slidesToScroll <= s.options.slidesToShow,
           s.current >= 0, s.slides <= s.options.slidesToShow => s.current = 0
    PROVE  LET t == InitBuild(s)
           IN  Formed(t) /\ t.track = Place(t)
<1> DEFINE t == BuildOut(s)
           u == SetPosition(t)
           v == InitBuild(s)
<1>1. Formed(t) /\ Slider(t)
    BY BuildOutFormed DEF Formed
<1>2. v = [u EXCEPT !.listening = TRUE, !.hoverLast = FALSE]
    BY DEF InitBuild, InitializeEvents
<1> HIDE DEF t
<1>3. Slider(u) /\ Changes(t, u, {"track"}) /\ u.track = Place(t)
    BY <1>1, SetPositionEffect, SetPositionPlace
<1> HIDE DEF u, v
<1>4. /\ Changes(u, v, {"listening", "hoverLast"}) /\ v.track = u.track
    BY <1>2, <1>3 DEF Changes, Slider, Fields, Flags
<1>5. Slider(v)
    BY InitBuildEffect DEF v
<1>6. Changes(t, v, Fields \ {"options", "slides", "clones", "shown", "current",
                              "unslicked"})
    <2>1. Changes(t, v, {"track", "listening", "hoverLast"})
        BY <1>3, <1>4, ChangesAdd
    <2>2. QED
        BY <2>1 DEF Changes, Fields, Flags
<1>7. Formed(v) /\ Place(v) = Place(t)
    BY <1>1, <1>5, <1>6, FormedStays
<1>8. QED
    BY <1>3, <1>4, <1>7 DEF v

(* refresh leaves a slider that shows what it should and, as it is not deaf   *)
(* then, goes to the start of a page.                                         *)
LEMMA RefreshViewed ==
    ASSUME NEW s, Slider(s), s.options.slidesToScroll <= s.options.slidesToShow,
           s.current >= 0, NEW initializing, initializing => s.current = 0
    PROVE  Viewed(Refresh(s, initializing))
<1> DEFINE lastVisible == s.slides - s.options.slidesToShow
           current == IF s.slides <= s.options.slidesToShow THEN 0
                      ELSE IF ~s.options.infinite /\ s.current > lastVisible
                      THEN lastVisible ELSE s.current
           r == [Destroy(s) EXCEPT
                   !.current = current, !.animating = FALSE, !.dragging = FALSE,
                   !.direction = 1, !.touch = s.firstTouch, !.sharedTouch = TRUE,
                   !.unslicked = FALSE, !.overtaken = s.callbacks # <<>>]
           t == InitBuild(r)
           u == InitEnd(t)
<1>1. /\ Refresh(s, initializing) = IF initializing THEN u ELSE ChangeSlideTo(u, current, FALSE)
      /\ Refresh(s, TRUE) = u
    BY DEF Refresh
<1>2. /\ s.slides \in Nat /\ s.current \in Int /\ s.options.slidesToShow \in Nat \ {0}
    BY Numbers DEF Options
<1>3. /\ current \in Int /\ current >= 0 /\ (s.slides <= s.options.slidesToShow => current = 0)
      /\ s.current = 0 => current = 0
    BY <1>2
<1> HIDE DEF current
<1>4. /\ Slider(r)
      /\ Changes(s, r, {"listening", "focusable", "rebound", "touch", "sharedTouch",
                        "ticking", "clones", "shown", "indexes", "unslicked", "current",
                        "animating", "dragging", "direction", "overtaken"})
      /\ r.current = current /\ r.animating = FALSE
    BY <1>3, ResetEffect
<1>5. r.options = s.options /\ r.slides = s.slides
    BY <1>4, ZenonT(40) DEF Changes, Slider, Fields, Flags
<1> HIDE DEF r
<1>6. /\ Slider(t)
      /\ Changes(r, t, {"indexes", "options", "original", "clones", "shown", "track",
                        "listening", "hoverLast"})
    BY <1>4, InitBuildEffect
<1>7. Formed(t) /\ t.track = Place(t)
    BY <1>3, <1>4, <1>5, InitBuildFormed
<1> HIDE DEF t
<1>8. Slider(u) /\ Changes(t, u, {"focusable", "paused", "ticking"})
    BY <1>6, InitEndEffect
<1>9. Aligned(u)
    BY <1>1, RefreshAligned
<1> HIDE DEF u
<1>10. u.track = t.track /\ u.animating = r.animating /\ u.current = current
    <2>1. t.animating = r.animating /\ t.current = r.current
        BY <1>4, <1>6 DEF Changes, Slider, Fields, Flags
    <2>2. QED
        BY <1>4, <1>6, <1>8, <2>1 DEF Changes, Slider, Fields, Flags
<1>11. Showing(u)
    <2>1. Changes(t, u, Fields \ {"options", "slides", "clones", "shown", "current",
                                  "unslicked"})
        BY <1>8 DEF Changes, Fields, Flags
    <2>2. Formed(u) /\ Place(u) = Place(t)
        BY <1>7, <1>8, <2>1, FormedStays
    <2>3. QED
        BY <1>7, <1>9, <1>10, <2>2, PlacedShowing DEF Aligned
<1>12. CASE initializing
    <2>1. u.current = 0 /\ u.options \in Options
        BY <1>3, <1>8, <1>10, <1>12 DEF Slider
    <2>2. u.options.slidesToScroll \in Nat \ {0}
        BY <2>1 DEF Options
    <2>3. OnPage(u.options, u.current)
        BY <2>1, <2>2, FirstPages DEF OnPage
    <2>4. QED
        BY <1>1, <1>11, <1>12, <2>3 DEF Viewed
<1>13. CASE ~initializing
    <2>1. Viewed(ChangeSlideTo(u, current, FALSE))
        BY <1>3, <1>4, <1>10, <1>11, ChangeSlideToViewed
    <2>2. QED
        BY <1>1, <1>13, <2>1
<1>14. QED
    BY <1>12, <1>13

(* A slider that was taken apart shows nothing. *)
LEMMA DestroyViewed ==
    ASSUME NEW s, Slider(s), s.options.slidesToScroll <= s.options.slidesToShow,
           s.current >= 0
    PROVE  Viewed(Destroy(s))
<1> DEFINE t == Destroy(s)
<1>1. /\ Slider(t) /\ t.unslicked = TRUE
      /\ Changes(s, t, {"listening", "focusable", "rebound", "touch", "sharedTouch",
                        "ticking", "clones", "shown", "indexes", "unslicked"})
    BY DestroyEffect
<1>2. Aligned(t)
    BY DestroyAligned
<1> HIDE DEF t
<1>3. t.options = s.options /\ t.current = s.current
    BY <1>1 DEF Changes, Slider, Fields, Flags
<1>4. QED
    BY <1>1, <1>2, <1>3 DEF Viewed, Showing, Formed, Aligned, t

(* checkResponsive leaves the slider alone, or refreshes it or takes it apart *)
(* with options that scroll no further than they show.                        *)
LEMMA CheckResponsiveViewed ==
    ASSUME SensibleBreakpoints, page \in Pages, NEW s, Slider(s),
           Sized(s, page.settings.slidesToScroll), s.current >= 0,
           NEW w \in Nat, NEW initial \in BOOLEAN, NEW forceUpdate
    PROVE  LET t == CheckResponsive(s, w, initial, forceUpdate)
           IN  t = s \/ Viewed(t)
<1> DEFINE target == TargetBreakpoint(w)
           change == page.responsive[target]
           current == IF initial THEN 0 ELSE s.current
           entered == [s EXCEPT !.activeBreakpoint = target, !.current = current]
           Entered(o) == [entered EXCEPT !.options = o]
           alone == [s EXCEPT !.activeBreakpoint = target]
           t == CheckResponsive(s, w, initial, forceUpdate)
<1>1. target \in DOMAIN page.responsive \cup {None}
    BY TargetBreakpointType
<1>2. /\ s.options \in Options /\ s.original \in Options /\ current \in Int
      /\ current >= 0 /\ (initial => current = 0)
    BY DEF Slider
<1>3. entered = [s EXCEPT !.activeBreakpoint = target,
                          !.current = IF initial THEN 0 ELSE @]
    BY DEF current
<1>4. t = IF target = s.activeBreakpoint /\ ~(forceUpdate /\ target # None) THEN s
          ELSE IF target = None THEN Refresh(Entered(s.original), initial)
          ELSE IF change = Unslick THEN Destroy(alone)
          ELSE Refresh(Entered(Extended(s.original, change)), initial)
    BY <1>3 DEF CheckResponsive
<1> HIDE DEF t
<1>5. ASSUME NEW o \in Options, o.slidesToScroll <= o.slidesToShow
      PROVE  Viewed(Refresh(Entered(o), initial))
    <2>1. /\ Changes(s, Entered(o), {"activeBreakpoint", "current", "options"})
          /\ Entered(o).current = current /\ Entered(o).options = o
        <3> HIDE DEF target, current
        <3>1. QED
            BY DEF Changes, Slider, Fields, Flags
    <2> HIDE DEF Entered
    <2>2. Slider(Entered(o))
        BY <1>2, <2>1 DEF Changes, Slider, Fields, Flags
    <2>3. QED
        BY <1>2, <1>5, <2>1, <2>2, RefreshViewed
<1>6. Viewed(Destroy(alone))
    <2>1. Changes(s, alone, {"activeBreakpoint"})
        BY DEF Changes, Slider, Fields, Flags
    <2> HIDE DEF alone
    <2>2. Slider(alone)
        BY <2>1 DEF Changes, Slider, Fields, Flags
    <2>3. alone.options = s.options /\ alone.current = s.current
        BY <2>1 DEF Changes, Slider, Fields, Flags
    <2>4. QED
        BY <2>2, <2>3, DestroyViewed DEF Sized
<1>7. CASE target # None /\ change # Unslick
    <2>1. target \in DOMAIN page.responsive
        BY <1>1, <1>7
    <2>2. page.settings \in Options /\ Sensible(Extended(page.settings, change))
        BY <1>7, <2>1, PagesAssumption DEF Sensible
    <2>3. "slidesToScroll" \in DOMAIN change => "slidesToShow" \in DOMAIN change
        BY <1>7, <2>1 DEF SensibleBreakpoints
    <2> DEFINE o == Extended(s.original, change)
    <2> HIDE DEF Entered, change, target
    <2>4. o \in Options
        BY <1>2, <2>2, ExtendedType DEF Sensible
    <2>5. o.slidesToScroll <= o.slidesToShow
        BY <1>2, <2>2, <2>3, ExtendedFits DEF Sized
    <2> HIDE DEF o
    <2>6. Viewed(Refresh(Entered(o), initial))
        BY <1>5, <2>4, <2>5
    <2>7. t \in {s, Refresh(Entered(o), initial)}
        BY <1>4, <1>7 DEF o
    <2>8. QED
        BY <2>6, <2>7 DEF t
<1>8. CASE target = None \/ change = Unslick
    <2> HIDE DEF Entered, change, target, alone
    <2>1. t \in {s, Refresh(Entered(s.original), initial), Destroy(alone)}
        BY <1>4, <1>8
    <2>2. Viewed(Refresh(Entered(s.original), initial))
        BY <1>2, <1>5 DEF Sized
    <2>3. QED
        BY <1>6, <2>1, <2>2 DEF t
<1>9. QED
    BY <1>7, <1>8

(* What reinit is given: the slides, and how many are shown, may be new.      *)
Given(s) ==
    /\ Slider(s) /\ Sized(s, page.settings.slidesToScroll)
    /\ ~s.unslicked /\ s.current >= 0
    /\ s.options.centerMode => s.options.slidesToScroll = 1
    /\ OnPage(s.options, s.current)

(* reinit, once it has chosen a slide: what it marks and places agrees with   *)
(* the options it ends with.                                                  *)
LEMMA RebuildViewed ==
    ASSUME SensibleBreakpoints, page \in Pages, NEW s, Given(s), NEW current \in Int,
           current >= 0, s.slides <= s.options.slidesToShow => current = 0,
           OnPage(s.options, current), NEW w \in Nat
    PROVE  Viewed(Rebuild(s, current, w))
<1> DEFINE late    == s.overtaken \/ s.callbacks # <<>>
           begun   == [InitSlideEvents(s) EXCEPT !.current = current,
                                                 !.overtaken = @ \/ s.callbacks # <<>>]
           set     == SetupInfinite(begun)
           rebuilt == CheckResponsive(set, w, FALSE, TRUE)
           bound   == [rebuilt EXCEPT
                         !.rebound = @ \/ (~rebuilt.unslicked /\ rebuilt.options.focusOnSelect)]
           marked  == SetSlideClasses(bound, bound.current)
           placed  == SetPosition(marked)
           quiet   == ~placed.options.autoplay
           ready   == [FocusHandler(placed) EXCEPT !.paused = ~placed.options.autoplay]
           t       == Rebuild(s, current, w)
<1>1. t = AutoPlay(ready)
    BY DEF Rebuild
<1>2. begun = [s EXCEPT !.hoverLast = TRUE, !.current = current, !.overtaken = late]
    <2>1. InitSlideEvents(s).overtaken = s.overtaken
        BY DEF InitSlideEvents, Given, Slider, Fields, Flags
    <2>2. begun = [InitSlideEvents(s) EXCEPT !.current = current, !.overtaken = late]
        BY <2>1
    <2> HIDE DEF begun, late
    <2>3. QED
        BY <2>2 DEF InitSlideEvents
<1>3. late \in BOOLEAN
    OBVIOUS
<1> HIDE DEF begun, late, t
<1>4. PICK v \in BOOLEAN : v = late
    BY <1>3
<1>5. /\ Changes(s, begun, {"hoverLast", "current", "overtaken"})
      /\ begun.hoverLast = TRUE /\ begun.current = current /\ begun.overtaken = v
    <2>1. begun = [s EXCEPT !.hoverLast = TRUE, !.current = current, !.overtaken = v]
        BY <1>2, <1>4
    <2>2. QED
        BY <2>1 DEF Given, Changes, Slider, Fields, Flags
<1>6. /\ Slider(begun) /\ begun.callbacks = s.callbacks /\ begun.options = s.options
      /\ begun.slides = s.slides /\ begun.unslicked = s.unslicked
      /\ begun.original = s.original /\ begun.activeBreakpoint = s.activeBreakpoint
    BY <1>5, ZenonT(40) DEF Given, Changes, Slider, Fields, Flags
<1>7. /\ Slider(set) /\ Changes(begun, set, {"options", "original", "clones"})
      /\ \A k \in Nat : Sized(begun, k) => Sized(set, k)
    BY <1>6, SetupInfiniteEffect
<1>8. set.clones = Clones(set.options, set.slides)
    BY <1>6, SetupInfiniteShape
<1>9. PICK mode \in BOOLEAN : /\ set.options = [s.options EXCEPT !.centerMode = mode]
                              /\ mode => s.options.centerMode
    <2>1. \E mode \in BOOLEAN : /\ set.options = [begun.options EXCEPT !.centerMode = mode]
                                /\ mode => begun.options.centerMode
        BY <1>6, SetupInfiniteShape
    <2>2. QED
        BY <1>6, <2>1
<1> HIDE DEF set
<1>10. /\ set.callbacks = s.callbacks /\ set.overtaken = v /\ set.slides = s.slides
       /\ set.current = current /\ set.unslicked = s.unslicked
    BY <1>5, <1>6, <1>7 DEF Changes, Slider, Fields, Flags
<1>11. Sized(set, page.settings.slidesToScroll)
    <2>1. page.settings.slidesToScroll \in Nat
        BY PagesAssumption DEF Sensible, Options
    <2>2. Sized(begun, page.settings.slidesToScroll)
        BY <1>6 DEF Given, Sized
    <2>3. QED
        BY <1>7, <2>1, <2>2
<1>12. /\ set.options.centerMode => set.options.slidesToScroll = 1
       /\ set.options.slidesToShow = s.options.slidesToShow
       /\ OnPage(set.options, current)
    <2>1. s.options \in Options
        BY DEF Given, Slider
    <2>2. QED
        BY <1>9, <2>1 DEF Given, OnPage, Options
<1>13. Shaped(set)
    BY <1>8, <1>10, <1>12 DEF Shaped
<1>14. Wrapped(set)
    BY <1>4, <1>10 DEF Wrapped, Protected, late
<1>15. rebuilt = set \/ Viewed(rebuilt)
    BY <1>7, <1>10, <1>11, CheckResponsiveViewed
<1> HIDE DEF rebuilt
<1>16. /\ Aligned(rebuilt) /\ rebuilt.options.slidesToScroll <= rebuilt.options.slidesToShow
       /\ rebuilt.current >= 0
       /\ ~rebuilt.unslicked => Shaped(rebuilt) /\ OnPage(rebuilt.options, rebuilt.current)
    <2>1. CASE rebuilt = set
        BY <1>7, <1>10, <1>11, <1>12, <1>13, <1>14, <2>1 DEF Aligned, Sized
    <2>2. CASE Viewed(rebuilt)
        BY <2>2 DEF Viewed, Showing, Formed, Aligned
    <2>3. QED
        BY <1>15, <2>1, <2>2
<1>17. Slider(bound) /\ Changes(rebuilt, bound, {"rebound"})
    BY <1>16, BoundEffect DEF Aligned
<1> HIDE DEF bound
<1>18. /\ Aligned(bound) /\ bound.options.slidesToScroll <= bound.options.slidesToShow
       /\ bound.current >= 0
       /\ ~bound.unslicked => Shaped(bound) /\ OnPage(bound.options, bound.current)
    <2>1. Changes(rebuilt, bound, Fields \ {"animating", "unslicked", "callbacks", "options",
                                            "overtaken", "current", "slides", "track"})
        BY <1>17 DEF Changes, Fields, Flags
    <2>2. Aligned(bound)
        BY <1>16, <1>17, <2>1, AlignedStays
    <2>3. /\ bound.options = rebuilt.options /\ bound.current = rebuilt.current
          /\ bound.unslicked = rebuilt.unslicked /\ bound.slides = rebuilt.slides
          /\ bound.clones = rebuilt.clones
        BY <1>16, <1>17 DEF Aligned, Changes, Slider, Fields, Flags
    <2>4. QED
        BY <1>16, <2>2, <2>3 DEF Shaped
<1>19. Formed(marked)
    BY <1>18, MarkingFormed DEF Aligned
<1>20. Aligned(marked)
    <2>1. bound.current \in Int
        BY <1>18 DEF Aligned, Slider
    <2>2. QED
        BY <1>18, <2>1, MarkingAligned
<1>21. /\ marked.options = bound.options /\ marked.current = bound.current
       /\ marked.unslicked = bound.unslicked
    BY <1>18 DEF SetSlideClasses, Aligned, Slider, Fields, Flags
<1> HIDE DEF marked
<1>22. Viewed(placed)
    BY <1>18, <1>19, <1>20, <1>21, SetPositionShowing DEF Aligned
<1>23. quiet \in BOOLEAN
    OBVIOUS
<1>24. ready = [placed EXCEPT !.focusable = TRUE, !.paused = quiet]
    BY DEF FocusHandler
<1> HIDE DEF placed, quiet, ready
<1>25. PICK q \in BOOLEAN : ready = [placed EXCEPT !.focusable = TRUE, !.paused = q]
    BY <1>23, <1>24
<1>26. Slider(placed)
    BY <1>22 DEF Viewed, Showing, Formed
<1>27. /\ Changes(placed, ready, {"focusable", "paused"})
       /\ ready.focusable = TRUE /\ ready.paused = q
    BY <1>25, <1>26 DEF Changes, Slider, Fields, Flags
<1>28. Slider(ready)
    BY <1>26, <1>27 DEF Changes, Slider, Fields, Flags
<1>29. Slider(t) /\ Changes(ready, t, {"ticking"})
    BY <1>1, <1>28, TickingEffect
<1>30. Changes(placed, t, {"focusable", "paused", "ticking"})
    BY <1>27, <1>29, ChangesAdd
<1>31. Changes(placed, t, Fields \ {"options", "slides", "clones", "shown", "current", "track",
                                    "callbacks", "animating", "unslicked", "overtaken"})
    BY <1>30 DEF Changes, Fields, Flags
<1>32. QED
    BY <1>22, <1>29, <1>31, ShowingStays DEF Viewed, t

(* reinit chooses a slide: the current one, or the one a step before it.      *)
LEMMA ReinitViewed ==
    ASSUME SensibleBreakpoints, page \in Pages, NEW s, Given(s), NEW w \in Nat
    PROVE  Viewed(Reinit(s, w))
<1> DEFINE k == s.options.slidesToScroll
           current == IF s.slides <= s.options.slidesToShow THEN 0
                      ELSE IF s.current >= s.slides /\ s.current # 0
                      THEN s.current - k ELSE s.current
<1>1. /\ s.options \in Options /\ s.slides \in Nat /\ s.current \in Int
      /\ s.current >= 0
    BY Numbers DEF Given
<1>2. /\ s.options.slidesToShow \in Nat \ {0} /\ k \in Nat \ {0}
      /\ k <= s.options.slidesToShow
    BY <1>1 DEF Given, Sized, Options
<1>3. s.slides <= s.options.slidesToShow => current = 0
    OBVIOUS
<1>4. Reinit(s, w) = Rebuild(s, current, w)
    BY DEF Reinit
<1>5. current \in {0, s.current - k, s.current}
    OBVIOUS
<1>6. current \in Int /\ current >= 0
    BY <1>1, <1>2
<1> HIDE DEF current
<1>7. s.current % k = 0 => current % k = 0
    BY <1>1, <1>2, <1>5, FirstPages, PagesAdd
<1>8. OnPage(s.options, current)
    BY <1>7 DEF Given, OnPage
<1>9. QED
    BY <1>3, <1>4, <1>6, <1>8, RebuildViewed

(* Adding, removing and filtering slides. *)
LEMMA ReplaceSlidesViewed ==
    ASSUME SensibleBreakpoints, page \in Pages, NEW s, Given(s), NEW n \in 0 .. MaxSlides,
           NEW w \in Nat
    PROVE  Viewed(ReplaceSlides(s, n, w))
<1> DEFINE t == [Unload(s) EXCEPT !.slides = n]
<1>1. t = [s EXCEPT !.clones = 0, !.shown = {}, !.slides = n]
    BY DEF Unload
<1>2. Slider(s)
    BY DEF Given
<1> HIDE DEF t
<1>3. /\ Changes(s, t, {"clones", "shown", "slides"})
      /\ t.clones \in Nat /\ t.shown \subseteq Int /\ t.slides = n
    BY <1>1, <1>2 DEF Changes, Slider, Fields, Flags
<1>4. /\ t.options = s.options /\ t.original = s.original /\ t.cache = s.cache
      /\ t.current = s.current /\ t.direction = s.direction /\ t.track = s.track
      /\ t.callbacks = s.callbacks /\ t.touch = s.touch /\ t.firstTouch = s.firstTouch
      /\ t.activeBreakpoint = s.activeBreakpoint /\ t.unslicked = s.unslicked
      /\ t.indexes = s.indexes /\ t.hidden = s.hidden
    BY <1>2, <1>3 DEF Changes, Slider, Fields, Flags
<1>5. Slider(t)
    <2>1. \A f \in Flags : t[f] \in BOOLEAN
        <3>1. \A f \in Flags : t[f] = s[f]
            BY <1>2, <1>3 DEF Changes, Slider, Fields, Flags
        <3>2. QED
            BY <1>2, <3>1 DEF Slider
    <2>2. DOMAIN t = Fields
        BY <1>2, <1>3 DEF Changes, Slider
    <2>3. QED
        BY <1>2, <1>3, <1>4, <2>1, <2>2 DEF Slider
<1>6. Given(t)
    BY <1>4, <1>5 DEF Given, Sized
<1>7. QED
    BY <1>6, ReinitViewed DEF ReplaceSlides, t

(* setOption, with a number of slides to show. *)
LEMMA SetOptionViewed ==
    ASSUME SensibleBreakpoints, page \in Pages, NEW s, Given(s), NEW w \in Nat,
           NEW n \in s.options.slidesToScroll .. MaxSlides
    PROVE  Viewed(Reinit(Unload(ChangeOptions(s,
                      [s.options EXCEPT !.slidesToShow = n])), w))
<1> DEFINE o == [s.options EXCEPT !.slidesToShow = n]
           t == ChangeOptions(s, o)
           u == Unload(t)
<1>1. /\ Slider(s) /\ s.options \in Options /\ s.options.slidesToScroll \in Nat \ {0}
    BY Numbers DEF Given, Options
<1>2. n \in Nat \ {0} /\ s.options.slidesToScroll <= n
    BY <1>1, BoundsAssumption
<1>3. /\ o \in Options /\ o.slidesToShow = n
      /\ o.slidesToScroll = s.options.slidesToScroll /\ o.infinite = s.options.infinite
      /\ o.centerMode = s.options.centerMode /\ o.focusOnSelect = s.options.focusOnSelect
    BY <1>1, <1>2 DEF Options
<1> HIDE DEF o
<1>4. /\ Slider(t) /\ Changes(s, t, {"options", "original"}) /\ t.options = o
    BY <1>1, <1>3, ChangeOptionsEffect
<1>5. t.original = IF s.activeBreakpoint = None THEN o ELSE s.original
    BY <1>1 DEF ChangeOptions, Slider, Fields, Flags
<1> HIDE DEF t
<1>6. /\ Changes(t, u, {"clones", "shown"})
      /\ u.clones \in Nat /\ u.shown \subseteq Int
    BY <1>4 DEF Unload, Changes, Slider, Fields, Flags
<1> HIDE DEF u
<1>7. Slider(u)
    BY <1>4, <1>6, SMTT(30) DEF Changes, Slider, Fields, Flags
<1>8. Changes(s, u, {"options", "original", "clones", "shown"})
    BY <1>4, <1>6, ChangesAdd
<1>9. /\ u.activeBreakpoint = s.activeBreakpoint /\ u.current = s.current
      /\ u.unslicked = s.unslicked
    BY <1>1, <1>8 DEF Changes, Slider, Fields, Flags
<1>10. u.options = o /\ u.original = t.original
    BY <1>4, <1>6 DEF Changes, Slider, Fields, Flags
<1>11. Sized(u, page.settings.slidesToScroll)
    <2>1. CASE s.activeBreakpoint = None
        <3>1. u.original = o /\ s.options = s.original
            BY <1>5, <1>10, <2>1 DEF Given, Sized
        <3>2. QED
            BY <1>2, <1>3, <1>9, <1>10, <3>1 DEF Given, Sized
    <2>2. CASE s.activeBreakpoint # None
        BY <1>2, <1>3, <1>5, <1>9, <1>10, <2>2 DEF Given, Sized
    <2>3. QED
        BY <2>1, <2>2
<1>12. Given(u)
    BY <1>3, <1>7, <1>9, <1>10, <1>11 DEF Given, OnPage
<1>13. Viewed(Reinit(u, w))
    BY <1>12, ReinitViewed
<1>14. QED
    BY <1>13 DEF u, t, o

--------------------------------------------------------------------------------
(* So does every step. *)

(* The constructor and init(true). *)
LEMMA ConstructViewed ==
    ASSUME SensibleBreakpoints, page \in Pages, NEW w \in Nat
    PROVE  Viewed(Construct(page, w)) /\ Free(Construct(page, w))
<1> DEFINE fields ==
            [options |-> page.settings, original |-> page.settings, activeBreakpoint |-> None,
             slides |-> page.slides, cache |-> None, indexes |-> {}, hidden |-> {},
             rebound |-> FALSE, clones |-> 0, shown |-> {},
             current |-> 0, animating |-> FALSE, direction |-> 1, track |-> 0,
             paused |-> TRUE, interrupted |-> FALSE, focussed |-> FALSE,
             dragging |-> FALSE, touch |-> NoTouch, firstTouch |-> NoTouch,
             sharedTouch |-> TRUE, unslicked |-> FALSE, listening |-> FALSE,
             focusable |-> FALSE, hoverLast |-> FALSE, windowWidth |-> 0,
             callbacks |-> <<>>, ticking |-> FALSE, resizing |-> FALSE,
             focusing |-> FALSE, filtered |-> FALSE, overtaken |-> FALSE,
             misled |-> FALSE]
           built   == InitBuild(fields)
           checked == CheckResponsive(built, w, TRUE, FALSE)
           t       == Construct(page, w)
<1>1. t = InitEnd(checked)
    BY DEF Construct
<1>2. /\ page.settings \in Options /\ page.slides \in 0 .. MaxSlides
      /\ page.settings.slidesToScroll <= page.settings.slidesToShow
    BY PagesAssumption DEF Sensible
<1>3. /\ DOMAIN fields = Fields
      /\ fields.options = page.settings /\ fields.original = page.settings
      /\ fields.activeBreakpoint = None /\ fields.slides = page.slides
      /\ fields.cache = None /\ fields.clones = 0 /\ fields.shown = {}
      /\ fields.indexes = {} /\ fields.hidden = {}
      /\ fields.current = 0 /\ fields.direction = 1 /\ fields.track = 0
      /\ fields.touch = NoTouch /\ fields.firstTouch = NoTouch /\ fields.callbacks = <<>>
    BY DEF Fields, Flags
<1>4. \A f \in Flags : fields[f] \in BOOLEAN
    <2>1. /\ fields.animating = FALSE /\ fields.paused = TRUE /\ fields.interrupted = FALSE
          /\ fields.focussed = FALSE /\ fields.dragging = FALSE
          /\ fields.sharedTouch = TRUE /\ fields.unslicked = FALSE
          /\ fields.listening = FALSE /\ fields.focusable = FALSE
          /\ fields.hoverLast = FALSE /\ fields.ticking = FALSE
          /\ fields.resizing = FALSE /\ fields.focusing = FALSE
          /\ fields.filtered = FALSE /\ fields.overtaken = FALSE
          /\ fields.rebound = FALSE /\ fields.misled = FALSE
        OBVIOUS
    <2> HIDE DEF fields
    <2>2. QED
        BY <2>1 DEF Flags
<1> HIDE DEF fields, t
<1>5. Slider(fields)
    <2>1. <<>> \in Seq(Int) /\ (\A S : {} \subseteq S) /\ 0 \in Nat /\ 0 \in Int
        OBVIOUS
    <2>2. QED
        BY <1>2, <1>3, <1>4, <2>1, NoTouchType DEF Slider
<1>6. /\ Slider(built)
      /\ Changes(fields, built, {"indexes", "options", "original", "clones", "shown",
                                 "track", "listening", "hoverLast"})
      /\ \A k \in Nat : Sized(fields, k) => Sized(built, k)
    BY <1>5, InitBuildEffect
<1>7. Formed(built) /\ built.track = Place(built) /\ Free(built)
    BY <1>2, <1>3, <1>5, InitBuildFormed, InitBuildFree
<1> HIDE DEF built
<1>8. built.current = 0 /\ built.callbacks = <<>>
    BY <1>3, <1>5, <1>6 DEF Changes, Slider, Fields, Flags
<1>9. Sized(built, page.settings.slidesToScroll)
    <2>1. page.settings.slidesToScroll \in Nat
        BY <1>2 DEF Options
    <2>2. Sized(fields, page.settings.slidesToScroll)
        BY <1>2, <1>3, <2>1 DEF Sized
    <2>3. QED
        BY <1>6, <2>1, <2>2
<1>10. Viewed(built)
    <2>1. Wrapped(built)
        BY <1>8 DEF Wrapped, Protected
    <2>2. built.options \in Options
        BY <1>6 DEF Slider
    <2>3. built.options.slidesToScroll \in Nat \ {0}
        BY <2>2 DEF Options
    <2>4. OnPage(built.options, built.current)
        BY <1>8, <2>3, FirstPages DEF OnPage
    <2>5. QED
        BY <1>7, <2>1, <2>4, PlacedShowing DEF Viewed
<1>11. Viewed(checked)
    <2>1. built.current >= 0
        BY <1>8
    <2>2. checked = built \/ Viewed(checked)
        BY <1>6, <1>9, <2>1, CheckResponsiveViewed
    <2>3. QED
        BY <1>10, <2>2
<1>12. Free(checked)
    <2>1. Aligned(built)
        BY <1>6, <1>8 DEF Aligned, Wrapped, Protected
    <2>2. QED
        BY <1>7, <2>1, CheckResponsiveAligned
<1> HIDE DEF checked
<1>13. Slider(t) /\ Changes(checked, t, {"focusable", "paused", "ticking"})
    BY <1>1, <1>11, InitEndEffect DEF Viewed, Showing, Formed
<1>14. t.track = checked.track /\ t.unslicked = checked.unslicked
    BY <1>11, <1>13 DEF Viewed, Showing, Formed, Changes, Slider, Fields, Flags
<1>15. Changes(checked, t, Fields \ {"options", "slides", "clones", "shown", "current", "track",
                                     "callbacks", "animating", "unslicked", "overtaken"})
    BY <1>13 DEF Changes, Fields, Flags
<1>16. QED
    BY <1>11, <1>12, <1>13, <1>14, <1>15, ShowingStays DEF Viewed, Free, t

(* Handlers that record swipes and set flags. *)
Recorded ==
    {"touch", "firstTouch", "sharedTouch", "dragging", "paused", "interrupted", "focussed",
     "resizing", "focusing", "windowWidth", "ticking"}

(* They do not change what is shown.                                          *)
LEMMA RecordingViewed ==
    ASSUME NEW s, NEW t, Viewed(s), Slider(t), Changes(s, t, Recorded)
    PROVE  Viewed(t)
<1>1. Changes(s, t, Fields \ {"options", "slides", "clones", "shown", "current", "track",
                              "callbacks", "animating", "unslicked", "overtaken"})
    BY DEF Recorded, Changes, Fields, Flags
<1>2. QED
    BY <1>1, ShowingStays DEF Viewed

(* So do handlers that move the strip, if it is one that a finger may move.   *)
LEMMA MovedViewed ==
    ASSUME NEW s, NEW t, Viewed(s), Slider(t), Changes(s, t, Recorded \cup {"track"}),
           \/ t.track = s.track
           \/ t.track \in {Dragged, Astray} /\ (s.track = Dragged \/ ~s.animating)
           \/ ~s.animating /\ t.track = Place(s)
    PROVE  Viewed(t)
<1>1. Slider(s) /\ Formed(s) /\ Wrapped(s)
    BY DEF Viewed, Showing, Formed
<1>2. /\ t.options = s.options /\ t.slides = s.slides /\ t.clones = s.clones
      /\ t.shown = s.shown /\ t.current = s.current /\ t.callbacks = s.callbacks
      /\ t.animating = s.animating /\ t.unslicked = s.unslicked
      /\ t.overtaken = s.overtaken
    <2>1. Changes(s, t, {"touch", "firstTouch", "sharedTouch", "dragging", "paused",
                         "interrupted", "focussed", "resizing", "focusing", "windowWidth",
                         "ticking", "track"})
        BY DEF Recorded, Changes
    <2>2. QED
        BY <1>1, <2>1 DEF Changes, Slider, Fields, Flags
<1>3. CASE t.track = s.track
    <2>1. Changes(s, t, Recorded)
        BY <1>3 DEF Recorded, Changes
    <2>2. QED
        BY <2>1, RecordingViewed
<1>4. CASE t.track # s.track
    <2>1. Changes(s, t, Fields \ {"options", "slides", "clones", "shown", "current",
                                  "unslicked"})
        BY DEF Recorded, Changes, Fields, Flags
    <2>2. Formed(t) /\ Place(t) = Place(s)
        BY <1>1, <2>1, FormedStays
    <2>3. Protected(t) => Protected(s) /\ s.track \notin Int
        <3>1. Protected(s) => s.animating
            BY <1>1 DEF Wrapped
        <3>2. s.track = Dragged \/ ~s.animating
            BY <1>4
        <3>3. QED
            BY <1>2, <3>1, <3>2, TrackAssumption DEF Protected
    <2>4. Wrapped(t) /\ (~t.unslicked => Parted(t))
        <3>1. Wrapped(t)
            BY <1>1, <1>2, <2>3 DEF Wrapped
        <3>2. ~s.unslicked => Parted(s)
            BY DEF Viewed, Showing
        <3>3. QED
            BY <1>2, <2>3, <3>1, <3>2 DEF Parted
    <2>5. Placed(t)
        BY <1>4, <2>2 DEF Placed
    <2>6. QED
        BY <1>2, <2>2, <2>4, <2>5 DEF Viewed, Showing
<1>5. QED
    BY <1>3, <1>4

(* swipeStart records where the finger is. *)
LEMMA SwipeStartViewed ==
    ASSUME NEW s, Viewed(s), NEW fingers
    PROVE  Viewed(SwipeStart(s, fingers))
<1> DEFINE v == SwipeStart(s, fingers)
<1>1. Slider(s)
    BY DEF Viewed, Showing, Formed
<1>2. /\ Slider(v)
      /\ Changes(s, v, {"track", "interrupted", "dragging", "touch", "firstTouch",
                        "sharedTouch"})
      /\ v.track = IF s.track = Dragged /\ s.dragging THEN Astray ELSE s.track
    BY <1>1, SwipeStartEffect
<1> HIDE DEF v
<1>3. Changes(s, v, Recorded \cup {"track"})
    BY <1>2 DEF Recorded, Changes
<1>4. QED
    BY <1>2, <1>3, MovedViewed DEF v

(* swipeMove drags the strip of a slider that is not animating. *)
LEMMA SwipeMoveViewed ==
    ASSUME NEW s, Viewed(s), s.dragging, NEW dir \in Directions, NEW far \in BOOLEAN
    PROVE  Viewed(SwipeMove(s, dir, far))
<1> DEFINE v == SwipeMove(s, dir, far)
           still == s.options.fade \/ s.animating
<1>1. Slider(s)
    BY DEF Viewed, Showing, Formed
<1>2. /\ Slider(v) /\ Changes(s, v, {"touch", "firstTouch", "track"})
      /\ \/ v.track = s.track
         \/ v.track = Astray /\ s.track = Dragged
         \/ ~still /\ v.track = Left(s.options, s.slides, s.current)
         \/ ~still /\ v.track = Dragged
    BY <1>1, SwipeMoveEffect
<1> HIDE DEF v
<1>3. Changes(s, v, Recorded \cup {"track"})
    BY <1>2 DEF Recorded, Changes
<1>4. QED
    BY <1>2, <1>3, MovedViewed DEF v, Place

(* swipeEnd lets go of the strip and may go a step. *)
LEMMA SwipeEndViewed ==
    ASSUME NEW s, Viewed(s)
    PROVE  Viewed(SwipeEnd(s))
<1> DEFINE t == [s EXCEPT !.dragging = FALSE, !.interrupted = FALSE]
           v == SwipeEnd(s)
           steps == {s.current - s.options.slidesToScroll, s.current,
                     s.current + s.options.slidesToScroll}
<1>1. Slider(s)
    BY DEF Viewed, Showing, Formed
<1>2. v = t \/ \E index \in steps : v = FreshTouch(SlideHandler(t, index, FALSE))
    BY DEF SwipeEnd
<1>3. /\ Changes(s, t, {"dragging", "interrupted"}) /\ t.dragging = FALSE
      /\ t.interrupted = FALSE /\ t.current = s.current /\ t.options = s.options
    BY <1>1 DEF Changes, Slider, Fields, Flags
<1> HIDE DEF t, v
<1>4. Slider(t)
    BY <1>1, <1>3 DEF Changes, Slider, Fields, Flags
<1>5. Viewed(t)
    <2>1. Changes(s, t, Recorded)
        BY <1>3 DEF Recorded, Changes
    <2>2. QED
        BY <1>4, <2>1, RecordingViewed
<1>6. ASSUME NEW index \in steps, v = FreshTouch(SlideHandler(t, index, FALSE))
      PROVE  Viewed(v)
    <2> DEFINE u == SlideHandler(t, index, FALSE)
    <2>1. Viewed(u)
        BY <1>3, <1>5, StepViewed
    <2> HIDE DEF u
    <2>2. Slider(FreshTouch(u)) /\ Changes(u, FreshTouch(u), {"touch", "sharedTouch"})
        BY <2>1, FreshTouchEffect DEF Viewed, Showing, Formed
    <2>3. Changes(u, FreshTouch(u), Recorded)
        BY <2>2 DEF Recorded, Changes
    <2>4. Viewed(FreshTouch(u))
        BY <2>1, <2>2, <2>3, RecordingViewed
    <2>5. QED
        BY <1>6, <2>4 DEF u
<1>7. QED
    BY <1>2, <1>5, <1>6 DEF v

(* autoPlay, autoPlayClear, and setPosition. *)
LEMMA TickingViewed ==
    ASSUME NEW s, Viewed(s), NEW t \in {AutoPlay(s), AutoPlayClear(s), SetPosition(s)}
    PROVE  Viewed(t)
<1>1. Slider(s)
    BY DEF Viewed, Showing, Formed
<1>2. CASE t \in {AutoPlay(s), AutoPlayClear(s)}
    <2>1. Slider(t) /\ Changes(s, t, {"ticking"})
        BY <1>1, <1>2, TickingEffect
    <2>2. Changes(s, t, Recorded)
        BY <2>1 DEF Recorded, Changes
    <2>3. QED
        BY <2>1, <2>2, RecordingViewed
<1>3. CASE t = SetPosition(s)
    BY <1>3, SetPositionShowing DEF Viewed, Showing
<1>4. QED
    BY <1>2, <1>3

(* interrupt, from mouseenter and mouseleave. *)
LEMMA InterruptViewed ==
    ASSUME NEW s, Viewed(s), NEW toggle \in BOOLEAN
    PROVE  Viewed(Interrupt(s, toggle))
<1> DEFINE t == IF toggle THEN s ELSE AutoPlay(s)
           u == [t EXCEPT !.interrupted = toggle]
<1>1. Viewed(t) /\ Slider(t)
    BY TickingViewed DEF Viewed, Showing, Formed
<1>2. Interrupt(s, toggle) = u
    BY DEF Interrupt
<1> HIDE DEF t
<1>3. Changes(t, u, {"interrupted"}) /\ u.interrupted = toggle
    BY <1>1 DEF Changes, Slider, Fields, Flags
<1> HIDE DEF u
<1>4. Slider(u)
    BY <1>1, <1>3 DEF Changes, Slider, Fields, Flags
<1>5. Changes(t, u, Recorded)
    BY <1>3 DEF Recorded, Changes
<1>6. QED
    BY <1>1, <1>2, <1>4, <1>5, RecordingViewed

(* Play sets autoplay, on which nothing that is shown depends. *)
LEMMA PlayViewed ==
    ASSUME NEW s, NEW p, Good(s, p), Viewed(s)
    PROVE  Viewed([AutoPlay(s) EXCEPT !.options.autoplay = TRUE,
                       !.original.autoplay = @ \/ s.activeBreakpoint = None,
                       !.paused = FALSE, !.focussed = FALSE, !.interrupted = FALSE])
<1> DEFINE r == AutoPlay(s)
           o == [r.options EXCEPT !.autoplay = TRUE]
           plays == r.original.autoplay \/ s.activeBreakpoint = None
           q == [r.original EXCEPT !.autoplay = plays]
           t == [AutoPlay(s) EXCEPT !.options.autoplay = TRUE,
                        !.original.autoplay = @ \/ s.activeBreakpoint = None,
                        !.paused = FALSE, !.focussed = FALSE, !.interrupted = FALSE]
<1>1. Viewed(r) /\ Slider(r) /\ Formed(r)
    BY TickingViewed DEF Viewed, Showing, Formed
<1>2. Aligned(t) /\ Slider(t)
    BY PlayAligned DEF Viewed, Showing, Formed, Aligned
<1>3. t = [r EXCEPT !.options = o, !.original = q, !.paused = FALSE,
                    !.focussed = FALSE, !.interrupted = FALSE]
    <2>1. "autoplay" \in DOMAIN r.original /\ "autoplay" \in DOMAIN r.options
        BY <1>1 DEF Slider, Options
    <2>2. QED
        BY <2>1
<1> HIDE DEF r, t
<1>4. /\ o.infinite = r.options.infinite /\ o.fade = r.options.fade
      /\ o.waitForAnimate = r.options.waitForAnimate
      /\ o.slidesToShow = r.options.slidesToShow
      /\ o.slidesToScroll = r.options.slidesToScroll
      /\ o.centerMode = r.options.centerMode
      /\ o.focusOnSelect = r.options.focusOnSelect
    BY <1>1 DEF Slider, Options
<1> HIDE DEF o, q, plays
<1>5. /\ t.options = o /\ t.slides = r.slides /\ t.current = r.current
      /\ t.callbacks = r.callbacks /\ t.animating = r.animating
      /\ t.unslicked = r.unslicked /\ t.overtaken = r.overtaken /\ t.track = r.track
      /\ t.shown = r.shown /\ t.clones = r.clones
    BY <1>1, <1>3 DEF Slider, Fields, Flags
<1>6. Left(o, t.slides, t.current) = Left(r.options, r.slides, r.current)
    BY <1>4, <1>5 DEF Left, Half
<1>7. \A n, c, i : Active(o, n, c, i) = Active(r.options, n, c, i)
    BY <1>4 DEF Active, Half
<1>8. Clones(o, t.slides) = Clones(r.options, r.slides)
    BY <1>4, <1>5 DEF Clones
<1>9. ~t.unslicked => Shaped(t) /\ Marked(t)
    <2>1. Marked(r) => Marked(t)
        BY <1>4, <1>5, <1>7 DEF Marked
    <2>2. Shaped(r) => Shaped(t)
        BY <1>4, <1>5, <1>8 DEF Shaped
    <2>3. QED
        BY <1>1, <1>5, <2>1, <2>2 DEF Formed
<1>10. Formed(t)
    BY <1>1, <1>2, <1>4, <1>5, <1>9 DEF Formed
<1>11. ~t.unslicked => Placed(t) /\ Parted(t)
    BY <1>1, <1>4, <1>5, <1>6 DEF Viewed, Showing, Placed, Place, Parted, Protected
<1>12. ~t.unslicked => OnPage(t.options, t.current)
    BY <1>1, <1>4, <1>5 DEF Viewed, OnPage
<1>13. QED
    BY <1>2, <1>10, <1>11, <1>12 DEF Viewed, Showing, Aligned, t

(* The end of an animation: postSlide. *)
LEMMA AnimationEndViewed ==
    ASSUME NEW s, NEW p, Good(s, p), Viewed(s), s.callbacks # <<>>
    PROVE  Viewed(PostSlide([s EXCEPT !.callbacks = Tail(@),
                                      !.overtaken = @ /\ Len(s.callbacks) > 1]))
<1> DEFINE late == s.overtaken /\ Len(s.callbacks) > 1
           left == Tail(s.callbacks)
           r == [s EXCEPT !.callbacks = Tail(@),
                          !.overtaken = @ /\ Len(s.callbacks) > 1]
           t == PostSlide(r)
<1>1. Slider(s) /\ s.callbacks \in Seq(Int) /\ s.overtaken \in BOOLEAN /\ Aligned(s)
    BY DEF Viewed, Showing, Formed, Aligned, Slider, Flags
<1>2. late \in BOOLEAN /\ r = [s EXCEPT !.callbacks = left, !.overtaken = late]
    BY <1>1
<1>3. left \in Seq(Int)
    BY <1>1
<1>4. Aligned(t)
    BY <1>1, AnimationEndAligned
<1> HIDE DEF late, left, r, t
<1>5. PICK v \in BOOLEAN : v = late
    BY <1>2
<1>6. r = [s EXCEPT !.callbacks = left, !.overtaken = v]
    BY <1>2, <1>5
<1>7. /\ Changes(s, r, {"callbacks", "overtaken"}) /\ r.callbacks = left
      /\ r.overtaken = v
    BY <1>1, <1>6 DEF Changes, Slider, Fields, Flags
<1>8. Slider(r)
    BY <1>1, <1>3, <1>7 DEF Changes, Slider, Fields, Flags
<1>9. Formed(r)
    <2>1. Changes(s, r, Fields \ {"options", "slides", "clones", "shown", "current",
                                  "unslicked"})
        BY <1>7 DEF Changes, Fields, Flags
    <2>2. QED
        BY <1>8, <2>1, FormedStays DEF Viewed, Showing
<1>10. r.options = s.options /\ r.current = s.current /\ r.unslicked = s.unslicked
    BY <1>1, <1>7 DEF Changes, Slider, Fields, Flags
<1>11. Viewed(t)
    BY <1>4, <1>9, <1>10, PostSlideShowing DEF Viewed, t
<1>12. QED
    BY <1>11 DEF t, r

(* The inductive invariant of pages whose breakpoints are sensible. *)
VInv == AInv /\ Viewed(slick)

(* User input. *)
LEMMA UserInputViewed ==
    ASSUME SensibleBreakpoints, VInv, UserInput
    PROVE  Viewed(slick)'
<1>1. /\ page \in Pages /\ Viewed(slick) /\ width \in Nat /\ Slider(slick)
      /\ Good(slick, page)
    BY StepNumbers DEF VInv, AInv, IInv
<1>2. /\ Cloned(slick) /\ Sized(slick, page.settings.slidesToScroll)
      /\ slick.current >= 0
    BY <1>1 DEF Good, Sound, Fit, Viewed, Showing, Formed
<1>3. CASE Arrow
    BY <1>1, <1>3, ChangeSlideViewed DEF Arrow, Call, Input
<1>4. CASE GoTo
    <2>1. PICK index \in -1 .. MaxSlides, dontAnimate \in BOOLEAN :
              Call(ChangeSlideTo(slick, index, dontAnimate))
        BY <1>4 DEF GoTo
    <2>2. index \in Int
        BY StepNumbers DEF VInv, AInv
    <2>3. QED
        BY <1>1, <2>1, <2>2, ChangeSlideToViewed DEF Call, Input, Viewed
<1>5. CASE Select
    <2>1. PICK i \in slick.indexes \cup CloneIndexes(slick) :
              slick' \in {SelectHandler(slick, i), SelectHandler(SelectHandler(slick, i), i)}
        BY <1>5 DEF Select, Event, Input
    <2>2. i \in Int /\ -slick.clones <= i /\ slick.options.focusOnSelect
        BY <1>1, <1>5, ClickedType DEF Select
    <2> DEFINE t == SelectHandler(slick, i)
    <2>3. Viewed(t) /\ Cloned(t) /\ t.options.focusOnSelect /\ -t.clones <= i
        BY <1>1, <1>2, <2>2, SelectViewed
    <2>4. slick' \in {t, SelectHandler(t, i)}
        BY <2>1
    <2> HIDE DEF t
    <2>5. Viewed(SelectHandler(t, i))
        BY <2>2, <2>3, SelectViewed
    <2>6. QED
        BY <2>3, <2>4, <2>5
<1>6. CASE TouchStart
    BY <1>1, <1>6, SwipeStartViewed DEF TouchStart, Event, Input
<1>7. CASE TouchMove
    BY <1>1, <1>7, SwipeMoveViewed DEF TouchMove, Event, Input
<1>8. CASE TouchEnd
    BY <1>1, <1>8, SwipeEndViewed DEF TouchEnd, Event, Input
<1>9. CASE MouseEnter
    BY <1>1, <1>9, InterruptViewed DEF MouseEnter, Event, Input
<1>10. CASE MouseLeave
    <2>1. slick' \in {Interrupt(SwipeEnd(slick), FALSE), SwipeEnd(Interrupt(slick, FALSE))}
        BY <1>10 DEF MouseLeave, Event, Input
    <2>2. Viewed(SwipeEnd(slick)) /\ Viewed(Interrupt(slick, FALSE))
        BY <1>1, SwipeEndViewed, InterruptViewed
    <2>3. QED
        BY <2>1, <2>2, SwipeEndViewed, InterruptViewed
<1>11. ASSUME NEW f \in {"interrupted", "focusing", "resizing"},
              Changes(slick, slick', {f}), slick'[f] \in BOOLEAN
       PROVE  Viewed(slick)'
    <2>1. PICK t : t = slick'
        OBVIOUS
    <2>2. Slider(t)
        BY <1>1, <1>11, <2>1 DEF Changes, Slider, Fields, Flags
    <2>3. Changes(slick, t, Recorded)
        BY <1>11, <2>1 DEF Recorded, Changes
    <2>4. QED
        BY <1>1, <2>1, <2>2, <2>3, RecordingViewed
<1>12. CASE VisibilityChange
    <2>1. PICK hidden \in BOOLEAN : slick' = [slick EXCEPT !.interrupted = hidden]
        BY <1>12 DEF VisibilityChange, Event, Input
    <2>2. Changes(slick, slick', {"interrupted"}) /\ slick'.interrupted = hidden
        BY <1>1, <2>1 DEF Changes, Slider, Fields, Flags
    <2>3. QED
        BY <1>11, <2>2
<1>13. CASE OrientationChange
    <2> DEFINE t == CheckResponsive(slick, width, FALSE, FALSE)
    <2>1. t = slick \/ Viewed(t)
        BY <1>1, <1>2, CheckResponsiveViewed
    <2>2. slick' = SetPosition(t)
        BY <1>13 DEF OrientationChange, Event, Input
    <2> HIDE DEF t
    <2>3. Viewed(t)
        BY <1>1, <2>1
    <2>4. QED
        BY <2>2, <2>3, TickingViewed
<1>14. CASE FocusChange
    <2> DEFINE due == slick.focusing \/ slick.focusable
    <2>1. due \in BOOLEAN /\ slick' = [slick EXCEPT !.focusing = due]
        BY <1>14 DEF FocusChange
    <2> HIDE DEF due
    <2>2. Changes(slick, slick', {"focusing"}) /\ slick'.focusing = due
        BY <1>1, <2>1 DEF Changes, Slider, Fields, Flags
    <2>3. QED
        BY <1>11, <2>1, <2>2
<1>15. CASE \E w \in Widths \ {width} : Resize(w)
    <2>1. PICK w \in Widths : Resize(w)
        BY <1>15
    <2> DEFINE due == slick.resizing \/ (slick.listening /\ w # slick.windowWidth)
    <2>2. due \in BOOLEAN /\ slick' = [slick EXCEPT !.resizing = due]
        BY <2>1 DEF Resize
    <2> HIDE DEF due
    <2>3. Changes(slick, slick', {"resizing"}) /\ slick'.resizing = due
        BY <1>1, <2>2 DEF Changes, Slider, Fields, Flags
    <2>4. QED
        BY <1>11, <2>2, <2>3
<1>16. QED
    BY <1>3, <1>4, <1>5, <1>6, <1>7, <1>8, <1>9, <1>10, <1>12, <1>13, <1>14, <1>15
       DEF UserInput

(* Calls of the page, of a slider that was not taken apart. *)
LEMMA PageCallViewed ==
    ASSUME SensibleBreakpoints, VInv, PageCall
    PROVE  Viewed(slick)'
<1>1. /\ page \in Pages /\ Good(slick, page) /\ Viewed(slick) /\ Slider(slick)
      /\ width \in Nat /\ MaxSlides \in Nat /\ slick.slides \in 0 .. MaxSlides
    BY StepNumbers DEF VInv, AInv, IInv, Slider
<1>2. ~slick.unslicked => Given(slick)
    BY <1>1 DEF Good, Sound, Fit, Given, Viewed, Showing, Formed, Shaped
<1>3. CASE Play
    BY <1>1, <1>3, PlayViewed DEF Play, Call, Input
<1>4. CASE Pause
    <2> DEFINE s == AutoPlayClear(slick)
               t == [s EXCEPT !.paused = TRUE]
    <2>1. Viewed(s) /\ Slider(s)
        BY <1>1, TickingViewed DEF Viewed, Showing, Formed
    <2>2. slick' = t
        BY <1>4 DEF Pause, Call, Input
    <2> HIDE DEF s
    <2>3. Changes(s, t, {"paused"}) /\ t.paused = TRUE
        BY <2>1 DEF Changes, Slider, Fields, Flags
    <2> HIDE DEF t
    <2>4. Slider(t)
        BY <2>1, <2>3 DEF Changes, Slider, Fields, Flags
    <2>5. Changes(s, t, Recorded)
        BY <2>3 DEF Recorded, Changes
    <2>6. QED
        BY <2>1, <2>2, <2>4, <2>5, RecordingViewed
<1>5. CASE AddSlide \/ RemoveSlide \/ FilterSlides \/ UnfilterSlides
    <2>1. PICK n \in 0 .. MaxSlides : \E t : Replacement(n, t)
        BY <1>1, <1>5, ReplacingCall
    <2>2. PICK t : Replacement(n, t)
        BY <2>1
    <2>3. /\ Slider(t) /\ ~slick.unslicked /\ slick' = ReplaceSlides(t, n, width)
          /\ Changes(slick, t, {"slides", "cache", "filtered", "indexes", "hidden"})
        BY <2>2 DEF Replacement, Call, Input
    <2>4. /\ t.options = slick.options /\ t.original = slick.original
          /\ t.activeBreakpoint = slick.activeBreakpoint
          /\ t.current = slick.current /\ t.unslicked = slick.unslicked
        BY <1>1, <2>3 DEF Changes, Slider, Fields, Flags
    <2>5. Given(t)
        BY <1>2, <2>3, <2>4 DEF Given, Sized
    <2>6. QED
        BY <1>1, <2>3, <2>5, ReplaceSlidesViewed
<1>6. CASE SetOption
    BY <1>1, <1>2, <1>6, SetOptionViewed DEF SetOption, Call, Input
<1>7. CASE UnslickCall
    BY <1>1, <1>7, DestroyViewed DEF UnslickCall, Call, Input, Viewed, Showing, Formed
<1>8. QED
    BY <1>3, <1>4, <1>5, <1>6, <1>7 DEF PageCall

(* What the browser calls later. *)
LEMMA LaterViewed ==
    ASSUME SensibleBreakpoints, VInv,
           AutoPlayTick \/ AnimationEnd \/ FocusTimeout \/ ResizeTimeout
    PROVE  Viewed(slick)'
<1>1. /\ page \in Pages /\ Good(slick, page) /\ Viewed(slick) /\ Slider(slick)
      /\ width \in Nat /\ hasFocus \in BOOLEAN
    BY StepNumbers DEF VInv, AInv, IInv
<1>2. CASE AutoPlayTick
    BY <1>1, <1>2, AutoPlayIteratorViewed DEF AutoPlayTick, Later
<1>3. CASE AnimationEnd
    BY <1>1, <1>3, AnimationEndViewed DEF AnimationEnd, Later
<1>4. CASE FocusTimeout
    <2> DEFINE t == [slick EXCEPT !.focusing = FALSE, !.focussed = hasFocus]
    <2>1. slick' = AutoPlay(t)
        BY <1>4 DEF FocusTimeout, Later
    <2>2. /\ Changes(slick, t, {"focusing", "focussed"})
          /\ t.focusing = FALSE /\ t.focussed = hasFocus
        BY <1>1 DEF Changes, Slider, Fields, Flags
    <2> HIDE DEF t
    <2>3. Slider(t)
        BY <1>1, <2>2 DEF Changes, Slider, Fields, Flags
    <2>4. Changes(slick, t, Recorded)
        BY <2>2 DEF Recorded, Changes
    <2>5. Viewed(t)
        BY <1>1, <2>3, <2>4, RecordingViewed
    <2>6. QED
        BY <2>1, <2>5, TickingViewed
<1>5. CASE ResizeTimeout
    <2> DEFINE r == [slick EXCEPT !.resizing = FALSE, !.windowWidth = width]
               s == CheckResponsive(r, width, FALSE, FALSE)
    <2>1. slick' \in {s, SetPosition(s)}
        BY <1>5 DEF ResizeTimeout, Later
    <2>2. /\ Changes(slick, r, {"resizing", "windowWidth"})
          /\ r.resizing = FALSE /\ r.windowWidth = width
        BY <1>1 DEF Changes, Slider, Fields, Flags
    <2> HIDE DEF r
    <2>3. Slider(r)
        BY <1>1, <2>2 DEF Changes, Slider, Fields, Flags
    <2>4. Changes(slick, r, Recorded)
        BY <2>2 DEF Recorded, Changes
    <2>5. Viewed(r) /\ r.current >= 0
        BY <1>1, <2>3, <2>4, RecordingViewed DEF Viewed, Showing, Formed
    <2>6. Sized(r, page.settings.slidesToScroll)
        <3>1. /\ r.options = slick.options /\ r.original = slick.original
              /\ r.activeBreakpoint = slick.activeBreakpoint
            BY <1>1, <2>2 DEF Changes, Slider, Fields, Flags
        <3>2. QED
            BY <1>1, <3>1 DEF Good, Sound, Fit, Sized
    <2>7. s = r \/ Viewed(s)
        BY <1>1, <2>3, <2>5, <2>6, CheckResponsiveViewed
    <2> HIDE DEF s
    <2>8. Viewed(s)
        BY <2>5, <2>7
    <2>9. QED
        BY <2>1, <2>8, TickingViewed
<1>6. QED
    BY <1>2, <1>3, <1>4, <1>5

(* The invariant with it holds throughout. *)
LEMMA ViewedInvariance ==
    ASSUME SensibleBreakpoints
    PROVE  Spec => []VInv
<1>1. Init => Viewed(slick)
    <2> SUFFICES ASSUME Init PROVE Viewed(slick)
        OBVIOUS
    <2>1. page \in Pages /\ width \in Nat /\ slick = Construct(page, width)
        BY BoundsAssumption DEF Init
    <2>2. QED
        BY <2>1, ConstructViewed
<1>2. AInv /\ Viewed(slick) /\ [Next]_vars => Viewed(slick)'
    <2> SUFFICES ASSUME AInv, Viewed(slick), [Next]_vars PROVE Viewed(slick)'
        OBVIOUS
    <2>1. CASE Next
        BY <2>1, UserInputViewed, PageCallViewed, LaterViewed DEF VInv, Next
    <2>2. CASE UNCHANGED vars
        BY <2>2 DEF vars
    <2>3. QED
        BY <2>1, <2>2
<1>3. QED
    BY <1>1, <1>2, AlignedInvariance, PTL DEF Spec, VInv

--------------------------------------------------------------------------------
(* The strip in a finger's hand. *)

(* A strip that follows a finger belongs to a slider that neither fades nor   *)
(* moves, and, unless its slides have become too few to slide, the finger is  *)
(* on it and its swipe will be slid when it lifts.                            *)
Held(s) ==
    ~s.unslicked /\ s.track = Dragged
    => /\ ~s.options.fade /\ ~s.animating
       /\ s.slides > s.options.slidesToShow
          => s.dragging /\ s.touch.on /\ s.touch.dir \in {"left", "right"}

(* A change of fields that do not matter to it.                               *)
LEMMA HeldStays ==
    ASSUME NEW s, NEW t, Slider(s), Held(s),
           Changes(s, t, Fields \ {"options", "slides", "track", "animating", "dragging",
                                   "touch", "unslicked"})
    PROVE  Held(t)
<1>1. /\ t.options = s.options /\ t.slides = s.slides /\ t.track = s.track
      /\ t.animating = s.animating /\ t.dragging = s.dragging /\ t.touch = s.touch
      /\ t.unslicked = s.unslicked
    BY DEF Changes, Slider, Fields, Flags
<1>2. QED
    BY <1>1 DEF Held

(* Marking slides, setting or clearing the interval, and setting flags.       *)
LEMMA FlagsHeld ==
    ASSUME NEW s, NEW t, Slider(s), Held(s),
           Changes(s, t, {"shown", "misled", "direction", "ticking", "paused", "interrupted",
                          "focussed", "resizing", "focusing", "windowWidth"})
    PROVE  Held(t)
<1>1. Changes(s, t, Fields \ {"options", "slides", "track", "animating", "dragging",
                              "touch", "unslicked"})
    BY DEF Changes, Fields, Flags
<1>2. QED
    BY <1>1, HeldStays

(* slideHandler takes the strip from the finger, or changes nothing.          *)
LEMMA SlideHandlerHeld ==
    ASSUME NEW s, Slider(s), Held(s), NEW index \in Int, NEW dontAnimate
    PROVE  Held(SlideHandler(s, index, dontAnimate))
BY SlideHandlerFree DEF Held, Free

(* So do all that call it.                                                    *)
LEMMA GoingHeld ==
    ASSUME NEW s, Slider(s), Held(s)
    PROVE  /\ \A message : Held(ChangeSlide(s, message))
           /\ \A index \in Int : \A dontAnimate : Held(ChangeSlideTo(s, index, dontAnimate))
           /\ Held(AutoPlayIterator(s))
<1>1. s.options \in Options /\ s.slides \in Nat /\ s.current \in Int
    BY Numbers
<1>2. ASSUME NEW message PROVE Held(ChangeSlide(s, message))
    <2>1. PICK index \in {PreviousIndex(s.options, s.slides, s.current),
                          NextIndex(s.options, s.slides, s.current)} :
              ChangeSlide(s, message) = SlideHandler(s, index, FALSE)
        BY DEF ChangeSlide
    <2>2. index \in Int
        BY <1>1, ChangeRange
    <2>3. QED
        BY <2>1, <2>2, SlideHandlerHeld
<1>3. ASSUME NEW index \in Int, NEW dontAnimate
      PROVE  Held(ChangeSlideTo(s, index, dontAnimate))
    <2>1. CheckNavigable(s.options, s.slides, index) \in Int
        BY <1>1, CheckNavigableRange
    <2>2. QED
        BY <2>1, SlideHandlerHeld DEF ChangeSlideTo
<1>4. Held(AutoPlayIterator(s))
    <2>1. CASE s.paused \/ s.interrupted \/ s.focussed
        BY <2>1 DEF AutoPlayIterator
    <2>2. CASE ~(s.paused \/ s.interrupted \/ s.focussed)
        <3>1. s.direction \in {0, 1}
            BY DEF Slider
        <3>2. PICK turn \in {0, 1} :
                  \E index \in {s.current - s.options.slidesToScroll,
                                s.current + s.options.slidesToScroll} :
                      AutoPlayIterator(s)
                      = SlideHandler([s EXCEPT !.direction = turn], index, FALSE)
            BY <2>2, <3>1 DEF AutoPlayIterator
        <3> DEFINE t == [s EXCEPT !.direction = turn]
        <3>3. PICK index \in {s.current - s.options.slidesToScroll,
                              s.current + s.options.slidesToScroll} :
                  AutoPlayIterator(s) = SlideHandler(t, index, FALSE)
            BY <3>2
        <3>4. index \in Int
            BY <1>1 DEF Options
        <3>5. Changes(s, t, {"direction"}) /\ t.direction = turn
            BY DEF Changes, Slider, Fields, Flags
        <3> HIDE DEF t
        <3>6. Slider(t)
            BY <3>5 DEF Changes, Slider, Fields, Flags
        <3>7. Held(t)
            <4>1. Changes(s, t, {"shown", "misled", "direction", "ticking", "paused",
                                 "interrupted", "focussed", "resizing", "focusing",
                                 "windowWidth"})
                BY <3>5 DEF Changes
            <4>2. QED
                BY <4>1, FlagsHeld
        <3>8. QED
            BY <3>3, <3>4, <3>6, <3>7, SlideHandlerHeld
    <2>3. QED
        BY <2>1, <2>2
<1>5. QED
    BY <1>2, <1>3, <1>4

(* Marking slides, and setting or clearing the interval. *)
LEMMA MarkingHeld ==
    ASSUME NEW s, Slider(s), Held(s), NEW index \in Int,
           NEW t \in {SetSlideClasses(s, index), AutoPlay(s), AutoPlayClear(s)}
    PROVE  Held(t)
<1>1. Changes(s, t, {"shown", "ticking"})
    <2>1. CASE t = SetSlideClasses(s, index)
        <3>1. Changes(s, t, {"shown"})
            BY <2>1, SetSlideClassesEffect
        <3>2. QED
            BY <3>1 DEF Changes
    <2>2. CASE t \in {AutoPlay(s), AutoPlayClear(s)}
        <3>1. Changes(s, t, {"ticking"})
            BY <2>2, TickingEffect
        <3>2. QED
            BY <3>1 DEF Changes
    <2>3. QED
        BY <2>1, <2>2
<1>2. Changes(s, t, {"shown", "misled", "direction", "ticking", "paused", "interrupted",
                     "focussed", "resizing", "focusing", "windowWidth"})
    BY <1>1 DEF Changes
<1>3. QED
    BY <1>2, FlagsHeld

(* selectHandler marks a slide or goes to one. *)
LEMMA SelectHeld ==
    ASSUME NEW s, Slider(s), Held(s), NEW index \in Int
    PROVE  Held(SelectHandler(s, index))
<1> DEFINE lost == index \notin -s.clones .. s.slides + s.clones - 1
           t == [s EXCEPT !.misled = @ \/ lost]
<1>1. SelectHandler(s, index) \in {SetSlideClasses(s, index), SlideHandler(t, index, FALSE)}
    BY DEF SelectHandler
<1>2. lost \in BOOLEAN
    OBVIOUS
<1> HIDE DEF lost
<1>3. Slider(t) /\ Changes(s, t, {"misled"})
    BY <1>2, MisledEffect
<1> HIDE DEF t
<1>4. Changes(s, t, {"shown", "misled", "direction", "ticking", "paused", "interrupted",
                     "focussed", "resizing", "focusing", "windowWidth"})
    BY <1>3 DEF Changes
<1>5. Held(t)
    BY <1>4, FlagsHeld
<1>6. QED
    BY <1>1, <1>3, <1>5, MarkingHeld, SlideHandlerHeld

(* Another finger leaves the strip astray, if the first one still holds it.   *)
LEMMA SwipeStartHeld ==
    ASSUME NEW s, Slider(s), Held(s), NEW fingers
    PROVE  Held(SwipeStart(s, fingers))
<1> DEFINE v == SwipeStart(s, fingers)
<1>1. /\ Slider(v)
      /\ Changes(s, v, {"track", "interrupted", "dragging", "touch", "firstTouch",
                        "sharedTouch"})
      /\ v.track = IF s.track = Dragged /\ s.dragging THEN Astray ELSE s.track
    BY SwipeStartEffect
<1> HIDE DEF v
<1>2. /\ v.options = s.options /\ v.slides = s.slides /\ v.animating = s.animating
      /\ v.unslicked = s.unslicked
    BY <1>1 DEF Changes, Slider, Fields, Flags
<1>3. v.track = Dragged => s.track = Dragged /\ s.dragging # TRUE
    BY <1>1, TrackAssumption
<1>4. QED
    BY <1>2, <1>3 DEF Held, v

(* swipeMove moves the strip with a swipe that will be slid.                  *)
LEMMA SwipeMoveHeld ==
    ASSUME NEW s, Slider(s), Held(s), NEW dir \in Directions, NEW far \in BOOLEAN
    PROVE  Held(SwipeMove(s, dir, far))
<1> DEFINE v == SwipeMove(s, dir, far)
           still == s.options.fade \/ s.animating
           place == Left(s.options, s.slides, s.current)
<1>1. CASE ~s.dragging
    BY <1>1 DEF SwipeMove
<1>2. CASE s.dragging
    <2>1. /\ Slider(v) /\ Changes(s, v, {"touch", "firstTouch", "track"})
          /\ \/ v.track = s.track /\ (s.track = Dragged => still)
             \/ v.track = Astray /\ s.track = Dragged
             \/ ~still /\ v.track = place
             \/ /\ ~still /\ v.track = Dragged
                /\ v.touch.on /\ v.touch.dir \in {"left", "right"}
        BY <1>2, SwipeMoveEffect
    <2>2. place \in Int
        BY Numbers, LeftType, Zenon
    <2> HIDE DEF v, place
    <2>3. /\ v.options = s.options /\ v.slides = s.slides /\ v.animating = s.animating
          /\ v.unslicked = s.unslicked /\ v.dragging = s.dragging
        BY <2>1 DEF Changes, Slider, Fields, Flags
    <2>4. CASE v.track = s.track /\ (s.track = Dragged => still)
        BY <2>3, <2>4 DEF Held, v
    <2>5. CASE v.track = Astray \/ v.track = place
        BY <2>2, <2>5, TrackAssumption DEF Held, v
    <2>6. CASE ~still /\ v.touch.on /\ v.touch.dir \in {"left", "right"}
        BY <1>2, <2>3, <2>6 DEF Held, v
    <2>7. QED
        BY <2>1, <2>4, <2>5, <2>6
<1>3. QED
    BY <1>1, <1>2

(* swipeEnd slides what the finger holds, unless there is nothing to slide.   *)
LEMMA SwipeEndHeld ==
    ASSUME NEW s, Slider(s), Held(s)
    PROVE  Held(SwipeEnd(s))
<1> DEFINE t == [s EXCEPT !.dragging = FALSE, !.interrupted = FALSE]
           v == SwipeEnd(s)
           steps == {s.current - s.options.slidesToScroll, s.current,
                     s.current + s.options.slidesToScroll}
           forgotten == IF s.touch.far THEN s.touch.dir # "vertical"
                                       ELSE s.touch.dir # "none"
<1>1. steps \subseteq Int
    BY Numbers DEF Options
<1>2. \/ v = t /\ (s.touch.on => ~forgotten)
      \/ s.touch.on /\ \E index \in steps : v = FreshTouch(SlideHandler(t, index, FALSE))
    BY DEF SwipeEnd
<1>3. /\ Changes(s, t, {"dragging", "interrupted"}) /\ t.dragging = FALSE
      /\ t.interrupted = FALSE
    BY DEF Changes, Slider, Fields, Flags
<1> HIDE DEF t, v, steps
<1>4. Slider(t)
    BY <1>3 DEF Changes, Slider, Fields, Flags
<1>5. /\ t.options = s.options /\ t.slides = s.slides /\ t.animating = s.animating
      /\ t.unslicked = s.unslicked /\ t.track = s.track
    BY <1>3 DEF Changes, Slider, Fields, Flags
<1>6. CASE v = t /\ (s.touch.on => ~forgotten)
    BY <1>5, <1>6 DEF Held, v
<1>7. ASSUME NEW index \in steps, v = FreshTouch(SlideHandler(t, index, FALSE))
      PROVE  Held(v)
    <2> DEFINE u == SlideHandler(t, index, FALSE)
    <2>1. Slider(u)
        BY <1>1, <1>4, SlideHandlerEffect DEF Goes
    <2>2. /\ u = t \/ Free(u)
          /\ ~IgnoresSlide(t, index) /\ ~t.options.fade => Free(u)
        BY <1>1, <1>4, SlideHandlerFree
    <2> HIDE DEF u
    <2>3. /\ Slider(v) /\ Changes(u, v, {"touch", "sharedTouch"})
        BY <1>7, <2>1, FreshTouchEffect DEF u
    <2>4. /\ v.options = u.options /\ v.slides = u.slides /\ v.animating = u.animating
          /\ v.unslicked = u.unslicked /\ v.track = u.track
        BY <2>1, <2>3 DEF Changes, Slider, Fields, Flags
    <2>5. CASE Free(u)
        BY <2>4, <2>5 DEF Held, Free
    <2>6. CASE u = t /\ ~Free(u)
        <3>1. IgnoresSlide(t, index) \/ t.options.fade
            BY <2>2, <2>6
        <3>2. ~t.unslicked /\ t.track = Dragged
            BY <2>6 DEF Free
        <3>3. ~t.options.fade /\ ~t.animating
            BY <1>5, <3>2 DEF Held
        <3>4. t.slides <= t.options.slidesToShow
            BY <3>1, <3>3 DEF IgnoresSlide
        <3>5. ~(t.slides > t.options.slidesToShow)
            BY <1>4, <3>4, Numbers DEF Options
        <3>6. QED
            BY <2>4, <2>6, <3>3, <3>5 DEF Held
    <2>7. QED
        BY <2>2, <2>5, <2>6
<1>8. QED
    BY <1>2, <1>6, <1>7 DEF v

(* interrupt, from mouseenter and mouseleave. *)
LEMMA InterruptHeld ==
    ASSUME NEW s, Slider(s), Held(s), NEW toggle \in BOOLEAN
    PROVE  Held(Interrupt(s, toggle))
<1> DEFINE t == IF toggle THEN s ELSE AutoPlay(s)
           u == [t EXCEPT !.interrupted = toggle]
<1>1. Slider(t) /\ Held(t)
    BY MarkingHeld, TickingEffect
<1>2. Interrupt(s, toggle) = u
    BY DEF Interrupt
<1> HIDE DEF t
<1>3. Changes(t, u, {"interrupted"})
    BY <1>1 DEF Changes, Slider, Fields, Flags
<1> HIDE DEF u
<1>4. Changes(t, u, {"shown", "misled", "direction", "ticking", "paused", "interrupted",
                     "focussed", "resizing", "focusing", "windowWidth"})
    BY <1>3 DEF Changes
<1>5. QED
    BY <1>1, <1>2, <1>4, FlagsHeld

(* Play sets autoplay, which a finger does not care about. *)
LEMMA PlayHeld ==
    ASSUME NEW s, Slider(s), Held(s)
    PROVE  Held([AutoPlay(s) EXCEPT !.options.autoplay = TRUE,
                     !.original.autoplay = @ \/ s.activeBreakpoint = None,
                     !.paused = FALSE, !.focussed = FALSE, !.interrupted = FALSE])
<1> DEFINE r == AutoPlay(s)
           o == [r.options EXCEPT !.autoplay = TRUE]
           plays == r.original.autoplay \/ s.activeBreakpoint = None
           q == [r.original EXCEPT !.autoplay = plays]
           t == [AutoPlay(s) EXCEPT !.options.autoplay = TRUE,
                     !.original.autoplay = @ \/ s.activeBreakpoint = None,
                     !.paused = FALSE, !.focussed = FALSE, !.interrupted = FALSE]
<1>1. Slider(r) /\ Held(r)
    BY MarkingHeld, TickingEffect
<1>2. t = [r EXCEPT !.options = o, !.original = q, !.paused = FALSE,
                    !.focussed = FALSE, !.interrupted = FALSE]
    <2>1. "autoplay" \in DOMAIN r.original /\ "autoplay" \in DOMAIN r.options
        BY <1>1 DEF Slider, Options
    <2>2. QED
        BY <2>1
<1> HIDE DEF r, t
<1>3. o.fade = r.options.fade /\ o.slidesToShow = r.options.slidesToShow
    BY <1>1 DEF Slider, Options
<1> HIDE DEF o, q, plays
<1>4. /\ t.options = o /\ t.slides = r.slides /\ t.track = r.track
      /\ t.animating = r.animating /\ t.unslicked = r.unslicked
      /\ t.dragging = r.dragging /\ t.touch = r.touch
    BY <1>1, <1>2 DEF Slider, Fields, Flags
<1>5. QED
    BY <1>1, <1>3, <1>4 DEF Held, t

(* User input. *)
LEMMA UserInputHeld ==
    ASSUME AInv, Held(slick), UserInput
    PROVE  Held(slick)'
<1>1. /\ page \in Pages /\ Aligned(slick) /\ width \in Nat /\ Slider(slick) /\ Held(slick)
    BY StepNumbers DEF AInv, IInv
<1>2. CASE Arrow
    BY <1>1, <1>2, GoingHeld DEF Arrow, Call, Input
<1>3. CASE GoTo
    <2>1. PICK index \in -1 .. MaxSlides, dontAnimate \in BOOLEAN :
              Call(ChangeSlideTo(slick, index, dontAnimate))
        BY <1>3 DEF GoTo
    <2>2. index \in Int
        BY StepNumbers DEF AInv
    <2>3. QED
        BY <1>1, <2>1, <2>2, GoingHeld DEF Call, Input
<1>4. CASE Select
    <2>1. PICK index \in slick.indexes \cup CloneIndexes(slick) :
              slick' \in {SelectHandler(slick, index),
                          SelectHandler(SelectHandler(slick, index), index)}
        BY <1>4 DEF Select, Event, Input
    <2>2. index \in Int
        BY <1>1, ClickedType
    <2>3. Held(SelectHandler(slick, index)) /\ Slider(SelectHandler(slick, index))
        BY <1>1, <2>2, SelectHeld, SelectAligned DEF Aligned
    <2>4. Held(SelectHandler(SelectHandler(slick, index), index))
        BY <2>2, <2>3, SelectHeld
    <2>5. QED
        BY <2>1, <2>3, <2>4
<1>5. CASE TouchStart
    BY <1>1, <1>5, SwipeStartHeld DEF TouchStart, Event, Input
<1>6. CASE TouchMove
    BY <1>1, <1>6, SwipeMoveHeld DEF TouchMove, Event, Input
<1>7. CASE TouchEnd
    BY <1>1, <1>7, SwipeEndHeld DEF TouchEnd, Event, Input
<1>8. CASE MouseEnter
    BY <1>1, <1>8, InterruptHeld DEF MouseEnter, Event, Input
<1>9. CASE MouseLeave
    <2>1. slick' \in {Interrupt(SwipeEnd(slick), FALSE), SwipeEnd(Interrupt(slick, FALSE))}
        BY <1>9 DEF MouseLeave, Event, Input
    <2>2. /\ Held(SwipeEnd(slick)) /\ Slider(SwipeEnd(slick))
          /\ Held(Interrupt(slick, FALSE)) /\ Slider(Interrupt(slick, FALSE))
        BY <1>1, SwipeEndHeld, InterruptHeld, SwipeEndAligned, InterruptAligned DEF Aligned
    <2>3. QED
        BY <2>1, <2>2, SwipeEndHeld, InterruptHeld
<1>10. ASSUME NEW f \in {"interrupted", "focusing", "resizing"}, Changes(slick, slick', {f})
       PROVE  Held(slick)'
    <2>1. PICK t : t = slick'
        OBVIOUS
    <2>2. Changes(slick, t, {"shown", "misled", "direction", "ticking", "paused",
                             "interrupted", "focussed", "resizing", "focusing",
                             "windowWidth"})
        BY <1>10, <2>1 DEF Changes
    <2>3. QED
        BY <1>1, <2>1, <2>2, FlagsHeld
<1>11. CASE VisibilityChange
    <2>1. PICK hidden \in BOOLEAN : slick' = [slick EXCEPT !.interrupted = hidden]
        BY <1>11 DEF VisibilityChange, Event, Input
    <2>2. Changes(slick, slick', {"interrupted"})
        BY <1>1, <2>1 DEF Changes, Slider, Fields, Flags
    <2>3. QED
        BY <1>10, <2>2
<1>12. CASE OrientationChange
    <2> DEFINE t == CheckResponsive(slick, width, FALSE, FALSE)
    <2>1. Slider(t)
        BY <1>1, CheckResponsiveAligned DEF Aligned
    <2>2. slick' = SetPosition(t)
        BY <1>12 DEF OrientationChange, Event, Input
    <2> HIDE DEF t
    <2>3. QED
        BY <2>1, <2>2, SetPositionFree DEF Held
<1>13. CASE FocusChange
    <2> DEFINE due == slick.focusing \/ slick.focusable
    <2>1. slick' = [slick EXCEPT !.focusing = due]
        BY <1>13 DEF FocusChange
    <2> HIDE DEF due
    <2>2. Changes(slick, slick', {"focusing"})
        BY <1>1, <2>1 DEF Changes, Slider, Fields, Flags
    <2>3. QED
        BY <1>10, <2>2
<1>14. CASE \E w \in Widths \ {width} : Resize(w)
    <2>1. PICK w \in Widths : Resize(w)
        BY <1>14
    <2> DEFINE due == slick.resizing \/ (slick.listening /\ w # slick.windowWidth)
    <2>2. slick' = [slick EXCEPT !.resizing = due]
        BY <2>1 DEF Resize
    <2> HIDE DEF due
    <2>3. Changes(slick, slick', {"resizing"})
        BY <1>1, <2>2 DEF Changes, Slider, Fields, Flags
    <2>4. QED
        BY <1>10, <2>3
<1>15. QED
    BY <1>2, <1>3, <1>4, <1>5, <1>6, <1>7, <1>8, <1>9, <1>11, <1>12, <1>13, <1>14
       DEF UserInput

(* Calls of the page. *)
LEMMA PageCallHeld ==
    ASSUME AInv, Held(slick), PageCall
    PROVE  Held(slick)'
<1>1. /\ page \in Pages /\ Good(slick, page) /\ Slider(slick) /\ Held(slick)
      /\ width \in Nat /\ MaxSlides \in Nat /\ slick.slides \in 0 .. MaxSlides
    BY StepNumbers DEF AInv, IInv, Slider
<1>2. CASE Play
    BY <1>1, <1>2, PlayHeld DEF Play, Call, Input
<1>3. CASE Pause
    <2> DEFINE s == AutoPlayClear(slick)
               t == [s EXCEPT !.paused = TRUE]
    <2>1. Held(s) /\ Slider(s)
        BY <1>1, MarkingHeld, TickingEffect
    <2>2. slick' = t
        BY <1>3 DEF Pause, Call, Input
    <2> HIDE DEF s
    <2>3. Changes(s, t, {"paused"})
        BY <2>1 DEF Changes, Slider, Fields, Flags
    <2> HIDE DEF t
    <2>4. Changes(s, t, {"shown", "misled", "direction", "ticking", "paused", "interrupted",
                         "focussed", "resizing", "focusing", "windowWidth"})
        BY <2>3 DEF Changes
    <2>5. QED
        BY <2>1, <2>2, <2>4, FlagsHeld
<1>4. CASE AddSlide \/ RemoveSlide \/ FilterSlides \/ UnfilterSlides
    <2>1. PICK n \in 0 .. MaxSlides : \E t : Replacement(n, t)
        BY <1>1, <1>4, ReplacingCall
    <2>2. PICK t : Replacement(n, t)
        BY <2>1
    <2>3. Slider(t) /\ slick' = ReplaceSlides(t, n, width)
        BY <2>2 DEF Replacement, Call, Input
    <2>4. QED
        BY <1>1, <2>3, ReplaceSlidesAligned DEF Held, Free
<1>5. CASE SetOption
    <2>1. PICK t : t = slick' /\ Free(t)
        BY <1>1, <1>5, SetOptionAligned DEF SetOption, Call, Input
    <2>2. QED
        BY <2>1 DEF Held, Free
<1>6. CASE UnslickCall
    <2>1. slick' = Destroy(slick)
        BY <1>6 DEF UnslickCall, Call, Input
    <2>2. QED
        BY <1>1, <2>1, DestroyEffect DEF Held
<1>7. QED
    BY <1>2, <1>3, <1>4, <1>5, <1>6 DEF PageCall

(* What the browser calls later. *)
LEMMA LaterHeld ==
    ASSUME AInv, Held(slick), AutoPlayTick \/ AnimationEnd \/ FocusTimeout \/ ResizeTimeout
    PROVE  Held(slick)'
<1>1. /\ page \in Pages /\ Good(slick, page) /\ Aligned(slick) /\ Slider(slick)
      /\ Held(slick) /\ width \in Nat /\ hasFocus \in BOOLEAN
    BY StepNumbers DEF AInv, IInv
<1>2. CASE AutoPlayTick
    BY <1>1, <1>2, GoingHeld DEF AutoPlayTick, Later
<1>3. CASE AnimationEnd
    <2>1. PICK t : t = slick' /\ Free(t)
        BY <1>1, <1>3, AnimationEndAligned DEF AnimationEnd, Later
    <2>2. QED
        BY <2>1 DEF Held, Free
<1>4. CASE FocusTimeout
    <2> DEFINE t == [slick EXCEPT !.focusing = FALSE, !.focussed = hasFocus]
    <2>1. slick' = AutoPlay(t)
        BY <1>4 DEF FocusTimeout, Later
    <2>2. /\ Changes(slick, t, {"focusing", "focussed"})
          /\ t.focusing = FALSE /\ t.focussed = hasFocus
        BY <1>1 DEF Changes, Slider, Fields, Flags
    <2> HIDE DEF t
    <2>3. Slider(t)
        BY <1>1, <2>2 DEF Changes, Slider, Fields, Flags
    <2>4. Changes(slick, t, {"shown", "misled", "direction", "ticking", "paused",
                             "interrupted", "focussed", "resizing", "focusing",
                             "windowWidth"})
        BY <2>2 DEF Changes
    <2>5. Held(t)
        BY <1>1, <2>4, FlagsHeld
    <2>6. QED
        BY <2>1, <2>3, <2>5, MarkingHeld
<1>5. CASE ResizeTimeout
    <2> DEFINE r == [slick EXCEPT !.resizing = FALSE, !.windowWidth = width]
               s == CheckResponsive(r, width, FALSE, FALSE)
    <2>1. slick' = IF s.unslicked THEN s ELSE SetPosition(s)
        BY <1>5 DEF ResizeTimeout, Later
    <2>2. /\ Changes(slick, r, {"resizing", "windowWidth"})
          /\ r.resizing = FALSE /\ r.windowWidth = width
        BY <1>1 DEF Changes, Slider, Fields, Flags
    <2> HIDE DEF r
    <2>3. Slider(r)
        BY <1>1, <2>2 DEF Changes, Slider, Fields, Flags
    <2>4. Changes(slick, r,
                  {"touch", "firstTouch", "sharedTouch", "dragging", "paused",
                   "interrupted", "focussed", "resizing", "focusing", "windowWidth"})
        BY <2>2 DEF Changes
    <2>5. Aligned(r)
        BY <1>1, <2>3, <2>4, RecordingAligned
    <2>6. Slider(s)
        BY <1>1, <2>5, CheckResponsiveAligned DEF Aligned
    <2> HIDE DEF s
    <2>7. QED
        BY <2>1, <2>6, SetPositionFree DEF Held
<1>6. QED
    BY <1>2, <1>3, <1>4, <1>5

(* It holds throughout. *)
LEMMA HeldInvariance ==
    ASSUME SensibleBreakpoints
    PROVE  Spec => []Held(slick)
<1>1. Init => Held(slick)
    <2> SUFFICES ASSUME Init PROVE Held(slick)
        OBVIOUS
    <2>1. page \in Pages /\ width \in Nat /\ slick = Construct(page, width)
        BY BoundsAssumption DEF Init
    <2>2. QED
        BY <2>1, ConstructViewed DEF Held, Free
<1>2. AInv /\ Held(slick) /\ [Next]_vars => Held(slick)'
    <2> SUFFICES ASSUME AInv, Held(slick), [Next]_vars PROVE Held(slick)'
        OBVIOUS
    <2>1. CASE Next
        BY <2>1, UserInputHeld, PageCallHeld, LaterHeld DEF Next
    <2>2. CASE UNCHANGED vars
        BY <2>2 DEF vars
    <2>3. QED
        BY <2>1, <2>2
<1>3. QED
    BY <1>1, <1>2, AlignedInvariance, PTL DEF Spec

--------------------------------------------------------------------------------
(* Swipes without a move. *)

(* A finger that lifts after a vertical swipe or none at all moves nothing.   *)
LEMMA LiftEffect ==
    ASSUME NEW s, Slider(s),
           IF s.touch.far THEN s.touch.dir = "vertical" ELSE s.touch.dir = "none"
    PROVE  /\ Slider(SwipeEnd(s)) /\ SwipeEnd(s).current = s.current
           /\ SwipeEnd(s).track = s.track /\ SwipeEnd(s).callbacks = s.callbacks
<1> DEFINE t == [s EXCEPT !.dragging = FALSE, !.interrupted = FALSE]
<1>1. SwipeEnd(s) = t
    BY DEF SwipeEnd
<1>2. /\ Changes(s, t, {"dragging", "interrupted"})
      /\ t.dragging = FALSE /\ t.interrupted = FALSE
    BY DEF Changes, Slider, Fields, Flags
<1> HIDE DEF t
<1>3. Slider(t)
    BY <1>2 DEF Changes, Slider, Fields, Flags
<1>4. t.current = s.current /\ t.track = s.track /\ t.callbacks = s.callbacks
    BY <1>2 DEF Changes, Slider, Fields, Flags
<1>5. QED
    BY <1>1, <1>3, <1>4

(* A finger that touches moves nothing, and has not moved.                    *)
LEMMA TapEffect ==
    ASSUME NEW s, Slider(s), ~s.dragging, ~s.touch.far
    PROVE  LET t == SwipeStart(s, 1)
           IN  /\ Slider(t) /\ t.current = s.current /\ t.track = s.track
               /\ t.callbacks = s.callbacks /\ ~t.touch.far /\ t.touch.dir = "none"
<1> DEFINE r == Stray(s)
           t == [r EXCEPT !.interrupted = TRUE]
           u == [t EXCEPT !.dragging = TRUE]
           touch == [on |-> TRUE, dir |-> "none", far |-> s.touch.far]
           v == SwipeStart(s, 1)
<1>1. Slider(r) /\ Changes(s, r, {"track"}) /\ r.track = s.track
    BY StrayEffect
<1>2. v \in {FreshTouch(t), SetTouch(u, touch)}
    BY DEF SwipeStart
<1>3. touch \in Touches /\ ~touch.far /\ touch.dir = "none"
    BY DEF Slider, Touches
<1> HIDE DEF r
<1>4. Changes(r, t, {"interrupted"}) /\ t.interrupted = TRUE
    BY <1>1 DEF Changes, Slider, Fields, Flags
<1> HIDE DEF t, touch, v
<1>5. Slider(t)
    BY <1>1, <1>4, ZenonT(40) DEF Changes, Slider, Fields, Flags
<1>6. Changes(t, u, {"dragging"}) /\ u.dragging = TRUE
    BY <1>5 DEF Changes, Slider, Fields, Flags
<1> HIDE DEF u
<1>7. Slider(u)
    BY <1>5, <1>6, ZenonT(40) DEF Changes, Slider, Fields, Flags
<1>8. /\ t.current = s.current /\ t.track = s.track /\ t.callbacks = s.callbacks
      /\ u.current = s.current /\ u.track = s.track /\ u.callbacks = s.callbacks
    <2>1. r.current = s.current /\ r.callbacks = s.callbacks
        BY <1>1 DEF Changes, Slider, Fields, Flags
    <2>2. t.current = r.current /\ t.track = r.track /\ t.callbacks = r.callbacks
        BY <1>1, <1>4 DEF Changes, Slider, Fields, Flags
    <2>3. u.current = t.current /\ u.track = t.track /\ u.callbacks = t.callbacks
        BY <1>5, <1>6 DEF Changes, Slider, Fields, Flags
    <2>4. QED
        BY <1>1, <2>1, <2>2, <2>3
<1>9. CASE v = FreshTouch(t)
    <2>1. /\ Slider(v) /\ Changes(t, v, {"touch", "sharedTouch"}) /\ v.touch = NoTouch
        BY <1>5, <1>9, FreshTouchEffect
    <2>2. v.current = t.current /\ v.track = t.track /\ v.callbacks = t.callbacks
        BY <1>5, <2>1 DEF Changes, Slider, Fields, Flags
    <2>3. QED
        BY <1>8, <2>1, <2>2, NoTouchType DEF v
<1>10. CASE v = SetTouch(u, touch)
    <2>1. /\ Slider(v) /\ Changes(u, v, {"touch", "firstTouch"}) /\ v.touch = touch
        BY <1>3, <1>7, <1>10, SetTouchEffect
    <2>2. v.current = u.current /\ v.track = u.track /\ v.callbacks = u.callbacks
        BY <1>7, <2>1 DEF Changes, Slider, Fields, Flags
    <2>3. QED
        BY <1>3, <1>8, <2>1, <2>2 DEF v
<1>11. QED
    BY <1>2, <1>9, <1>10

--------------------------------------------------------------------------------
(* The theorems. *)

(* The object keeps its types, and no more animations are under way than      *)
(* handlers began.                                                            *)
THEOREM TypeCorrect == Spec => []TypeOK
<1>1. IInv => TypeOK
    <2> SUFFICES ASSUME IInv PROVE TypeOK
        OBVIOUS
    <2>1. Slider(slick)
        BY DEF IInv, Good, Sound
    <2>2. slick.activeBreakpoint \in DOMAIN page.responsive \cup {None}
        BY DEF IInv, Good, Sound
    <2>3. /\ {slick.touch, slick.firstTouch} \subseteq
                [on : BOOLEAN, far : BOOLEAN,
                 dir : {"none", "left", "right", "vertical", "lost"}]
          /\ {slick.options, slick.original} \subseteq Options
        BY <2>1 DEF Slider, Touches
    <2>4. {slick.animating, slick.paused, slick.interrupted, slick.focussed,
           slick.dragging, slick.sharedTouch, slick.unslicked, slick.listening,
           slick.focusable, slick.hoverLast, slick.ticking, slick.resizing,
           slick.focusing, slick.rebound, slick.filtered, slick.overtaken,
           slick.misled} \subseteq BOOLEAN
        BY <2>1 DEF Slider, Flags
    <2>5. QED
        BY <2>1, <2>2, <2>3, <2>4 DEF IInv, TypeOK, Slider
<1>2. QED
    BY Invariance, <1>1, PTL

(* Whatever adds, removes, resizes or slides meanwhile: the slider is never   *)
(* left deaf, and one that loops and waits for its animations has one at a    *)
(* time, which announces the slide it stands on (slideHandler, postSlide).    *)
THEOREM AnimationCorrect == Spec => []OneAnimation
<1>1. IInv => OneAnimation
    BY DEF IInv, Good, Sound, Animated, OneAnimation, NeverDeaf
<1>2. QED
    BY Invariance, <1>1, PTL

(* A mouse that leaves, a finger that lifts and a tap move nothing unless a   *)
(* finger has moved since the last swipe ended, or that swipe was a far       *)
(* vertical one (swipeEnd, swipeStart).                                       *)
THEOREM SwipeCorrect == Spec => []SwipeNeedsMove
<1>1. IInv => SwipeNeedsMove
    <2> SUFFICES ASSUME IInv, ~slick.dragging, ~slick.sharedTouch
                 PROVE  /\ Still(SwipeEnd(slick))
                        /\ IF slick.touch.far THEN slick.touch.dir = "vertical"
                                              ELSE Still(SwipeEnd(SwipeStart(slick, 1)))
        BY DEF SwipeNeedsMove
    <2>1. Slider(slick) /\ Swiped(slick) /\ slick.touch \in Touches
        BY DEF IInv, Good, Sound, Slider
    <2>2. IF slick.touch.far THEN slick.touch.on /\ slick.touch.dir = "vertical"
                             ELSE slick.touch.dir = "none"
        BY <2>1 DEF Swiped, Touches
    <2>3. Still(SwipeEnd(slick))
        BY <2>1, <2>2, LiftEffect DEF Still
    <2>4. ~slick.touch.far => Still(SwipeEnd(SwipeStart(slick, 1)))
        <3> SUFFICES ASSUME ~slick.touch.far
                     PROVE  Still(SwipeEnd(SwipeStart(slick, 1)))
            OBVIOUS
        <3> DEFINE t == SwipeStart(slick, 1)
        <3>1. /\ Slider(t) /\ t.current = slick.current /\ t.track = slick.track
              /\ t.callbacks = slick.callbacks /\ ~t.touch.far /\ t.touch.dir = "none"
            BY <2>1, TapEffect
        <3> HIDE DEF t
        <3>2. Slider(SwipeEnd(t)) /\ SwipeEnd(t).current = t.current
              /\ SwipeEnd(t).track = t.track /\ SwipeEnd(t).callbacks = t.callbacks
            BY <3>1, LiftEffect
        <3>3. QED
            BY <3>1, <3>2 DEF Still, t
    <2>5. QED
        BY <2>2, <2>3, <2>4
<1>2. QED
    BY Invariance, <1>1, PTL

(* The current slide exists, on every page whose breakpoints are sensible     *)
(* (reinit, refresh, slideHandler).                                           *)
THEOREM CurrentCorrect ==
    ASSUME SensibleBreakpoints
    PROVE  Spec => []CurrentExists
<1>1. IInv => CurrentExists
    BY DEF IInv, Good, Sound, Fit, InRange, CurrentExists
<1>2. QED
    BY Invariance, <1>1, PTL

(* A slider that loops and has whole pages wraps unseen: whatever was asked,  *)
(* resized or dragged meanwhile, an animation that waitForAnimate protects    *)
(* ends where postSlide will put the strip, or a whole number of rounds away  *)
(* (slideHandler, getLeft, setPosition).                                      *)
THEOREM WrapsUnseenCorrect ==
    Spec => [](slick.slides % slick.options.slidesToScroll = 0 => WrapsUnseen)
<1>1. AInv => (slick.slides % slick.options.slidesToScroll = 0 => WrapsUnseen)
    <2> SUFFICES ASSUME AInv, slick.slides % slick.options.slidesToScroll = 0
                 PROVE  WrapsUnseen
        OBVIOUS
    <2> DEFINE left == Left(slick.options, slick.slides, slick.current)
    <2>1. Slider(slick) /\ slick.slides \in Nat /\ slick.options.slidesToShow \in Nat
        BY Numbers DEF AInv, Aligned, Options
    <2>2. left \in Int
        BY <2>1, Numbers, LeftType
    <2>3. Protected(slick) => /\ slick.slides > slick.options.slidesToShow
                              /\ slick.track \in Int
                              /\ RoundsApart(slick.slides, slick.track, left)
        BY DEF AInv, Aligned, Wrapped
    <2> HIDE DEF left
    <2>4. Protected(slick) => (slick.track - left) % slick.slides = 0
        <3> SUFFICES ASSUME Protected(slick)
                     PROVE  (slick.track - left) % slick.slides = 0
            OBVIOUS
        <3>1. PICK n, a : n = slick.slides /\ a = slick.track
            OBVIOUS
        <3>2. n \in Nat \ {0} /\ a \in Int /\ RoundsApart(n, a, left)
            BY <2>1, <2>3, <3>1
        <3>3. (a - left) % n = 0
            BY <2>2, <3>2, RoundsVanish
        <3>4. QED
            BY <3>1, <3>3
    <2>5. QED
        BY <2>4 DEF WrapsUnseen, Protected, left
<1>2. QED
    BY AlignedInvariance, <1>1, PTL

(* At rest the strip is where the current slide says, and what is marked      *)
(* slick-active is in view, and something is -- on every page whose           *)
(* breakpoints are sensible (getLeft, setSlideClasses, and the moments at     *)
(* which slideHandler, postSlide, reinit and refresh apply them).             *)
THEOREM RestCorrect ==
    ASSUME SensibleBreakpoints
    PROVE  Spec => []RestInView
<1>1. VInv /\ Held(slick) => RestInView
    <2> DEFINE o == slick.options
               n == slick.slides
               left == IF o.fade THEN slick.current ELSE Left(o, n, slick.current)
               last == IF o.fade THEN slick.current
                       ELSE IF o.centerMode THEN left + 2 * Half(o)
                       ELSE left + o.slidesToShow - 1
               pages == /\ n > slick.current
                        /\ n % o.slidesToScroll = 0 \/ o.slidesToShow = o.slidesToScroll
                        /\ slick.current % o.slidesToScroll = 0
                        /\ o.centerMode => o.infinite /\ n > o.slidesToShow
                        /\ o.fade => o.slidesToShow = 1
               inView == IF o.fade THEN {slick.track}
                         ELSE slick.track .. slick.track +
                                (IF o.centerMode THEN 2 * Half(o) ELSE o.slidesToShow - 1)
    <2> SUFFICES ASSUME VInv, Held(slick), AtRest, ~Displaced
                 PROVE  /\ slick.track = left
                        /\ pages => slick.shown # {} /\ slick.shown \subseteq inView
        BY DEF RestInView
    <2>1. /\ Formed(slick) /\ Slider(slick) /\ Shaped(slick) /\ Marked(slick) /\ Placed(slick)
          /\ slick.callbacks = <<>> /\ ~slick.unslicked
        BY DEF VInv, Viewed, Showing, Formed, AtRest
    <2>2. slick.track = left
        <3>1. slick.slides \in Nat /\ slick.options.slidesToShow \in Nat
            BY <2>1, Numbers DEF Options
        <3>2. slick.track # Astray /\ slick.track # Dragged
            BY <2>1, <3>1 DEF AtRest, Displaced, Held
        <3>3. QED
            BY <2>1, <3>2 DEF Placed, Place
    <2>3. ASSUME pages PROVE slick.shown # {} /\ slick.shown \subseteq left .. last
        <3>1. /\ o \in Options /\ n \in Nat /\ slick.current \in Int
              /\ slick.current >= 0 /\ o.slidesToScroll <= o.slidesToShow
              /\ slick.clones = Clones(o, n) /\ (o.centerMode => o.slidesToScroll = 1)
              /\ n <= o.slidesToShow => slick.current = 0
            BY <2>1, Numbers DEF Formed, Shaped
        <3>2. PICK i \in Int :
                  /\ i = slick.current \/ (n <= o.slidesToShow /\ i \in Nat)
                  /\ slick.shown = Active(o, n, slick.clones, i)
            BY <2>1 DEF Marked
        <3>3. PICK c \in Nat : c = slick.current
            BY <3>1
        <3>4. QED
            BY <2>3, <3>1, <3>2, <3>3, ActiveInView
    <2>4. left .. last = inView
        <3>1. /\ o \in Options /\ n \in Nat /\ slick.current \in Int
            BY <2>1, Numbers
        <3>2. CASE o.fade
            BY <2>2, <3>1, <3>2
        <3>3. CASE ~o.fade
            <4>1. o.slidesToShow \in Int
                BY <3>1 DEF Options
            <4>2. left \in Int
                BY <3>1, <3>3, LeftType
            <4> HIDE DEF left
            <4>3. QED
                BY <2>2, <3>3, <4>1, <4>2
        <3>4. QED
            BY <3>2, <3>3
    <2>5. QED
        BY <2>2, <2>3, <2>4
<1>2. QED
    BY ViewedInvariance, HeldInvariance, <1>1, PTL

(* And one with a partial last page wraps unseen, too, if it shows what it    *)
(* scrolls by and only stands at the start of pages -- on every page whose    *)
(* breakpoints are sensible.                                                  *)
THEOREM WrapsUnseenAlways ==
    ASSUME SensibleBreakpoints
    PROVE  Spec => []WrapsUnseen
<1>1. VInv => WrapsUnseen
    <2> SUFFICES ASSUME VInv PROVE WrapsUnseen
        OBVIOUS
    <2> DEFINE left == Left(slick.options, slick.slides, slick.current)
               whole == slick.slides % slick.options.slidesToScroll = 0
               parts == /\ slick.options.slidesToShow = slick.options.slidesToScroll
                        /\ ~slick.options.focusOnSelect
    <2>1. Slider(slick) /\ slick.slides \in Nat /\ slick.options.slidesToShow \in Nat
        BY Numbers DEF VInv, AInv, Aligned, Options
    <2>2. left \in Int
        BY <2>1, Numbers, LeftType
    <2>3. Protected(slick) => slick.slides > slick.options.slidesToShow
        BY DEF VInv, AInv, Aligned, Wrapped
    <2>4. Protected(slick) /\ whole
          => slick.track \in Int /\ RoundsApart(slick.slides, slick.track, left)
        BY DEF VInv, AInv, Aligned, Wrapped
    <2>5. Protected(slick) /\ parts
          => slick.track \in Int /\ RoundsApart(slick.slides, slick.track, left)
        BY DEF VInv, Viewed, Showing, Parted, Protected
    <2> HIDE DEF left
    <2>6. Protected(slick) /\ (whole \/ parts) => (slick.track - left) % slick.slides = 0
        <3> SUFFICES ASSUME Protected(slick), whole \/ parts
                     PROVE  (slick.track - left) % slick.slides = 0
            OBVIOUS
        <3>1. PICK n, a : n = slick.slides /\ a = slick.track
            OBVIOUS
        <3>2. n \in Nat \ {0} /\ a \in Int /\ RoundsApart(n, a, left)
            BY <2>1, <2>3, <2>4, <2>5, <3>1
        <3>3. (a - left) % n = 0
            BY <2>2, <3>2, RoundsVanish
        <3>4. QED
            BY <3>1, <3>3
    <2>7. QED
        BY <2>6 DEF WrapsUnseen, Protected, left
<1>2. QED
    BY ViewedInvariance, <1>1, PTL
================================================================================
