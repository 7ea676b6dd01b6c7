------------------------------ MODULE CarouselPages ------------------------------
(******************************************************************************)
(* The index arithmetic of the carousel the website loads on every page       *)
(* (src/website/resources/js/slick-1.6.0/slick/slick.js): which indexes a     *)
(* slider with n slides can be sent to, which slide it then stands on, where  *)
(* the strip of slides and its clones is moved to, and which slides carry     *)
(* the class slick-active.                                                    *)
(*                                                                            *)
(* Positions count slides from the first real one: the clones an infinite     *)
(* slider puts around its n slides have positions -clones .. -1 and           *)
(* n .. n + clones - 1.  `o` is the options object, of which the modules read *)
(* infinite, fade, centerMode, slidesToShow and slidesToScroll.  Lengths are  *)
(* in slides: pixels, right-to-left, vertical and variable-width layouts are  *)
(* left out.                                                                  *)
(******************************************************************************)
EXTENDS Integers, FiniteSets, FiniteSetsExt

Half(o) == o.slidesToShow \div 2

(* How far the loops of getDotCount and getNavigableIndexes advance. *)
Stride(o) == IF o.slidesToScroll <= o.slidesToShow
             THEN o.slidesToScroll ELSE o.slidesToShow

(* The break points below `max` of the loop that starts at `first`: the       *)
(* second one is slidesToScroll further, the others a stride each.            *)
BreakPoints(o, first, max) ==
    {b \in {first} \cup {first + o.slidesToScroll + i * Stride(o) : i \in 0 .. 2 * max} :
        b < max}

DotCount(o, n) ==
    IF o.infinite THEN Cardinality(BreakPoints(o, 0, n)) - 1
    ELSE IF o.centerMode THEN n - 1
    ELSE -((o.slidesToShow - n) \div o.slidesToScroll)    \* Math.ceil

NavigableIndexes(o, n) ==
    IF o.infinite THEN BreakPoints(o, -o.slidesToScroll, 2 * n)
                  ELSE BreakPoints(o, 0, n)

(* The last navigable index that is not above the wanted one.  Below the      *)
(* first it is 0, and without slides the index is taken as it is.             *)
CheckNavigable(o, n, index) ==
    LET navigables == NavigableIndexes(o, n)
        reached    == {v \in navigables : v <= index}
    IN  IF navigables = {} THEN index
        ELSE IF reached = {} THEN 0 ELSE Max(reached)

(* What the arrows, the keys, next() and prev() ask for.  The remainder of a  *)
(* negative number is negative in JavaScript.                                 *)
Remainder(a, b) == IF a >= 0 THEN a % b ELSE -((-a) % b)

IndexOffset(o, n, current) ==
    IF n % o.slidesToScroll # 0 THEN 0 ELSE Remainder(n - current, o.slidesToScroll)

PreviousIndex(o, n, current) ==
    LET offset == IndexOffset(o, n, current)
    IN  current - (IF offset = 0 THEN o.slidesToScroll ELSE o.slidesToShow - offset)

NextIndex(o, n, current) ==
    LET offset == IndexOffset(o, n, current)
    IN  current + (IF offset = 0 THEN o.slidesToScroll ELSE offset)

(* A slider that does not loop snaps back from an index outside its range. *)
Beyond(o, n, index) ==
    /\ ~o.infinite
    /\ \/ index < 0
       \/ IF o.centerMode THEN index > n - o.slidesToScroll
                          ELSE index > DotCount(o, n) * o.slidesToScroll

(* Faulty: an uneven number of slides is forgotten when wrapping backwards. *)
AnimSlide_Even(o, n, index) ==
    IF index < 0 THEN n + index
    ELSE IF index >= n THEN IF n % o.slidesToScroll # 0 THEN 0 ELSE index - n
    ELSE index

(* The slide an accepted index stands for: animSlide of slideHandler. *)
AnimSlide(o, n, index) ==
    LET rest == n % o.slidesToScroll
    IN  IF index < 0 THEN IF rest # 0 THEN n - rest ELSE n + index
        ELSE IF index >= n THEN IF rest # 0 THEN 0 ELSE index - n
        ELSE index

(* getLeft: the position of the leftmost slide in view when the strip is      *)
(* moved to an index, real or in the clones.  An infinite slider has          *)
(* slidesToShow clones on each side (one more in centre mode) exactly when it *)
(* has more slides than it shows.                                             *)
Left(o, n, index) ==
    LET rest  == n % o.slidesToScroll
        plain == IF n <= o.slidesToShow THEN index
                 ELSE IF o.infinite
                 THEN IF rest # 0 /\ index + o.slidesToScroll > n
                      THEN IF index > n THEN n ELSE index + rest - o.slidesToShow
                      ELSE index
                 ELSE IF index + o.slidesToShow > n THEN n - o.slidesToShow ELSE index
    IN  IF ~o.centerMode THEN plain
        ELSE IF o.infinite /\ n <= o.slidesToShow THEN index - Half(o) + 1
        ELSE IF o.infinite THEN plain - Half(o)
        ELSE index - Half(o)

(* setupInfinite: the clones on each side. *)
Clones(o, n) ==
    IF ~o.infinite \/ o.fade \/ n <= o.slidesToShow THEN 0
    ELSE IF o.centerMode THEN o.slidesToShow + 1 ELSE o.slidesToShow

(* jQuery's slice(from, to) of the slides and `c` clones on each side, as     *)
(* positions: a negative bound counts from the end.                           *)
Slice(n, c, from, to) ==
    LET length == n + 2 * c
        At(i)  == IF i < 0 THEN length + i ELSE i
    IN  {p \in -c .. n + c - 1 : At(from) <= p + c /\ p + c < At(to)}

(* setSlideClasses: the positions that get slick-active. *)
Active(o, n, c, index) ==
    LET first == IF o.infinite THEN o.slidesToShow + index ELSE index
        rest  == n % o.slidesToShow
    IN  IF o.centerMode
        THEN IF ~o.infinite THEN {}
             ELSE IF Half(o) <= index /\ index <= n - 1 - Half(o)
             THEN Slice(n, 0, index - Half(o), index + Half(o) + 1)
             ELSE Slice(n, c, first - Half(o) + 1, first + Half(o) + 2)
        ELSE IF 0 <= index /\ index <= n - o.slidesToShow
             THEN Slice(n, 0, index, index + o.slidesToShow)
             ELSE IF n + 2 * c <= o.slidesToShow THEN -c .. n + c - 1
             ELSE IF o.slidesToShow = o.slidesToScroll /\ n - index < o.slidesToShow
             THEN Slice(n, c, first - (o.slidesToShow - rest), first + rest)
             ELSE Slice(n, c, first, first + o.slidesToShow)

================================================================================
