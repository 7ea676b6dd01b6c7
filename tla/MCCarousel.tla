------------------------------- MODULE MCCarousel -------------------------------
(* Pages for TLC: every kind of slider that slick.js tells apart, with few     *)
(* slides, and breakpoints at width 2 between the two widths of the window.    *)
EXTENDS Carousel, TLC

Looping == [infinite |-> TRUE, fade |-> FALSE, centerMode |-> FALSE,
            slidesToShow |-> 1, slidesToScroll |-> 1, autoplay |-> TRUE,
            waitForAnimate |-> TRUE, focusOnSelect |-> FALSE]

Page(settings, slides) ==
    [settings |-> settings @@ Looping, responsive |-> <<>>, mobileFirst |-> FALSE,
     slides |-> slides]

(* A slider with whole pages that stops looping in a narrow window. *)
Responsive ==
    [Page([slidesToShow |-> 1], 3) EXCEPT
        !.responsive = (2 :> [infinite |-> FALSE, slidesToShow |-> 2])]

(* Three slides in pages of two: the last page is not whole. *)
Uneven == Page([slidesToShow |-> 2, slidesToScroll |-> 2], 3)

(* A slider that neither loops nor plays nor waits for animations, lets       *)
(* slides be clicked, and is taken apart in a wide window.                    *)
Finite ==
    [Page([infinite |-> FALSE, slidesToShow |-> 2, focusOnSelect |-> TRUE,
           autoplay |-> FALSE, waitForAnimate |-> FALSE], 3) EXCEPT
        !.responsive = (1 :> Unslick), !.mobileFirst = TRUE]

(* Slides that fade, whose page does not wait for animations. *)
Fading == Page([fade |-> TRUE, centerMode |-> TRUE, waitForAnimate |-> FALSE], 2)

(* The current slide in the middle of three, in a window of any width. *)
Centred == Page([centerMode |-> TRUE, slidesToShow |-> 3, autoplay |-> FALSE], 4)

(* Slides to be clicked, enough of them for a click to go to none once three  *)
(* are removed.                                                               *)
Clickable == Page([autoplay |-> FALSE, focusOnSelect |-> TRUE], 5)

MCPages == {Responsive, Uneven, Finite, Fading, Centred, Clickable}

================================================================================
