\* Six kinds of sliders, any inputs up to MaxInputs, and all timers.
SPECIFICATION Spec
CONSTANTS
    Pages <- MCPages
    Widths = {1, 2}
    MaxSlides = 5
    MaxInputs = 4
    MaxCallbacks = 2
    None = None
    Unslick = Unslick
    Dragged = Dragged
    Astray = Astray
INVARIANTS
    TypeOK
    CurrentExists
    RestInView
    OneAnimation
    WrapsUnseen
    SwipeNeedsMove
CHECK_DEADLOCK FALSE
PROPERTIES
    AutoplayGoesOn
