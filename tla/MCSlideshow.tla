----------------------------- MODULE MCSlideshow -----------------------------
EXTENDS Slideshow
CONSTANTS p1, p2, p3
MCTwo    == {p1, p2}
MCThree  == {p1, p2, p3}
MCFaults == {"fetch", "images", "uploads"}
MCNone   == {}
=============================================================================
