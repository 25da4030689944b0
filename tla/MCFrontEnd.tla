----------------------------- MODULE MCFrontEnd -----------------------------
(* FrontEnd with one or two of everything. *)
EXTENDS FrontEnd

CONSTANTS w1, p1, s1, s2

OneWaiter  == {w1}
OnePlayer  == {p1}
OneStream  == {s1}
TwoStreams == {s1, s2}
=============================================================================
