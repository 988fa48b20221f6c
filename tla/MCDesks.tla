------------------------------- MODULE MCDesks -------------------------------
(* Server zones west of UTC, at UTC and east of it, in hours of the model.    *)
EXTENDS Desks

MCZones == {-1, 0, 1}
=============================================================================
