------------------------------ MODULE MCRutinas ------------------------------
(* Rutinas at a tenth of the code's scale, see README.md for the bounds.    *)
EXTENDS Rutinas

MCGpioAfterReset == {"kept", "cleared"}
=============================================================================
