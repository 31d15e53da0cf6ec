--------------------------- MODULE MCDriverChannel ---------------------------
(* DriverChannel has no constant but its bounds, which driver.cfg gives.    *)
EXTENDS DriverChannel
=============================================================================
