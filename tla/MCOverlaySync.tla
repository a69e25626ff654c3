--------------------------- MODULE MCOverlaySync ---------------------------
(* OverlaySync with three good overlays, a rejected one and a short watch.   *)
EXTENDS OverlaySync
=============================================================================
