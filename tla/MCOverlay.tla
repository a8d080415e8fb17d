------------------------------- MODULE MCOverlay -------------------------------
(* Two connections, two mounts of the App, two events, an alert, a fault.  *)
EXTENDS Overlay
===============================================================================
