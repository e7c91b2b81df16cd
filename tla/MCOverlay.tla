----------------------------- MODULE MCOverlay -----------------------------
(* Overlay on two images, three swapchains and a second device, with every *)
(* failure the code handles or ignores.                                    *)
EXTENDS Overlay

AllFaults == FaultNames
=============================================================================
