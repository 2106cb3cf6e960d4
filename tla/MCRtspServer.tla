--------------------------- MODULE MCRtspServer -----------------------------
EXTENDS RtspServer

(* Two numbers for three connections: numbers run out and are used again.    *)
MCFds == {5, 6}
=============================================================================
