--------------------------- MODULE MCRtcpThreads ----------------------------
EXTENDS RtcpThreads

CONSTANTS a, b, c

MCSources == {a, b, c}
=============================================================================
