--------------------------- MODULE MCPortalSession ---------------------------
EXTENDS PortalSession
=============================================================================
