--------------------------- MODULE MCOnlineRestore ---------------------------
EXTENDS OnlineRestore
=============================================================================
