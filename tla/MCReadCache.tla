---------------------------- MODULE MCReadCache -----------------------------
EXTENDS ReadCache
=============================================================================
