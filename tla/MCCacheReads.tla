---------------------------- MODULE MCCacheReads ----------------------------
\* The instance of CacheReads for TLC.
EXTENDS CacheReads
=============================================================================
