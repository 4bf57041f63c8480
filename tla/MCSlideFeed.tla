----------------------------- MODULE MCSlideFeed ----------------------------
EXTENDS SlideFeed
=============================================================================
