--------------------------- MODULE MCWatchListen ---------------------------
(* The instance of WatchListen for TLC.                                    *)
EXTENDS WatchListen
============================================================================
