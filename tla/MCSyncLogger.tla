---------------------------- MODULE MCSyncLogger ----------------------------
(* SyncLogger for TLC: minutes of three seconds, some seconds of an hour.   *)
EXTENDS SyncLogger

MCSeconds == <<<<10, 58>>, <<10, 59>>, <<11, 10>>, <<11, 11>>>>
MCMinutes == <<<<58, 10>>, <<58, 11>>, <<58, 12>>, <<59, 10>>, <<59, 11>>, <<59, 12>>>>
=============================================================================
