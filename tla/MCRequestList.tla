---------------------------- MODULE MCRequestList ----------------------------
(* RequestList with a few filters and loads, for TLC.                        *)
EXTENDS RequestList

CONSTANTS l1, l2, l3
==============================================================================
