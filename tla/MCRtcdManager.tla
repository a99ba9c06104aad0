--------------------------- MODULE MCRtcdManager ----------------------------
(* RtcdManager with two callers of Start, one kicked round and as many      *)
(* managers as rounds.                                                      *)
EXTENDS RtcdManager
=============================================================================
