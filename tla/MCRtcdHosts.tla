---------------------------- MODULE MCRtcdHosts -----------------------------
(* RtcdHosts on one or two hosts. *)
EXTENDS RtcdHosts
=============================================================================
