----------------------------- MODULE MCRemote -----------------------------
(* Instance of RemoteOperation for TLC.                                      *)
EXTENDS RemoteOperation
=============================================================================
