---------------------------- MODULE MCUnpinStore ----------------------------
(* UnpinStore with a video of two files.                                   *)
EXTENDS UnpinStore

CONSTANTS m, s

MCGroups == {{m, s}, {m}}
=============================================================================
