---------------------------- MODULE MCUploadServer ----------------------------
(* Two uploads of one name.                                                *)
EXTENDS UploadServer

CONSTANTS u1, u2, n1

MCUploads == {u1, u2}
MCNameOf == [u \in MCUploads |-> n1]
==============================================================================
