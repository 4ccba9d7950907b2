--------------------------- MODULE MCModelDownload ---------------------------
(* What the mirrors of a small file of two blocks may serve: the file, or something longer. *)
EXTENDS ModelDownload

MCBodies == {Right, <<"wrong", "wrong", "wrong">>}
==============================================================================
