--------------------------- MODULE MCDavCopyMove ---------------------------
(* A source directory with two files, one of them named like the directory. *)
EXTENDS DavCopyMove

CONSTANTS f, g

TwoFiles == {f, g}
=============================================================================
