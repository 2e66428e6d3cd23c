------------------------------ MODULE MCMemLS ------------------------------
(* Small instances of MemLS.                                                *)
EXTENDS MemLS

CONSTANTS a, b

MCSegments == {a, b}

\* A collection with a member, and another resource beside it.
TreeNames == {<<>>, <<a>>, <<a, b>>, <<b>>}

MCDurations == {infiniteTimeout, 1}
=============================================================================
