--------------------------- MODULE MCDavRequests ---------------------------
(* Small instances of DavRequests.                                          *)
EXTENDS DavRequests, TLC

CONSTANTS a, b

MCSegments == {a, b}

ChainNames == {<<>>, <<a>>, <<a, b>>}

TreeNames == {<<>>, <<a>>, <<b>>, <<a, b>>}

PairNames == {<<>>, <<a>>, <<b>>}

MCDurations == {infiniteTimeout, 1}

Forever == {infiniteTimeout}

List(tag, conditions) == [tag |-> tag, conditions |-> conditions]

\* No header, or one list with one token.
OneToken(known) == {<<>>} \cup {<<List(NoName, <<t>>)>> : t \in known}

\* Also lists with a tag, and a second list to fall back on.
TwoLists(known) ==
    OneToken(known)
    \cup {<<List(tag, <<t>>), List(NoName, <<t>>)>> :
             tag \in {Foreign, Outside, <<a>>}, t \in known}

\* The users all have the base path "/", or one has a directory of its own.
RootBase == {<<>>}

Full == {Names}

Grown == {{<<>>}, {<<>>, <<a>>}, Names}

Perms == Permutations(Conns)

TwoBases == {<<>>, <<a>>}
=============================================================================
