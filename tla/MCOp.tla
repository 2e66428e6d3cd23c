----------------------------- MODULE MCOp -----------------------------
(* The operations on files: the cached listings of op/fs.go over a driver, the  *)
(* links that are shared, and the local driver.  They share no variable, so     *)
(* each behaviour is one of one part: `part` says which one takes the steps.    *)
EXTENDS LocalDriver, DirCache, LinkCache

VARIABLE part
opVars == <<part, localVars, dirVars, linkVars>>

MCBin == <<"b">>

MCPaths == {<<"d">>, <<"e">>, <<"e", "g">>}
MCSide == {<<>>, <<"d">>, <<"e">>}
\* A directory with a file, and one that can move to the other with what is below it.
MCDir == [dir |-> TRUE, val |-> 0]
MCFile == [dir |-> FALSE, val |-> 1]
MCStart == { <<"e">> :> MCDir @@ <<"e", "g">> :> MCFile,
             <<"d">> :> MCDir @@ <<"d", "f">> :> MCDir @@ <<"d", "f", "h">> :> MCFile @@ <<"e">> :> MCDir }
\* A driver that answers Get and returns objects, and one that does neither and
\* cannot overwrite.
MCConfs == {[getter |-> FALSE, result |-> FALSE, noOver |-> TRUE], [getter |-> TRUE, result |-> TRUE, noOver |-> FALSE]}

\* A part that takes no step starts in one way only.  Of the listings, a driver
\* with a Getter starts with nothing cached and the other one with every listing.
OpInit ==
  /\ part \in {"local", "listings", "links"}
  /\ LInit /\ CInit /\ KInit
  /\ part # "links" => kkind
  /\ cconf.getter = (dirCache = <<>>)
  /\ <<"d">> \in DOMAIN cdisk => ~cconf.getter
  /\ part # "listings" => cconf.getter

OpNext ==
  /\ UNCHANGED part
  /\ \/ part = "local" /\ LNext /\ UNCHANGED <<dirVars, linkVars>>
     \/ part = "listings" /\ CNext /\ UNCHANGED <<localVars, linkVars>>
     \/ part = "links" /\ KNext /\ UNCHANGED <<localVars, dirVars>>

OpSpec == OpInit /\ [][OpNext]_opVars /\ CFair

(* What is cached of a storage, listings and links, is right.                   *)
CachesSafe == CallsSafe /\ LinksSafe
=============================================================================
