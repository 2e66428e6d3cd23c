----------------------------- MODULE SearchIndex -----------------------------
(* internal/search: the index, which is kept in rows that every listing updates *)
(* at once (IndexUpdate), or by Meilisearch, whose queue takes the listings up  *)
(* later (MeiliQueue).  The two share no variable.                              *)
EXTENDS IndexUpdate, MeiliQueue

SearchSpec == USpec /\ QSpec

(* The index follows the listings: in the rows and in the documents is each     *)
(* object of the last listing of a directory, once, and no other; and listings  *)
(* of one directory neither overlap nor overtake each other (Update,            *)
(* search/build.go:202-276; consume, meilisearch/task_queue.go:99-183).         *)
IndexFollows == UOneRow /\ UFollows /\ QSettles /\ QOneGeneration
=============================================================================
