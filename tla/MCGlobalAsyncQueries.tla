------------------------ MODULE MCGlobalAsyncQueries ------------------------
(* GlobalAsyncQueries on small instances: the model values of the .cfg files. *)
EXTENDS GlobalAsyncQueries, TLC

CONSTANTS j1, j2, s1, s2

(* FirehoseStart of a server that has already forwarded an entry, and        *)
(* StoredId of a page that has already received it.                           *)
Forwarded == <<0, 0>>
=============================================================================
