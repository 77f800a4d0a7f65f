------------------------------ MODULE MCCache ------------------------------
(* Small instances of the cache: two kinds, a limit of a few bytes, entries *)
(* of one and two bytes and one larger than the whole cache.                *)
EXTENDS Cache

MCKinds == {"metrics", "logs"}
=============================================================================
