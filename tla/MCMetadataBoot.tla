----------------------------- MODULE MCMetadataBoot -----------------------------
(* The twelve migrations of the repository, 0000 to 0011, and what they use. *)
EXTENDS MetadataBoot

MCNeeds == <<{}, {1}, {1}, {3}, {3}, {1}, {3, 4}, {3}, {1, 3}, {1}, {1}, {1, 11}>>
================================================================================
