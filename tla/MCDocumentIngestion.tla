---- MODULE MCDocumentIngestion ----
(* Small instances of DocumentIngestion. *)
EXTENDS DocumentIngestion, TLC

CONSTANTS d1, d2, up, re1, re2, del

ReindexSymmetry == Permutations({re1, re2})
====
