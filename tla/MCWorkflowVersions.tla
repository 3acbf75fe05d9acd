---- MODULE MCWorkflowVersions ----
(* Small instances of WorkflowVersions. *)
EXTENDS WorkflowVersions, TLC

CONSTANTS e1, e2, a1, a2, ask, other, noSource, s1, s2, broken

EditorSymmetry == Permutations({e1, e2})
====
