---- MODULE LiveVersion ----
(***************************************************************************)
(* What a workflow definition promises its readers: a growing list of      *)
(* versions and ONE pointer to the live version, moved in one step.  There *)
(* are no sessions, no flags and no window in which no version, or two,    *)
(* are live.  WorkflowVersions is shown to implement it when the edits of  *)
(* a deployment do not overlap.                                            *)
(***************************************************************************)
EXTENDS Naturals

CONSTANT Names          \* workflow definition names

VARIABLES count,        \* count[n]: how many versions n has, 0 when undefined
          live          \* live[n]: the live version's number, 0 when undefined

vars == <<count, live>>

Init == /\ count = [n \in Names |-> 0]
        /\ live = [n \in Names |-> 0]

(* A definition appears together with its live version 1. *)
Define(n) == /\ count[n] = 0
             /\ count' = [count EXCEPT ![n] = 1]
             /\ live' = [live EXCEPT ![n] = 1]

(* A version is published, live at once or as a draft. *)
Publish(n) == /\ count[n] > 0
              /\ count' = [count EXCEPT ![n] = @ + 1]
              /\ \/ live' = [live EXCEPT ![n] = count[n] + 1]
                 \/ UNCHANGED live

(* Another version becomes the live one. *)
Switch(n) == /\ \E v \in 1..count[n] : live' = [live EXCEPT ![n] = v]
             /\ UNCHANGED count

Next == \E n \in Names : Define(n) \/ Publish(n) \/ Switch(n)

Spec == Init /\ [][Next]_vars
====
