---- MODULE WorkflowVersions ----
(***************************************************************************)
(* Workflow definitions and their versions: create, clone, add a version,  *)
(* activate (which is also rollback), and the resolution of a name to its  *)
(* live version that every ask performs                                    *)
(* (features/workflows/lifecycle.py, repository.py, models.py).            *)
(*                                                                         *)
(* A request works on its own database session: what it reads stays in the *)
(* session, its writes reach other requests when it commits, and nothing   *)
(* locks or re-reads a row in between.  A request is therefore split at    *)
(* each statement whose result it uses later.                              *)
(***************************************************************************)
EXTENDS Naturals, Sequences, FiniteSets

CONSTANTS Names,          \* workflow definition names
          DefaultName,    \* DEFAULT_WORKFLOW_NAME, seeded by the first ask
          Specs,          \* graph specs a client may send
          Compiles,       \* those that validate against the deployed agents
          DefaultSpec,    \* default_spec(available_agents())
          Editors,        \* concurrent requests that edit definitions
          Askers,         \* concurrent requests that resolve the live version
          NoSource,       \* cloned_from_id of a definition that is no clone
          MaxVersions     \* bound: versions of one definition

ASSUME NamesAssumption == DefaultName \in Names
ASSUME NoSourceAssumption == NoSource \notin Names
ASSUME SpecsAssumption == Compiles \subseteq Specs /\ DefaultSpec \in Compiles
ASSUME RequestsAssumption == Editors \cap Askers = {}
ASSUME BoundAssumption == MaxVersions \in Nat

VARIABLES versions,       \* committed rows of workflow_versions, by definition
          clonedFrom,     \* cloned_from_id of each definition
          session         \* what each request in progress has read

vars == <<versions, clonedFrom, session>>

Requests == Editors \cup Askers

(* A row.  "wasActive" is a history field: the row has been active once.   *)
Row == [number: Nat \ {0}, spec: Specs, active: BOOLEAN, wasActive: BOOLEAN]

(* "at" is the statement the request is waiting to run. *)
Session == [at: {"idle", "create", "add", "swap", "find_others"},
            def: Names, source: Names \cup {NoSource}, spec: Specs,
            number: Nat, seen: SUBSET Nat, live: BOOLEAN]

Idle == [at |-> "idle", def |-> DefaultName, source |-> NoSource,
         spec |-> DefaultSpec, number |-> 0, seen |-> {}, live |-> FALSE]

Init == /\ versions = [n \in Names |-> <<>>]
        /\ clonedFrom = [n \in Names |-> NoSource]
        /\ session = [r \in Requests |-> Idle]

----------------------------------------------------------------------------
(* What one statement reads. *)

(* A definition is committed together with its version 1. *)
Defined(n) == versions[n] # <<>>

ActiveRows(n) == {i \in DOMAIN versions[n] : versions[n][i].active}
ActiveNumbers(n) == {versions[n][i].number : i \in ActiveRows(n)}
Numbers(n) == {versions[n][i].number : i \in DOMAIN versions[n]}

(* next_version_number: one above the largest number read. *)
NextNumber(n) ==
    IF Numbers(n) = {} THEN 1
    ELSE 1 + CHOOSE m \in Numbers(n) : \A k \in Numbers(n) : k <= m

NewRow(number, spec, active) ==
    [number |-> number, spec |-> spec, active |-> active, wasActive |-> active]

(* Mutants of Swapped: the incumbents keep their flag; the target gets none. *)
SwappedKeepingOthers(rows, seen, target) ==
    [i \in DOMAIN rows |->
        IF rows[i].number = target
        THEN [rows[i] EXCEPT !.active = TRUE, !.wasActive = TRUE] ELSE rows[i]]
SwappedWithoutTarget(rows, seen, target) ==
    [i \in DOMAIN rows |->
        IF rows[i].number \in seen THEN [rows[i] EXCEPT !.active = FALSE] ELSE rows[i]]

(* What deactivate_all and the target's flag write: the rows READ as active
   are cleared and the target is set; a row activated since is untouched,
   because only the columns this session changed are written. *)
Swapped(rows, seen, target) ==
    [i \in DOMAIN rows |->
        IF rows[i].number = target
        THEN [rows[i] EXCEPT !.active = TRUE, !.wasActive = TRUE]
        ELSE IF rows[i].number \in seen
        THEN [rows[i] EXCEPT !.active = FALSE]
        ELSE rows[i]]

Goto(r, s) == session' = [session EXCEPT ![r] = s]
Done(r) == Goto(r, Idle)

----------------------------------------------------------------------------
(* create_definition: the name is looked up, then both rows are inserted;  *)
(* the unique constraint on the name answers a concurrent create.          *)

StartCreate(e, n, spec) ==
    /\ session[e].at = "idle"
    /\ spec \in Compiles
    /\ ~Defined(n)
    /\ Goto(e, [Idle EXCEPT !.at = "create", !.def = n, !.spec = spec])
    /\ UNCHANGED <<versions, clonedFrom>>

(* Mutant: the newest version is cloned, live or not. *)
StartCloneOfNewest(e, source, n) ==
    /\ session[e].at = "idle"
    /\ ~Defined(n) /\ Defined(source)
    /\ Goto(e, [Idle EXCEPT !.at = "create", !.def = n, !.source = source,
                            !.spec = versions[source][Len(versions[source])].spec])
    /\ UNCHANGED <<versions, clonedFrom>>

(* clone_definition: the source's ACTIVE spec seeds the new definition. *)
StartClone(e, source, n) ==
    /\ session[e].at = "idle"
    /\ ~Defined(n)
    /\ \E i \in ActiveRows(source) :
          /\ versions[source][i].spec \in Compiles
          /\ Goto(e, [Idle EXCEPT !.at = "create", !.def = n, !.source = source,
                                  !.spec = versions[source][i].spec])
    /\ UNCHANGED <<versions, clonedFrom>>

(* Mutant: versions counted from zero. *)
CommitCreateFromZero(r) ==
    /\ session[r].at = "create"
    /\ ~Defined(session[r].def)
    /\ versions' = [versions EXCEPT
            ![session[r].def] = <<NewRow(0, session[r].spec, TRUE)>>]
    /\ clonedFrom' = [clonedFrom EXCEPT ![session[r].def] = session[r].source]
    /\ Done(r)

CommitCreate(r) ==
    /\ session[r].at = "create"
    /\ ~Defined(session[r].def)
    /\ versions' = [versions EXCEPT
            ![session[r].def] = <<NewRow(1, session[r].spec, TRUE)>>]
    /\ clonedFrom' = [clonedFrom EXCEPT ![session[r].def] = session[r].source]
    /\ Done(r)

(* IntegrityError on the name: rolled back, answered with ConflictError. *)
RefuseCreate(r) ==
    /\ session[r].at = "create"
    /\ Defined(session[r].def)
    /\ Done(r)
    /\ UNCHANGED <<versions, clonedFrom>>

----------------------------------------------------------------------------
(* add_version: the number is read first; if the version is to be live the *)
(* incumbents are read next; the row is inserted and committed.            *)

StartAdd(e, n, spec, live) ==
    /\ session[e].at = "idle"
    /\ spec \in Compiles
    /\ Defined(n)
    /\ Len(versions[n]) < MaxVersions
    /\ Goto(e, [Idle EXCEPT !.at = IF live THEN "find_others" ELSE "add",
                            !.def = n, !.spec = spec, !.live = live,
                            !.number = NextNumber(n)])
    /\ UNCHANGED <<versions, clonedFrom>>

(* deactivate_all of add_version. *)
AddFindOthers(e) ==
    /\ session[e].at = "find_others"
    /\ session[e].live
    /\ Goto(e, [session[e] EXCEPT !.at = "add", !.seen = ActiveNumbers(session[e].def)])
    /\ UNCHANGED <<versions, clonedFrom>>

(* Mutant: no unique constraint on (definition_id, version). *)
CommitAddUnchecked(e) ==
    /\ session[e].at = "add"
    /\ versions' = [versions EXCEPT ![session[e].def] =
            Append(Swapped(@, session[e].seen, session[e].number),
                   NewRow(session[e].number, session[e].spec, session[e].live))]
    /\ Done(e)
    /\ UNCHANGED clonedFrom

CommitAdd(e) ==
    LET n == session[e].def
        rows == versions[n]
        new == NewRow(session[e].number, session[e].spec, session[e].live)
    IN  /\ session[e].at = "add"
        /\ session[e].number \notin Numbers(n)
        /\ versions' = [versions EXCEPT
                ![n] = Append(Swapped(rows, session[e].seen, session[e].number), new)]
        /\ Done(e)
        /\ UNCHANGED clonedFrom

(* The unique constraint on (definition_id, version): the transaction, its *)
(* deactivations included, is rolled back.                                 *)
RefuseAdd(e) ==
    /\ session[e].at = "add"
    /\ session[e].number \in Numbers(session[e].def)
    /\ Done(e)
    /\ UNCHANGED <<versions, clonedFrom>>

----------------------------------------------------------------------------
(* activate_version: the target is loaded first and answered at once when  *)
(* it is active already.                                                   *)

StartActivate(e, n, i) ==
    /\ session[e].at = "idle"
    /\ i \in DOMAIN versions[n]
    /\ ~versions[n][i].active
    /\ Goto(e, [Idle EXCEPT !.at = "find_others", !.def = n,
                            !.number = versions[n][i].number])
    /\ UNCHANGED <<versions, clonedFrom>>

(* Mutant: the incumbents are deactivated in a transaction of their own. *)
ActivateFindOthersCommitting(e) ==
    LET others == ActiveNumbers(session[e].def) \ {session[e].number}
    IN  /\ session[e].at = "find_others"
        /\ ~session[e].live
        /\ versions' = [versions EXCEPT ![session[e].def] = Swapped(@, others, 0)]
        /\ Goto(e, [session[e] EXCEPT !.at = "swap", !.seen = others])
        /\ UNCHANGED clonedFrom

(* deactivate_all of activate_version: the target is in the session's      *)
(* identity map with the flag it was loaded with, so it is never cleared.  *)
ActivateFindOthers(e) ==
    /\ session[e].at = "find_others"
    /\ ~session[e].live
    /\ Goto(e, [session[e] EXCEPT !.at = "swap",
            !.seen = ActiveNumbers(session[e].def) \ {session[e].number}])
    /\ UNCHANGED <<versions, clonedFrom>>

CommitSwap(e) ==
    /\ session[e].at = "swap"
    /\ versions' = [versions EXCEPT ![session[e].def] =
            Swapped(@, session[e].seen, session[e].number)]
    /\ Done(e)
    /\ UNCHANGED clonedFrom

----------------------------------------------------------------------------
(* active_spec: resolve the name, seeding the default workflow.  When the  *)
(* definition exists the active version is read in one statement and the   *)
(* request is over; no state changes.                                      *)

SeedDefault(a) ==
    /\ session[a].at = "idle"
    /\ ~Defined(DefaultName)
    /\ Goto(a, [Idle EXCEPT !.at = "create", !.def = DefaultName, !.spec = DefaultSpec])
    /\ UNCHANGED <<versions, clonedFrom>>

(* The connection or the process is lost before the commit. *)
Abort(r) ==
    /\ session[r].at # "idle"
    /\ Done(r)
    /\ UNCHANGED <<versions, clonedFrom>>

EditorStep(e) ==
    \/ \E n \in Names, spec \in Specs : StartCreate(e, n, spec)
    \/ \E source, n \in Names : StartClone(e, source, n)
    \/ \E n \in Names, spec \in Specs, live \in BOOLEAN : StartAdd(e, n, spec, live)
    \/ AddFindOthers(e)
    \/ CommitAdd(e)
    \/ RefuseAdd(e)
    \/ \E n \in Names : \E i \in DOMAIN versions[n] : StartActivate(e, n, i)
    \/ ActivateFindOthers(e)
    \/ CommitSwap(e)

Next == \/ \E e \in Editors : EditorStep(e)
        \/ \E a \in Askers : SeedDefault(a)
        \/ \E r \in Requests : CommitCreate(r) \/ RefuseCreate(r) \/ Abort(r)

Spec == Init /\ [][Next]_vars

----------------------------------------------------------------------------
(* Properties. *)

(* Committed rows and sessions are well formed. *)
TypeOK == /\ versions \in [Names -> Seq(Row)]
          /\ clonedFrom \in [Names -> Names \cup {NoSource}]
          /\ session \in [Requests -> Session]

(* The i-th version committed carries number i, whatever edits raced for   *)
(* the number: next_version_number reads it long before the insert, and    *)
(* the unique constraint refuses the loser.                                *)
NumberedInOrder ==
    \A n \in Names : \A i \in DOMAIN versions[n] : versions[n][i].number = i

(* active_spec never finds a definition without a live version, under any  *)
(* interleaving of creates, adds, activations and aborted requests, so its *)
(* "no active version" error is unreachable.                               *)
SomeActive == \A n \in Names : Defined(n) => ActiveRows(n) # {}

(* "Exactly one active version per definition" (lifecycle.py).             *)
ExactlyOneActive ==
    \A n \in Names : Defined(n) => Cardinality(ActiveRows(n)) = 1

(* A clone starts from a spec its source ran under at some time, never     *)
(* from a draft nobody activated (clone_definition), even when the source  *)
(* is edited while it is being cloned.                                     *)
CloneOfLive ==
    \A n \in Names : clonedFrom[n] # NoSource =>
        \E i \in DOMAIN versions[clonedFrom[n]] :
            /\ versions[clonedFrom[n]][i].wasActive
            /\ versions[clonedFrom[n]][i].spec = versions[n][1].spec

(* The live version as readers of active_version see it. *)
LiveNumber(n) ==
    IF ActiveRows(n) = {} THEN 0 ELSE CHOOSE m \in Numbers(n) : m \in ActiveNumbers(n)

(* The swap implements one pointer moved in one step.                      *)
Pointer == INSTANCE LiveVersion
               WITH count <- [n \in Names |-> Len(versions[n])],
                    live <- [n \in Names |-> LiveNumber(n)]
ImplementsLiveVersion == Pointer!Spec
====
