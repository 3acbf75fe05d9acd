---- MODULE WorkflowVersionsProofs ----
(***************************************************************************)
(* Proofs about WorkflowVersions, for every set of definitions, requests   *)
(* and specs and for every bound.                                          *)
(***************************************************************************)
EXTENDS WorkflowVersions, FiniteSetTheorems, TLAPS

Last(n) == Len(versions[n])

(* What a request in progress knows: the number it read is at most one     *)
(* above the rows committed since, a target is a row that exists, and a    *)
(* version added as a draft clears nobody's flag.                          *)
Fits(r, s) ==
    /\ r \in Askers => s.at \in {"idle", "create"}
    /\ s.at = "add" \/ (s.at = "find_others" /\ s.live) =>
            Last(s.def) > 0 /\ s.number \in 1..(Last(s.def) + 1)
    /\ s.at = "swap" \/ (s.at = "find_others" /\ ~s.live) =>
            s.number \in 1..Last(s.def)
    /\ s.at = "add" /\ ~s.live => s.seen = {}

SessionInv == \A r \in Requests : Fits(r, session[r])

(* The inductive invariant. *)
IInv == TypeOK /\ NumberedInOrder /\ SomeActive /\ SessionInv

----------------------------------------------------------------------------
(* Rows are rows, and what a query for the active ones returns.            *)
LEMMA CommittedRows ==
    ASSUME TypeOK, NEW n \in Names
    PROVE  /\ Last(n) \in Nat /\ DOMAIN versions[n] = 1..Last(n)
           /\ \A i \in DOMAIN versions[n] : versions[n][i] \in Row
           /\ ActiveRows(n) \in SUBSET (1..Last(n))
           /\ ActiveNumbers(n) \in SUBSET Nat
<1>1. versions[n] \in Seq(Row)
  BY DEF TypeOK
<1>2. DOMAIN versions[n] = 1..Last(n) /\ Last(n) \in Nat
      /\ \A i \in DOMAIN versions[n] : versions[n][i] \in Row
  BY <1>1 DEF Last
<1>3. ActiveRows(n) \in SUBSET (1..Last(n))
  BY <1>2 DEF ActiveRows
<1>4. ActiveNumbers(n) \in SUBSET Nat
  BY <1>2, <1>3 DEF ActiveNumbers, Row
<1> QED BY <1>2, <1>3, <1>4

(* Rows numbered in order have the numbers 1 to the last ...               *)
LEMMA NumbersAre1ToLast ==
    ASSUME TypeOK, NumberedInOrder, NEW n \in Names
    PROVE  Numbers(n) = 1..Last(n)
  BY DEF TypeOK, NumberedInOrder, Numbers, Last, Row

(* ... so that the number read for a new version is the next one.          *)
LEMMA NextNumberIsNext ==
    ASSUME TypeOK, NumberedInOrder, NEW n \in Names
    PROVE  NextNumber(n) = Last(n) + 1
<1>1. Numbers(n) = 1..Last(n)
  BY NumbersAre1ToLast
<1>2. Last(n) \in Nat
  BY DEF TypeOK, Last
<1>3. CASE Last(n) = 0
  BY <1>1, <1>2, <1>3 DEF NextNumber
<1>4. CASE Last(n) > 0
  <2>1. Last(n) \in Numbers(n) /\ \A k \in Numbers(n) : k <= Last(n)
    BY <1>1, <1>2, <1>4
  <2>2. \A m \in Numbers(n) : (\A k \in Numbers(n) : k <= m) => m = Last(n)
    BY <1>1, <1>2, <2>1
  <2> QED BY <1>2, <2>1, <2>2, <1>1 DEF NextNumber
<1> QED BY <1>2, <1>3, <1>4

(* Swapping flags keeps the rows and their numbers; a row is active after   *)
(* it if it is the target, or was active and not among those seen.         *)
LEMMA SwappedKeepsRows ==
    ASSUME NEW rows \in Seq(Row), NEW seen \in SUBSET Nat, NEW target \in Nat
    PROVE  /\ Swapped(rows, seen, target) \in Seq(Row)
           /\ Len(Swapped(rows, seen, target)) = Len(rows)
           /\ \A i \in 1..Len(rows) :
                /\ Swapped(rows, seen, target)[i].number = rows[i].number
                /\ Swapped(rows, seen, target)[i].active <=>
                        \/ rows[i].number = target
                        \/ rows[i].active /\ rows[i].number \notin seen
<1> DEFINE new == Swapped(rows, seen, target)
<1>1. DOMAIN new = 1..Len(rows) /\ Len(rows) \in Nat
  BY DEF Swapped
<1>2. ASSUME NEW i \in 1..Len(rows)
      PROVE  /\ new[i] \in Row
             /\ new[i].number = rows[i].number
             /\ new[i].active <=> \/ rows[i].number = target
                                  \/ rows[i].active /\ rows[i].number \notin seen
  <2>1. rows[i] \in Row /\ i \in DOMAIN rows
    OBVIOUS
  <2>2. CASE rows[i].number = target
    <3>1. new[i] = [rows[i] EXCEPT !.active = TRUE, !.wasActive = TRUE]
      BY <2>1, <2>2 DEF Swapped
    <3> QED BY <2>1, <2>2, <3>1 DEF Row
  <2>3. CASE rows[i].number # target /\ rows[i].number \in seen
    <3>1. new[i] = [rows[i] EXCEPT !.active = FALSE]
      BY <2>1, <2>3 DEF Swapped
    <3> QED BY <2>1, <2>3, <3>1 DEF Row
  <2>4. CASE rows[i].number # target /\ rows[i].number \notin seen
    <3>1. new[i] = rows[i]
      BY <2>1, <2>4 DEF Swapped
    <3> QED BY <2>1, <2>4, <3>1 DEF Row
  <2> QED BY <2>2, <2>3, <2>4
<1>3. new \in [1..Len(rows) -> Row]
  BY <1>1, <1>2 DEF Swapped
<1>4. new \in Seq(Row) /\ Len(new) = Len(rows)
  BY <1>1, <1>3
<1> HIDE DEF new
<1>5. \A i \in 1..Len(rows) :
        /\ new[i].number = rows[i].number
        /\ new[i].active <=> \/ rows[i].number = target
                             \/ rows[i].active /\ rows[i].number \notin seen
  BY <1>2
<1> QED BY <1>4, <1>5 DEF new

----------------------------------------------------------------------------
(* The steps of a request that change its own session only. *)
LEMMA SessionOnly ==
    ASSUME IInv, NEW r \in Requests, NEW s \in Session, Goto(r, s), Fits(r, s),
           UNCHANGED <<versions, clonedFrom>>
    PROVE  IInv'
<1>1. session' \in [Requests -> Session] /\ session'[r] = s
      /\ \A q \in Requests : q # r => session'[q] = session[q]
  BY DEF IInv, TypeOK, Goto
<1>2. TypeOK'
  BY <1>1 DEF IInv, TypeOK
<1>3. NumberedInOrder' /\ SomeActive'
  BY DEF IInv, NumberedInOrder, SomeActive, Defined, ActiveRows
<1>4. SessionInv'
  <2> SUFFICES ASSUME NEW q \in Requests PROVE Fits(q, session[q])'
    BY DEF SessionInv
  <2>1. CASE q = r
    BY <2>1, <1>1 DEF Fits, Last
  <2>2. CASE q # r
    BY <2>2, <1>1 DEF IInv, SessionInv, Fits, Last
  <2> QED BY <2>1, <2>2
<1> QED BY <1>2, <1>3, <1>4 DEF IInv

LEMMA IdleFits == Idle \in Session /\ \A r \in Requests : Fits(r, Idle)
  BY NamesAssumption, SpecsAssumption DEF Idle, Session, Fits

(* The steps that commit rows and end the session: no definition loses one.*)
LEMMA CommitRows ==
    ASSUME IInv, NEW r \in Requests, Done(r),
           versions' \in [Names -> Seq(Row)],
           clonedFrom' \in [Names -> Names \cup {NoSource}],
           \A n \in Names : Last(n) <= Len(versions'[n]),
           NumberedInOrder', SomeActive'
    PROVE  IInv'
<1>1. session' \in [Requests -> Session] /\ session'[r] = Idle
      /\ \A q \in Requests : q # r => session'[q] = session[q]
  BY IdleFits DEF IInv, TypeOK, Goto, Done
<1>2. TypeOK'
  BY <1>1 DEF TypeOK
<1>3. SessionInv'
  <2> SUFFICES ASSUME NEW q \in Requests PROVE Fits(q, session[q])'
    BY DEF SessionInv
  <2>1. CASE q = r
    BY <2>1, <1>1 DEF Fits, Idle
  <2>2. CASE q # r
    <3>1. Fits(q, session[q]) /\ session[q] \in Session /\ session'[q] = session[q]
      BY <2>2, <1>1 DEF IInv, SessionInv, TypeOK
    <3>2. session[q].def \in Names /\ session[q].number \in Nat
      BY <3>1 DEF Session
    <3>3. /\ Last(session[q].def) \in Nat /\ Len(versions'[session[q].def]) \in Nat
          /\ Last(session[q].def) <= Len(versions'[session[q].def])
      BY <3>2 DEF IInv, TypeOK, Last
    <3> QED BY <3>1, <3>2, <3>3 DEF Fits, Last
  <2> QED BY <2>1, <2>2
<1> QED BY <1>2, <1>3 DEF IInv

LEMMA InitInv == Init => IInv
<1> SUFFICES ASSUME Init PROVE IInv
  OBVIOUS
<1>1. TypeOK
  BY IdleFits DEF Init, TypeOK
<1>2. NumberedInOrder /\ SomeActive
  BY DEF Init, NumberedInOrder, SomeActive, Defined
<1>3. SessionInv
  BY IdleFits DEF Init, SessionInv
<1> QED BY <1>1, <1>2, <1>3 DEF IInv

----------------------------------------------------------------------------
(* One lemma per group of actions.                                         *)

LEMMA EditsStartWithin ==
    ASSUME IInv, NEW e \in Editors, EditorStep(e),
           ~CommitAdd(e), ~CommitSwap(e)
    PROVE  IInv'
<1> USE NamesAssumption, NoSourceAssumption, SpecsAssumption, RequestsAssumption
<1>0. e \in Requests /\ e \notin Askers /\ TypeOK /\ NumberedInOrder
  BY DEF Requests, IInv
<1>1. ASSUME NEW n \in Names, NEW spec \in Specs, StartCreate(e, n, spec) PROVE IInv'
  <2> DEFINE s == [Idle EXCEPT !.at = "create", !.def = n, !.spec = spec]
  <2>1. s \in Session /\ Fits(e, s)
    BY <1>0 DEF Idle, Session, Fits
  <2> QED BY <1>0, <1>1, <2>1, SessionOnly DEF StartCreate
<1>2. ASSUME NEW source \in Names, NEW n \in Names, StartClone(e, source, n) PROVE IInv'
  <2>1. PICK i \in ActiveRows(source) :
            Goto(e, [Idle EXCEPT !.at = "create", !.def = n, !.source = source,
                                 !.spec = versions[source][i].spec])
    BY <1>2 DEF StartClone
  <2> DEFINE s == [Idle EXCEPT !.at = "create", !.def = n, !.source = source,
                               !.spec = versions[source][i].spec]
  <2>2. versions[source][i].spec \in Specs
    BY <1>0, CommittedRows DEF ActiveRows, Row
  <2>3. s \in Session /\ Fits(e, s)
    BY <1>0, <2>2 DEF Idle, Session, Fits
  <2> QED BY <1>0, <1>2, <2>1, <2>3, SessionOnly DEF StartClone
<1>3. ASSUME NEW n \in Names, NEW spec \in Specs, NEW live \in BOOLEAN,
             StartAdd(e, n, spec, live)
      PROVE  IInv'
  <2> DEFINE s == [Idle EXCEPT !.at = IF live THEN "find_others" ELSE "add",
                               !.def = n, !.spec = spec, !.live = live,
                               !.number = NextNumber(n)]
  <2>1. NextNumber(n) = Last(n) + 1 /\ Last(n) \in Nat /\ Last(n) > 0
    BY <1>0, <1>3, NextNumberIsNext DEF StartAdd, Defined, Last, TypeOK
  <2>2. s \in Session
    <3>1. NextNumber(n) \in Nat /\ Idle \in Session
      BY <2>1, IdleFits
    <3> QED BY <3>1 DEF Idle, Session
  <2>3. Fits(e, s)
    BY <1>0, <2>1 DEF Idle, Fits
  <2> QED BY <1>0, <1>3, <2>2, <2>3, SessionOnly DEF StartAdd
<1>4. CASE AddFindOthers(e)
  <2> DEFINE s == [session[e] EXCEPT !.at = "add",
                                     !.seen = ActiveNumbers(session[e].def)]
  <2>1. session[e] \in Session /\ Fits(e, session[e])
    BY <1>0 DEF IInv, TypeOK, SessionInv
  <2>2. ActiveNumbers(session[e].def) \in SUBSET Nat
    BY <1>0, <2>1, CommittedRows DEF Session
  <2>3. s \in Session
    BY <2>1, <2>2 DEF Session
  <2>4. Fits(e, s)
    BY <1>0, <1>4, <2>1 DEF Fits, AddFindOthers, Session
  <2> QED BY <1>0, <1>4, <2>3, <2>4, SessionOnly DEF AddFindOthers
<1>5. CASE RefuseAdd(e)
  BY <1>0, <1>5, IdleFits, SessionOnly DEF RefuseAdd, Done
<1>6. ASSUME NEW n \in Names, NEW i \in DOMAIN versions[n], StartActivate(e, n, i)
      PROVE  IInv'
  <2> DEFINE s == [Idle EXCEPT !.at = "find_others", !.def = n,
                               !.number = versions[n][i].number]
  <2>1. versions[n][i].number = i /\ i \in 1..Last(n) /\ Last(n) \in Nat
    BY <1>0 DEF NumberedInOrder, TypeOK, Last
  <2>2. versions[n][i].number \in Nat
    BY <2>1
  <2>3. s \in Session
    BY <2>2 DEF Idle, Session
  <2>4. Fits(e, s)
    BY <1>0, <2>1 DEF Idle, Fits
  <2> QED BY <1>0, <1>6, <2>3, <2>4, SessionOnly DEF StartActivate
<1>7. CASE ActivateFindOthers(e)
  <2> DEFINE s == [session[e] EXCEPT !.at = "swap",
                 !.seen = ActiveNumbers(session[e].def) \ {session[e].number}]
  <2>1. session[e] \in Session /\ Fits(e, session[e])
    BY <1>0 DEF IInv, TypeOK, SessionInv
  <2>2. ActiveNumbers(session[e].def) \in SUBSET Nat
    BY <1>0, <2>1, CommittedRows DEF Session
  <2>3. s \in Session
    BY <2>1, <2>2 DEF Session
  <2>4. Fits(e, s)
    BY <1>0, <1>7, <2>1 DEF Fits, ActivateFindOthers, Session
  <2> QED BY <1>0, <1>7, <2>3, <2>4, SessionOnly DEF ActivateFindOthers
<1> QED BY <1>1, <1>2, <1>3, <1>4, <1>5, <1>6, <1>7 DEF EditorStep

LEMMA CommitCreateInv ==
    ASSUME IInv, NEW r \in Requests, CommitCreate(r)
    PROVE  IInv'
<1> DEFINE n == session[r].def
           row == NewRow(1, session[r].spec, TRUE)
<1>1. n \in Names /\ session[r].spec \in Specs
      /\ session[r].source \in Names \cup {NoSource}
  BY DEF IInv, TypeOK, Session
<1>2. row \in Row /\ row.number = 1 /\ row.active
  BY <1>1 DEF NewRow, Row
<1>3. versions' = [versions EXCEPT ![n] = <<row>>] /\ versions[n] = <<>>
  BY DEF CommitCreate, Defined
<1> HIDE DEF row
<1>4. <<row>> \in Seq(Row) /\ Len(<<row>>) = 1 /\ <<row>>[1] = row
      /\ DOMAIN <<row>> = {1}
  BY <1>2
<1>5. versions' \in [Names -> Seq(Row)] /\ versions'[n] = <<row>>
      /\ \A m \in Names : m # n => versions'[m] = versions[m]
  BY <1>1, <1>3, <1>4 DEF IInv, TypeOK
<1>6. clonedFrom' \in [Names -> Names \cup {NoSource}]
  BY <1>1 DEF CommitCreate, IInv, TypeOK
<1>7. \A m \in Names : Last(m) <= Len(versions'[m])
  <2> TAKE m \in Names
  <2>1. CASE m = n
    BY <2>1, <1>3, <1>4, <1>5 DEF Last
  <2>2. CASE m # n
    BY <2>2, <1>5 DEF Last, IInv, TypeOK
  <2> QED BY <2>1, <2>2
<1>8. NumberedInOrder'
  BY <1>1, <1>2, <1>4, <1>5 DEF IInv, NumberedInOrder
<1>9. SomeActive'
  <2> SUFFICES ASSUME NEW m \in Names, Defined(m)' PROVE ActiveRows(m)' # {}
    BY DEF SomeActive
  <2>1. CASE m = n
    BY <2>1, <1>2, <1>4, <1>5 DEF ActiveRows
  <2>2. CASE m # n
    BY <2>2, <1>5 DEF IInv, SomeActive, Defined, ActiveRows
  <2> QED BY <2>1, <2>2
<1> QED BY <1>5, <1>6, <1>7, <1>8, <1>9, CommitRows DEF CommitCreate

(* What CommitAdd appends, and where. *)
LEMMA CommitAddRows ==
    ASSUME IInv, NEW e \in Editors, CommitAdd(e)
    PROVE  LET n == session[e].def IN
           /\ n \in Names
           /\ session[e].number = Last(n) + 1
           /\ versions'[n] \in Seq(Row) /\ Len(versions'[n]) = Last(n) + 1
           /\ \A i \in 1..Last(n) :
                /\ versions'[n][i].number = versions[n][i].number
                /\ versions'[n][i].active <=>
                        versions[n][i].active /\ versions[n][i].number \notin session[e].seen
           /\ versions'[n][Last(n) + 1].number = Last(n) + 1
           /\ versions'[n][Last(n) + 1].active <=> session[e].live
           /\ \A m \in Names : m # n => versions'[m] = versions[m]
           /\ versions' \in [Names -> Seq(Row)]
<1> DEFINE n == session[e].def
           target == session[e].number
           new == NewRow(target, session[e].spec, session[e].live)
           old == Swapped(versions[n], session[e].seen, target)
<1>1. e \in Requests /\ TypeOK /\ NumberedInOrder
  BY DEF Requests, IInv
<1>2. session[e] \in Session /\ n \in Names /\ target \in Nat
      /\ session[e].seen \in SUBSET Nat
  BY <1>1 DEF TypeOK, Session
<1>3. Numbers(n) = 1..Last(n) /\ Last(n) \in Nat
  BY <1>1, <1>2, NumbersAre1ToLast, CommittedRows
<1>4. target = Last(n) + 1
  <2>1. target \in 1..(Last(n) + 1)
    BY <1>1 DEF IInv, SessionInv, Fits, CommitAdd
  <2>2. target \notin 1..Last(n)
    BY <1>3 DEF CommitAdd
  <2> QED BY <1>3, <2>1, <2>2
<1>5. versions[n] \in Seq(Row) /\ \A i \in 1..Last(n) :
            versions[n][i].number = i /\ versions[n][i] \in Row
  BY <1>1, <1>2 DEF TypeOK, NumberedInOrder, Last
<1>6. /\ old \in Seq(Row) /\ Len(old) = Last(n)
      /\ \A i \in 1..Last(n) :
            /\ old[i].number = versions[n][i].number
            /\ old[i].active <=> versions[n][i].active
                                 /\ versions[n][i].number \notin session[e].seen
  <2>1. /\ old \in Seq(Row) /\ Len(old) = Last(n)
        /\ \A i \in 1..Last(n) :
              /\ old[i].number = versions[n][i].number
              /\ old[i].active <=> \/ versions[n][i].number = target
                                   \/ versions[n][i].active
                                      /\ versions[n][i].number \notin session[e].seen
    BY <1>2, <1>5, SwappedKeepsRows DEF Last
  <2>2. \A i \in 1..Last(n) : versions[n][i].number # target
    BY <1>3, <1>4, <1>5
  <2> QED BY <2>1, <2>2
<1>7. new \in Row /\ new.number = target /\ new.active = session[e].live
  <2>1. target \in Nat \ {0}
    BY <1>3, <1>4
  <2> QED BY <1>2, <2>1 DEF NewRow, Row, Session
<1>8. versions' = [versions EXCEPT ![n] = Append(old, new)]
  BY DEF CommitAdd
<1> HIDE DEF n, target, new, old
<1>9. /\ Append(old, new) \in Seq(Row) /\ Len(Append(old, new)) = Last(n) + 1
      /\ \A i \in 1..Last(n) : Append(old, new)[i] = old[i]
      /\ Append(old, new)[Last(n) + 1] = new
  BY <1>3, <1>6, <1>7
<1>10. versions'[n] = Append(old, new) /\ \A m \in Names : m # n => versions'[m] = versions[m]
  BY <1>1, <1>2, <1>8 DEF TypeOK
<1>11. versions' \in [Names -> Seq(Row)]
  BY <1>1, <1>2, <1>8, <1>9 DEF TypeOK
<1>12. \A i \in 1..Last(n) :
         /\ versions'[n][i].number = versions[n][i].number
         /\ versions'[n][i].active <=>
                versions[n][i].active /\ versions[n][i].number \notin session[e].seen
  BY <1>6, <1>9, <1>10
<1>13. versions'[n][Last(n) + 1].number = Last(n) + 1
       /\ (versions'[n][Last(n) + 1].active <=> session[e].live)
  BY <1>4, <1>7, <1>9, <1>10
<1> QED BY <1>2, <1>4, <1>9, <1>10, <1>11, <1>12, <1>13 DEF n, target

LEMMA CommitAddInv ==
    ASSUME IInv, NEW e \in Editors, CommitAdd(e)
    PROVE  IInv'
<1> DEFINE n == session[e].def
<1>1. e \in Requests /\ TypeOK /\ NumberedInOrder /\ SomeActive /\ n \in Names
  BY CommitAddRows DEF Requests, IInv
<1>2. \A m \in Names : Last(m) \in Nat /\ DOMAIN versions[m] = 1..Last(m)
  BY <1>1, CommittedRows
<1>3. Last(n) > 0 /\ (~session[e].live => session[e].seen = {})
      /\ session[e].live \in BOOLEAN
  BY <1>1 DEF IInv, SessionInv, Fits, CommitAdd, TypeOK, Session
<1>4. \A m \in Names : Last(m) <= Len(versions'[m])
  BY <1>2, CommitAddRows DEF Last
<1>5. NumberedInOrder'
  <2> SUFFICES ASSUME NEW m \in Names, NEW i \in DOMAIN versions'[m]
               PROVE  versions'[m][i].number = i
    BY DEF NumberedInOrder
  <2>1. CASE m # n
    BY <2>1, <1>1, CommitAddRows DEF NumberedInOrder
  <2>2. CASE m = n
    <3>1. i \in 1..(Last(n) + 1)
      BY <2>2, CommitAddRows
    <3>2. CASE i \in 1..Last(n)
      BY <2>2, <3>2, <1>1, <1>2, CommitAddRows DEF NumberedInOrder
    <3>3. CASE i = Last(n) + 1
      BY <2>2, <3>3, CommitAddRows
    <3> QED BY <3>1, <3>2, <3>3, <1>1, <1>2
  <2> QED BY <2>1, <2>2
<1>6. SomeActive'
  <2> SUFFICES ASSUME NEW m \in Names, Defined(m)' PROVE ActiveRows(m)' # {}
    BY DEF SomeActive
  <2>1. CASE m # n
    BY <2>1, <1>1, CommitAddRows DEF SomeActive, Defined, ActiveRows
  <2>2. CASE m = n
    <3>1. DOMAIN versions'[n] = 1..(Last(n) + 1)
      BY CommitAddRows
    <3>2. CASE session[e].live
      <4>1. Last(n) + 1 \in ActiveRows(m)'
        BY <2>2, <3>1, <3>2, <1>1, <1>2, CommitAddRows DEF ActiveRows
      <4> QED BY <4>1
    <3>3. CASE ~session[e].live
      <4>1. PICK i \in ActiveRows(n) : TRUE
        BY <1>1, <1>2, <1>3 DEF SomeActive, Defined, Last
      <4>2. i \in 1..Last(n) /\ versions[n][i].active
        BY <4>1, <1>1, <1>2 DEF ActiveRows
      <4>3. versions'[n][i].active
        BY <4>2, <3>3, <1>3, CommitAddRows
      <4>4. i \in ActiveRows(m)'
        BY <2>2, <3>1, <4>2, <4>3, <1>1, <1>2 DEF ActiveRows
      <4> QED BY <4>4
    <3> QED BY <3>2, <3>3
  <2> QED BY <2>1, <2>2
<1>7. clonedFrom' \in [Names -> Names \cup {NoSource}]
  BY <1>1 DEF CommitAdd, TypeOK
<1> QED BY <1>1, <1>4, <1>5, <1>6, <1>7, CommitAddRows, CommitRows DEF CommitAdd

(* What CommitSwap writes, and where. *)
LEMMA CommitSwapRows ==
    ASSUME IInv, NEW e \in Editors, CommitSwap(e)
    PROVE  LET n == session[e].def IN
           /\ n \in Names
           /\ session[e].number \in 1..Last(n)
           /\ versions'[n] \in Seq(Row) /\ Len(versions'[n]) = Last(n)
           /\ \A i \in 1..Last(n) :
                /\ versions'[n][i].number = versions[n][i].number
                /\ versions'[n][i].active <=>
                        \/ versions[n][i].number = session[e].number
                        \/ versions[n][i].active
                           /\ versions[n][i].number \notin session[e].seen
           /\ \A m \in Names : m # n => versions'[m] = versions[m]
           /\ versions' \in [Names -> Seq(Row)]
<1> DEFINE n == session[e].def
           new == Swapped(versions[n], session[e].seen, session[e].number)
<1>1. e \in Requests /\ TypeOK
  BY DEF Requests, IInv
<1>2. n \in Names /\ session[e].number \in Nat /\ session[e].seen \in SUBSET Nat
  BY <1>1 DEF TypeOK, Session
<1>3. session[e].number \in 1..Last(n)
  BY <1>1 DEF IInv, SessionInv, Fits, CommitSwap
<1>4. versions[n] \in Seq(Row)
  BY <1>1, <1>2 DEF TypeOK
<1>5. versions' = [versions EXCEPT ![n] = new]
  BY DEF CommitSwap
<1>6. /\ new \in Seq(Row) /\ Len(new) = Last(n)
      /\ \A i \in 1..Last(n) :
            /\ new[i].number = versions[n][i].number
            /\ new[i].active <=>
                    \/ versions[n][i].number = session[e].number
                    \/ versions[n][i].active /\ versions[n][i].number \notin session[e].seen
  BY <1>2, <1>4, SwappedKeepsRows DEF Last
<1> HIDE DEF n, new
<1>7. versions'[n] = new /\ \A m \in Names : m # n => versions'[m] = versions[m]
  BY <1>1, <1>2, <1>5 DEF TypeOK
<1>8. versions' \in [Names -> Seq(Row)]
  BY <1>1, <1>2, <1>5, <1>6 DEF TypeOK
<1> QED BY <1>2, <1>3, <1>6, <1>7, <1>8 DEF n

LEMMA CommitSwapInv ==
    ASSUME IInv, NEW e \in Editors, CommitSwap(e)
    PROVE  IInv'
<1> DEFINE n == session[e].def
<1>1. e \in Requests /\ TypeOK /\ NumberedInOrder /\ SomeActive /\ n \in Names
  BY CommitSwapRows DEF Requests, IInv
<1>2. \A m \in Names : Last(m) \in Nat /\ DOMAIN versions[m] = 1..Last(m)
  BY <1>1, CommittedRows
<1>3. DOMAIN versions'[n] = 1..Last(n)
  BY CommitSwapRows
<1>4. \A m \in Names : Last(m) <= Len(versions'[m])
  BY <1>2, CommitSwapRows DEF Last
<1>5. NumberedInOrder'
  <2> SUFFICES ASSUME NEW m \in Names, NEW i \in DOMAIN versions'[m]
               PROVE  versions'[m][i].number = i
    BY DEF NumberedInOrder
  <2>1. CASE m # n
    BY <2>1, <1>1, CommitSwapRows DEF NumberedInOrder
  <2>2. CASE m = n
    BY <2>2, <1>1, <1>2, <1>3, CommitSwapRows DEF NumberedInOrder
  <2> QED BY <2>1, <2>2
<1>6. SomeActive'
  <2> SUFFICES ASSUME NEW m \in Names, Defined(m)' PROVE ActiveRows(m)' # {}
    BY DEF SomeActive
  <2>1. CASE m # n
    BY <2>1, <1>1, CommitSwapRows DEF SomeActive, Defined, ActiveRows
  <2>2. CASE m = n
    <3> DEFINE i == session[e].number
    <3>1. i \in 1..Last(n)
      BY CommitSwapRows
    <3>2. versions[n][i].number = i
      BY <3>1, <1>1, <1>2 DEF NumberedInOrder
    <3>3. versions'[n][i].active
      BY <3>1, <3>2, CommitSwapRows
    <3>4. i \in ActiveRows(m)'
      BY <2>2, <3>1, <3>3, <1>3 DEF ActiveRows
    <3> QED BY <3>4
  <2> QED BY <2>1, <2>2
<1>7. clonedFrom' \in [Names -> Names \cup {NoSource}]
  BY <1>1 DEF CommitSwap, TypeOK
<1> QED BY <1>1, <1>4, <1>5, <1>6, <1>7, CommitSwapRows, CommitRows DEF CommitSwap

LEMMA NextInv == IInv /\ [Next]_vars => IInv'
<1> SUFFICES ASSUME IInv, [Next]_vars PROVE IInv'
  OBVIOUS
<1>1. ASSUME NEW e \in Editors, EditorStep(e) PROVE IInv'
  BY <1>1, EditsStartWithin, CommitAddInv, CommitSwapInv
<1>2. ASSUME NEW a \in Askers, SeedDefault(a) PROVE IInv'
  <2> DEFINE s == [Idle EXCEPT !.at = "create", !.def = DefaultName, !.spec = DefaultSpec]
  <2>1. DefaultSpec \in Specs /\ DefaultName \in Names /\ a \in Requests
    BY NamesAssumption, SpecsAssumption DEF Requests
  <2>2. s \in Session /\ Fits(a, s)
    BY <2>1 DEF Idle, Session, Fits
  <2> QED BY <1>2, <2>1, <2>2, SessionOnly DEF SeedDefault
<1>3. ASSUME NEW r \in Requests, CommitCreate(r) PROVE IInv'
  BY <1>3, CommitCreateInv
<1>4. ASSUME NEW r \in Requests, RefuseCreate(r) \/ Abort(r) PROVE IInv'
  BY <1>4, IdleFits, SessionOnly DEF RefuseCreate, Abort, Done
<1>5. CASE UNCHANGED vars
  BY <1>5 DEF vars, IInv, TypeOK, NumberedInOrder, SomeActive, Defined, ActiveRows,
              SessionInv, Fits, Last
<1> QED BY <1>1, <1>2, <1>3, <1>4, <1>5 DEF Next

----------------------------------------------------------------------------
THEOREM Invariance == Spec => []IInv
  BY InitInv, NextInv, PTL DEF Spec

(* Rows and sessions stay well formed. *)
THEOREM TypeCorrect == Spec => []TypeOK
<1>1. IInv => TypeOK
  BY DEF IInv
<1> QED BY <1>1, Invariance, PTL

(* Version numbers are 1, 2, 3, ... in the order of the commits, however   *)
(* many requests race for them.                                            *)
THEOREM VersionsNumberedInOrder == Spec => []NumberedInOrder
<1>1. IInv => NumberedInOrder
  BY DEF IInv
<1> QED BY <1>1, Invariance, PTL

(* No reader of active_version ever finds a definition without one. *)
THEOREM NeverWithoutLiveVersion == Spec => []SomeActive
<1>1. IInv => SomeActive
  BY DEF IInv
<1> QED BY <1>1, Invariance, PTL

----------------------------------------------------------------------------
(* One editor at a time: "exactly one active version" does hold, however   *)
(* many asks seed the default workflow or resolve a name meanwhile.        *)

OneEditor == \A e, f \in Editors : e = f

OneLive == \A n \in Names : \A i, j \in ActiveRows(n) : i = j

(* A session about to write has read every incumbent but its target. *)
SeenAll ==
    \A e \in Editors :
        LET s == session[e] IN
        (s.at = "add" /\ s.live) \/ s.at = "swap" =>
            ActiveNumbers(s.def) \ {s.number} \subseteq s.seen

IInvOne == IInv /\ OneLive /\ SeenAll

LEMMA QuietVersions ==
    ASSUME IInvOne, UNCHANGED versions
    PROVE  OneLive'
  BY DEF IInvOne, OneLive, ActiveRows

(* Sessions that change nothing but themselves. *)
LEMMA SeenAllKept ==
    ASSUME IInvOne, Next, UNCHANGED versions
    PROVE  SeenAll'
<1> SUFFICES ASSUME NEW e \in Editors,
                    \/ session'[e].at = "add" /\ session'[e].live
                    \/ session'[e].at = "swap"
             PROVE  ActiveNumbers(session'[e].def) \ {session'[e].number}
                        \subseteq session'[e].seen
  BY DEF SeenAll, ActiveNumbers, ActiveRows
<1>0. e \in Requests /\ session \in [Requests -> Session]
  BY DEF Requests, IInvOne, IInv, TypeOK
<1>1. CASE session'[e] = session[e]
  BY <1>1 DEF IInvOne, SeenAll
<1>2. CASE AddFindOthers(e)
  BY <1>0, <1>2 DEF AddFindOthers, Goto, Session
<1>3. CASE ActivateFindOthers(e)
  BY <1>0, <1>3 DEF ActivateFindOthers, Goto, Session
<1>4. CASE \/ session'[e].at \in {"idle", "create", "find_others"}
           \/ session'[e].at = "add" /\ ~session'[e].live
  BY <1>4
<1> QED
  <2> USE <1>0 DEF Idle
  <2>1. ASSUME NEW f \in Editors, EditorStep(f)
        PROVE  \/ session'[e] = session[e]
               \/ AddFindOthers(e) \/ ActivateFindOthers(e)
               \/ session'[e].at \in {"idle", "create", "find_others"}
               \/ session'[e].at = "add" /\ ~session'[e].live
    <3>0. f \in Requests
      BY DEF Requests
    <3>1. CASE f # e
      BY <2>1, <3>0, <3>1 DEF EditorStep, StartCreate, StartClone, StartAdd, AddFindOthers,
            CommitAdd, RefuseAdd, StartActivate, ActivateFindOthers, CommitSwap, Goto, Done
    <3>2. CASE f = e
      <4>1. ASSUME NEW n \in Names, NEW spec \in Specs, StartCreate(e, n, spec)
            PROVE  session'[e].at = "create"
        BY <4>1 DEF StartCreate, Goto
      <4>2. ASSUME NEW source \in Names, NEW n \in Names, StartClone(e, source, n)
            PROVE  session'[e].at = "create"
        BY <4>2 DEF StartClone, Goto
      <4>3. ASSUME NEW n \in Names, NEW spec \in Specs, NEW live \in BOOLEAN,
                   StartAdd(e, n, spec, live)
            PROVE  \/ session'[e].at = "find_others"
                   \/ session'[e].at = "add" /\ ~session'[e].live
        BY <4>3 DEF StartAdd, Goto
      <4>4. ASSUME NEW n \in Names, NEW i \in DOMAIN versions[n], StartActivate(e, n, i)
            PROVE  session'[e].at = "find_others"
        BY <4>4 DEF StartActivate, Goto
      <4>5. CommitAdd(e) \/ RefuseAdd(e) \/ CommitSwap(e) => session'[e].at = "idle"
        BY DEF CommitAdd, RefuseAdd, CommitSwap, Done, Goto
      <4> QED BY <2>1, <3>2, <4>1, <4>2, <4>3, <4>4, <4>5 DEF EditorStep
    <3> QED BY <3>1, <3>2
  <2>2. ASSUME NEW a \in Askers, SeedDefault(a) PROVE session'[e] = session[e]
    BY <2>2, RequestsAssumption DEF SeedDefault, Goto
  <2>3. ASSUME NEW r \in Requests, CommitCreate(r) \/ RefuseCreate(r) \/ Abort(r)
        PROVE  session'[e] = session[e] \/ session'[e].at = "idle"
    <3>1. session' = [session EXCEPT ![r] = Idle]
      BY <2>3 DEF CommitCreate, RefuseCreate, Abort, Done, Goto
    <3>2. CASE r = e
      BY <3>1, <3>2
    <3>3. CASE r # e
      BY <3>1, <3>3
    <3> QED BY <3>2, <3>3
  <2> QED BY <1>1, <1>2, <1>3, <1>4, <2>1, <2>2, <2>3 DEF Next

(* A commit leaves the only editor idle, or is an asker's on another name. *)
LEMMA CreateOneLive ==
    ASSUME IInvOne, OneEditor, NEW r \in Requests, CommitCreate(r)
    PROVE  OneLive' /\ SeenAll'
<1> DEFINE n == session[r].def
           row == NewRow(1, session[r].spec, TRUE)
<1>1. TypeOK /\ n \in Names
  BY DEF IInvOne, IInv, TypeOK, Session
<1>2. versions' = [versions EXCEPT ![n] = <<row>>] /\ versions[n] = <<>>
      /\ session' = [session EXCEPT ![r] = Idle]
  BY DEF CommitCreate, Defined, Done, Goto
<1> HIDE DEF row
<1>3. versions'[n] = <<row>> /\ \A m \in Names : m # n => versions'[m] = versions[m]
  BY <1>1, <1>2 DEF TypeOK
<1>4. OneLive'
  <2> SUFFICES ASSUME NEW m \in Names, NEW i \in ActiveRows(m)', NEW j \in ActiveRows(m)'
               PROVE  i = j
    BY DEF OneLive
  <2>1. CASE m = n
    BY <2>1, <1>3 DEF ActiveRows
  <2>2. CASE m # n
    BY <2>2, <1>3 DEF IInvOne, OneLive, ActiveRows
  <2> QED BY <2>1, <2>2
<1>5. SeenAll'
  <2> SUFFICES ASSUME NEW e \in Editors,
                      \/ session'[e].at = "add" /\ session'[e].live
                      \/ session'[e].at = "swap"
               PROVE  (ActiveNumbers(session[e].def) \ {session[e].number}
                           \subseteq session[e].seen)'
    BY DEF SeenAll
  <2>0. e \in Requests
    BY DEF Requests
  <2>1. session'[e] = session[e]
    BY <1>1, <1>2, <2>0 DEF TypeOK, Idle
  <2>2. session[e].def \in Names /\ Last(session[e].def) \in Nat
        /\ Last(session[e].def) > 0
    <3>1. session[e].def \in Names
      BY <1>1, <2>0 DEF TypeOK, Session
    <3>2. Last(session[e].def) \in Nat
      BY <1>1, <3>1, CommittedRows
    <3>3. Last(session[e].def) > 0
      BY <2>0, <2>1, <3>2 DEF IInvOne, IInv, SessionInv, Fits
    <3> QED BY <3>1, <3>2, <3>3
  <2>3. session[e].def # n
    BY <1>2, <2>2 DEF Last
  <2>4. versions'[session[e].def] = versions[session[e].def]
    BY <1>3, <2>2, <2>3
  <2>5. ActiveNumbers(session[e].def)' = ActiveNumbers(session[e].def)
    BY <2>1, <2>4 DEF ActiveNumbers, ActiveRows
  <2> QED BY <2>1, <2>5 DEF IInvOne, SeenAll
<1> QED BY <1>4, <1>5

(* When the only editor commits, no session is about to write any more. *)
LEMMA EditorsRest ==
    ASSUME IInvOne, OneEditor, NEW e \in Editors, Done(e)
    PROVE  SeenAll'
<1>1. e \in Requests /\ TypeOK
  BY DEF Requests, IInvOne, IInv
<1>2. session'[e].at = "idle"
  BY <1>1 DEF TypeOK, Done, Goto, Idle
<1>3. \A f \in Editors : session'[f].at = "idle"
  BY <1>2 DEF OneEditor
<1> QED BY <1>3 DEF SeenAll

LEMMA AddOneLive ==
    ASSUME IInvOne, NEW e \in Editors, CommitAdd(e)
    PROVE  OneLive'
<1> DEFINE n == session[e].def
<1>0. IInv /\ TypeOK /\ NumberedInOrder /\ e \in Requests
  BY DEF IInvOne, IInv, Requests
<1>1. n \in Names /\ Last(n) \in Nat /\ DOMAIN versions[n] = 1..Last(n)
      /\ DOMAIN versions'[n] = 1..(Last(n) + 1)
  BY <1>0, CommitAddRows, CommittedRows
<1> SUFFICES ASSUME NEW m \in Names, NEW i \in ActiveRows(m)', NEW j \in ActiveRows(m)'
             PROVE  i = j
  BY DEF OneLive
<1>2. CASE m # n
  BY <1>0, <1>2, CommitAddRows DEF IInvOne, OneLive, ActiveRows
<1>3. CASE m = n /\ ~session[e].live
  <2>1. ActiveRows(m)' = ActiveRows(m)
    <3>1. session[e].seen = {}
      BY <1>0, <1>3 DEF IInv, SessionInv, Fits, CommitAdd
    <3>2. \A k \in 1..Last(n) : versions'[n][k].active <=> versions[n][k].active
      BY <1>0, <3>1, CommitAddRows
    <3>3. ~versions'[n][Last(n) + 1].active
      BY <1>0, <1>3, CommitAddRows
    <3> QED BY <1>1, <1>3, <3>2, <3>3 DEF ActiveRows
  <2> QED BY <2>1 DEF IInvOne, OneLive
<1>4. CASE m = n /\ session[e].live
  <2>1. \A k \in 1..Last(n) : ~versions'[n][k].active
    <3> SUFFICES ASSUME NEW k \in 1..Last(n), versions[n][k].active
                 PROVE  versions[n][k].number \in session[e].seen
      BY <1>0, CommitAddRows
    <3>1. versions[n][k].number \in ActiveNumbers(n)
      BY <1>1 DEF ActiveNumbers, ActiveRows
    <3>2. versions[n][k].number = k
      BY <1>0, <1>1 DEF NumberedInOrder
    <3>3. session[e].number = Last(n) + 1
      BY <1>0, CommitAddRows
    <3>4. ActiveNumbers(n) \ {session[e].number} \subseteq session[e].seen
      BY <1>4 DEF IInvOne, SeenAll, CommitAdd
    <3> QED BY <1>1, <3>1, <3>2, <3>3, <3>4
  <2> QED BY <1>1, <1>4, <2>1 DEF ActiveRows
<1> QED BY <1>2, <1>3, <1>4, <1>0 DEF TypeOK, Session

LEMMA SwapOneLive ==
    ASSUME IInvOne, NEW e \in Editors, CommitSwap(e)
    PROVE  OneLive'
<1> DEFINE n == session[e].def
<1>0. IInv /\ TypeOK /\ NumberedInOrder
  BY DEF IInvOne, IInv
<1>1. n \in Names /\ Last(n) \in Nat /\ DOMAIN versions[n] = 1..Last(n)
      /\ DOMAIN versions'[n] = 1..Last(n)
  BY <1>0, CommitSwapRows, CommittedRows
<1> SUFFICES ASSUME NEW m \in Names, NEW i \in ActiveRows(m)', NEW j \in ActiveRows(m)'
             PROVE  i = j
  BY DEF OneLive
<1>2. CASE m # n
  BY <1>0, <1>2, CommitSwapRows DEF IInvOne, OneLive, ActiveRows
<1>3. CASE m = n
  <2>1. ASSUME NEW k \in 1..Last(n), versions'[n][k].active
        PROVE  k = session[e].number
    <3>1. versions[n][k].number = k
      BY <1>0, <1>1 DEF NumberedInOrder
    <3>2. CASE versions[n][k].active
      <4>1. k \in ActiveNumbers(n)
        BY <1>1, <3>1, <3>2 DEF ActiveNumbers, ActiveRows
      <4>2. ActiveNumbers(n) \ {session[e].number} \subseteq session[e].seen
        BY DEF IInvOne, SeenAll, CommitSwap
      <4> QED BY <1>0, <2>1, <3>1, <4>1, <4>2, CommitSwapRows
    <3>3. CASE ~versions[n][k].active
      BY <1>0, <2>1, <3>1, <3>3, CommitSwapRows
    <3> QED BY <3>2, <3>3
  <2>2. \A k \in ActiveRows(m)' : k \in 1..Last(n) /\ versions'[n][k].active
    BY <1>1, <1>3 DEF ActiveRows
  <2> QED BY <2>1, <2>2
<1> QED BY <1>2, <1>3

LEMMA InvOne ==
    ASSUME OneEditor
    PROVE  IInvOne /\ [Next]_vars => IInvOne'
<1> SUFFICES ASSUME IInvOne, [Next]_vars PROVE OneLive' /\ SeenAll'
  BY NextInv DEF IInvOne
<1>1. CASE Next /\ UNCHANGED versions
  BY <1>1, QuietVersions, SeenAllKept
<1>2. CASE UNCHANGED vars
  BY <1>2 DEF vars, IInvOne, OneLive, SeenAll, ActiveNumbers, ActiveRows
<1>3. ASSUME NEW r \in Requests, CommitCreate(r) PROVE OneLive' /\ SeenAll'
  BY <1>3, CreateOneLive
<1>4. ASSUME NEW e \in Editors, CommitAdd(e) PROVE OneLive' /\ SeenAll'
  BY <1>4, AddOneLive, EditorsRest DEF CommitAdd
<1>5. ASSUME NEW e \in Editors, CommitSwap(e) PROVE OneLive' /\ SeenAll'
  BY <1>5, SwapOneLive, EditorsRest DEF CommitSwap
<1>6. Next => \/ UNCHANGED versions
              \/ \E r \in Requests : CommitCreate(r)
              \/ \E e \in Editors : CommitAdd(e) \/ CommitSwap(e)
  BY DEF Next, EditorStep, StartCreate, StartClone, StartAdd, AddFindOthers, RefuseAdd,
         StartActivate, ActivateFindOthers, SeedDefault, RefuseCreate, Abort
<1> QED BY <1>1, <1>2, <1>3, <1>4, <1>5, <1>6

(* With one editor at a time a defined workflow has exactly one live       *)
(* version in every state another request can read (lifecycle.py).         *)
THEOREM OneEditorOneLiveVersion ==
    ASSUME OneEditor
    PROVE  Spec => []ExactlyOneActive
<1>1. Init => IInvOne
  <2>1. ASSUME Init PROVE OneLive /\ SeenAll
    BY <2>1 DEF Init, OneLive, ActiveRows, SeenAll, Requests, Idle
  <2> QED BY <2>1, InitInv DEF IInvOne
<1>2. IInvOne => ExactlyOneActive
  <2> SUFFICES ASSUME IInvOne, NEW n \in Names, Defined(n)
               PROVE  Cardinality(ActiveRows(n)) = 1
    BY DEF ExactlyOneActive
  <2>1. PICK i \in ActiveRows(n) : TRUE
    BY DEF IInvOne, IInv, SomeActive
  <2>2. ActiveRows(n) = {i}
    BY <2>1 DEF IInvOne, OneLive
  <2> QED BY <2>2, FS_Singleton
<1> QED BY <1>1, <1>2, InvOne, PTL DEF Spec

----------------------------------------------------------------------------
(* What a row records of its past: its spec, and that it has been active.  *)

WasLive(n, spec) == \E i \in DOMAIN versions[n] : versions[n][i].wasActive /\ versions[n][i].spec = spec

ActiveHaveBeen == \A n \in Names : \A i \in ActiveRows(n) : versions[n][i].wasActive

(* A clone about to be committed carries a spec its source ran under.      *)
CloneSessions ==
    \A r \in Requests : session[r].at = "create" /\ session[r].source # NoSource =>
        WasLive(session[r].source, session[r].spec)

IInvClone == IInv /\ ActiveHaveBeen /\ CloneSessions /\ CloneOfLive

HistoryKept ==
    \A n \in Names : \A i \in DOMAIN versions[n] :
        /\ i \in DOMAIN versions'[n]
        /\ versions'[n][i].spec = versions[n][i].spec
        /\ versions[n][i].wasActive => versions'[n][i].wasActive

LEMMA WasLiveStays ==
    ASSUME HistoryKept, NEW n \in Names, NEW m, m = n, NEW spec, NEW t, t = spec, WasLive(n, spec)
    PROVE  WasLive(m, t)'
  BY DEF HistoryKept, WasLive

(* Swapping flags keeps that history.                                      *)
LEMMA SwappedKeepsHistory ==
    ASSUME NEW rows \in Seq(Row), NEW seen, NEW target, NEW i \in DOMAIN rows
    PROVE  LET new == Swapped(rows, seen, target) IN
           /\ DOMAIN new = DOMAIN rows
           /\ new[i].spec = rows[i].spec
           /\ rows[i].wasActive => new[i].wasActive
           /\ (rows[i].active => rows[i].wasActive) => (new[i].active => new[i].wasActive)
<1>1. rows[i] \in Row
  OBVIOUS
<1>2. CASE rows[i].number = target
  <2>1. Swapped(rows, seen, target)[i] = [rows[i] EXCEPT !.active = TRUE, !.wasActive = TRUE]
    BY <1>2 DEF Swapped
  <2> QED BY <1>1, <2>1 DEF Swapped, Row
<1>3. CASE rows[i].number # target /\ rows[i].number \in seen
  <2>1. Swapped(rows, seen, target)[i] = [rows[i] EXCEPT !.active = FALSE]
    BY <1>3 DEF Swapped
  <2> QED BY <1>1, <2>1 DEF Swapped, Row
<1>4. CASE rows[i].number # target /\ rows[i].number \notin seen
  BY <1>1, <1>4 DEF Swapped
<1> QED BY <1>2, <1>3, <1>4

LEMMA CreateHistory ==
    ASSUME IInvClone, NEW r \in Requests, CommitCreate(r)
    PROVE  IInvClone'
<1>1. ASSUME NEW n \in Names, n = session[r].def
      PROVE  HistoryKept /\ ActiveHaveBeen' /\ CloneSessions' /\ CloneOfLive'
  <2> DEFINE row == NewRow(1, session[r].spec, TRUE)
  <2>0. TypeOK /\ session[r] \in Session
    BY DEF IInvClone, IInv, TypeOK
  <2>1. row.wasActive /\ row.spec = session[r].spec
    BY DEF NewRow
  <2>2. /\ versions' = [versions EXCEPT ![n] = <<row>>] /\ versions[n] = <<>>
        /\ clonedFrom' = [clonedFrom EXCEPT ![n] = session[r].source]
        /\ session' = [session EXCEPT ![r] = Idle] /\ session[r].at = "create"
    BY <1>1 DEF CommitCreate, Defined, Done, Goto
  <2> HIDE DEF row
  <2>3. /\ versions'[n] = <<row>> /\ DOMAIN <<row>> = {1} /\ <<row>>[1] = row
        /\ \A m \in Names : m # n => versions'[m] = versions[m] /\ clonedFrom'[m] = clonedFrom[m]
        /\ clonedFrom'[n] = session[r].source
    BY <2>0, <2>2 DEF TypeOK
  <2>4. HistoryKept
    BY <2>2, <2>3 DEF HistoryKept
  <2>5. ActiveHaveBeen'
    BY <2>1, <2>3 DEF ActiveHaveBeen, ActiveRows, IInvClone
  <2>6. ASSUME NEW q \in Requests, session'[q].at = "create", session'[q].source # NoSource
        PROVE  WasLive(session[q].source, session[q].spec)'
    <3>1. session'[q] = session[q]
      BY <2>0, <2>2, <2>6 DEF TypeOK, Idle
    <3>2. session[q].source \in Names /\ WasLive(session[q].source, session[q].spec)
      BY <2>0, <2>6, <3>1 DEF IInvClone, CloneSessions, TypeOK, Session
    <3> QED BY <2>4, <3>1, <3>2, WasLiveStays
  <2>7. ASSUME NEW m \in Names, clonedFrom'[m] # NoSource
        PROVE  WasLive(clonedFrom[m], versions[m][1].spec)'
    <3>1. CASE m = n
      <4>1. session[r].source \in Names /\ WasLive(session[r].source, session[r].spec)
        BY <2>0, <2>2, <2>3, <2>7, <3>1 DEF IInvClone, CloneSessions, Session
      <4>2. clonedFrom'[m] = session[r].source /\ versions'[m][1].spec = session[r].spec
        BY <2>1, <2>3, <3>1
      <4> QED BY <2>4, <4>1, <4>2, WasLiveStays
    <3>2. CASE m # n
      <4>1. clonedFrom'[m] = clonedFrom[m] /\ versions'[m][1].spec = versions[m][1].spec
        BY <2>3, <3>2
      <4>2. clonedFrom[m] \in Names /\ WasLive(clonedFrom[m], versions[m][1].spec)
        BY <2>0, <2>7, <4>1 DEF IInvClone, CloneOfLive, WasLive, TypeOK
      <4> QED BY <2>4, <4>1, <4>2, WasLiveStays
    <3> QED BY <3>1, <3>2
  <2>8. CloneOfLive'
    BY <2>7 DEF CloneOfLive, WasLive
  <2> QED BY <2>4, <2>5, <2>6, <2>8 DEF CloneSessions
<1>2. session[r].def \in Names
  BY DEF IInvClone, IInv, TypeOK, Session
<1> QED BY <1>1, <1>2, CommitCreateInv DEF IInvClone

(* A version is added, or the flags are swapped.                           *)
LEMMA EditHistory ==
    ASSUME IInvClone, NEW e \in Editors, CommitAdd(e) \/ CommitSwap(e)
    PROVE  IInvClone'
<1>1. ASSUME NEW n \in Names, n = session[e].def
      PROVE  HistoryKept /\ ActiveHaveBeen' /\ CloneSessions' /\ CloneOfLive'
  <2> DEFINE rows == versions[n]
             old == Swapped(rows, session[e].seen, session[e].number)
             new == NewRow(session[e].number, session[e].spec, session[e].live)
  <2>0. TypeOK /\ e \in Requests /\ session[e] \in Session
    BY DEF IInvClone, IInv, TypeOK, Requests
  <2>1. rows \in Seq(Row) /\ Last(n) \in Nat /\ Last(n) > 0 /\ DOMAIN rows = 1..Last(n) /\ 1 \in DOMAIN rows
    BY <1>1, <2>0 DEF TypeOK, Last, IInvClone, IInv, SessionInv, Fits, CommitAdd, CommitSwap
  <2>2. /\ DOMAIN old = DOMAIN rows
        /\ \A i \in DOMAIN rows :
              /\ old[i].spec = rows[i].spec /\ (rows[i].wasActive => old[i].wasActive)
              /\ (rows[i].active => rows[i].wasActive) => (old[i].active => old[i].wasActive)
    BY <2>1, SwappedKeepsHistory
  <2>3. \A i \in DOMAIN rows : rows[i].active => rows[i].wasActive
    BY DEF IInvClone, ActiveHaveBeen, ActiveRows
  <2>4. new.active => new.wasActive
    BY DEF NewRow
  <2>5. /\ versions' = [versions EXCEPT ![n] = Append(old, new)] \/ versions' = [versions EXCEPT ![n] = old]
        /\ clonedFrom' = clonedFrom /\ session' = [session EXCEPT ![e] = Idle]
    BY <1>1 DEF CommitAdd, CommitSwap, Done, Goto
  <2>6. old \in Seq(Row)
    <3>1. session[e].seen \in SUBSET Nat /\ session[e].number \in Nat
      BY <2>0 DEF Session
    <3> QED BY <2>1, <3>1, SwappedKeepsRows
  <2> HIDE DEF old, new
  <2>7. /\ DOMAIN rows \subseteq DOMAIN versions'[n]
        /\ \A i \in DOMAIN rows : versions'[n][i] = old[i]
        /\ \A i \in DOMAIN versions'[n] : i \in DOMAIN rows \/ versions'[n][i] = new
        /\ \A m \in Names : m # n => versions'[m] = versions[m]
    <3>1. /\ DOMAIN Append(old, new) = 1..(Last(n) + 1)
          /\ \A i \in 1..Last(n) : Append(old, new)[i] = old[i]
          /\ Append(old, new)[Last(n) + 1] = new
      BY <2>1, <2>2, <2>6
    <3>2. versions'[n] \in {Append(old, new), old} /\ \A m \in Names : m # n => versions'[m] = versions[m]
      BY <2>0, <2>5 DEF TypeOK
    <3>3. CASE versions'[n] = old
      BY <2>2, <3>2, <3>3
    <3>4. CASE versions'[n] = Append(old, new)
      BY <2>1, <2>2, <3>1, <3>2, <3>4
    <3> QED BY <3>2, <3>3, <3>4
  <2>8. HistoryKept
    BY <2>2, <2>7 DEF HistoryKept
  <2>9. ActiveHaveBeen'
    BY <2>2, <2>3, <2>4, <2>7 DEF ActiveHaveBeen, ActiveRows, IInvClone
  <2>10. ASSUME NEW q \in Requests, session'[q].at = "create", session'[q].source # NoSource
         PROVE  WasLive(session[q].source, session[q].spec)'
    <3>1. session'[q] = session[q]
      BY <2>0, <2>5, <2>10 DEF TypeOK, Idle
    <3>2. session[q].source \in Names /\ WasLive(session[q].source, session[q].spec)
      BY <2>0, <2>10, <3>1 DEF IInvClone, CloneSessions, TypeOK, Session
    <3> QED BY <2>8, <3>1, <3>2, WasLiveStays
  <2>11. ASSUME NEW m \in Names, clonedFrom'[m] # NoSource
         PROVE  WasLive(clonedFrom[m], versions[m][1].spec)'
    <3>1. clonedFrom'[m] = clonedFrom[m]
      BY <2>5
    <3>2. versions'[m][1].spec = versions[m][1].spec
      BY <2>1, <2>2, <2>7
    <3>3. clonedFrom[m] \in Names /\ WasLive(clonedFrom[m], versions[m][1].spec)
      BY <2>0, <2>11, <3>1 DEF IInvClone, CloneOfLive, WasLive, TypeOK
    <3> QED BY <2>8, <3>1, <3>2, <3>3, WasLiveStays
  <2>12. CloneOfLive'
    BY <2>11 DEF CloneOfLive, WasLive
  <2> QED BY <2>8, <2>9, <2>10, <2>12 DEF CloneSessions
<1>2. session[e].def \in Names
  BY DEF IInvClone, IInv, TypeOK, Session, Requests
<1> QED BY <1>1, <1>2, CommitAddInv, CommitSwapInv DEF IInvClone

(* Steps that commit nothing: a clone is of a version that is active.      *)
LEMMA SessionHistory ==
    ASSUME IInvClone, Next, UNCHANGED <<versions, clonedFrom>>
    PROVE  CloneSessions'
<1> SUFFICES ASSUME NEW q \in Requests, session'[q].at = "create", session'[q].source # NoSource
             PROVE  WasLive(session'[q].source, session'[q].spec)
  BY DEF CloneSessions, WasLive
<1>0. session \in [Requests -> Session]
  BY DEF IInvClone, IInv, TypeOK
<1>1. CASE session'[q] = session[q]
  BY <1>1 DEF IInvClone, CloneSessions
<1>2. ASSUME NEW source \in Names, NEW n \in Names, StartClone(q, source, n)
      PROVE  WasLive(session'[q].source, session'[q].spec)
  <2>1. PICK i \in ActiveRows(source) :
            Goto(q, [Idle EXCEPT !.at = "create", !.def = n, !.source = source,
                                 !.spec = versions[source][i].spec])
    BY <1>2 DEF StartClone
  <2>2. session'[q].source = source /\ session'[q].spec = versions[source][i].spec
    BY <1>0, <2>1 DEF Goto, Idle
  <2>3. i \in DOMAIN versions[source] /\ versions[source][i].wasActive
    BY DEF IInvClone, ActiveHaveBeen, ActiveRows
  <2> QED BY <2>2, <2>3 DEF WasLive
<1>3. ASSUME NEW r \in Requests, NEW s, Goto(r, s), s.at # "create" \/ s.source = NoSource
      PROVE  session'[q] = session[q]
  BY <1>0, <1>3 DEF Goto
<1>4. ASSUME NEW e \in Editors, EditorStep(e)
      PROVE  session'[q] = session[q] \/ \E source, n \in Names : StartClone(q, source, n)
  <2>0. e \in Requests
    BY DEF Requests
  <2>1. CASE e # q
    BY <1>0, <1>4, <2>0, <2>1 DEF EditorStep, StartCreate, StartClone, StartAdd, AddFindOthers,
       CommitAdd, RefuseAdd, StartActivate, ActivateFindOthers, CommitSwap, Goto, Done
  <2>2. CASE e = q
    <3>1. Idle.source = NoSource /\ Idle.at = "idle" /\ session[e] \in Session
      BY <1>0, <2>0 DEF Idle
    <3>2. ASSUME NEW n \in Names, NEW spec \in Specs, StartCreate(e, n, spec) PROVE session'[q] = session[q]
      <4> DEFINE s == [Idle EXCEPT !.at = "create", !.def = n, !.spec = spec]
      <4>1. s.source = NoSource
        BY DEF Idle
      <4> QED BY <2>0, <3>2, <4>1, <1>3 DEF StartCreate
    <3>3. ASSUME NEW n \in Names, NEW spec \in Specs, NEW live \in BOOLEAN, StartAdd(e, n, spec, live)
          PROVE  session'[q] = session[q]
      <4> DEFINE s == [Idle EXCEPT !.at = IF live THEN "find_others" ELSE "add",
                                   !.def = n, !.spec = spec, !.live = live, !.number = NextNumber(n)]
      <4>1. s.source = NoSource
        BY DEF Idle
      <4> QED BY <2>0, <3>3, <4>1, <1>3 DEF StartAdd
    <3>4. ASSUME NEW n \in Names, NEW i \in DOMAIN versions[n], StartActivate(e, n, i)
          PROVE  session'[q] = session[q]
      <4> DEFINE s == [Idle EXCEPT !.at = "find_others", !.def = n, !.number = versions[n][i].number]
      <4>1. s.source = NoSource
        BY DEF Idle
      <4> QED BY <2>0, <3>4, <4>1, <1>3 DEF StartActivate
    <3>5. CASE AddFindOthers(e)
      <4> DEFINE s == [session[e] EXCEPT !.at = "add", !.seen = ActiveNumbers(session[e].def)]
      <4>1. s.at # "create"
        BY <3>1 DEF Session
      <4> QED BY <2>0, <3>5, <4>1, <1>3 DEF AddFindOthers
    <3>6. CASE ActivateFindOthers(e)
      <4> DEFINE s == [session[e] EXCEPT !.at = "swap",
                           !.seen = ActiveNumbers(session[e].def) \ {session[e].number}]
      <4>1. s.at # "create"
        BY <3>1 DEF Session
      <4> QED BY <2>0, <3>6, <4>1, <1>3 DEF ActivateFindOthers
    <3>7. CASE CommitAdd(e) \/ RefuseAdd(e) \/ CommitSwap(e)
      BY <2>0, <3>1, <3>7, <1>3 DEF CommitAdd, RefuseAdd, CommitSwap, Done
    <3> QED BY <1>4, <2>2, <3>2, <3>3, <3>4, <3>5, <3>6, <3>7 DEF EditorStep
  <2> QED BY <2>1, <2>2
<1>5. ASSUME NEW a \in Askers, SeedDefault(a) PROVE session'[q] = session[q]
  <2> DEFINE s == [Idle EXCEPT !.at = "create", !.def = DefaultName, !.spec = DefaultSpec]
  <2>1. s.source = NoSource /\ a \in Requests
    BY DEF Idle, Requests
  <2> QED BY <1>5, <2>1, <1>3 DEF SeedDefault
<1>6. ASSUME NEW r \in Requests, CommitCreate(r) \/ RefuseCreate(r) \/ Abort(r) PROVE session'[q] = session[q]
  BY <1>6, <1>3 DEF CommitCreate, RefuseCreate, Abort, Done, Idle
<1> QED BY <1>1, <1>2, <1>4, <1>5, <1>6 DEF Next

(* A clone starts from a spec its source ran under, however its source is  *)
(* edited, activated or rolled back while it is being cloned: what a row   *)
(* has been, and its spec, no later commit changes.                        *)
THEOREM ClonesAreOfLiveVersions == Spec => []CloneOfLive
<1>1. Init => IInvClone
  <2>1. ASSUME Init PROVE ActiveHaveBeen /\ CloneSessions /\ CloneOfLive
    BY <2>1 DEF Init, ActiveHaveBeen, ActiveRows, CloneSessions, CloneOfLive, Idle
  <2> QED BY <2>1, InitInv DEF IInvClone
<1>2. IInvClone /\ [Next]_vars => IInvClone'
  <2> SUFFICES ASSUME IInvClone, [Next]_vars PROVE IInvClone'
    OBVIOUS
  <2>1. ASSUME NEW r \in Requests, CommitCreate(r) PROVE IInvClone'
    BY <2>1, CreateHistory
  <2>2. ASSUME NEW e \in Editors, CommitAdd(e) \/ CommitSwap(e) PROVE IInvClone'
    BY <2>2, EditHistory
  <2>3. UNCHANGED <<versions, clonedFrom>> => ActiveHaveBeen' /\ CloneOfLive'
    BY DEF IInvClone, ActiveHaveBeen, ActiveRows, CloneOfLive
  <2>4. CASE Next /\ UNCHANGED <<versions, clonedFrom>>
    BY <2>3, <2>4, NextInv, SessionHistory DEF IInvClone
  <2>5. CASE UNCHANGED vars
    BY <2>3, <2>5, NextInv DEF vars, IInvClone, CloneSessions, WasLive
  <2>6. Next => \/ UNCHANGED <<versions, clonedFrom>>
                \/ \E r \in Requests : CommitCreate(r)
                \/ \E e \in Editors : CommitAdd(e) \/ CommitSwap(e)
    BY DEF Next, EditorStep, StartCreate, StartClone, StartAdd, AddFindOthers, RefuseAdd,
           StartActivate, ActivateFindOthers, SeedDefault, RefuseCreate, Abort
  <2> QED BY <2>1, <2>2, <2>4, <2>5, <2>6
<1>3. IInvClone => CloneOfLive
  BY DEF IInvClone
<1> QED BY <1>1, <1>2, <1>3, PTL DEF Spec

----------------------------------------------------------------------------
(* The refinement of LiveVersion, one editor at a time.                    *)

(* What a reader of the live version's number gets.                        *)
LiveIs == \A n \in Names : \A i \in ActiveRows(n) : LiveNumber(n) = i

LEMMA LiveNumberIs == IInvOne => LiveIs
<1> SUFFICES ASSUME IInvOne, NEW n \in Names, NEW i \in ActiveRows(n) PROVE LiveNumber(n) = i
  BY DEF LiveIs
<1>1. ActiveRows(n) = {i} /\ i \in DOMAIN versions[n]
  BY DEF IInvOne, OneLive, ActiveRows
<1>2. versions[n][i].number = i
  BY <1>1 DEF IInvOne, IInv, NumberedInOrder
<1>3. ActiveNumbers(n) = {i} /\ i \in Numbers(n)
  BY <1>1, <1>2 DEF ActiveNumbers, Numbers
<1> QED BY <1>1, <1>3 DEF LiveNumber

LEMMA LiveNumberIsNext == IInvOne' => LiveIs'
  BY LiveNumberIs, PTL

(* The two functions a step maps to.                                       *)
Counts == [n \in Names |-> Last(n)]
Lives == [n \in Names |-> LiveNumber(n)]

LEMMA PointerInit == Init => Pointer!Init
<1> SUFFICES ASSUME Init PROVE Pointer!Init
  OBVIOUS
<1>1. \A n \in Names : Len(versions[n]) = 0 /\ LiveNumber(n) = 0
  BY DEF Init, LiveNumber, ActiveRows
<1> QED BY <1>1 DEF Pointer!Init

LEMMA SameRowsSameLive ==
    ASSUME NEW m \in Names, versions'[m] = versions[m]
    PROVE  LiveNumber(m)' = LiveNumber(m)
  BY DEF LiveNumber, ActiveRows, ActiveNumbers, Numbers

LEMMA CreateDefines ==
    ASSUME IInvOne, IInvOne', NEW r \in Requests, CommitCreate(r)
    PROVE  Pointer!Next
<1>1. ASSUME NEW n \in Names, n = session[r].def PROVE Pointer!Define(n)
  <2> DEFINE row == NewRow(1, session[r].spec, TRUE)
  <2>1. versions' = [versions EXCEPT ![n] = <<row>>] /\ versions[n] = <<>>
    BY <1>1 DEF CommitCreate, Defined
  <2>2. row.active
    BY DEF NewRow
  <2> HIDE DEF row
  <2>3. versions'[n] = <<row>> /\ \A m \in Names : m # n => versions'[m] = versions[m]
    BY <2>1 DEF IInvOne, IInv, TypeOK
  <2>4. Last(n) = 0 /\ Last(n)' = 1 /\ 1 \in ActiveRows(n)'
    BY <2>1, <2>2, <2>3 DEF Last, ActiveRows
  <2>5. LiveNumber(n)' = 1
    BY <2>4, LiveNumberIsNext DEF LiveIs
  <2>6. ASSUME NEW m \in Names, m # n PROVE LiveNumber(m)' = LiveNumber(m) /\ Last(m)' = Last(m)
    BY <2>3, <2>6, SameRowsSameLive DEF Last
  <2>7. Counts' = [Counts EXCEPT ![n] = 1] /\ Lives' = [Lives EXCEPT ![n] = 1]
    BY <2>4, <2>5, <2>6 DEF Counts, Lives
  <2> QED BY <2>4, <2>7 DEF Pointer!Define, Counts, Lives, Last
<1>2. session[r].def \in Names
  BY DEF IInvOne, IInv, TypeOK, Session
<1> QED BY <1>1, <1>2 DEF Pointer!Next

LEMMA AddPublishes ==
    ASSUME IInvOne, IInvOne', NEW e \in Editors, CommitAdd(e)
    PROVE  Pointer!Next
<1>1. ASSUME NEW n \in Names, n = session[e].def PROVE Pointer!Publish(n)
  <2>0. e \in Requests /\ TypeOK /\ IInv /\ session[e] \in Session
    BY DEF IInvOne, IInv, TypeOK, Requests
  <2>1. Last(n) \in Nat /\ Last(n) > 0 /\ DOMAIN versions[n] = 1..Last(n)
    BY <1>1, <2>0, CommittedRows DEF IInv, SessionInv, Fits, CommitAdd
  <2>2. /\ Last(n)' = Last(n) + 1 /\ DOMAIN versions'[n] = 1..(Last(n) + 1)
        /\ \A m \in Names : m # n => versions'[m] = versions[m]
        /\ versions'[n][Last(n) + 1].active <=> session[e].live
    BY <1>1, <2>0, CommitAddRows DEF Last
  <2>3. ASSUME NEW m \in Names, m # n PROVE LiveNumber(m)' = LiveNumber(m) /\ Last(m)' = Last(m)
    BY <2>2, <2>3, SameRowsSameLive DEF Last
  <2>4. Counts' = [Counts EXCEPT ![n] = Last(n) + 1]
    BY <2>2, <2>3 DEF Counts
  <2>5. CASE session[e].live
    <3>1. Last(n) + 1 \in ActiveRows(n)'
      BY <2>1, <2>2, <2>5 DEF ActiveRows
    <3>2. LiveNumber(n)' = Last(n) + 1
      BY <3>1, LiveNumberIsNext DEF LiveIs
    <3>3. Lives' = [Lives EXCEPT ![n] = Last(n) + 1]
      BY <2>3, <3>2 DEF Lives
    <3> QED BY <2>1, <2>4, <3>3 DEF Pointer!Publish, Counts, Lives, Last
  <2>6. CASE ~session[e].live
    <3>1. session[e].seen = {}
      BY <2>0, <2>6 DEF IInv, SessionInv, Fits, CommitAdd
    <3>2. \A k \in 1..Last(n) : versions'[n][k].active <=> versions[n][k].active
      BY <1>1, <2>0, <3>1, CommitAddRows
    <3>3. ActiveRows(n)' = ActiveRows(n)
      BY <2>1, <2>2, <2>6, <3>2 DEF ActiveRows
    <3>4. PICK i \in ActiveRows(n) : TRUE
      BY <2>1 DEF IInv, IInvOne, SomeActive, Defined, Last
    <3>5. LiveNumber(n)' = i /\ LiveNumber(n) = i
      BY <3>3, <3>4, LiveNumberIs, LiveNumberIsNext DEF LiveIs
    <3>6. Lives' = Lives
      BY <2>3, <3>5 DEF Lives
    <3> QED BY <2>1, <2>4, <3>6 DEF Pointer!Publish, Counts, Lives, Last
  <2> QED BY <2>0, <2>5, <2>6 DEF Session
<1>2. session[e].def \in Names
  BY DEF IInvOne, IInv, TypeOK, Session, Requests
<1> QED BY <1>1, <1>2 DEF Pointer!Next

LEMMA SwapSwitches ==
    ASSUME IInvOne, IInvOne', NEW e \in Editors, CommitSwap(e)
    PROVE  Pointer!Next
<1>1. ASSUME NEW n \in Names, n = session[e].def, NEW v, v = session[e].number PROVE Pointer!Switch(n)
  <2>0. IInv /\ TypeOK /\ NumberedInOrder
    BY DEF IInvOne, IInv
  <2>1. /\ v \in 1..Last(n) /\ Last(n)' = Last(n) /\ DOMAIN versions'[n] = 1..Last(n)
        /\ \A m \in Names : m # n => versions'[m] = versions[m]
    BY <1>1, <2>0, CommitSwapRows DEF Last
  <2>2. versions[n][v].number = v
    BY <2>0, <2>1, CommittedRows DEF NumberedInOrder
  <2>3. v \in ActiveRows(n)'
    BY <1>1, <2>0, <2>1, <2>2, CommitSwapRows DEF ActiveRows
  <2>4. LiveNumber(n)' = v
    BY <2>3, LiveNumberIsNext DEF LiveIs
  <2>5. ASSUME NEW m \in Names, m # n PROVE LiveNumber(m)' = LiveNumber(m) /\ Last(m)' = Last(m)
    BY <2>1, <2>5, SameRowsSameLive DEF Last
  <2>6. Counts' = Counts /\ Lives' = [Lives EXCEPT ![n] = v]
    BY <2>1, <2>4, <2>5 DEF Counts, Lives
  <2> QED BY <2>1, <2>6 DEF Pointer!Switch, Counts, Lives, Last
<1>2. session[e].def \in Names
  BY DEF IInvOne, IInv, TypeOK, Session, Requests
<1> QED BY <1>1, <1>2 DEF Pointer!Next

LEMMA PointerNext ==
    ASSUME IInvOne, IInvOne', [Next]_vars
    PROVE  [Pointer!Next]_(Pointer!vars)
<1>1. Next => \/ UNCHANGED versions
              \/ \E r \in Requests : CommitCreate(r)
              \/ \E e \in Editors : CommitAdd(e) \/ CommitSwap(e)
  BY DEF Next, EditorStep, StartCreate, StartClone, StartAdd, AddFindOthers, RefuseAdd,
         StartActivate, ActivateFindOthers, SeedDefault, RefuseCreate, Abort
<1>2. CASE UNCHANGED versions
  BY <1>2 DEF Pointer!vars, LiveNumber, ActiveRows, ActiveNumbers, Numbers
<1>3. CASE UNCHANGED vars
  BY <1>2, <1>3 DEF vars
<1> QED BY <1>1, <1>2, <1>3, CreateDefines, AddPublishes, SwapSwitches

(* One editor at a time: the flags implement one pointer, moved in one     *)
(* step, so no reader sees the window in which a swap has cleared the old  *)
(* version and not set the new one.                                        *)
THEOREM FlagsImplementOnePointer ==
    ASSUME OneEditor
    PROVE  Spec => ImplementsLiveVersion
<1>1. Init => IInvOne
  <2>1. ASSUME Init PROVE OneLive /\ SeenAll
    BY <2>1 DEF Init, OneLive, ActiveRows, SeenAll, Requests, Idle
  <2> QED BY <2>1, InitInv DEF IInvOne
<1> QED BY <1>1, PointerInit, InvOne, PointerNext, PTL DEF Spec, ImplementsLiveVersion, Pointer!Spec
====
