---- MODULE WorkspaceProofs ----
(***************************************************************************)
(* Proofs about what the requests of the workspace share, of the platform's*)
(* specification: its two rows, for every finite set of requests, the      *)
(* tasks their agents write, their thread, and the tools they may call.    *)
(* What an answer claims is proved for every set of asks and of graphs,    *)
(* the thread for every even number of messages an ask is given, and the   *)
(* tools for every list of servers.  What users are notified of is proved  *)
(* for every number of them and every list of channels, and what asks hold *)
(* of the pool for every size of it.                                       *)
(***************************************************************************)
EXTENDS MCPlatform, FiniteSetTheorems, SequenceTheorems, WellFoundedInduction, TLAPS

----------------------------------------------------------------------------
(* Sets of numbers. *)

LEMMA Least == ASSUME NEW T, T \subseteq Nat, T # {} PROVE \E x \in T : \A y \in T : x <= y
<1>1. IsWellFoundedOn(OpToRel(<, Nat), Nat)
  BY NatLessThanWellFounded
<1>2. PICK x \in T : \A y \in T : ~(<<y, x>> \in OpToRel(<, Nat))
  BY <1>1, WFMin
<1>3. \A y \in T : ~(y < x)
  BY <1>2 DEF OpToRel
<1> QED BY <1>3

(* Numbers below a bound have a largest one. *)
LEMMA Largest ==
    ASSUME NEW T, T \subseteq Nat, T # {}, NEW n \in Nat, \A y \in T : y <= n
    PROVE  \E x \in T : \A y \in T : x >= y
<1> DEFINE Left == {n - y : y \in T}
<1>1. \A y \in T : n - y \in Nat
  BY SMT
<1>2. Left \subseteq Nat /\ Left # {}
  BY <1>1
<1>3. PICK d \in Left : \A e \in Left : d <= e
  BY <1>2, Least
<1>4. PICK x \in T : d = n - x
  OBVIOUS
<1>5. \A y \in T : n - x <= n - y
  BY <1>3, <1>4
<1> QED BY <1>5, SMT

----------------------------------------------------------------------------
(* The workspace's two rows: Workspace. *)

Places == {"idle", "add user", "preferences", "add row", "use", "done"}
Early == {"idle", "add user", "preferences"}
Wants == {"read", "on", "off"}
RequestOf(U, R) == [at: Places, wants: Wants, user: U, row: R, seen: BOOLEAN]
UserIds == users \cup {NoRow}
RowIds == Rows \cup {NoRow}
Request == RequestOf(UserIds, RowIds)

(* Whoever has a user or a row has one that exists. *)
RowsTypeOK ==
    /\ users = {} \/ \E u : users = {u}
    /\ preferences \in [Rows -> BOOLEAN]
    /\ request \in [Requests -> Request]
    /\ \A r \in Requests : request[r].at = "use" => request[r].row \in Rows
    /\ first \subseteq Requests
    /\ written \in BOOLEAN
    /\ stale \in BOOLEAN

Adding == {r \in Requests : request[r].at = "add row"}

(* A request that found no row adds at most one, once.                     *)
RowsAreAccounted ==
    /\ IsFiniteSet(Rows)
    /\ Cardinality(Rows) + Cardinality(Adding) <= Cardinality(first)
    /\ \A r \in Requests : request[r].at \in Early => r \notin first

(* The one row has the last value, and the default until there is one.     *)
LastIsKept ==
    Cardinality(first) <= 1 /\ ~stale =>
       /\ \A id \in Rows : preferences[id] = written
       /\ Rows = {} => written = TRUE

RowsInv == RowsTypeOK /\ RowsAreAccounted /\ LastIsKept

----------------------------------------------------------------------------
LEMMA LessStaysLess ==
    \A a, b, c, d \in Nat : a + b <= c /\ d <= b => a + d <= c
  BY SMT

(* The record of a request after EXCEPT: the fields it has, and that it is *)
(* one of a request.                                                       *)
LEMMA Fields ==
    \A U, R : \A x \in RequestOf(U, R) : DOMAIN x = {"at", "wants", "user", "row", "seen"}
  BY SMT DEF RequestOf

LEMMA OneField ==
    ASSUME NEW U, NEW R, NEW x \in RequestOf(U, R)
    PROVE  /\ \A p \in Places : [x EXCEPT !.at = p] \in RequestOf(U, R)
           /\ \A w \in Wants : [x EXCEPT !.wants = w] \in RequestOf(U, R)
           /\ \A u \in U : [x EXCEPT !.user = u] \in RequestOf(U, R)
           /\ \A id \in R : [x EXCEPT !.row = id] \in RequestOf(U, R)
           /\ \A b \in BOOLEAN : [x EXCEPT !.seen = b] \in RequestOf(U, R)
  BY SMT DEF RequestOf

LEMMA RowTaken ==
    ASSUME NEW U, NEW R, NEW x \in RequestOf(U, R), NEW p \in Places, NEW id \in R
    PROVE  [x EXCEPT !.at = p, !.row = id] \in RequestOf(U, R)
<1> DEFINE y == [x EXCEPT !.at = p]
           z == [y EXCEPT !.row = id]
<1>1. y \in RequestOf(U, R)
  BY OneField
<1>2. z = [x EXCEPT !.at = p, !.row = id]
  BY Zenon
<1> HIDE DEF y
<1>3. z \in RequestOf(U, R)
  BY <1>1, OneField
<1> QED BY <1>2, <1>3

LEMMA RowSeen ==
    ASSUME NEW U, NEW R, NEW x \in RequestOf(U, R), NEW p \in Places, NEW id \in R, NEW b \in BOOLEAN
    PROVE  [x EXCEPT !.at = p, !.row = id, !.seen = b] \in RequestOf(U, R)
<1> DEFINE y == [x EXCEPT !.at = p, !.row = id]
           z == [y EXCEPT !.seen = b]
<1>1. y \in RequestOf(U, R)
  BY RowTaken
<1>2. z = [x EXCEPT !.at = p, !.row = id, !.seen = b]
  BY Zenon
<1> HIDE DEF y
<1>3. z \in RequestOf(U, R)
  BY <1>1, OneField
<1> QED BY <1>2, <1>3

LEMMA UserTaken ==
    ASSUME NEW U, NEW R, NEW x \in RequestOf(U, R), NEW p \in Places, NEW u \in U
    PROVE  [x EXCEPT !.at = p, !.user = u] \in RequestOf(U, R)
<1> DEFINE y == [x EXCEPT !.at = p]
           z == [y EXCEPT !.user = u]
<1>1. y \in RequestOf(U, R)
  BY OneField
<1>2. z = [x EXCEPT !.at = p, !.user = u]
  BY Zenon
<1> HIDE DEF y
<1>3. z \in RequestOf(U, R)
  BY <1>1, OneField
<1> QED BY <1>2, <1>3

LEMMA WantsTaken ==
    ASSUME NEW U, NEW R, NEW x \in RequestOf(U, R), NEW p \in Places, NEW u \in U, NEW w \in Wants
    PROVE  [x EXCEPT !.wants = w, !.at = p, !.user = u] \in RequestOf(U, R)
<1> DEFINE y == [x EXCEPT !.wants = w]
           z == [y EXCEPT !.at = p, !.user = u]
<1>1. y \in RequestOf(U, R)
  BY OneField
<1>2. z = [x EXCEPT !.wants = w, !.at = p, !.user = u]
  BY Zenon
<1> HIDE DEF y
<1>3. z \in RequestOf(U, R)
  BY <1>1, UserTaken
<1> QED BY <1>2, <1>3

(* The tables only grow. *)
LEMMA Wider ==
    ASSUME NEW U, NEW R, NEW V, NEW Q, U \subseteq V, R \subseteq Q
    PROVE  RequestOf(U, R) \subseteq RequestOf(V, Q)
  BY SMT DEF RequestOf

LEMMA InitInv == Init => RowsInv
<1> SUFFICES ASSUME Init PROVE RowsInv
  OBVIOUS
<1>1. Rows = {} /\ IsFiniteSet(Rows) /\ Cardinality(Rows) = 0
  BY FS_EmptySet DEF Init, Rows
<1>2. Adding = {} /\ Cardinality(Adding) = 0 /\ Cardinality(first) = 0
  BY FS_EmptySet DEF Init, Adding, Idle
<1>3. RowsTypeOK
  <2>1. Idle \in Request /\ Idle.at = "idle"
    BY SMT DEF Idle, Request, RequestOf, Places, Wants, UserIds, RowIds
  <2>2. request \in [Requests -> Request] /\ \A r \in Requests : request[r].at # "use"
    BY <2>1, SMT DEF Init
  <2>3. preferences \in [Rows -> BOOLEAN]
    BY <1>1, SMT DEF Init, Rows
  <2>4. users = {} /\ first = {} /\ written = TRUE /\ stale = FALSE
    BY DEF Init
  <2> QED BY <2>2, <2>3, <2>4 DEF RowsTypeOK
<1> QED BY <1>1, <1>2, <1>3, SMT DEF Init, RowsInv, RowsAreAccounted, LastIsKept, Idle

(* A request goes to another place: what is known of the others, and of    *)
(* those that add a row.                                                   *)
LEMMA Moved ==
    ASSUME RowsTypeOK, RowsAreAccounted, NEW r \in Requests, NEW to \in Request',
           request' = [request EXCEPT ![r] = to], users \subseteq users', Rows \subseteq Rows',
           to.at = "use" => to.row \in Rows'
    PROVE  /\ request' \in [Requests -> Request'] /\ request'[r] = to
           /\ \A q \in Requests : q # r => request'[q] = request[q]
           /\ \A q \in Requests : request'[q].at = "use" => request'[q].row \in Rows'
           /\ Adding' = (IF to.at = "add row" THEN Adding \cup {r} ELSE Adding \ {r})
           /\ IsFiniteSet(Adding) /\ IsFiniteSet(first)
<1>0. Request \subseteq Request'
  BY Wider DEF Request, UserIds, RowIds
<1>1. \A q \in Requests : request[q] \in Request'
  BY <1>0, SMT DEF RowsTypeOK
<1>2. request' \in [Requests -> Request'] /\ request'[r] = to
      /\ \A q \in Requests : q # r => request'[q] = request[q]
  BY <1>1, SMT DEF RowsTypeOK
<1>3. IsFiniteSet(Adding) /\ IsFiniteSet(first)
  BY FS_Subset, RequestsAssumption DEF RowsTypeOK, Adding
<1>4. Adding' = (IF to.at = "add row" THEN Adding \cup {r} ELSE Adding \ {r})
  BY <1>2 DEF Adding
<1>5. \A q \in Requests : request'[q].at = "use" => request'[q].row \in Rows'
  BY <1>2, SMT DEF RowsTypeOK
<1> QED BY <1>2, <1>3, <1>4, <1>5

(* A step that inserts no preferences row.                                 *)
LEMMA Settled ==
    ASSUME RowsInv, NEW r \in Requests, NEW to \in Request',
           request' = [request EXCEPT ![r] = to],
           users' = users \/ (users = {} /\ \E u : users' = {u}),
           Rows' = Rows, preferences' \in [Rows' -> BOOLEAN], first' = first,
           written' \in BOOLEAN, stale' \in BOOLEAN,
           to.at = "use" => to.row \in Rows', to.at # "add row",
           to.at \in Early => request[r].at \in Early
    PROVE  RowsTypeOK' /\ RowsAreAccounted'
<1> USE DEF RowsInv
<1>2. users \subseteq users'
  OBVIOUS
<1>3. /\ request' \in [Requests -> Request'] /\ request'[r] = to
      /\ \A q \in Requests : q # r => request'[q] = request[q]
      /\ \A q \in Requests : request'[q].at = "use" => request'[q].row \in Rows'
      /\ Adding' = Adding \ {r} /\ IsFiniteSet(Adding) /\ IsFiniteSet(first)
  BY <1>2, Moved
<1>4. Cardinality(Adding') <= Cardinality(Adding)
  BY <1>3, FS_Subset
<1>5. RowsTypeOK'
  BY <1>3 DEF RowsTypeOK
<1>6. RowsAreAccounted'
  <2>1. Cardinality(Rows) \in Nat /\ Cardinality(Adding) \in Nat /\ Cardinality(Adding') \in Nat
        /\ Cardinality(first) \in Nat
    BY <1>3, FS_CardinalityType, FS_Subset DEF RowsAreAccounted
  <2>2. Cardinality(Rows) + Cardinality(Adding) <= Cardinality(first)
    BY DEF RowsAreAccounted
  <2>3. Cardinality(Rows) + Cardinality(Adding') <= Cardinality(first)
    BY <1>4, <2>1, <2>2, LessStaysLess
  <2>4. Cardinality(Rows') = Cardinality(Rows) /\ Cardinality(first') = Cardinality(first)
    OBVIOUS
  <2>5. Cardinality(Rows') + Cardinality(Adding') <= Cardinality(first')
    BY <2>3, <2>4
  <2>6. \A q \in Requests : request'[q].at \in Early => q \notin first'
    BY <1>3 DEF RowsAreAccounted
  <2> QED BY <2>5, <2>6 DEF RowsAreAccounted
<1> QED BY <1>5, <1>6

(* The steps that leave the preferences and their history alone.           *)
LEMMA QuietInv ==
    ASSUME RowsInv, NEW r \in Requests, NEW to \in Request',
           request' = [request EXCEPT ![r] = to],
           users' = users \/ (users = {} /\ \E u : users' = {u}),
           UNCHANGED <<preferences, first, written, stale>>,
           to.at = "use" => to.row \in Rows', to.at # "add row",
           to.at \in Early => request[r].at \in Early
    PROVE  RowsInv'
<1>1. Rows' = Rows /\ preferences' \in [Rows' -> BOOLEAN] /\ written' \in BOOLEAN /\ stale' \in BOOLEAN
  BY DEF Rows, RowsInv, RowsTypeOK
<1>2. RowsTypeOK' /\ RowsAreAccounted'
  BY <1>1, Settled
<1>3. LastIsKept'
  BY <1>1 DEF LastIsKept, RowsInv
<1> QED BY <1>2, <1>3 DEF RowsInv

LEMMA FindRowInv ==
    ASSUME RowsInv, NEW r \in Requests, FindRow(r)
    PROVE  RowsInv'
<1> USE DEF RowsInv
<1>1. /\ request[r].at = "preferences" /\ Rows' = Rows /\ request[r] \in Request
      /\ Request' = Request /\ UNCHANGED <<users, preferences, written, stale>>
  BY DEF FindRow, Step, Rows, Request, UserIds, RowIds, RowsTypeOK
<1>2. CASE Rows # {}
  <2>1. PICK id \in Rows :
          request' = [request EXCEPT ![r] = [request[r] EXCEPT !.at = "use", !.row = id, !.seen = preferences[id]]]
    BY <1>2 DEF FindRow, Step
  <2> DEFINE to == [request[r] EXCEPT !.at = "use", !.row = id, !.seen = preferences[id]]
  <2>2. preferences[id] \in BOOLEAN /\ id \in RowIds /\ "use" \in Places
    BY <2>1 DEF RowsTypeOK, RowIds, Places
  <2>3. to \in Request /\ to.at = "use" /\ to.row = id
    <3>1. to \in Request
      BY <1>1, <2>2, RowSeen DEF Request
    <3>2. to.at = "use" /\ to.row = id
      BY <1>1, Fields DEF Request
    <3> QED BY <3>1, <3>2
  <2>4. request' = [request EXCEPT ![r] = to] /\ first' = first
    BY <1>2, <2>1 DEF FindRow
  <2> HIDE DEF to
  <2>5. to.at \notin Early /\ to.at # "add row"
    BY <2>3 DEF Early
  <2> QED BY <1>1, <2>3, <2>4, <2>5, QuietInv
<1>3. CASE Rows = {}
  <2> DEFINE to == [request[r] EXCEPT !.at = "add row"]
  <2>1. request' = [request EXCEPT ![r] = to] /\ first' = first \cup {r}
    BY <1>3 DEF FindRow, Step
  <2>2. to \in Request /\ to.at = "add row"
    <3>1. to \in Request
      BY <1>1, OneField DEF Request, Places
    <3>2. to.at = "add row"
      BY <1>1, Fields DEF Request
    <3> QED BY <3>1, <3>2
  <2> HIDE DEF to
  <2>3. /\ request' \in [Requests -> Request'] /\ request'[r] = to
        /\ \A q \in Requests : q # r => request'[q] = request[q]
        /\ \A q \in Requests : request'[q].at = "use" => request'[q].row \in Rows'
        /\ Adding' = Adding \cup {r} /\ IsFiniteSet(Adding) /\ IsFiniteSet(first)
    BY <1>1, <2>1, <2>2, Moved
  <2>4. r \notin first /\ r \notin Adding
    BY <1>1 DEF RowsAreAccounted, Adding, Early
  <2>5. RowsTypeOK'
    BY <1>1, <2>1, <2>3 DEF RowsTypeOK
  <2>6. Cardinality(first') = Cardinality(first) + 1 /\ Cardinality(first) \in Nat
    BY <2>1, <2>3, <2>4, FS_AddElement, FS_CardinalityType
  <2>7. RowsAreAccounted'
    <3>1. Cardinality(Rows) + Cardinality(Adding) <= Cardinality(first)
      BY DEF RowsAreAccounted
    <3>2. Cardinality(Rows) \in Nat /\ Cardinality(Adding) \in Nat
      BY <2>3, FS_CardinalityType DEF RowsAreAccounted
    <3>3. Cardinality(Rows') = Cardinality(Rows) /\ Cardinality(Adding') = Cardinality(Adding) + 1
      BY <1>1, <2>3, <2>4, FS_AddElement
    <3>4. Cardinality(Rows') + Cardinality(Adding') <= Cardinality(first')
      BY <2>6, <3>1, <3>2, <3>3, SMT
    <3>5. \A q \in Requests : request'[q].at \in Early => q \notin first'
      BY <2>1, <2>2, <2>3 DEF RowsAreAccounted, Early
    <3> QED BY <1>1, <3>4, <3>5 DEF RowsAreAccounted
  <2>8. LastIsKept'
    BY <1>1, <1>3, <2>6, SMT DEF LastIsKept
  <2> QED BY <2>5, <2>7, <2>8
<1> QED BY <1>2, <1>3

LEMMA FindUserInv ==
    ASSUME RowsInv, NEW r \in Requests, FindUser(r)
    PROVE  RowsInv'
<1> DEFINE next_place == IF users = {} THEN "add user" ELSE "preferences"
           found == IF users = {} THEN NoRow ELSE CHOOSE u \in users : TRUE
<1>1. PICK wants \in Wants : request' = [request EXCEPT ![r] = [Idle EXCEPT !.wants = wants, !.at = next_place, !.user = found]]
  BY DEF FindUser, Step, Wants
<1> DEFINE to == [Idle EXCEPT !.wants = wants, !.at = next_place, !.user = found]
<1>2. /\ request[r].at \in Early /\ Request' = Request
      /\ UNCHANGED <<users, preferences, first, written, stale>>
  BY DEF FindUser, Step, Early, Request, UserIds, RowIds, Rows
<1>3. Idle \in Request
  BY SMT DEF Idle, Request, RequestOf, Places, Wants, UserIds, RowIds
<1>4. next_place \in Places /\ found \in UserIds /\ next_place \notin {"use", "add row"}
  BY DEF Places, UserIds
<1>5. to \in Request
  BY <1>3, <1>4, WantsTaken DEF Request
<1>6. to.at = next_place
  BY <1>3, Fields DEF Request
<1>7. request' = [request EXCEPT ![r] = to]
  BY <1>1
<1> HIDE DEF to, next_place
<1> QED BY <1>2, <1>4, <1>5, <1>6, <1>7, QuietInv

LEMMA AddUserInv ==
    ASSUME RowsInv, NEW r \in Requests, AddUser(r)
    PROVE  RowsInv'
<1> DEFINE id == IF users = {} THEN 1 ELSE CHOOSE u \in users : TRUE
           to == [request[r] EXCEPT !.at = "preferences", !.user = id]
<1>1. /\ request[r].at = "add user" /\ request' = [request EXCEPT ![r] = to]
      /\ users' = users \cup {id} /\ UNCHANGED <<preferences, first, written, stale>>
  BY DEF AddUser, Step
<1>2. users' = users \/ (users = {} /\ \E u : users' = {u})
  BY <1>1
<1>3. request[r] \in Request' /\ id \in UserIds' /\ "preferences" \in Places
  <2>1. Request \subseteq Request'
    BY <1>1, Wider DEF Request, UserIds, RowIds, Rows
  <2> QED BY <1>1, <2>1 DEF RowsInv, RowsTypeOK, UserIds, Places
<1> HIDE DEF id
<1>4. to \in Request'
  BY <1>3, UserTaken DEF Request
<1>5. to.at = "preferences"
  BY <1>3, Fields DEF Request
<1>6. request[r].at \in Early /\ to.at # "use" /\ to.at # "add row"
  BY <1>1, <1>5 DEF Early
<1> HIDE DEF to
<1> QED BY <1>1, <1>2, <1>4, <1>6, QuietInv

(* Read and Lose. *)
LEMMA DoneInv ==
    ASSUME RowsInv, NEW r \in Requests, request' = [request EXCEPT ![r] = [request[r] EXCEPT !.at = "done"]],
           UNCHANGED <<users, preferences, first, written, stale>>
    PROVE  RowsInv'
<1> DEFINE to == [request[r] EXCEPT !.at = "done"]
<1>1. request[r] \in Request /\ Request' = Request /\ "done" \in Places
  BY DEF RowsInv, RowsTypeOK, Request, UserIds, RowIds, Rows, Places
<1>2. to \in Request
  BY <1>1, OneField DEF Request
<1>3. to.at = "done"
  BY <1>1, Fields DEF Request
<1>4. to.at \notin Early /\ to.at # "use" /\ to.at # "add row"
  BY <1>3 DEF Early
<1> HIDE DEF to
<1> QED BY <1>1, <1>2, <1>4, QuietInv DEF to

(* Whoever adds a row found none: when only one request ever did, there is *)
(* none yet.                                                               *)
LEMMA AddRowInv ==
    ASSUME RowsInv, NEW r \in Requests, AddRow(r)
    PROVE  RowsInv'
<1> DEFINE id == Fresh(Rows)
           to == [request[r] EXCEPT !.at = "use", !.row = id]
<1> USE DEF RowsInv
<1>1. /\ request[r].at = "add row" /\ request' = [request EXCEPT ![r] = to]
      /\ preferences' = [k \in Rows \cup {id} |-> IF k = id THEN TRUE ELSE preferences[k]]
      /\ UNCHANGED <<users, first, written, stale>>
  BY DEF AddRow, Step
<1> HIDE DEF id
<1>2. Rows' = Rows \cup {id} /\ preferences' \in [Rows' -> BOOLEAN]
      /\ \A k \in Rows' : preferences'[k] = IF k = id THEN TRUE ELSE preferences[k]
  <2>1. preferences \in [Rows -> BOOLEAN]
    BY DEF RowsTypeOK
  <2>2. Rows' = Rows \cup {id}
    BY <1>1 DEF Rows
  <2> QED BY <1>1, <2>1, <2>2
<1>3. to \in Request' /\ to.at = "use" /\ to.row = id
  <2>1. Request \subseteq Request'
    BY <1>1, <1>2, Wider DEF Request, UserIds, RowIds
  <2>2. request[r] \in Request' /\ id \in RowIds' /\ "use" \in Places
    BY <1>2, <2>1 DEF RowsTypeOK, RowIds, Places
  <2>3. to \in Request'
    BY <2>2, RowTaken DEF Request
  <2>4. to.at = "use" /\ to.row = id
    BY <2>2, Fields DEF Request
  <2> QED BY <2>3, <2>4
<1> HIDE DEF to
<1>4. /\ request' \in [Requests -> Request'] /\ request'[r] = to
      /\ \A q \in Requests : q # r => request'[q] = request[q]
      /\ \A q \in Requests : request'[q].at = "use" => request'[q].row \in Rows'
      /\ Adding' = Adding \ {r} /\ IsFiniteSet(Adding) /\ IsFiniteSet(first)
  <2>1. users \subseteq users' /\ Rows \subseteq Rows' /\ id \in Rows' /\ to.at # "add row"
    BY <1>1, <1>2, <1>3
  <2> QED BY <1>1, <1>3, <2>1, Moved
<1>5. r \in Adding
  BY <1>1 DEF Adding
<1>6. RowsTypeOK'
  BY <1>1, <1>2, <1>4 DEF RowsTypeOK
<1>7. /\ Cardinality(Rows) \in Nat /\ Cardinality(Adding) \in Nat /\ Cardinality(first) \in Nat
      /\ Cardinality(Rows) + Cardinality(Adding) <= Cardinality(first)
  BY <1>4, FS_CardinalityType DEF RowsAreAccounted
<1>8. Cardinality(Adding') = Cardinality(Adding) - 1 /\ Cardinality(Adding') \in Nat
  <2>1. IsFiniteSet(Adding \ {r}) /\ Cardinality(Adding \ {r}) = Cardinality(Adding) - 1
    BY <1>4, <1>5, FS_RemoveElement
  <2> QED BY <1>4, <2>1, FS_CardinalityType
<1>9. RowsAreAccounted'
  <2>1. IsFiniteSet(Rows') /\ Cardinality(Rows') \in Nat
        /\ (Cardinality(Rows') = Cardinality(Rows) \/ Cardinality(Rows') = Cardinality(Rows) + 1)
    BY <1>2, FS_AddElement, FS_CardinalityType DEF RowsAreAccounted
  <2>2. Cardinality(Rows') + Cardinality(Adding') <= Cardinality(first)
    BY <1>7, <1>8, <2>1, SMT
  <2>3. first' = first
    BY <1>1
  <2>4. \A q \in Requests : request'[q].at \in Early => q \notin first'
    BY <1>1, <1>3, <1>4 DEF RowsAreAccounted, Early
  <2> QED BY <2>1, <2>2, <2>3, <2>4 DEF RowsAreAccounted
<1>10. LastIsKept'
  <2> SUFFICES ASSUME Cardinality(first') <= 1, ~stale'
               PROVE  /\ \A k \in Rows' : preferences'[k] = written'
                      /\ Rows' = {} => written' = TRUE
    BY DEF LastIsKept
  <2>1. Cardinality(first) <= 1 /\ ~stale
    BY <1>1
  <2>2. Cardinality(Rows) = 0
    BY <1>7, <1>8, <2>1, SMT
  <2>3. Rows = {}
    BY <2>2, FS_EmptySet DEF RowsAreAccounted
  <2>4. written = TRUE
    BY <2>1, <2>3 DEF LastIsKept
  <2> QED BY <1>1, <1>2, <2>3, <2>4
<1> QED BY <1>6, <1>9, <1>10

(* An update that began from the value there keeps the one row up to date. *)
LEMMA UpdateInv ==
    ASSUME RowsInv, NEW r \in Requests, Update(r)
    PROVE  RowsInv'
<1> DEFINE value == request[r].wants = "on"
           row == request[r].row
           to == [request[r] EXCEPT !.at = "done"]
<1> USE DEF RowsInv
<1>1. /\ request[r].at = "use" /\ request' = [request EXCEPT ![r] = to]
      /\ preferences' = IF value = request[r].seen THEN preferences
                        ELSE [preferences EXCEPT ![row] = value]
      /\ written' = value /\ stale' = (stale \/ preferences[row] # request[r].seen)
      /\ users' = users /\ first' = first
  BY DEF Update, Step
<1>2. value \in BOOLEAN /\ row \in Rows /\ request[r] \in Request
  BY <1>1 DEF RowsTypeOK
<1> HIDE DEF value, row
<1>3. Rows' = Rows /\ preferences' \in [Rows' -> BOOLEAN]
  <2>1. preferences \in [Rows -> BOOLEAN]
    BY DEF RowsTypeOK
  <2>2. preferences' \in [Rows -> BOOLEAN]
    BY <1>1, <1>2, <2>1
  <2>3. Rows' = Rows
    BY <2>2 DEF Rows
  <2> QED BY <2>2, <2>3
<1>4. to \in Request' /\ to.at = "done"
  <2>1. Request' = Request
    BY <1>1, <1>3 DEF Request, UserIds, RowIds
  <2>2. to \in Request
    BY <1>2, OneField DEF Request, Places
  <2>3. to.at = "done"
    BY <1>2, Fields DEF Request
  <2> QED BY <2>1, <2>2, <2>3
<1>5. to.at \notin Early /\ to.at # "use" /\ to.at # "add row"
  BY <1>4 DEF Early
<1> HIDE DEF to
<1>6. written' \in BOOLEAN /\ stale' \in BOOLEAN
  BY <1>1, <1>2 DEF RowsTypeOK
<1>7. RowsTypeOK' /\ RowsAreAccounted'
  BY <1>1, <1>3, <1>4, <1>5, <1>6, Settled
<1>8. LastIsKept'
  <2> SUFFICES ASSUME Cardinality(first') <= 1, ~stale'
               PROVE  /\ \A k \in Rows' : preferences'[k] = written'
                      /\ Rows' = {} => written' = TRUE
    BY DEF LastIsKept
  <2>1. Cardinality(first) <= 1 /\ preferences[row] = request[r].seen
    BY <1>1
  <2>2. Rows = {row}
    <3>1. IsFiniteSet(Adding) /\ IsFiniteSet(first)
      BY FS_Subset, RequestsAssumption DEF RowsTypeOK, Adding
    <3>2. /\ Cardinality(Rows) \in Nat /\ Cardinality(Adding) \in Nat /\ Cardinality(first) \in Nat
          /\ Cardinality(Rows) + Cardinality(Adding) <= Cardinality(first)
      BY <3>1, FS_CardinalityType DEF RowsAreAccounted
    <3>3. Cardinality(Rows) # 0
      BY <1>2, FS_EmptySet DEF RowsAreAccounted
    <3>4. Cardinality(Rows) = 1
      BY <2>1, <3>2, <3>3, SMT
    <3> QED BY <1>2, <3>4, FS_Singleton DEF RowsAreAccounted
  <2>3. preferences'[row] = value
    <3>1. CASE value = request[r].seen
      BY <1>1, <2>1, <3>1
    <3>2. CASE value # request[r].seen
      BY <1>1, <1>2, <3>2 DEF RowsTypeOK
    <3> QED BY <3>1, <3>2
  <2> QED BY <1>1, <1>3, <2>2, <2>3
<1> QED BY <1>7, <1>8

----------------------------------------------------------------------------
LEMMA StepInv == RowsInv /\ [Next]_vars => RowsInv'
<1> SUFFICES ASSUME RowsInv, [Next]_vars PROVE RowsInv'
  OBVIOUS
<1>1. CASE UNCHANGED vars
  BY <1>1 DEF vars, RowsInv, RowsTypeOK, Request, UserIds, RowIds, Rows, RowsAreAccounted, Adding, LastIsKept
<1>2. ASSUME NEW r \in Requests, FindUser(r) PROVE RowsInv'
  BY <1>2, FindUserInv
<1>3. ASSUME NEW r \in Requests, AddUser(r) PROVE RowsInv'
  BY <1>3, AddUserInv
<1>4. ASSUME NEW r \in Requests, FindRow(r) PROVE RowsInv'
  BY <1>4, FindRowInv
<1>5. ASSUME NEW r \in Requests, AddRow(r) PROVE RowsInv'
  BY <1>5, AddRowInv
<1>6. ASSUME NEW r \in Requests, Update(r) PROVE RowsInv'
  BY <1>6, UpdateInv
<1>7. ASSUME NEW r \in Requests, Read(r) PROVE RowsInv'
  BY <1>7, DoneInv DEF Read, Step
<1>8. ASSUME NEW r \in Requests, Lose(r) PROVE RowsInv'
  BY <1>8, DoneInv DEF Lose, Step
<1> QED BY <1>1, <1>2, <1>3, <1>4, <1>5, <1>6, <1>7, <1>8 DEF Next

LEMMA RowsInvariant == Spec => []RowsInv
  BY InitInv, StepInv, PTL DEF Spec

(* One user, whom every request has; no more preferences rows than         *)
(* requests that found none; and a single row that holds what was last     *)
(* asked for, unless an update began from a value changed since            *)
(* (get_workspace_user, PreferencesService).                               *)
THEOREM OneUserOneRow == Spec => []OneWorkspace
<1>1. RowsInv => OneWorkspace
  <2> SUFFICES ASSUME RowsInv PROVE OneWorkspace
    OBVIOUS
  <2>1. Cardinality(users) = 0 \/ Cardinality(users) = 1
    BY FS_EmptySet, FS_Singleton DEF RowsInv, RowsTypeOK
  <2>2. \A r \in Requests : request[r].user \in users \cup {NoRow}
    <3>1. \A U, R : \A x \in RequestOf(U, R) : x.user \in U
      BY SMT DEF RequestOf
    <3> QED BY <3>1 DEF RowsInv, RowsTypeOK, Request, UserIds
  <2>3. Cardinality(Rows) <= Cardinality(first)
    <3>1. IsFiniteSet(Adding) /\ IsFiniteSet(first)
      BY FS_Subset, RequestsAssumption DEF RowsInv, RowsTypeOK, Adding
    <3>2. /\ Cardinality(Rows) \in Nat /\ Cardinality(Adding) \in Nat /\ Cardinality(first) \in Nat
          /\ Cardinality(Rows) + Cardinality(Adding) <= Cardinality(first)
      BY <3>1, FS_CardinalityType DEF RowsInv, RowsAreAccounted
    <3> QED BY <3>2, SMT
  <2>4. Cardinality(first) <= 1 /\ ~stale => \A id \in Rows : preferences[id] = written
    BY DEF RowsInv, LastIsKept
  <2>5. Cardinality(users) <= 1
    BY <2>1, SMT
  <2> QED BY <2>2, <2>3, <2>4, <2>5 DEF OneWorkspace
<1> QED BY <1>1, RowsInvariant, PTL

----------------------------------------------------------------------------
(* Agents and tasks: Agents. *)

WorkPlaces == {"idle", "work", "planned", "drafted", "review", "finished", "recorded", "failed"}
Answered == [agent : Work!AgentNames \cup {Work!Nobody},
             text : {"none", "model", "fixed", "unparseable", "list", "rejected"},
             grounded : BOOLEAN, sources : BOOLEAN, web : BOOLEAN, claims : SUBSET Nat]
Worked == [at : WorkPlaces, route : Work!AgentNames \cup {Work!Nobody}, reviewed : BOOLEAN,
           decision : {"none", "approved", "rejected"}, answer : Answered, recorded : Answered]

(* Tasks are numbered, up to some number. *)
WorkTypeOK ==
    /\ spec \in Work!Accepted
    /\ ask \in [Asks -> Worked]
    /\ tasks \in [DOMAIN tasks -> [ask : Asks \cup {Work!Nobody}, status : {"todo", "done"}]]
    /\ planned \in [Asks -> SUBSET Nat]
    /\ read \in [Asks -> SUBSET {"memory", "documents", "web", "calendar"}]
    /\ Work!Numbered \subseteq Nat
    /\ \E n \in Nat : \A id \in Work!Numbered : id <= n

(* What an answer with these tasks and these readings behind it may be. *)
Honest(shown, own, learnt) ==
    /\ shown.claims \subseteq own
    /\ shown.text = "unparseable" => own = {}
    /\ shown.grounded => learnt \cap {"documents", "calendar"} # {}
    /\ shown.sources => "documents" \in learnt
    /\ shown.web => "web" \in learnt

WorkedInv(r) ==
    /\ ask[r].at # "idle" => ask[r].route \in Work!Enabled
    /\ Honest(ask[r].answer, planned[r], read[r])
    /\ ask[r].at \in {"idle", "work"} => planned[r] = {} /\ ask[r].answer.claims = {} /\ ask[r].answer.text = "none"
    /\ ask[r].answer.claims # planned[r] => ask[r].decision = "rejected" \/ ask[r].at = "failed"
    /\ ask[r].decision # "none" => ask[r].at \in {"finished", "recorded", "failed"}
    /\ Cardinality(planned[r]) <= MAX_TASKS
    /\ \A id \in DOMAIN tasks : tasks[id].ask = r => id \in planned[r]

WorkInv == WorkTypeOK /\ \A r \in Asks : WorkedInv(r)

----------------------------------------------------------------------------
LEMMA LastTask ==
    ASSUME WorkTypeOK
    PROVE  Work!LastId \in Nat /\ \A id \in Work!Numbered : id <= Work!LastId
<1>0. 0 \in Work!Numbered
  BY DEF Work!Numbered
<1>1. Work!Numbered \subseteq Nat /\ Work!Numbered # {} /\ \E n \in Nat : \A id \in Work!Numbered : id <= n
  BY <1>0 DEF WorkTypeOK
<1>2. \E x \in Work!Numbered : \A y \in Work!Numbered : x >= y
  BY <1>1, Largest
<1>3. Work!LastId = CHOOSE x \in Work!Numbered : \A y \in Work!Numbered : x >= y
  BY DEF Work!LastId, Work!Max, Work!Numbered, Work!Planned
<1>4. Work!LastId \in Work!Numbered /\ \A y \in Work!Numbered : Work!LastId >= y
  BY <1>2, <1>3
<1> QED BY <1>1, <1>4

LEMMA WorkCounts == \A S : Work!Cardinality(S) = Cardinality(S)
  BY DEF Work!Cardinality, Cardinality

(* As many new numbers as there are valid entries in what was looked at.   *)
LEMMA PlanIsShort ==
    ASSUME WorkTypeOK, NEW reply \in Work!Replies
    PROVE  LET n == Work!Cardinality(Work!Valid(reply)) IN
           /\ n \in Nat /\ n <= MAX_TASKS
           /\ Work!Fresh(n) \subseteq Nat /\ Cardinality(Work!Fresh(n)) = n
           /\ \A id \in Work!Fresh(n) : id <= Work!LastId + n
<1> DEFINE n == Cardinality(Work!Valid(reply))
<1>1. Work!Valid(reply) \subseteq 1..MAX_TASKS
  BY SizesAssumption DEF Work!Valid, Work!Replies
<1>2. IsFiniteSet(1..MAX_TASKS) /\ Cardinality(1..MAX_TASKS) = MAX_TASKS
  BY SizesAssumption, FS_Interval
<1>3. n \in Nat /\ n <= MAX_TASKS
  BY <1>1, <1>2, FS_Subset, FS_CardinalityType
<1>4. Work!LastId \in Nat
  BY LastTask
<1> HIDE DEF n
<1>5. Cardinality((Work!LastId + 1)..(Work!LastId + n)) = n
  BY <1>3, <1>4, FS_Interval
<1> QED BY <1>3, <1>4, <1>5, WorkCounts DEF Work!Fresh, n

----------------------------------------------------------------------------
(* The answer a worker drafts, with what it says of itself. *)
LEMMA AnswerFields ==
    /\ Work!NoAnswer \in Answered
    /\ Work!NoAnswer.text = "none" /\ Work!NoAnswer.claims = {} /\ Work!NoAnswer.grounded = FALSE
    /\ Work!NoAnswer.sources = FALSE /\ Work!NoAnswer.web = FALSE
  BY DEF Work!NoAnswer, Answered, Work!AgentNames, Work!Nobody

(* One ask changes, and what its worker has read. *)
LEMMA OneWorked ==
    ASSUME WorkInv, NEW r \in Asks, NEW a \in Worked, ask' = [ask EXCEPT ![r] = a],
           NEW learnt \in SUBSET {"memory", "documents", "web", "calendar"},
           read' = [read EXCEPT ![r] = learnt], UNCHANGED <<spec, tasks, planned>>,
           a.at # "idle" => a.route \in Work!Enabled,
           Honest(a.answer, planned[r], learnt),
           a.at \in {"idle", "work"} => planned[r] = {} /\ a.answer.claims = {} /\ a.answer.text = "none",
           a.answer.claims # planned[r] => a.decision = "rejected" \/ a.at = "failed",
           a.decision # "none" => a.at \in {"finished", "recorded", "failed"}
    PROVE  WorkInv'
<1>1. WorkTypeOK'
  BY DEF WorkInv, WorkTypeOK, Work!Numbered, Work!Planned
<1>2. /\ ask'[r] = a /\ read'[r] = learnt
      /\ \A q \in Asks : q # r => ask'[q] = ask[q] /\ read'[q] = read[q]
  BY DEF WorkInv, WorkTypeOK
<1>3. Work!Enabled' = Work!Enabled
  BY DEF Work!Enabled
<1>4. ASSUME NEW q \in Asks PROVE WorkedInv(q)'
  <2>1. CASE q = r
    BY <1>2, <1>3, <2>1 DEF WorkInv, WorkedInv
  <2>2. CASE q # r
    BY <1>2, <1>3, <2>2 DEF WorkInv, WorkedInv
  <2> QED BY <2>1, <2>2
<1> QED BY <1>1, <1>4 DEF WorkInv

(* What Drafted makes of an ask. *)
LEMMA DraftFields ==
    ASSUME WorkInv, NEW r \in Asks, ask[r].at = "work" \/ ask[r].at = "planned", NEW answer \in Answered,
           Work!Drafted(r, answer),
           NEW learnt \in SUBSET {"memory", "documents", "web", "calendar"},
           read' = [read EXCEPT ![r] = learnt], UNCHANGED <<spec, tasks, planned>>,
           Honest(answer, planned[r], learnt), answer.claims = planned[r]
    PROVE  WorkInv'
<1> DEFINE told == [answer EXCEPT !.agent = ask[r].route]
           a == [ask[r] EXCEPT !.at = "drafted", !.answer = told]
<1>1. ask \in [Asks -> Worked] /\ ask[r] \in Worked /\ WorkedInv(r)
  BY DEF WorkInv, WorkTypeOK
<1>2. ask' = [ask EXCEPT ![r] = a]
  BY <1>1 DEF Work!Drafted
<1>3. /\ told \in Answered /\ told.claims = answer.claims /\ told.text = answer.text
      /\ told.grounded = answer.grounded /\ told.sources = answer.sources /\ told.web = answer.web
  BY <1>1 DEF Answered, Worked
<1> HIDE DEF told
<1>4. /\ a \in Worked /\ a.at = "drafted" /\ a.answer = told /\ a.route = ask[r].route
      /\ a.decision = ask[r].decision
  BY <1>1, <1>3 DEF Worked, WorkPlaces
<1> HIDE DEF a
<1>5. Honest(a.answer, planned[r], learnt)
  BY <1>3, <1>4 DEF Honest
<1>6. a.route \in Work!Enabled /\ a.decision = "none"
  BY <1>1, <1>4 DEF WorkedInv, Worked
<1> QED BY <1>2, <1>3, <1>4, <1>5, <1>6, OneWorked

LEMMA WorkersAreHonest ==
    ASSUME WorkInv, NEW r \in Asks,
           \/ Work!General(r) \/ Work!Knowledge(r) \/ Work!Research(r) \/ Work!Calendar(r)
           \/ Work!PlanUnreadable(r) \/ Work!ListPlan(r)
    PROVE  WorkInv'
<1>1. WorkedInv(r) /\ read \in [Asks -> SUBSET {"memory", "documents", "web", "calendar"}] /\ ask[r] \in Worked
  BY DEF WorkInv, WorkTypeOK
<1>2. CASE Work!General(r)
  <2> DEFINE answer == [Work!NoAnswer EXCEPT !.text = "model"]
  <2>1. PICK learnt \in {{"memory"}, {}} : read' = [read EXCEPT ![r] = learnt]
    BY <1>2 DEF Work!General, Work!Recalled
  <2>2. ask[r].at = "work" /\ Work!Drafted(r, answer) /\ UNCHANGED <<spec, tasks, planned>>
    BY <1>2 DEF Work!General, Work!Worker
  <2>3. /\ answer \in Answered /\ answer.claims = {} /\ answer.text = "model"
        /\ answer.grounded = FALSE /\ answer.sources = FALSE /\ answer.web = FALSE
    BY AnswerFields DEF Answered
  <2> HIDE DEF answer
  <2>4. planned[r] = {}
    BY <1>1, <2>2 DEF WorkedInv
  <2>5. Honest(answer, planned[r], learnt) /\ learnt \in SUBSET {"memory", "documents", "web", "calendar"}
    BY <2>1, <2>3 DEF Honest
  <2> QED BY <2>1, <2>2, <2>3, <2>4, <2>5, DraftFields
<1>3. CASE Work!Knowledge(r)
  <2>1. PICK found \in BOOLEAN :
          /\ Work!Drafted(r, [Work!NoAnswer EXCEPT !.text = IF found THEN "model" ELSE "fixed",
                                                   !.grounded = found, !.sources = found])
          /\ read' = [read EXCEPT ![r] = IF found THEN {"documents"} ELSE {}]
    BY <1>3 DEF Work!Knowledge
  <2> DEFINE answer == [Work!NoAnswer EXCEPT !.text = IF found THEN "model" ELSE "fixed",
                                             !.grounded = found, !.sources = found]
             learnt == IF found THEN {"documents"} ELSE {}
  <2>2. ask[r].at = "work" /\ Work!Drafted(r, answer) /\ UNCHANGED <<spec, tasks, planned>>
        /\ read' = [read EXCEPT ![r] = learnt]
    BY <1>3, <2>1 DEF Work!Knowledge, Work!Worker
  <2>3. /\ answer \in Answered /\ answer.claims = {} /\ answer.text \in {"model", "fixed"}
        /\ answer.grounded = found /\ answer.sources = found /\ answer.web = FALSE
    BY AnswerFields DEF Answered
  <2> HIDE DEF answer
  <2>4. planned[r] = {}
    BY <1>1, <2>2 DEF WorkedInv
  <2>5. Honest(answer, planned[r], learnt) /\ learnt \in SUBSET {"memory", "documents", "web", "calendar"}
    BY <2>3 DEF Honest
  <2> HIDE DEF learnt
  <2> QED BY <2>2, <2>3, <2>4, <2>5, DraftFields
<1>4. CASE Work!Research(r)
  <2>1. PICK found \in BOOLEAN :
          /\ Work!Drafted(r, [Work!NoAnswer EXCEPT !.text = IF found THEN "model" ELSE "fixed", !.web = found])
          /\ read' = [read EXCEPT ![r] = IF found THEN {"web"} ELSE {}]
    BY <1>4 DEF Work!Research
  <2> DEFINE answer == [Work!NoAnswer EXCEPT !.text = IF found THEN "model" ELSE "fixed", !.web = found]
             learnt == IF found THEN {"web"} ELSE {}
  <2>2. ask[r].at = "work" /\ Work!Drafted(r, answer) /\ UNCHANGED <<spec, tasks, planned>>
        /\ read' = [read EXCEPT ![r] = learnt]
    BY <1>4, <2>1 DEF Work!Research, Work!Worker
  <2>3. /\ answer \in Answered /\ answer.claims = {} /\ answer.text \in {"model", "fixed"}
        /\ answer.grounded = FALSE /\ answer.sources = FALSE /\ answer.web = found
    BY AnswerFields DEF Answered
  <2> HIDE DEF answer
  <2>4. planned[r] = {}
    BY <1>1, <2>2 DEF WorkedInv
  <2>5. Honest(answer, planned[r], learnt) /\ learnt \in SUBSET {"memory", "documents", "web", "calendar"}
    BY <2>3 DEF Honest
  <2> HIDE DEF learnt
  <2> QED BY <2>2, <2>3, <2>4, <2>5, DraftFields
<1>5. CASE Work!Calendar(r)
  <2>1. PICK readable \in BOOLEAN :
          /\ Work!Drafted(r, [Work!NoAnswer EXCEPT !.text = IF readable THEN "model" ELSE "fixed", !.grounded = readable])
          /\ read' = [read EXCEPT ![r] = IF readable THEN {"calendar"} ELSE {}]
    BY <1>5 DEF Work!Calendar
  <2> DEFINE answer == [Work!NoAnswer EXCEPT !.text = IF readable THEN "model" ELSE "fixed", !.grounded = readable]
             learnt == IF readable THEN {"calendar"} ELSE {}
  <2>2. ask[r].at = "work" /\ Work!Drafted(r, answer) /\ UNCHANGED <<spec, tasks, planned>>
        /\ read' = [read EXCEPT ![r] = learnt]
    BY <1>5, <2>1 DEF Work!Calendar, Work!Worker
  <2>3. /\ answer \in Answered /\ answer.claims = {} /\ answer.text \in {"model", "fixed"}
        /\ answer.grounded = readable /\ answer.sources = FALSE /\ answer.web = FALSE
    BY AnswerFields DEF Answered
  <2> HIDE DEF answer
  <2>4. planned[r] = {}
    BY <1>1, <2>2 DEF WorkedInv
  <2>5. Honest(answer, planned[r], learnt) /\ learnt \in SUBSET {"memory", "documents", "web", "calendar"}
    BY <2>3 DEF Honest
  <2> HIDE DEF learnt
  <2> QED BY <2>2, <2>3, <2>4, <2>5, DraftFields
<1>6. CASE Work!PlanUnreadable(r)
  <2> DEFINE answer == [Work!NoAnswer EXCEPT !.text = "unparseable"]
  <2>1. read' = [read EXCEPT ![r] = read[r]] /\ read[r] \in SUBSET {"memory", "documents", "web", "calendar"}
    BY <1>1, <1>6 DEF Work!PlanUnreadable
  <2>2. ask[r].at = "work" /\ Work!Drafted(r, answer) /\ UNCHANGED <<spec, tasks, planned>>
    BY <1>6 DEF Work!PlanUnreadable, Work!Worker
  <2>3. /\ answer \in Answered /\ answer.claims = {} /\ answer.text = "unparseable"
        /\ answer.grounded = FALSE /\ answer.sources = FALSE /\ answer.web = FALSE
    BY AnswerFields DEF Answered
  <2> HIDE DEF answer
  <2>4. planned[r] = {}
    BY <1>1, <2>2 DEF WorkedInv
  <2>5. Honest(answer, planned[r], read[r])
    BY <2>3, <2>4 DEF Honest
  <2> QED BY <2>1, <2>2, <2>3, <2>4, <2>5, DraftFields
<1>7. CASE Work!ListPlan(r)
  <2> DEFINE answer == [Work!NoAnswer EXCEPT !.text = "list", !.claims = ask[r].answer.claims]
  <2>1. read' = [read EXCEPT ![r] = read[r]] /\ read[r] \in SUBSET {"memory", "documents", "web", "calendar"}
    BY <1>1, <1>7 DEF Work!ListPlan
  <2>2. ask[r].at = "planned" /\ Work!Drafted(r, answer) /\ UNCHANGED <<spec, tasks, planned>>
    BY <1>7 DEF Work!ListPlan
  <2>3. ask[r].answer.claims \in SUBSET Nat
    BY <1>1 DEF Worked, Answered
  <2>4. /\ answer \in Answered /\ answer.claims = ask[r].answer.claims /\ answer.text = "list"
        /\ answer.grounded = FALSE /\ answer.sources = FALSE /\ answer.web = FALSE
    BY <2>3, AnswerFields DEF Answered
  <2> HIDE DEF answer
  <2>5. ask[r].answer.claims = planned[r]
    BY <1>1, <2>2 DEF WorkedInv
  <2>6. Honest(answer, planned[r], read[r])
    BY <2>4, <2>5 DEF Honest
  <2> QED BY <2>1, <2>2, <2>4, <2>5, <2>6, DraftFields, ZenonT(40)
<1> QED BY <1>2, <1>3, <1>4, <1>5, <1>6, <1>7

(* A route is one the version enables. *)
LEMMA RoutedIsEnabled ==
    ASSUME WorkTypeOK, NEW route
    PROVE  Work!Routed(route) \in Work!Enabled /\ Work!Enabled \subseteq Work!AgentNames
  BY DEF WorkTypeOK, Work!Routed, Work!Enabled, Work!Accepted

LEMMA RestIsHonest ==
    ASSUME WorkInv, NEW r \in Asks,
           Work!Supervise(r) \/ Work!Fail(r) \/ Work!Gate(r) \/ Work!Approve(r) \/ Work!Reject(r) \/ Work!Record(r)
    PROVE  WorkInv'
<1>1. /\ WorkedInv(r) /\ ask[r] \in Worked /\ ask \in [Asks -> Worked]
      /\ read[r] \in SUBSET {"memory", "documents", "web", "calendar"} /\ read = [read EXCEPT ![r] = read[r]]
  BY DEF WorkInv, WorkTypeOK
<1>2. UNCHANGED <<spec, tasks, planned>> /\ read' = [read EXCEPT ![r] = read[r]]
  BY <1>1 DEF Work!Supervise, Work!Fail, Work!Gate, Work!Approve, Work!Reject, Work!Record
<1>3. Honest(ask[r].answer, planned[r], read[r])
  BY <1>1 DEF WorkedInv
<1>4. CASE Work!Supervise(r)
  <2>0. PICK reviewed \in BOOLEAN : \E route :
          ask' = [ask EXCEPT ![r].at = "work", ![r].route = Work!Routed(route), ![r].reviewed = reviewed]
    BY <1>4 DEF Work!Supervise
  <2>1. PICK route : ask' = [ask EXCEPT ![r].at = "work", ![r].route = Work!Routed(route), ![r].reviewed = reviewed]
    BY <2>0
  <2> DEFINE a == [ask[r] EXCEPT !.at = "work", !.route = Work!Routed(route), !.reviewed = reviewed]
  <2>2. ask' = [ask EXCEPT ![r] = a] /\ ask[r].at = "idle"
    BY <1>1, <1>4, <2>1 DEF Work!Supervise
  <2>3. Work!Routed(route) \in Work!Enabled /\ Work!Enabled \subseteq Work!AgentNames
    BY RoutedIsEnabled DEF WorkInv
  <2>4. /\ a \in Worked /\ a.at = "work" /\ a.route = Work!Routed(route) /\ a.answer = ask[r].answer
        /\ a.decision = ask[r].decision
    BY <1>1, <2>3 DEF Worked, WorkPlaces
  <2> HIDE DEF a
  <2>5. a.decision = "none" /\ planned[r] = {} /\ a.answer.claims = {} /\ a.answer.text = "none"
    BY <1>1, <2>2, <2>4 DEF WorkedInv, Worked
  <2> QED BY <1>1, <1>2, <1>3, <2>2, <2>3, <2>4, <2>5, OneWorked, ZenonT(40)
<1>5. CASE Work!Fail(r)
  <2> DEFINE a == [ask[r] EXCEPT !.at = "failed"]
  <2>1. ask' = [ask EXCEPT ![r] = a] /\ ask[r].at # "idle"
    BY <1>1, <1>5 DEF Work!Fail
  <2>2. /\ a \in Worked /\ a.at = "failed" /\ a.route = ask[r].route /\ a.answer = ask[r].answer
        /\ a.decision = ask[r].decision
    BY <1>1 DEF Worked, WorkPlaces
  <2> HIDE DEF a
  <2>3. a.route \in Work!Enabled
    BY <1>1, <2>1, <2>2 DEF WorkedInv
  <2> QED BY <1>1, <1>2, <1>3, <2>1, <2>2, <2>3, OneWorked
<1>6. CASE Work!Gate(r)
  <2>1. PICK there \in {"review", "finished"} : ask' = [ask EXCEPT ![r] = [ask[r] EXCEPT !.at = there]]
    <3>1. ask' = [ask EXCEPT ![r] = [ask[r] EXCEPT !.at = IF spec.gate /\ ask[r].reviewed THEN "review" ELSE "finished"]]
      BY <1>1, <1>6 DEF Work!Gate
    <3> QED BY <3>1
  <2> DEFINE a == [ask[r] EXCEPT !.at = there]
  <2>2. ask' = [ask EXCEPT ![r] = a] /\ ask[r].at = "drafted"
    BY <1>6, <2>1 DEF Work!Gate
  <2>3. /\ a \in Worked /\ a.at = there /\ a.route = ask[r].route /\ a.answer = ask[r].answer
        /\ a.decision = ask[r].decision
    BY <1>1 DEF Worked, WorkPlaces
  <2> HIDE DEF a
  <2>4. a.route \in Work!Enabled /\ a.decision = "none" /\ ask[r].answer.claims = planned[r]
    BY <1>1, <2>2, <2>3 DEF WorkedInv, Worked
  <2> QED BY <1>1, <1>2, <1>3, <2>2, <2>3, <2>4, OneWorked, ZenonT(40)
<1>7. CASE Work!Approve(r)
  <2> DEFINE a == [ask[r] EXCEPT !.at = "finished", !.decision = "approved"]
  <2>1. ask' = [ask EXCEPT ![r] = a] /\ ask[r].at = "review"
    BY <1>1, <1>7 DEF Work!Approve
  <2>2. /\ a \in Worked /\ a.at = "finished" /\ a.route = ask[r].route /\ a.answer = ask[r].answer
    BY <1>1 DEF Worked, WorkPlaces
  <2> HIDE DEF a
  <2>3. a.route \in Work!Enabled /\ ask[r].decision = "none"
    BY <1>1, <2>1, <2>2 DEF WorkedInv, Worked
  <2>4. ask[r].answer.claims = planned[r]
    BY <1>1, <2>1, <2>3 DEF WorkedInv
  <2> QED BY <1>1, <1>2, <1>3, <2>1, <2>2, <2>3, <2>4, OneWorked, ZenonT(40)
<1>8. CASE Work!Reject(r)
  <2> DEFINE answer == [ask[r].answer EXCEPT !.text = "rejected", !.grounded = FALSE, !.sources = FALSE, !.claims = {}]
             a == [ask[r] EXCEPT !.at = "finished", !.decision = "rejected", !.answer = answer]
  <2>1. ask' = [ask EXCEPT ![r] = a] /\ ask[r].at = "review"
    BY <1>1, <1>8 DEF Work!Reject
  <2>2. /\ answer \in Answered /\ answer.text = "rejected" /\ answer.claims = {}
        /\ answer.grounded = FALSE /\ answer.sources = FALSE /\ answer.web = ask[r].answer.web
    BY <1>1 DEF Worked, Answered
  <2> HIDE DEF answer
  <2>3. /\ a \in Worked /\ a.at = "finished" /\ a.route = ask[r].route /\ a.answer = answer
        /\ a.decision = "rejected"
    BY <1>1, <2>2 DEF Worked, WorkPlaces
  <2> HIDE DEF a
  <2>4. a.route \in Work!Enabled
    BY <1>1, <2>1, <2>3 DEF WorkedInv
  <2>5. Honest(answer, planned[r], read[r])
    BY <1>3, <2>2 DEF Honest
  <2> QED BY <1>1, <1>2, <2>1, <2>3, <2>4, <2>5, OneWorked
<1>9. CASE Work!Record(r)
  <2> DEFINE told == [ask[r].answer EXCEPT !.web = ask[r].answer.web /\ ask[r].decision = "none"]
             a == [ask[r] EXCEPT !.at = "recorded", !.recorded = told]
  <2>1. ask' = [ask EXCEPT ![r] = a] /\ ask[r].at = "finished"
    BY <1>1, <1>9 DEF Work!Record
  <2>2. told \in Answered
    <3>1. (ask[r].answer.web /\ ask[r].decision = "none") \in BOOLEAN
      OBVIOUS
    <3> QED BY <1>1, <3>1 DEF Worked, Answered
  <2> HIDE DEF told
  <2>3. /\ a \in Worked /\ a.at = "recorded" /\ a.route = ask[r].route /\ a.answer = ask[r].answer
        /\ a.decision = ask[r].decision
    BY <1>1, <2>2 DEF Worked, WorkPlaces
  <2> HIDE DEF a
  <2>4. a.route \in Work!Enabled
    BY <1>1, <2>1, <2>3 DEF WorkedInv
  <2>5. a.answer.claims # planned[r] => a.decision = "rejected"
    BY <1>1, <2>1, <2>3 DEF WorkedInv
  <2> QED BY <1>1, <1>2, <1>3, <2>1, <2>3, <2>4, <2>5, OneWorked
<1> QED BY <1>4, <1>5, <1>6, <1>7, <1>8, <1>9

(* Tasks come by the next numbers. *)
LEMMA MoreTasks ==
    ASSUME WorkTypeOK, NEW n \in Nat, NEW entry \in [ask : Asks \cup {Work!Nobody}, status : {"todo", "done"}],
           tasks' = Work!WithTasks(Work!Fresh(n), entry), planned' \in [Asks -> SUBSET Nat],
           \A q \in Asks : planned'[q] \subseteq planned[q] \cup Work!Fresh(n)
    PROVE  /\ tasks' \in [DOMAIN tasks' -> [ask : Asks \cup {Work!Nobody}, status : {"todo", "done"}]]
           /\ DOMAIN tasks' = DOMAIN tasks \cup Work!Fresh(n)
           /\ \A id \in Work!Fresh(n) : tasks'[id] = entry
           /\ \A id \in DOMAIN tasks \ Work!Fresh(n) : tasks'[id] = tasks[id]
           /\ Work!Numbered' \subseteq Nat
           /\ \E last \in Nat : \A id \in Work!Numbered' : id <= last
<1>1. Work!LastId \in Nat /\ \A id \in Work!Numbered : id <= Work!LastId
  BY LastTask
<1>2. Work!Fresh(n) \subseteq Nat /\ \A id \in Work!Fresh(n) : id <= Work!LastId + n
  BY <1>1 DEF Work!Fresh
<1>3. /\ DOMAIN tasks' = DOMAIN tasks \cup Work!Fresh(n)
      /\ \A id \in Work!Fresh(n) : tasks'[id] = entry
      /\ \A id \in DOMAIN tasks \ Work!Fresh(n) : tasks'[id] = tasks[id]
      /\ tasks' \in [DOMAIN tasks' -> [ask : Asks \cup {Work!Nobody}, status : {"todo", "done"}]]
  BY DEF Work!WithTasks, WorkTypeOK
<1>5. Work!Numbered' \subseteq Work!Numbered \cup Work!Fresh(n)
  <2>1. Work!Planned' \subseteq Work!Planned \cup Work!Fresh(n)
    BY DEF Work!Planned
  <2> QED BY <1>3, <2>1 DEF Work!Numbered
<1>6. \A id \in Work!Numbered' : id \in Nat /\ id <= Work!LastId + n
  <2>1. \A id \in Work!Numbered : id \in Nat /\ id <= Work!LastId + n
    BY <1>1 DEF WorkTypeOK
  <2> QED BY <1>2, <1>5, <2>1
<1>7. Work!LastId + n \in Nat
  BY <1>1
<1> QED BY <1>3, <1>6, <1>7

LEMMA PlansAreTold == ASSUME WorkInv, NEW r \in Asks, Work!CommitPlan(r) PROVE WorkInv'
<1>1. PICK reply \in Work!Replies :
        LET ids == Work!Fresh(Work!Cardinality(Work!Valid(reply))) IN
        /\ ids # {}
        /\ tasks' = Work!WithTasks(ids, [ask |-> r, status |-> "todo"])
        /\ planned' = [planned EXCEPT ![r] = ids]
        /\ ask' = [ask EXCEPT ![r].at = "planned", ![r].answer.claims = ids]
  BY DEF Work!CommitPlan
<1>2. PICK n \in Nat : n = Work!Cardinality(Work!Valid(reply))
  BY PlanIsShort DEF WorkInv
<1> DEFINE ids == Work!Fresh(n)
           entry == [ask |-> r, status |-> "todo"]
           told == [ask[r].answer EXCEPT !.claims = ids]
           a == [ask[r] EXCEPT !.at = "planned", !.answer = told]
<1>3. /\ tasks' = Work!WithTasks(ids, entry) /\ planned' = [planned EXCEPT ![r] = ids]
      /\ ask' = [ask EXCEPT ![r].at = "planned", ![r].answer.claims = ids]
  BY <1>1, <1>2
<1>4. ids \subseteq Nat /\ Cardinality(ids) <= MAX_TASKS
  BY <1>2, PlanIsShort DEF WorkInv
<1>5. /\ WorkTypeOK /\ WorkedInv(r) /\ ask[r] \in Worked /\ ask \in [Asks -> Worked] /\ ask[r].at = "work"
      /\ UNCHANGED <<spec, read>>
  BY DEF WorkInv, WorkTypeOK, Work!CommitPlan, Work!Worker
<1> HIDE DEF ids
<1>6. ask' = [ask EXCEPT ![r] = a]
  BY <1>3, <1>5
<1>7. /\ told \in Answered /\ told.claims = ids /\ told.text = ask[r].answer.text
      /\ told.grounded = ask[r].answer.grounded /\ told.sources = ask[r].answer.sources
      /\ told.web = ask[r].answer.web
  BY <1>4, <1>5 DEF Worked, Answered
<1> HIDE DEF told
<1>8. /\ a \in Worked /\ a.at = "planned" /\ a.route = ask[r].route /\ a.answer = told
      /\ a.decision = ask[r].decision
  BY <1>5, <1>7 DEF Worked, WorkPlaces
<1> HIDE DEF a
<1>9. entry \in [ask : Asks \cup {Work!Nobody}, status : {"todo", "done"}] /\ entry.ask = r
  OBVIOUS
<1> HIDE DEF entry
<1>10. planned' \in [Asks -> SUBSET Nat] /\ \A q \in Asks : planned'[q] \subseteq planned[q] \cup ids
  BY <1>3, <1>4, <1>5 DEF WorkTypeOK
<1>11. /\ tasks' \in [DOMAIN tasks' -> [ask : Asks \cup {Work!Nobody}, status : {"todo", "done"}]]
       /\ DOMAIN tasks' = DOMAIN tasks \cup ids
       /\ \A id \in ids : tasks'[id] = entry
       /\ \A id \in DOMAIN tasks \ ids : tasks'[id] = tasks[id]
       /\ Work!Numbered' \subseteq Nat
       /\ \E last \in Nat : \A id \in Work!Numbered' : id <= last
  BY <1>3, <1>5, <1>9, <1>10, MoreTasks DEF ids
<1>12. WorkTypeOK'
  <2>1. ask' \in [Asks -> Worked]
    BY <1>5, <1>6, <1>8
  <2> QED BY <1>5, <1>11, <1>10, <2>1 DEF WorkTypeOK
<1>13. /\ ask'[r] = a /\ planned'[r] = ids
       /\ \A q \in Asks : q # r => ask'[q] = ask[q] /\ planned'[q] = planned[q]
  BY <1>3, <1>5, <1>6 DEF WorkTypeOK
<1>14. Work!Enabled' = Work!Enabled
  BY <1>5 DEF Work!Enabled
<1>15. ask[r].answer.text # "unparseable" \/ ids = {}
  <2>1. ask[r].answer.text = "none"
    BY <1>5 DEF WorkedInv
  <2> QED BY <2>1
<1>16. WorkedInv(r)'
  <2>1. Honest(told, ids, read[r])
    BY <1>5, <1>7, <1>15 DEF WorkedInv, Honest
  <2>2. \A id \in DOMAIN tasks' : tasks'[id].ask = r => id \in ids
    BY <1>5, <1>11 DEF WorkedInv
  <2>3. a.decision = "none" /\ a.route \in Work!Enabled
    BY <1>5, <1>8 DEF WorkedInv, Worked
  <2>4. read'[r] = read[r] /\ a.answer.claims = ids
    BY <1>5, <1>7, <1>8
  <2> QED BY <1>4, <1>8, <1>13, <1>14, <2>1, <2>2, <2>3, <2>4 DEF WorkedInv
<1>17. ASSUME NEW q \in Asks, q # r PROVE WorkedInv(q)'
  <2>1. \A id \in DOMAIN tasks' : tasks'[id].ask = q => id \in planned[q]
    <3>1. WorkedInv(q)
      BY DEF WorkInv
    <3> QED BY <1>9, <1>11, <1>17, <3>1 DEF WorkedInv
  <2> QED BY <1>5, <1>13, <1>14, <1>17, <2>1 DEF WorkInv, WorkedInv
<1> QED BY <1>12, <1>16, <1>17 DEF WorkInv

(* What the user does to the list is no ask's. *)
LEMMA ListIsNobodys ==
    ASSUME WorkInv, UNCHANGED <<spec, ask, planned, read>>,
           tasks' \in [DOMAIN tasks' -> [ask : Asks \cup {Work!Nobody}, status : {"todo", "done"}]],
           Work!Numbered' \subseteq Nat, \E last \in Nat : \A id \in Work!Numbered' : id <= last,
           \A id \in DOMAIN tasks' : \/ tasks'[id].ask = Work!Nobody
                                     \/ id \in DOMAIN tasks /\ tasks'[id].ask = tasks[id].ask
    PROVE  WorkInv'
<1>1. WorkTypeOK'
  BY DEF WorkInv, WorkTypeOK
<1>2. Work!Enabled' = Work!Enabled
  BY DEF Work!Enabled
<1>3. ASSUME NEW r \in Asks PROVE WorkedInv(r)'
  <2>1. r # Work!Nobody
    BY AsksAssumption DEF Work!Nobody
  <2> QED BY <1>2, <2>1 DEF WorkInv, WorkedInv
<1> QED BY <1>1, <1>3 DEF WorkInv

LEMMA UsersAreHonest ==
    ASSUME WorkInv, \/ Work!Create
                    \/ \E id \in DOMAIN tasks : Work!Update(id) \/ Work!Delete(id)
    PROVE  WorkInv'
<1>1. WorkTypeOK
  BY DEF WorkInv
<1>2. CASE Work!Create
  <2> DEFINE entry == [ask |-> Work!Nobody, status |-> "todo"]
  <2>1. tasks' = Work!WithTasks(Work!Fresh(1), entry) /\ UNCHANGED <<spec, ask, planned, read>>
    BY <1>2 DEF Work!Create
  <2>2. entry \in [ask : Asks \cup {Work!Nobody}, status : {"todo", "done"}] /\ entry.ask = Work!Nobody
    OBVIOUS
  <2> HIDE DEF entry
  <2>3. planned' \in [Asks -> SUBSET Nat] /\ \A q \in Asks : planned'[q] \subseteq planned[q] \cup Work!Fresh(1)
    BY <1>1, <2>1 DEF WorkTypeOK
  <2>4. /\ tasks' \in [DOMAIN tasks' -> [ask : Asks \cup {Work!Nobody}, status : {"todo", "done"}]]
        /\ DOMAIN tasks' = DOMAIN tasks \cup Work!Fresh(1)
        /\ \A id \in Work!Fresh(1) : tasks'[id] = entry
        /\ \A id \in DOMAIN tasks \ Work!Fresh(1) : tasks'[id] = tasks[id]
        /\ Work!Numbered' \subseteq Nat
        /\ \E last \in Nat : \A id \in Work!Numbered' : id <= last
    BY <1>1, <2>1, <2>2, <2>3, MoreTasks
  <2>5. \A id \in DOMAIN tasks' : \/ tasks'[id].ask = Work!Nobody
                                  \/ id \in DOMAIN tasks /\ tasks'[id].ask = tasks[id].ask
    BY <2>2, <2>4
  <2> QED BY <2>1, <2>4, <2>5, ListIsNobodys
<1>3. ASSUME NEW id \in DOMAIN tasks, Work!Update(id) PROVE WorkInv'
  <2>1. PICK change \in {"todo", "done"} : tasks' = [tasks EXCEPT ![id].status = change]
    BY <1>3 DEF Work!Update
  <2>2. /\ DOMAIN tasks' = DOMAIN tasks /\ UNCHANGED <<spec, ask, planned, read>>
        /\ tasks' \in [DOMAIN tasks -> [ask : Asks \cup {Work!Nobody}, status : {"todo", "done"}]]
        /\ \A k \in DOMAIN tasks : tasks'[k].ask = tasks[k].ask
    BY <1>1, <1>3, <2>1 DEF Work!Update, WorkTypeOK
  <2>3. Work!Numbered' = Work!Numbered
    BY <2>2 DEF Work!Numbered, Work!Planned
  <2>4. Work!Numbered' \subseteq Nat /\ \E last \in Nat : \A k \in Work!Numbered' : k <= last
    BY <1>1, <2>3 DEF WorkTypeOK
  <2>5. tasks' \in [DOMAIN tasks' -> [ask : Asks \cup {Work!Nobody}, status : {"todo", "done"}]]
    BY <2>2
  <2> QED BY <2>2, <2>4, <2>5, ListIsNobodys
<1>4. ASSUME NEW id \in DOMAIN tasks, Work!Delete(id) PROVE WorkInv'
  <2>1. tasks' = [k \in DOMAIN tasks \ {id} |-> tasks[k]] /\ UNCHANGED <<spec, ask, planned, read>>
    BY <1>4 DEF Work!Delete
  <2>2. /\ DOMAIN tasks' \subseteq DOMAIN tasks
        /\ tasks' \in [DOMAIN tasks' -> [ask : Asks \cup {Work!Nobody}, status : {"todo", "done"}]]
        /\ \A k \in DOMAIN tasks' : tasks'[k] = tasks[k]
    BY <1>1, <2>1 DEF WorkTypeOK
  <2>3. Work!Numbered' \subseteq Work!Numbered
    BY <2>1, <2>2 DEF Work!Numbered, Work!Planned
  <2>4. Work!Numbered' \subseteq Nat /\ \E last \in Nat : \A k \in Work!Numbered' : k <= last
    BY <1>1, <2>3 DEF WorkTypeOK
  <2> QED BY <2>1, <2>2, <2>4, ListIsNobodys
<1> QED BY <1>2, <1>3, <1>4

LEMMA WorkInitial == PlatformInit => WorkInv
<1> SUFFICES ASSUME PlatformInit PROVE WorkInv
  OBVIOUS
<1>1. /\ spec \in Work!Accepted /\ ask = [r \in Asks |-> Work!Idle] /\ tasks = [id \in {} |-> 0]
      /\ planned = [r \in Asks |-> {}] /\ read = [r \in Asks |-> {}]
  BY DEF PlatformInit, Work!Init
<1>2. /\ Work!Idle \in Worked /\ Work!Idle.at = "idle" /\ Work!Idle.answer = Work!NoAnswer
      /\ Work!Idle.decision = "none"
  BY AnswerFields DEF Work!Idle, Worked, WorkPlaces, Work!AgentNames, Work!Nobody
<1>3. DOMAIN tasks = {} /\ Work!Planned = {} /\ Work!Numbered = {0}
  <2>1. DOMAIN tasks = {} /\ Work!Planned = {}
    BY <1>1 DEF Work!Planned
  <2> QED BY <2>1 DEF Work!Numbered
<1>4. WorkTypeOK
  <2>1. tasks \in [DOMAIN tasks -> [ask : Asks \cup {Work!Nobody}, status : {"todo", "done"}]]
    BY <1>1
  <2>2. Work!Numbered \subseteq Nat /\ \A id \in Work!Numbered : id <= 0
    BY <1>3
  <2> QED BY <1>1, <1>2, <2>1, <2>2 DEF WorkTypeOK
<1>5. ASSUME NEW r \in Asks PROVE WorkedInv(r)
  <2>1. Cardinality({}) = 0 /\ 0 <= MAX_TASKS
    BY FS_EmptySet, SizesAssumption
  <2> QED BY <1>1, <1>2, <1>3, <2>1, AnswerFields DEF WorkedInv, Honest
<1> QED BY <1>4, <1>5 DEF WorkInv

(* What an answer says was done was done: the tasks it claims are the ones *)
(* its ask has committed, all of them unless a reviewer rejected the plan  *)
(* or the request failed, at most MAX_TASKS, none for a plan that could    *)
(* not be read; the documents, the calendar and the web it says it used    *)
(* were read for it; and its worker is one the version enables             *)
(* (SupervisorAgent, PlannerAgent, KnowledgeAgent, ResearchAgent,          *)
(* CalendarAgent).                                                         *)
THEOREM AnswersAreTrue == PlatformSpec => []AnswersClaimWhatWasDone
<1>1. WorkInv /\ [PlatformNext]_allVars => WorkInv'
  <2> SUFFICES ASSUME WorkInv, [PlatformNext]_allVars PROVE WorkInv'
    OBVIOUS
  <2>1. CASE Work!Next
    BY <2>1, WorkersAreHonest, RestIsHonest, PlansAreTold, UsersAreHonest DEF Work!Next, Work!AskStep
  <2>2. CASE UNCHANGED workVars
    <3> USE DEF workVars
    <3>1. Work!Numbered' = Work!Numbered /\ Work!Enabled' = Work!Enabled
      BY <2>2 DEF Work!Numbered, Work!Planned, Work!Enabled
    <3> QED BY <2>2, <3>1 DEF WorkInv, WorkTypeOK, WorkedInv
  <2> QED BY <2>1, <2>2 DEF PlatformNext, allVars
<1>2. WorkInv => Work!AnswersClaimWhatWasDone
  BY WorkCounts DEF WorkInv, WorkedInv, Honest, Work!AnswersClaimWhatWasDone
<1> QED BY <1>1, <1>2, WorkInitial, PTL DEF PlatformSpec, AnswersClaimWhatWasDone

----------------------------------------------------------------------------
(* The thread: Conversations. *)

ThreadPlaces == {"idle", "resolved", "answering", "append", "recorded", "lost"}
Message == [ask : Requests, role : {"user", "assistant"}, position : Nat]
Turn == [at : ThreadPlaces, history : Seq(Message), position : Nat]
Positions == {m.position : m \in thread}

Sorted(h) == \A i, j \in DOMAIN h : i < j => h[i].position <= h[j].position
Exchanges(h) ==
    \A i \in DOMAIN h : IF i % 2 = 1 THEN /\ h[i].role = "user"
                                          /\ i < Len(h)
                                          /\ h[i + 1] = Thread!Reply(h[i].ask, h[i].position + 1)
                        ELSE h[i].role = "assistant"

ThreadTypeOK ==
    /\ turn \in [Requests -> Turn]
    /\ overlapped \in BOOLEAN
    /\ thread \subseteq Message
    /\ IsFiniteSet(thread)
    /\ \E n \in Nat : \A p \in Positions : p <= n

(* An ask that has recorded has its two messages in the thread, and nobody *)
(* else has any.                                                           *)
MessagesInv ==
    /\ \A m \in thread :
          /\ turn[m.ask].at = "recorded"
          /\ \/ m = Thread!Question(m.ask, turn[m.ask].position)
             \/ m = Thread!Reply(m.ask, turn[m.ask].position + 1)
    /\ \A a \in Requests : turn[a].at = "recorded" =>
          /\ Thread!Question(a, turn[a].position) \in thread
          /\ Thread!Reply(a, turn[a].position + 1) \in thread

HistoryInv(h) ==
    /\ \A i \in DOMAIN h : h[i] \in thread
    /\ Sorted(h)
    /\ ~overlapped => Exchanges(h)

(* One after another: the positions taken are the first ones, in pairs.    *)
InPairs(k) ==
    /\ Cardinality(thread) = 2 * k
    /\ Positions = 0..(2 * k - 1)
    /\ \A m, n \in thread : m.position = n.position => m = n
    /\ \A m \in thread : m.role = "user" <=> m.position % 2 = 0
    /\ \A a, b \in Thread!Appending : a = b /\ turn[a].position = 2 * k

ThreadInv ==
    /\ ThreadTypeOK
    /\ MessagesInv
    /\ \A a \in Requests : HistoryInv(turn[a].history)
    /\ ~overlapped => \E k \in Nat : InPairs(k)

----------------------------------------------------------------------------
LEMMA ThreadCounts == \A S : Thread!Cardinality(S) = Cardinality(S)
  BY DEF Thread!Cardinality, Cardinality

LEMMA ExchangeParts ==
    /\ \A a, p : Thread!Question(a, p).ask = a /\ Thread!Question(a, p).role = "user" /\ Thread!Question(a, p).position = p
    /\ \A a, p : Thread!Reply(a, p).ask = a /\ Thread!Reply(a, p).role = "assistant" /\ Thread!Reply(a, p).position = p
    /\ \A a \in Requests : \A p \in Nat : Thread!Question(a, p) \in Message /\ Thread!Reply(a, p) \in Message
  BY DEF Thread!Question, Thread!Reply, Message

(* Even and odd. *)
LEMMA TwiceIsEven == ASSUME NEW k \in Nat PROVE (2 * k) % 2 = 0
  BY SMT
LEMMA EvenLessEven == ASSUME NEW a \in Nat, NEW b \in Nat, a % 2 = 0, b % 2 = 0, b <= a PROVE (a - b) % 2 = 0
  BY SMT
LEMMA BeforeOdd ==
    ASSUME NEW a \in Nat, NEW b \in Nat, a % 2 = 0, b % 2 = 1
    PROVE  (a + b - 1) % 2 = 0 /\ (b <= a => b < a)
  BY SMT
LEMMA BeforeEven == ASSUME NEW a \in Nat, NEW b \in Nat, a % 2 = 0, b % 2 # 1 PROVE (a + b - 1) % 2 # 0
  BY SMT

(* What rises in as many steps as there are numbers takes each in turn.    *)
LEMMA Rising ==
    ASSUME NEW N \in Nat, NEW f \in [1..N -> 0..(N - 1)], \A i, j \in 1..N : i < j => f[i] < f[j]
    PROVE  \A i \in 1..N : f[i] = i - 1
<1>1. \A i \in 1..N : f[i] \in Nat /\ f[i] <= N - 1
  BY SMT
<1>2. \A i \in 1..N : f[i] >= i - 1
  <2> DEFINE Low == {i \in 1..N : f[i] < i - 1}
  <2> SUFFICES ASSUME NEW z \in 1..N, f[z] < z - 1 PROVE FALSE
    BY <1>1
  <2>1. PICK x \in Low : \A y \in Low : x <= y
    <3>1. Low \subseteq Nat /\ z \in Low
      OBVIOUS
    <3> HIDE DEF Low
    <3> QED BY <3>1, Least
  <2>2. x \in 1..N /\ f[x] < x - 1 /\ x > 1
    BY <1>1
  <2>3. x - 1 \in 1..N /\ x - 1 \notin Low
    BY <2>1, <2>2
  <2>4. f[x - 1] >= x - 2
    BY <1>1, <2>3
  <2>5. f[x - 1] < f[x]
    BY <2>2, <2>3
  <2> QED BY <1>1, <2>2, <2>3, <2>4, <2>5
<1>3. \A i \in 1..N : f[i] <= i - 1
  <2> DEFINE High == {i \in 1..N : f[i] > i - 1}
  <2> SUFFICES ASSUME NEW z \in 1..N, f[z] > z - 1 PROVE FALSE
    BY <1>1
  <2>1. PICK x \in High : \A y \in High : x >= y
    <3>1. High \subseteq Nat /\ z \in High /\ \A y \in High : y <= N
      OBVIOUS
    <3> HIDE DEF High
    <3> QED BY <3>1, Largest
  <2>2. x \in 1..N /\ f[x] > x - 1 /\ x < N
    BY <1>1
  <2>3. x + 1 \in 1..N /\ x + 1 \notin High
    BY <2>1, <2>2
  <2>4. f[x + 1] <= x
    BY <1>1, <2>3
  <2>5. f[x] < f[x + 1]
    BY <2>2, <2>3
  <2> QED BY <1>1, <2>2, <2>3, <2>4, <2>5
<1> QED BY <1>1, <1>2, <1>3

(* The next position is one more than the largest, or 0. *)
LEMMA NextIs ==
    ASSUME ThreadTypeOK
    PROVE  /\ Thread!NextPosition \in Nat
           /\ \A p \in Positions : p < Thread!NextPosition
           /\ Thread!NextPosition = 0 \/ Thread!NextPosition - 1 \in Positions
<1> DEFINE Shifted == {p + 1 : p \in Positions} \cup {0}
           T == Positions \cup {-1}
<1>1. Positions \subseteq Nat
  BY DEF Positions, ThreadTypeOK, Message
<1>2. PICK n \in Nat : \A p \in Positions : p <= n
  BY DEF ThreadTypeOK
<1>3. Shifted \subseteq Nat /\ Shifted # {} /\ \A y \in Shifted : y <= n + 1
  BY <1>1, <1>2
<1>4. PICK x \in Shifted : \A y \in Shifted : x >= y
  <2>1. n + 1 \in Nat
    OBVIOUS
  <2> HIDE DEF Shifted
  <2> QED BY <1>3, <2>1, Largest
<1>5. x - 1 \in T /\ \A y \in T : x - 1 >= y
  BY <1>1, <1>4
<1>6. Thread!Max(T) = CHOOSE y \in T : \A z \in T : y >= z
  BY DEF Thread!Max
<1>7. Thread!Max(T) \in T /\ \A z \in T : Thread!Max(T) >= z
  <2> HIDE DEF T
  <2> QED BY <1>5, <1>6
<1>8. Thread!NextPosition = Thread!Max(T) + 1
  BY DEF Thread!NextPosition, Positions
<1>9. T \subseteq Int
  BY <1>1
<1>10. -1 \in T /\ \A p \in Positions : p \in T
  OBVIOUS
<1>11. \A y \in T : y = -1 \/ y \in Positions
  OBVIOUS
<1> HIDE DEF Shifted, T
<1>12. /\ Thread!Max(T) \in Int /\ Thread!Max(T) >= -1 /\ \A p \in Positions : p <= Thread!Max(T)
       /\ Thread!Max(T) = -1 \/ Thread!Max(T) \in Positions
  BY <1>1, <1>7, <1>9, <1>10, <1>11
<1> QED BY <1>1, <1>8, <1>12

(* What the database may return, and what of it an ask is given. *)
LEMMA RecentIs ==
    ASSUME ThreadInv, NEW order \in Thread!Orders
    PROVE  LET N == Cardinality(thread)
               off == IF N > HISTORY_LIMIT THEN N - HISTORY_LIMIT ELSE 0
               h == Thread!Recent(order)
           IN  /\ N \in Nat /\ off \in 0..N
               /\ order \in [1..N -> thread]
               /\ \A i, j \in 1..N : i # j => order[i] # order[j]
               /\ \A i, j \in 1..N : i < j => order[i].position <= order[j].position
               /\ h \in Seq(Message) /\ Len(h) = N - off /\ DOMAIN h = 1..(N - off)
               /\ \A i \in 1..(N - off) : off + i \in 1..N /\ h[i] = order[off + i]
<1> DEFINE N == Cardinality(thread)
           off == IF N > HISTORY_LIMIT THEN N - HISTORY_LIMIT ELSE 0
           h == Thread!Recent(order)
<1>1. N \in Nat /\ thread \subseteq Message
  BY FS_CardinalityType DEF ThreadInv, ThreadTypeOK
<1>2. Thread!Cardinality(thread) = N
  BY ThreadCounts
<1>3. /\ order \in Thread!SetToSeqs(thread)
      /\ \A i, j \in DOMAIN order : i < j => order[i].position <= order[j].position
  BY DEF Thread!Orders
<1>4. order \in [1..N -> thread] /\ \A i, j \in 1..N : i # j => order[i] # order[j]
  BY <1>2, <1>3 DEF Thread!SetToSeqs
<1> HIDE DEF N
<1>5. order \in Seq(Message) /\ Len(order) = N /\ DOMAIN order = 1..N
  <2>1. order \in [1..N -> Message]
    BY <1>1, <1>4
  <2> QED BY <1>1, <2>1, SMT
<1>6. off \in 0..N
  BY <1>1, HistoryAssumption
<1>7. h = SubSeq(order, off + 1, N)
  BY <1>5 DEF Thread!Recent
<1> HIDE DEF off, h
<1>8. \A i \in (off + 1)..N : order[i] \in Message
  BY <1>1, <1>4, <1>6
<1>9. off + 1 \in Int /\ N \in Int
  BY <1>1, <1>6
<1>10. /\ h \in Seq(Message) /\ Len(h) = IF off + 1 <= N THEN N - (off + 1) + 1 ELSE 0
       /\ \A i \in 1..(N - (off + 1) + 1) : h[i] = order[off + 1 + i - 1]
  BY <1>7, <1>8, <1>9, SubSeqProperties
<1>11. Len(h) = N - off /\ \A i \in 1..(N - off) : off + i \in 1..N /\ h[i] = order[off + i]
  <2>1. N - (off + 1) + 1 = N - off /\ \A i \in 1..(N - off) : off + 1 + i - 1 = off + i /\ off + i \in 1..N
    BY <1>1, <1>6
  <2>2. Len(h) = N - off
    BY <1>1, <1>6, <1>10
  <2> QED BY <1>10, <2>1, <2>2
<1>12. DOMAIN h = 1..(N - off)
  BY <1>10, <1>11
<1> QED BY <1>1, <1>3, <1>4, <1>5, <1>6, <1>10, <1>11, <1>12 DEF N, off, h

(* While asks append one at a time, the order is that of the positions,    *)
(* and what is left of it begins with a question.                          *)
LEMMA PairsAreExchanges ==
    ASSUME ThreadInv, NEW order \in Thread!Orders, NEW k \in Nat, InPairs(k)
    PROVE  Exchanges(Thread!Recent(order))
<1>1. PICK N, off, h :
        /\ N \in Nat /\ off \in 0..N
        /\ h = Thread!Recent(order) /\ N = Cardinality(thread)
        /\ off = IF N > HISTORY_LIMIT THEN N - HISTORY_LIMIT ELSE 0
        /\ order \in [1..N -> thread]
        /\ \A i, j \in 1..N : i # j => order[i] # order[j]
        /\ \A i, j \in 1..N : i < j => order[i].position <= order[j].position
        /\ Len(h) = N - off /\ DOMAIN h = 1..(N - off)
        /\ \A i \in 1..(N - off) : off + i \in 1..N /\ h[i] = order[off + i]
  BY RecentIs
<1>2. /\ N = 2 * k /\ thread \subseteq Message /\ \A m \in thread : m.position \in 0..(N - 1)
      /\ \A m, n \in thread : m.position = n.position => m = n
      /\ \A m \in thread : m.role = "user" <=> m.position % 2 = 0
  BY <1>1 DEF InPairs, Positions, ThreadInv, ThreadTypeOK
<1>3. off % 2 = 0 /\ (N - off) % 2 = 0 /\ off \in Nat /\ N - off \in Nat
  <2>1. N % 2 = 0
    BY <1>2, TwiceIsEven
  <2>2. off % 2 = 0
    <3>1. CASE N > HISTORY_LIMIT
      <4>1. N \in Nat /\ HISTORY_LIMIT \in Nat /\ HISTORY_LIMIT % 2 = 0 /\ HISTORY_LIMIT <= N
        BY <1>1, <3>1, HistoryAssumption
      <4>2. (N - HISTORY_LIMIT) % 2 = 0
        BY <2>1, <4>1, EvenLessEven
      <4> QED BY <1>1, <3>1, <4>2
    <3>2. CASE ~(N > HISTORY_LIMIT)
      BY <1>1, <3>2, SMT
    <3> QED BY <3>1, <3>2
  <2>3. off \in Nat /\ N - off \in Nat /\ off <= N
    BY <1>1
  <2>4. (N - off) % 2 = 0
    BY <1>1, <2>1, <2>2, <2>3, EvenLessEven
  <2> QED BY <2>2, <2>3, <2>4
<1>4. \A i \in 1..N : order[i].position = i - 1
  <2> DEFINE f == [i \in 1..N |-> order[i].position]
  <2>1. f \in [1..N -> 0..(N - 1)]
    BY <1>1, <1>2
  <2>2. ASSUME NEW i \in 1..N, NEW j \in 1..N, i < j PROVE f[i] < f[j]
    <3>1. order[i] \in thread /\ order[j] \in thread /\ order[i] # order[j]
      BY <1>1, <2>2
    <3>2. order[i].position # order[j].position /\ order[i].position <= order[j].position
      BY <1>1, <1>2, <2>2, <3>1
    <3>3. order[i].position \in Nat /\ order[j].position \in Nat
      BY <1>2, <3>1
    <3> QED BY <3>2, <3>3
  <2>3. \A i \in 1..N : f[i] = i - 1
    <3> HIDE DEF f
    <3> QED BY <1>1, <2>1, <2>2, Rising, ZenonT(40)
  <2> QED BY <2>3
<1>5. ASSUME NEW i \in 1..(N - off)
      PROVE  IF i % 2 = 1 THEN /\ h[i].role = "user"
                               /\ i < Len(h)
                               /\ h[i + 1] = Thread!Reply(h[i].ask, h[i].position + 1)
             ELSE h[i].role = "assistant"
  <2>1. /\ h[i] \in thread /\ h[i].position = off + i - 1 /\ h[i] \in Message /\ h[i].ask \in Requests
        /\ off + i \in 1..N
    <3>1. off + i \in 1..N /\ h[i] = order[off + i]
      BY <1>1
    <3>2. h[i] \in thread
      BY <1>1, <3>1
    <3>3. order[off + i].position = off + i - 1
      BY <1>3, <1>4, <3>1
    <3> QED BY <1>2, <3>1, <3>2, <3>3 DEF Message
  <2>2. CASE i % 2 = 1
    <3>1. (off + i - 1) % 2 = 0 /\ i < N - off
      <4>1. /\ i \in Nat /\ off \in Nat /\ N - off \in Nat /\ i <= N - off
            /\ off % 2 = 0 /\ (N - off) % 2 = 0 /\ i % 2 = 1
        BY <1>3, <2>2
      <4>2. (off + i - 1) % 2 = 0
        BY <4>1, BeforeOdd
      <4>3. i < N - off
        BY <4>1, BeforeOdd
      <4> QED BY <4>2, <4>3
    <3>2. h[i].role = "user"
      BY <1>2, <2>1, <3>1
    <3>3. Thread!Reply(h[i].ask, h[i].position + 1) \in thread
      <4>1. /\ turn[h[i].ask].at = "recorded"
            /\ \/ h[i] = Thread!Question(h[i].ask, turn[h[i].ask].position)
               \/ h[i] = Thread!Reply(h[i].ask, turn[h[i].ask].position + 1)
        BY <2>1 DEF ThreadInv, MessagesInv
      <4>2. h[i].position = turn[h[i].ask].position
        BY <3>2, <4>1, ExchangeParts
      <4> QED BY <2>1, <4>1, <4>2 DEF ThreadInv, MessagesInv
    <3>4. i + 1 \in 1..(N - off) /\ off + (i + 1) = off + i + 1
      BY <1>3, <3>1
    <3>5. h[i + 1] \in thread /\ h[i + 1].position = off + i
      <4> DEFINE j == off + (i + 1)
      <4>1. j \in 1..N /\ h[i + 1] = order[j]
        BY <1>1, <3>4
      <4>2. j - 1 = off + i
        BY <1>3
      <4> HIDE DEF j
      <4>3. h[i + 1] \in thread
        BY <1>1, <4>1
      <4>4. order[j].position = j - 1
        BY <1>4, <4>1
      <4> QED BY <4>1, <4>2, <4>3, <4>4
    <3>6. Thread!Reply(h[i].ask, h[i].position + 1).position = off + i
      <4>1. Thread!Reply(h[i].ask, h[i].position + 1).position = h[i].position + 1
        BY ExchangeParts
      <4> QED BY <1>3, <2>1, <4>1
    <3>7. h[i + 1] = Thread!Reply(h[i].ask, h[i].position + 1)
      BY <1>2, <3>3, <3>5, <3>6
    <3> QED BY <1>1, <2>2, <3>1, <3>2, <3>7
  <2>3. CASE i % 2 # 1
    <3>1. (off + i - 1) % 2 # 0
      <4>1. i \in Nat
        OBVIOUS
      <4> QED BY <1>3, <2>3, <4>1, BeforeEven
    <3>2. h[i].role # "user"
      BY <1>2, <2>1, <3>1
    <3> QED BY <2>1, <2>3, <3>2 DEF Message
  <2> QED BY <2>2, <2>3
<1> QED BY <1>1, <1>5 DEF Exchanges

(* An ask moves on while the thread stays as it is. *)
LEMMA OneTurn ==
    ASSUME ThreadInv, NEW a \in Requests, NEW t \in Turn, turn' = [turn EXCEPT ![a] = t],
           UNCHANGED <<thread, overlapped>>, turn[a].at # "recorded", t.at \notin {"recorded", "append"},
           HistoryInv(t.history)
    PROVE  ThreadInv'
<1>1. turn'[a] = t /\ \A b \in Requests : b # a => turn'[b] = turn[b]
  BY DEF ThreadInv, ThreadTypeOK
<1>2. ThreadTypeOK' /\ Positions' = Positions
  BY DEF ThreadInv, ThreadTypeOK, Positions
<1>3. MessagesInv'
  <2>1. \A m \in thread : m.ask \in Requests /\ m.ask # a
    BY DEF ThreadInv, ThreadTypeOK, MessagesInv, Message
  <2>2. \A b \in Requests : turn'[b].at = "recorded" => b # a
    BY <1>1
  <2> QED BY <1>1, <2>1, <2>2 DEF ThreadInv, MessagesInv
<1>4. ASSUME NEW b \in Requests PROVE HistoryInv(turn[b].history)'
  BY <1>1 DEF ThreadInv, HistoryInv
<1>5. ASSUME ~overlapped' PROVE \E k \in Nat : InPairs(k)'
  <2>1. PICK k \in Nat : InPairs(k)
    BY <1>5 DEF ThreadInv
  <2>2. Thread!Appending' \subseteq Thread!Appending /\ a \notin Thread!Appending'
    BY <1>1 DEF Thread!Appending
  <2>3. \A b \in Thread!Appending' : turn'[b] = turn[b]
    BY <1>1, <2>2 DEF Thread!Appending
  <2> QED BY <1>2, <2>1, <2>2, <2>3 DEF InPairs
<1> QED BY <1>2, <1>3, <1>4, <1>5 DEF ThreadInv

LEMMA TurnFields ==
    ASSUME NEW x \in Turn
    PROVE  \A there \in ThreadPlaces : LET y == [x EXCEPT !.at = there] IN
             y \in Turn /\ y.at = there /\ y.history = x.history /\ y.position = x.position
  BY DEF Turn

LEMMA Reading == ASSUME ThreadInv, NEW a \in Requests, Thread!ReadHistory(a) PROVE ThreadInv'
<1>1. PICK order \in Thread!Orders :
        turn' = [turn EXCEPT ![a] = [Thread!Idle EXCEPT !.at = "answering", !.history = Thread!Recent(order)]]
  BY DEF Thread!ReadHistory
<1>2. PICK h : h = Thread!Recent(order)
  OBVIOUS
<1>3. PICK N, off :
        /\ N \in Nat /\ off \in 0..N /\ order \in [1..N -> thread]
        /\ \A i, j \in 1..N : i < j => order[i].position <= order[j].position
        /\ h \in Seq(Message) /\ Len(h) = N - off /\ DOMAIN h = 1..(N - off)
        /\ \A i \in 1..(N - off) : off + i \in 1..N /\ h[i] = order[off + i]
  BY <1>2, RecentIs, ZenonT(40)
<1> DEFINE t == [Thread!Idle EXCEPT !.at = "answering", !.history = h]
<1>4. t \in Turn /\ t.at = "answering" /\ t.history = h
  BY <1>3 DEF Thread!Idle, Turn, ThreadPlaces
<1>5. turn' = [turn EXCEPT ![a] = t] /\ turn[a].at = "resolved" /\ UNCHANGED <<thread, overlapped>>
  BY <1>1, <1>2 DEF Thread!ReadHistory
<1> HIDE DEF t
<1>6. HistoryInv(h)
  <2>1. \A i \in DOMAIN h : h[i] \in thread
    BY <1>3
  <2>2. Sorted(h)
    <3> SUFFICES ASSUME NEW i \in DOMAIN h, NEW j \in DOMAIN h, i < j PROVE h[i].position <= h[j].position
      BY DEF Sorted
    <3>1. off + i \in 1..N /\ off + j \in 1..N /\ off + i < off + j
      BY <1>3
    <3>2. order[off + i].position <= order[off + j].position
      BY <1>3, <3>1
    <3> QED BY <1>3, <3>2
  <2>3. ~overlapped => Exchanges(h)
    BY <1>2, PairsAreExchanges DEF ThreadInv
  <2> QED BY <2>1, <2>2, <2>3 DEF HistoryInv
<1> QED BY <1>4, <1>5, <1>6, OneTurn

LEMMA Moving ==
    ASSUME ThreadInv, NEW a \in Requests, Thread!CreateThread(a) \/ Thread!FindThread(a) \/ Thread!Lose(a)
    PROVE  ThreadInv'
<1>1. PICK there \in {"resolved", "lost"} : turn' = [turn EXCEPT ![a].at = there]
  BY DEF Thread!CreateThread, Thread!FindThread, Thread!Lose
<1> DEFINE t == [turn[a] EXCEPT !.at = there]
<1>2. /\ turn \in [Requests -> Turn] /\ turn[a] \in Turn /\ turn[a].at # "recorded"
      /\ HistoryInv(turn[a].history) /\ UNCHANGED <<thread, overlapped>>
  BY DEF ThreadInv, ThreadTypeOK, Thread!CreateThread, Thread!FindThread, Thread!Lose
<1>3. turn' = [turn EXCEPT ![a] = t]
  BY <1>1, <1>2
<1>4. t \in Turn /\ t.at = there /\ t.history = turn[a].history
  <2>1. there \in ThreadPlaces
    BY DEF ThreadPlaces
  <2> QED BY <1>2, <2>1, TurnFields
<1> HIDE DEF t
<1> QED BY <1>2, <1>3, <1>4, OneTurn

LEMMA Taking == ASSUME ThreadInv, NEW a \in Requests, Thread!TakePosition(a) PROVE ThreadInv'
<1>1. /\ turn[a].at = "answering" /\ UNCHANGED thread
      /\ turn' = [turn EXCEPT ![a].at = "append", ![a].position = Thread!NextPosition]
      /\ overlapped' = (overlapped \/ Thread!Appending # {})
  BY DEF Thread!TakePosition
<1>2. /\ Thread!NextPosition \in Nat /\ \A p \in Positions : p < Thread!NextPosition
      /\ Thread!NextPosition = 0 \/ Thread!NextPosition - 1 \in Positions
  BY NextIs DEF ThreadInv
<1> DEFINE p == Thread!NextPosition
           t == [turn[a] EXCEPT !.at = "append", !.position = p]
<1>3. turn \in [Requests -> Turn] /\ turn[a] \in Turn /\ overlapped \in BOOLEAN
  BY DEF ThreadInv, ThreadTypeOK
<1>4. turn' = [turn EXCEPT ![a] = t]
  BY <1>1, <1>3
<1>5. t \in Turn /\ t.at = "append" /\ t.history = turn[a].history /\ t.position = p
  <2>1. "append" \in ThreadPlaces /\ p \in Nat
    BY <1>2 DEF ThreadPlaces
  <2> HIDE DEF p
  <2>2. \A n \in Nat : LET y == [turn[a] EXCEPT !.at = "append", !.position = n] IN
           y \in Turn /\ y.at = "append" /\ y.history = turn[a].history /\ y.position = n
    BY <1>3, <2>1 DEF Turn
  <2> QED BY <2>1, <2>2
<1> HIDE DEF t
<1>6. /\ turn'[a] = t /\ \A b \in Requests : b # a => turn'[b] = turn[b]
      /\ thread' = thread /\ turn[a].at # "recorded" /\ (~overlapped' => ~overlapped)
  BY <1>1, <1>3, <1>4
<1>7. ThreadTypeOK' /\ Positions' = Positions
  <2>1. Positions' = Positions
    BY <1>1 DEF Positions
  <2>2. overlapped' \in BOOLEAN /\ turn' \in [Requests -> Turn]
    BY <1>1, <1>3, <1>4, <1>5
  <2> QED BY <1>1, <2>1, <2>2 DEF ThreadInv, ThreadTypeOK
<1>8. MessagesInv'
  <2>1. \A m \in thread : m.ask \in Requests /\ m.ask # a
    BY <1>6 DEF ThreadInv, ThreadTypeOK, MessagesInv, Message
  <2>2. \A b \in Requests : turn'[b].at = "recorded" => b # a
    BY <1>5, <1>6
  <2> QED BY <1>6, <2>1, <2>2 DEF ThreadInv, MessagesInv
<1>9. ASSUME NEW b \in Requests PROVE HistoryInv(turn[b].history)'
  <2>1. turn'[b].history = turn[b].history
    BY <1>5, <1>6
  <2>2. HistoryInv(turn[b].history)
    BY DEF ThreadInv
  <2> QED BY <1>6, <2>1, <2>2 DEF HistoryInv
<1>10. ASSUME ~overlapped' PROVE \E k \in Nat : InPairs(k)'
  <2>1. PICK k \in Nat : InPairs(k)
    BY <1>1, <1>10 DEF ThreadInv
  <2>2. Thread!Appending = {} /\ Thread!Appending' \subseteq {a}
    <3>1. Thread!Appending = {}
      BY <1>1, <1>10
    <3> QED BY <1>6, <3>1 DEF Thread!Appending
  <2>3. Thread!NextPosition = 2 * k
    <3>1. Positions = 0..(2 * k - 1)
      BY <2>1 DEF InPairs
    <3>2. k = 0 \/ 2 * k - 1 \in Positions
      BY <3>1
    <3> QED BY <1>2, <3>1, <3>2
  <2> QED BY <1>1, <1>5, <1>6, <1>7, <2>1, <2>2, <2>3 DEF InPairs
<1> QED BY <1>7, <1>8, <1>9, <1>10 DEF ThreadInv

(* Both messages come at once, at the position taken and the next. *)
LEMMA Exchanging == ASSUME ThreadInv, NEW a \in Requests, Thread!AppendExchange(a) PROVE ThreadInv'
<1> DEFINE p == turn[a].position
           question == Thread!Question(a, p)
           reply == Thread!Reply(a, p + 1)
           t == [turn[a] EXCEPT !.at = "recorded"]
<1>1. /\ turn \in [Requests -> Turn] /\ turn[a] \in Turn /\ turn[a].at = "append"
      /\ thread' = thread \cup {question, reply} /\ overlapped' = overlapped
      /\ turn' = [turn EXCEPT ![a].at = "recorded"]
  BY DEF ThreadInv, ThreadTypeOK, Thread!AppendExchange
<1>2. turn' = [turn EXCEPT ![a] = t]
  BY <1>1
<1>3. t \in Turn /\ t.at = "recorded" /\ t.history = turn[a].history /\ t.position = p
  <2>1. "recorded" \in ThreadPlaces
    BY DEF ThreadPlaces
  <2> QED BY <1>1, <2>1, TurnFields
<1>4. p \in Nat
  BY <1>1 DEF Turn
<1> HIDE DEF t
<1>5. turn'[a] = t /\ \A b \in Requests : b # a => turn'[b] = turn[b]
  BY <1>1, <1>2
<1>6. /\ question \in Message /\ question.ask = a /\ question.role = "user" /\ question.position = p
      /\ reply \in Message /\ reply.ask = a /\ reply.role = "assistant" /\ reply.position = p + 1
  BY <1>4, ExchangeParts
<1>7. /\ thread \subseteq Message /\ IsFiniteSet(thread) /\ Positions \subseteq Nat
      /\ \A m \in thread : m.ask \in Requests /\ m.ask # a
  BY <1>1 DEF ThreadInv, ThreadTypeOK, MessagesInv, Message, Positions
<1> HIDE DEF question, reply, p
<1>8. question \notin thread /\ reply \notin thread /\ question # reply
  BY <1>4, <1>6, <1>7
<1>9. /\ IsFiniteSet(thread') /\ Cardinality(thread') = Cardinality(thread) + 2
      /\ Cardinality(thread) \in Nat
  <2>1. thread' = (thread \cup {question}) \cup {reply}
    BY <1>1
  <2>2. IsFiniteSet(thread \cup {question}) /\ Cardinality(thread \cup {question}) = Cardinality(thread) + 1
    BY <1>7, <1>8, FS_AddElement
  <2>3. reply \notin thread \cup {question}
    BY <1>8
  <2>4. IsFiniteSet(thread') /\ Cardinality(thread') = Cardinality(thread \cup {question}) + 1
    BY <2>1, <2>2, <2>3, FS_AddElement
  <2>5. Cardinality(thread) \in Nat
    BY <1>7, FS_CardinalityType
  <2> QED BY <2>2, <2>4, <2>5
<1>10. Positions' = Positions \cup {p, p + 1}
  BY <1>1, <1>6 DEF Positions
<1>11. ThreadTypeOK'
  <2>1. PICK n \in Nat : \A x \in Positions : x <= n
    BY DEF ThreadInv, ThreadTypeOK
  <2>2. n + p + 1 \in Nat /\ \A x \in Positions' : x <= n + p + 1
    BY <1>4, <1>7, <1>10, <2>1
  <2>3. turn' \in [Requests -> Turn]
    BY <1>1, <1>2, <1>3
  <2>4. thread' \subseteq Message /\ overlapped' \in BOOLEAN
    BY <1>1, <1>6, <1>7 DEF ThreadInv, ThreadTypeOK
  <2> QED BY <1>9, <2>2, <2>3, <2>4 DEF ThreadTypeOK
<1>12. MessagesInv'
  <2>1. ASSUME NEW m \in thread'
        PROVE  /\ turn'[m.ask].at = "recorded"
               /\ \/ m = Thread!Question(m.ask, turn'[m.ask].position)
                  \/ m = Thread!Reply(m.ask, turn'[m.ask].position + 1)
    <3>1. CASE m \in thread
      BY <1>5, <1>7, <3>1 DEF ThreadInv, MessagesInv
    <3>2. CASE m = question
      BY <1>3, <1>5, <1>6, <3>2 DEF question
    <3>3. CASE m = reply
      BY <1>3, <1>5, <1>6, <3>3 DEF reply
    <3> QED BY <1>1, <3>1, <3>2, <3>3
  <2>2. ASSUME NEW b \in Requests, turn'[b].at = "recorded"
        PROVE  /\ Thread!Question(b, turn'[b].position) \in thread'
               /\ Thread!Reply(b, turn'[b].position + 1) \in thread'
    <3>1. CASE b = a
      <4>1. turn'[b].position = p /\ question \in thread' /\ reply \in thread'
        BY <1>1, <1>3, <1>5, <3>1
      <4> QED BY <3>1, <4>1 DEF question, reply
    <3>2. CASE b # a
      BY <1>1, <1>5, <2>2, <3>2 DEF ThreadInv, MessagesInv
    <3> QED BY <3>1, <3>2
  <2> QED BY <2>1, <2>2 DEF MessagesInv
<1>13. ASSUME NEW b \in Requests PROVE HistoryInv(turn[b].history)'
  <2>1. turn'[b].history = turn[b].history
    BY <1>3, <1>5
  <2>2. HistoryInv(turn[b].history) /\ thread \subseteq thread' /\ overlapped' = overlapped
    BY <1>1 DEF ThreadInv
  <2> QED BY <2>1, <2>2 DEF HistoryInv
<1>14. ASSUME ~overlapped' PROVE \E k \in Nat : InPairs(k)'
  <2>1. PICK k \in Nat : InPairs(k)
    BY <1>1, <1>14 DEF ThreadInv
  <2>2. p = 2 * k /\ Thread!Appending = {a}
    <3>1. a \in Thread!Appending
      BY <1>1 DEF Thread!Appending
    <3> QED BY <2>1, <3>1 DEF InPairs, p
  <2>3. Thread!Appending' = {}
    <3>1. \A b \in Requests : turn'[b].at = "append" => b # a /\ turn[b].at = "append"
      BY <1>3, <1>5
    <3> QED BY <2>2, <3>1 DEF Thread!Appending
  <2>4. Cardinality(thread') = 2 * (k + 1)
    BY <1>9, <2>1 DEF InPairs
  <2>5. Positions' = 0..(2 * (k + 1) - 1)
    <3>1. Positions = 0..(2 * k - 1)
      BY <2>1 DEF InPairs
    <3> QED BY <1>10, <2>2, <3>1
  <2>6. \A m \in thread : m.position \in 0..(2 * k - 1)
    BY <2>1 DEF InPairs, Positions
  <2>7. ASSUME NEW m \in thread', NEW n \in thread', m.position = n.position PROVE m = n
    <3>1. \A x, y \in thread : x.position = y.position => x = y
      BY <2>1 DEF InPairs
    <3>2. \A x \in thread : x.position # question.position /\ x.position # reply.position
      BY <1>6, <2>2, <2>6
    <3>3. question.position # reply.position
      BY <1>4, <1>6
    <3>4. (m \in thread \/ m = question \/ m = reply) /\ (n \in thread \/ n = question \/ n = reply)
      BY <1>1
    <3> QED BY <2>7, <3>1, <3>2, <3>3, <3>4
  <2>8. ASSUME NEW m \in thread' PROVE m.role = "user" <=> m.position % 2 = 0
    <3>1. CASE m \in thread
      BY <2>1, <3>1 DEF InPairs
    <3>2. (2 * k) % 2 = 0 /\ (2 * k + 1) % 2 = 1
      BY SMT
    <3>3. CASE m = question
      BY <1>6, <2>2, <3>2, <3>3
    <3>4. CASE m = reply
      BY <1>6, <2>2, <3>2, <3>4
    <3> QED BY <1>1, <3>1, <3>3, <3>4
  <2>9. InPairs(k + 1)'
    BY <2>3, <2>4, <2>5, <2>7, <2>8 DEF InPairs
  <2>10. k + 1 \in Nat
    OBVIOUS
  <2> QED BY <2>9, <2>10
<1> QED BY <1>11, <1>12, <1>13, <1>14 DEF ThreadInv

LEMMA ThreadInitial == PlatformInit => ThreadInv
<1> SUFFICES ASSUME PlatformInit PROVE ThreadInv
  OBVIOUS
<1>1. thread = {} /\ turn = [a \in Requests |-> Thread!Idle] /\ overlapped = FALSE
  BY DEF PlatformInit, Thread!Init
<1>2. Thread!Idle \in Turn /\ Thread!Idle.at = "idle" /\ Thread!Idle.history = <<>>
  <2>1. <<>> \in Seq(Message)
    OBVIOUS
  <2> QED BY <2>1 DEF Thread!Idle, Turn, ThreadPlaces
<1>3. Positions = {} /\ IsFiniteSet(thread) /\ Cardinality(thread) = 0
  BY <1>1, FS_EmptySet DEF Positions
<1>4. ThreadTypeOK
  BY <1>1, <1>2, <1>3 DEF ThreadTypeOK
<1>5. MessagesInv
  BY <1>1, <1>2 DEF MessagesInv
<1>6. ASSUME NEW a \in Requests PROVE HistoryInv(turn[a].history)
  <2>1. turn[a].history = <<>> /\ DOMAIN <<>> = {}
    BY <1>1, <1>2
  <2> QED BY <2>1 DEF HistoryInv, Sorted, Exchanges
<1>7. InPairs(0)
  <2>1. Thread!Appending = {}
    BY <1>1, <1>2 DEF Thread!Appending
  <2>2. Positions = 0..(2 * 0 - 1) /\ 2 * 0 = 0
    BY <1>3
  <2> QED BY <1>1, <1>3, <2>1, <2>2 DEF InPairs
<1> QED BY <1>4, <1>5, <1>6, <1>7 DEF ThreadInv

(* What an ask is given as history is a conversation, whatever order asks  *)
(* answer in, overlap or are lost: a reply never before its question; and  *)
(* while no two append at once, whole exchanges with every position used   *)
(* once. What was recorded is in the thread (recent_messages,              *)
(* next_position, record_exchange).                                        *)
THEOREM HistoriesAreConversations == PlatformSpec => []HistoryIsAConversation
<1>1. ThreadInv /\ [PlatformNext]_allVars => ThreadInv'
  <2> SUFFICES ASSUME ThreadInv, [PlatformNext]_allVars PROVE ThreadInv'
    OBVIOUS
  <2>1. CASE Thread!Next
    BY <2>1, Moving, Reading, Taking, Exchanging DEF Thread!Next
  <2>2. CASE UNCHANGED threadVars
    <3>1. thread' = thread /\ turn' = turn /\ overlapped' = overlapped
      BY <2>2 DEF threadVars
    <3>2. Positions' = Positions /\ Thread!Appending' = Thread!Appending
      BY <3>1 DEF Positions, Thread!Appending
    <3>3. ThreadTypeOK' /\ MessagesInv'
      BY <3>1, <3>2 DEF ThreadInv, ThreadTypeOK, MessagesInv
    <3>4. \A a \in Requests : HistoryInv(turn[a].history)'
      BY <3>1 DEF ThreadInv, HistoryInv
    <3>5. ASSUME ~overlapped' PROVE \E k \in Nat : InPairs(k)'
      BY <3>1, <3>2, <3>5 DEF ThreadInv, InPairs
    <3> QED BY <3>3, <3>4, <3>5 DEF ThreadInv
  <2> QED BY <2>1, <2>2 DEF PlatformNext, allVars
<1>2. ThreadInv => Thread!HistoryIsAConversation
  <2> SUFFICES ASSUME ThreadInv PROVE Thread!HistoryIsAConversation
    OBVIOUS
  <2>1. ASSUME NEW a \in Requests, NEW i \in DOMAIN turn[a].history, NEW j \in DOMAIN turn[a].history,
               turn[a].history[i].ask = turn[a].history[j].ask,
               turn[a].history[i].role = "user", turn[a].history[j].role = "assistant"
        PROVE  i < j
    <3> DEFINE h == turn[a].history
    <3>1. /\ h \in Seq(Message) /\ DOMAIN h = 1..Len(h) /\ i \in Int /\ j \in Int
          /\ h[i] \in thread /\ h[j] \in thread /\ (j < i => h[j].position <= h[i].position)
      <4>1. h \in Seq(Message)
        BY DEF ThreadInv, ThreadTypeOK, Turn
      <4>2. DOMAIN h = 1..Len(h) /\ Len(h) \in Nat
        BY <4>1
      <4>3. HistoryInv(h)
        BY DEF ThreadInv
      <4> QED BY <2>1, <4>1, <4>2, <4>3 DEF HistoryInv, Sorted
    <3>2. PICK q \in Requests : q = h[i].ask /\ q = h[j].ask
      BY <2>1, <3>1 DEF ThreadInv, ThreadTypeOK, Message
    <3>3. h[i] = Thread!Question(q, turn[q].position) /\ h[j] = Thread!Reply(q, turn[q].position + 1)
      <4>1. \A m \in thread : m.ask = q => \/ m = Thread!Question(q, turn[q].position)
                                            \/ m = Thread!Reply(q, turn[q].position + 1)
        BY DEF ThreadInv, MessagesInv
      <4>2. h[i].role = "user" /\ h[j].role = "assistant"
        BY <2>1
      <4> HIDE DEF h
      <4>3. Thread!Reply(q, turn[q].position + 1).role # "user"
            /\ Thread!Question(q, turn[q].position).role # "assistant"
        BY ExchangeParts
      <4> QED BY <3>1, <3>2, <4>1, <4>2, <4>3
    <3>4. h[i].position = turn[q].position /\ h[j].position = turn[q].position + 1 /\ turn[q].position \in Nat
      BY <3>3, ExchangeParts DEF ThreadInv, ThreadTypeOK, Turn
    <3>5. i # j
      BY <2>1
    <3> HIDE DEF h
    <3> QED BY <3>1, <3>4, <3>5
  <2>2. ~overlapped => \A a \in Requests : Exchanges(turn[a].history)
    BY DEF ThreadInv, HistoryInv
  <2>3. ~overlapped => \A m, n \in thread : m.position = n.position => m = n
    BY DEF ThreadInv, InPairs
  <2>4. ASSUME NEW a \in Requests
        PROVE  Cardinality({m \in thread : m.ask = a}) = IF turn[a].at = "recorded" THEN 2 ELSE 0
    <3>1. CASE turn[a].at = "recorded"
      <4> DEFINE q == Thread!Question(a, turn[a].position)
                 r == Thread!Reply(a, turn[a].position + 1)
      <4>1. q \in thread /\ r \in thread /\ q.ask = a /\ r.ask = a /\ q # r
        <5>1. q \in thread /\ r \in thread
          BY <3>1 DEF ThreadInv, MessagesInv
        <5> QED BY <5>1, ExchangeParts
      <4>2. \A m \in thread : m.ask = a => m = q \/ m = r
        BY DEF ThreadInv, MessagesInv
      <4> HIDE DEF q, r
      <4>3. {m \in thread : m.ask = a} = {q} \cup {r} /\ r \notin {q}
        BY <4>1, <4>2
      <4>4. Cardinality({q} \cup {r}) = 1 + 1
        <5>1. IsFiniteSet({q}) /\ Cardinality({q}) = 1
          BY FS_Singleton
        <5> QED BY <4>3, <5>1, FS_AddElement
      <4> QED BY <3>1, <4>3, <4>4
    <3>2. CASE turn[a].at # "recorded"
      <4>1. {m \in thread : m.ask = a} = {}
        BY <3>2 DEF ThreadInv, MessagesInv
      <4> QED BY <3>2, <4>1, FS_EmptySet
    <3> QED BY <3>1, <3>2
  <2> QED BY <2>1, <2>2, <2>3, <2>4, ThreadCounts DEF Thread!HistoryIsAConversation, Exchanges
<1> QED BY <1>1, <1>2, ThreadInitial, PTL DEF PlatformSpec, HistoryIsAConversation

----------------------------------------------------------------------------
(* Tools: McpTools. *)

Line == [id : Nat, is : {"log", "request", "result", "error"}]
OursByName == {Tools!NativeName(x) : x \in Native}

(* A server that answers in order has answered what it is asked no more:   *)
(* its last response is to the last request if and only if nothing is left *)
(* to be answered.                                                         *)
InOrder ==
    /\ session.lines \in Seq(Line)
    /\ session.asked \in {<<1, 2>>, <<2>>, <<>>}
    /\ session.at = "http" => session.asked # <<>>
    /\ Tools!Responses # {} => (Tools!Taken.id = 2 <=> session.asked = <<>>)

SessionInv ==
    \/ session = Tools!NoSession
    \/ /\ session = [at |-> session.at, goal |-> session.goal, server |-> session.server,
                     tool |-> session.tool, asked |-> session.asked, lines |-> session.lines]
       /\ session.at \in {"stdio", "http", "read"}
       /\ session.goal \in {"list", "call"}
       /\ session.server \in DOMAIN Config
       /\ Tools!Buildable(session.server)
       /\ Config[session.server].orderly => InOrder

Listing == IF session.at # "none" /\ session.goal = "list" THEN 1 ELSE 0

CountsInv ==
    /\ todo \in Seq(DOMAIN Config)
    /\ summary = [servers |-> summary.servers, tools |-> summary.tools, failed |-> summary.failed]
    /\ summary.servers \in Nat
    /\ summary.failed \in Nat
    /\ summary.servers + summary.failed + Len(todo) + Listing = Len(Config)

(* Whatever a server that was read offers is registered, of it or of one   *)
(* before it.                                                              *)
NamesInv ==
    /\ joined \in Seq([server : DOMAIN Config, read : {"own", "empty"}, answered : BOOLEAN])
    /\ \A n \in OursByName : n \in DOMAIN tool_registry /\ tool_registry[n].origin = "native"
    /\ \A n \in DOMAIN tool_registry \ OursByName :
          /\ tool_registry[n].server \in DOMAIN Config
          /\ Tools!Buildable(tool_registry[n].server)
          /\ \E k \in Tools!ReadOf(tool_registry[n].server) : \A j \in 1..(k - 1) : ~Tools!Offers(j, n.tool)
    /\ \A k \in DOMAIN joined : \A name : Tools!Offers(k, name) => Tools!RemoteName(name) \in DOMAIN tool_registry
    /\ \A k \in DOMAIN joined : Config[joined[k].server].orderly /\ joined[k].answered => joined[k].read = "own"

OutcomeInv ==
    /\ outcome.kind = "empty" /\ Config[outcome.server].orderly => outcome.unanswered
    /\ outcome.kind = "own" /\ outcome.server # 0 /\ Config[outcome.server].orderly => ~outcome.unanswered

ToolsInv == SessionInv /\ CountsInv /\ NamesInv /\ OutcomeInv

----------------------------------------------------------------------------
LEMMA ServersAreListed == Len(Config) \in Nat /\ DOMAIN Config = 1..Len(Config)
  BY ServersAssumption

(* The last response once a line is added. *)
LEMMA TakenNext ==
    ASSUME session.lines \in Seq(Line), NEW line \in Line, session'.lines = Append(session.lines, line)
    PROVE  /\ session'.lines \in Seq(Line)
           /\ line.id # 0 => Tools!Responses' # {} /\ Tools!Taken' = line
           /\ line.id = 0 => Tools!Responses' = Tools!Responses /\ Tools!Taken' = Tools!Taken
<1> DEFINE n == Len(session.lines)
           R == Tools!Responses
<1>1. /\ n \in Nat /\ DOMAIN session.lines = 1..n /\ session'.lines \in Seq(Line) /\ DOMAIN session'.lines = 1..(n + 1)
      /\ session'.lines[n + 1] = line /\ \A k \in 1..n : session'.lines[k] = session.lines[k]
  OBVIOUS
<1>2. R = {k \in 1..n : session.lines[k].id # 0}
  BY <1>1 DEF Tools!Responses
<1>3. Tools!Responses' = {k \in 1..(n + 1) : session'.lines[k].id # 0}
  BY <1>1 DEF Tools!Responses
<1>4. /\ Tools!Taken = IF R = {} THEN [id |-> 0, is |-> "error"] ELSE session.lines[Tools!Max(R)]
      /\ Tools!Taken' = IF Tools!Responses' = {} THEN [id |-> 0, is |-> "error"]
                        ELSE session'.lines[Tools!Max(Tools!Responses')]
  BY DEF Tools!Taken
<1> HIDE DEF n, R
<1>5. ASSUME line.id # 0 PROVE Tools!Responses' # {} /\ Tools!Taken' = line
  <2> DEFINE S == Tools!Responses'
  <2>1. n + 1 \in S /\ \A k \in S : n + 1 >= k /\ k \in Nat
    BY <1>1, <1>3, <1>5
  <2> HIDE DEF S
  <2>2. Tools!Max(S) = CHOOSE x \in S : \A y \in S : x >= y
    BY DEF Tools!Max
  <2>3. Tools!Max(S) \in S /\ \A y \in S : Tools!Max(S) >= y
    BY <2>1, <2>2
  <2>4. Tools!Max(S) = n + 1
    BY <1>1, <2>1, <2>3
  <2> QED BY <1>1, <1>4, <2>1, <2>4 DEF S
<1>6. ASSUME line.id = 0 PROVE Tools!Responses' = R /\ Tools!Taken' = Tools!Taken
  <2>1. Tools!Responses' = R
    BY <1>1, <1>2, <1>3, <1>6
  <2>2. CASE R = {}
    BY <1>4, <2>1, <2>2
  <2>3. CASE R # {}
    <3>1. R \subseteq Nat /\ \A y \in R : y <= n
      BY <1>1, <1>2
    <3>2. \E x \in R : \A y \in R : x >= y
      BY <1>1, <2>3, <3>1, Largest
    <3>3. Tools!Max(R) = CHOOSE x \in R : \A y \in R : x >= y
      BY DEF Tools!Max
    <3>4. Tools!Max(R) \in R
      BY <3>2, <3>3
    <3>5. session'.lines[Tools!Max(R)] = session.lines[Tools!Max(R)]
      BY <1>1, <1>2, <3>4
    <3> QED BY <1>4, <2>1, <2>3, <3>5
  <2> QED BY <2>1, <2>2, <2>3
<1> QED BY <1>1, <1>5, <1>6 DEF R

LEMMA NamesStay == ASSUME NamesInv, UNCHANGED <<joined, tool_registry>> PROVE NamesInv'
<1>1. /\ \A i : Tools!ReadOf(i)' = Tools!ReadOf(i)
      /\ \A k, name : Tools!Offers(k, name)' <=> Tools!Offers(k, name)
  BY DEF Tools!ReadOf, Tools!Offers
<1> QED BY <1>1 DEF NamesInv, Tools!Buildable

(* A session goes on: what it is of stays. *)
LEMMA SessionGoesOn ==
    ASSUME ToolsInv, session.at \in {"stdio", "http"}, UNCHANGED <<todo, tool_registry, summary, joined, outcome>>,
           session' = [session EXCEPT !.at = session'.at, !.asked = session'.asked, !.lines = session'.lines],
           session'.at \in {"stdio", "http", "read"},
           Config[session.server].orderly => InOrder'
    PROVE  ToolsInv'
<1>1. /\ session # Tools!NoSession
      /\ session = [at |-> session.at, goal |-> session.goal, server |-> session.server,
                     tool |-> session.tool, asked |-> session.asked, lines |-> session.lines]
      /\ session.goal \in {"list", "call"} /\ session.server \in DOMAIN Config /\ Tools!Buildable(session.server)
  <2>1. Tools!NoSession.at = "none"
    BY DEF Tools!NoSession
  <2>2. SessionInv /\ session # Tools!NoSession
    BY <2>1 DEF ToolsInv
  <2> QED BY <2>2 DEF SessionInv
<1>2. /\ session' = [at |-> session'.at, goal |-> session.goal, server |-> session.server,
                     tool |-> session.tool, asked |-> session'.asked, lines |-> session'.lines]
      /\ session'.goal = session.goal /\ session'.server = session.server /\ session'.tool = session.tool
  BY <1>1
<1>3. SessionInv'
  BY <1>1, <1>2 DEF SessionInv, Tools!Buildable
<1>4. CountsInv'
  <2>1. Listing' = Listing
    BY <1>2 DEF Listing
  <2> QED BY <2>1 DEF ToolsInv, CountsInv
<1>5. NamesInv'
  BY NamesStay DEF ToolsInv
<1>6. OutcomeInv'
  BY DEF ToolsInv, OutcomeInv
<1> QED BY <1>3, <1>4, <1>5, <1>6 DEF ToolsInv

LEMMA ServersTalk ==
    ASSUME ToolsInv,
           \/ Tools!Log \/ Tools!OwnRequest \/ Tools!Exit \/ Tools!Unreachable
           \/ \E is \in {"result", "error"} : Tools!Post(is) \/ \E k \in {1, 2} : Tools!Answer(k, is)
    PROVE  ToolsInv'
<1>1. /\ session.at \in {"stdio", "http"} => session # Tools!NoSession
      /\ session # Tools!NoSession =>
            /\ session = [at |-> session.at, goal |-> session.goal, server |-> session.server,
                          tool |-> session.tool, asked |-> session.asked, lines |-> session.lines]
            /\ Config[session.server].orderly => InOrder
  <2>1. Tools!NoSession.at = "none"
    BY DEF Tools!NoSession
  <2>2. SessionInv
    BY DEF ToolsInv
  <2> QED BY <2>1, <2>2 DEF SessionInv
<1>2. ASSUME NEW line \in Line, line.id = 0, Tools!PrintLine(line),
             UNCHANGED <<todo, tool_registry, summary, joined, outcome>>
      PROVE  ToolsInv'
  <2>1. session.at = "stdio" /\ session' = [session EXCEPT !.lines = Append(session.lines, line)]
    BY <1>2 DEF Tools!PrintLine
  <2>2. /\ session'.at = "stdio" /\ session'.asked = session.asked /\ session'.lines = Append(session.lines, line)
        /\ session' = [session EXCEPT !.at = session'.at, !.asked = session'.asked, !.lines = session'.lines]
    BY <1>1, <2>1
  <2>3. Config[session.server].orderly => InOrder'
    BY <1>1, <1>2, <2>1, <2>2, TakenNext DEF InOrder
  <2> QED BY <1>2, <2>1, <2>2, <2>3, SessionGoesOn
<1>3. CASE Tools!Log
  <2>1. [id |-> 0, is |-> "log"] \in Line
    BY DEF Line
  <2> QED BY <1>2, <1>3, <2>1 DEF Tools!Log
<1>4. CASE Tools!OwnRequest
  <2> DEFINE line == [id |-> 7, is |-> "request"]
  <2>1. /\ session.at = "stdio" /\ session' = [session EXCEPT !.lines = Append(session.lines, line)]
        /\ ~Config[session.server].orderly /\ UNCHANGED <<todo, tool_registry, summary, joined, outcome>>
    BY <1>4 DEF Tools!OwnRequest, Tools!PrintLine
  <2>2. /\ session'.at = "stdio"
        /\ session' = [session EXCEPT !.at = session'.at, !.asked = session'.asked, !.lines = session'.lines]
    BY <1>1, <2>1
  <2> QED BY <2>1, <2>2, SessionGoesOn
<1>5. CASE Tools!Exit
  <2>1. /\ session.at = "stdio" /\ session' = [session EXCEPT !.at = "read"]
        /\ UNCHANGED <<todo, tool_registry, summary, joined, outcome>>
    BY <1>5 DEF Tools!Exit
  <2>2. /\ session'.at = "read" /\ session'.asked = session.asked /\ session'.lines = session.lines
        /\ session' = [session EXCEPT !.at = session'.at, !.asked = session'.asked, !.lines = session'.lines]
    BY <1>1, <2>1
  <2>3. Config[session.server].orderly => InOrder'
    BY <1>1, <2>1, <2>2 DEF InOrder, Tools!Responses, Tools!Taken
  <2> QED BY <2>1, <2>2, <2>3, SessionGoesOn
<1>6. CASE Tools!Unreachable
  <2>1. /\ session.at \in {"stdio", "http"} /\ session' = [session EXCEPT !.at = "read", !.lines = <<>>]
        /\ UNCHANGED <<todo, tool_registry, summary, joined, outcome>>
    BY <1>6 DEF Tools!Unreachable
  <2>2. /\ session'.at = "read" /\ session'.asked = session.asked /\ session'.lines = <<>>
        /\ session' = [session EXCEPT !.at = session'.at, !.asked = session'.asked, !.lines = session'.lines]
    BY <1>1, <2>1
  <2>3. Config[session.server].orderly => InOrder'
    <3>1. Tools!Responses' = {}
      BY <2>2 DEF Tools!Responses
    <3>2. <<>> \in Seq(Line)
      OBVIOUS
    <3> QED BY <1>1, <2>1, <2>2, <3>1, <3>2 DEF InOrder
  <2> QED BY <2>1, <2>2, <2>3, SessionGoesOn
<1>7. ASSUME NEW is \in {"result", "error"}, Tools!Post(is) PROVE ToolsInv'
  <2> DEFINE line == [id |-> Head(session.asked), is |-> is]
             there == IF Len(session.asked) = 1 \/ is = "error" THEN "read" ELSE "http"
  <2>1. /\ session.at = "http"
        /\ session' = [session EXCEPT !.lines = Append(session.lines, line), !.asked = Tail(session.asked), !.at = there]
        /\ UNCHANGED <<todo, tool_registry, summary, joined, outcome>>
    BY <1>1, <1>7 DEF Tools!Post
  <2>2. /\ session'.at = there /\ session'.asked = Tail(session.asked) /\ session'.lines = Append(session.lines, line)
        /\ session' = [session EXCEPT !.at = session'.at, !.asked = session'.asked, !.lines = session'.lines]
    BY <1>1, <2>1
  <2>3. ASSUME Config[session.server].orderly PROVE InOrder'
    <3>1. InOrder /\ session.asked \in {<<1, 2>>, <<2>>}
      BY <1>1, <2>1, <2>3 DEF InOrder
    <3>2. /\ line \in Line /\ line.id # 0
          /\ Tail(session.asked) \in {<<2>>, <<>>}
          /\ line.id = 2 <=> Tail(session.asked) = <<>>
          /\ there = "http" => Tail(session.asked) # <<>>
      <4>1. CASE session.asked = <<1, 2>>
        BY <4>1 DEF Line
      <4>2. CASE session.asked = <<2>>
        BY <4>2 DEF Line
      <4> QED BY <3>1, <4>1, <4>2
    <3> HIDE DEF line, there
    <3> QED BY <2>2, <3>1, <3>2, TakenNext DEF InOrder
  <2> QED BY <2>1, <2>2, <2>3, SessionGoesOn
<1>8. ASSUME NEW is \in {"result", "error"}, NEW k \in {1, 2}, Tools!Answer(k, is) PROVE ToolsInv'
  <2> DEFINE line == [id |-> session.asked[k], is |-> is]
             left == Tools!RemoveAt(session.asked, k)
  <2>1. /\ session.at = "stdio" /\ k \in DOMAIN session.asked /\ (Config[session.server].orderly => k = 1)
        /\ session' = [session EXCEPT !.lines = Append(session.lines, line), !.asked = left]
        /\ UNCHANGED <<todo, tool_registry, summary, joined, outcome>>
    BY <1>1, <1>8 DEF Tools!Answer
  <2>2. /\ session'.at = "stdio" /\ session'.asked = left /\ session'.lines = Append(session.lines, line)
        /\ session' = [session EXCEPT !.at = session'.at, !.asked = session'.asked, !.lines = session'.lines]
    BY <1>1, <2>1
  <2>3. ASSUME Config[session.server].orderly PROVE InOrder'
    <3>1. InOrder /\ session.asked \in {<<1, 2>>, <<2>>} /\ k = 1
      BY <1>1, <2>1, <2>3 DEF InOrder
    <3>2. line \in Line /\ line.id # 0 /\ left \in {<<2>>, <<>>} /\ (line.id = 2 <=> left = <<>>)
      <4>1. CASE session.asked = <<1, 2>>
        <5>1. left = SubSeq(<<1, 2>>, 1, 0) \o SubSeq(<<1, 2>>, 2, 2)
          BY <3>1, <4>1 DEF Tools!RemoveAt
        <5> QED BY <3>1, <4>1, <5>1 DEF Line
      <4>2. CASE session.asked = <<2>>
        <5>1. left = SubSeq(<<2>>, 1, 0) \o SubSeq(<<2>>, 2, 1)
          BY <3>1, <4>2 DEF Tools!RemoveAt
        <5> QED BY <3>1, <4>2, <5>1 DEF Line
      <4> QED BY <3>1, <4>1, <4>2
    <3> HIDE DEF line, left
    <3> QED BY <2>2, <3>1, <3>2, TakenNext DEF InOrder
  <2> QED BY <2>1, <2>2, <2>3, SessionGoesOn
<1> QED BY <1>3, <1>4, <1>5, <1>6, <1>7, <1>8

(* A session begins. *)
LEMMA SessionBegins ==
    ASSUME NEW goal \in {"list", "call"}, NEW i \in DOMAIN Config, NEW tool, Tools!Buildable(i),
           session' = Tools!Opened(goal, i, tool)
    PROVE  SessionInv' /\ session'.at \in {"stdio", "http"} /\ session'.goal = goal
<1> DEFINE asked == IF Config[i].transport = "http" /\ goal = "call" THEN <<2>> ELSE <<1, 2>>
<1>1. session' = [at |-> Config[i].transport, goal |-> goal, server |-> i, tool |-> tool,
                  asked |-> asked, lines |-> <<>>]
  BY DEF Tools!Opened
<1>2. asked \in {<<1, 2>>, <<2>>, <<>>} /\ asked # <<>>
  OBVIOUS
<1>3. Config[i].transport \in {"stdio", "http"}
  BY DEF Tools!Buildable
<1> HIDE DEF asked
<1>4. InOrder'
  <2>1. Tools!Responses' = {}
    BY <1>1 DEF Tools!Responses
  <2>2. session'.lines \in Seq(Line)
    BY <1>1
  <2> QED BY <1>1, <1>2, <2>1, <2>2 DEF InOrder
<1>5. Tools!Buildable(session'.server)
  BY <1>1
<1> QED BY <1>1, <1>3, <1>4, <1>5 DEF SessionInv, Tools!Buildable

LEMMA NoneIsOpen ==
    /\ Tools!NoSession.at = "none"
    /\ session = Tools!NoSession => SessionInv /\ Listing = 0
<1>1. Tools!NoSession.at = "none"
  BY DEF Tools!NoSession
<1>2. session = Tools!NoSession => Listing = 0
  BY <1>1 DEF Listing
<1> QED BY <1>1, <1>2 DEF SessionInv

LEMMA Connecting == ASSUME ToolsInv, Tools!Connect PROVE ToolsInv'
<1>1. /\ session = Tools!NoSession /\ todo # <<>> /\ todo' = Tail(todo)
      /\ UNCHANGED <<tool_registry, joined, outcome>>
  BY DEF Tools!Connect
<1>2. /\ Head(todo) \in DOMAIN Config /\ todo' \in Seq(DOMAIN Config) /\ Len(todo') = Len(todo) - 1
      /\ Len(todo) \in Nat
  BY <1>1 DEF ToolsInv, CountsInv
<1>3. NamesInv' /\ OutcomeInv'
  <2>1. NamesInv'
    BY <1>1, NamesStay DEF ToolsInv
  <2> QED BY <1>1, <2>1 DEF ToolsInv, OutcomeInv
<1>4. CASE Tools!Buildable(Head(todo))
  <2>1. session' = Tools!Opened("list", Head(todo), "") /\ summary' = summary
    BY <1>4 DEF Tools!Connect
  <2>2. SessionInv' /\ Listing' = 1
    BY <1>2, <1>4, <2>1, SessionBegins DEF Listing
  <2>3. CountsInv'
    <3>1. CountsInv /\ Listing = 0
      BY <1>1, NoneIsOpen DEF ToolsInv
    <3>2. summary.servers + summary.failed + Len(todo') + 1 = Len(Config)
      BY <1>2, <3>1, ServersAreListed DEF CountsInv
    <3> QED BY <1>2, <2>1, <2>2, <3>1, <3>2 DEF CountsInv
  <2> QED BY <1>3, <2>2, <2>3 DEF ToolsInv
<1>5. CASE ~Tools!Buildable(Head(todo))
  <2>1. session' = session /\ summary' = [summary EXCEPT !.failed = @ + 1]
    BY <1>5 DEF Tools!Connect, Tools!Fail
  <2>2. SessionInv' /\ Listing' = 0
    BY <1>1, <2>1 DEF SessionInv, Listing, Tools!NoSession
  <2>3. /\ summary' = [servers |-> summary'.servers, tools |-> summary'.tools, failed |-> summary'.failed]
        /\ summary'.servers = summary.servers /\ summary'.failed = summary.failed + 1
    BY <2>1 DEF ToolsInv, CountsInv
  <2>4. CountsInv'
    BY <1>1, <1>2, <2>2, <2>3, NoneIsOpen DEF ToolsInv, CountsInv
  <2> QED BY <1>3, <2>2, <2>4 DEF ToolsInv
<1> QED BY <1>4, <1>5

(* A server has been read, and nothing or what it offers is registered. *)
LEMMA ServerJoins ==
    ASSUME NamesInv, NEW e \in [server : DOMAIN Config, read : {"own", "empty"}, answered : BOOLEAN],
           joined' = Append(joined, e), Tools!Buildable(e.server),
           Config[e.server].orderly /\ e.answered => e.read = "own",
           tool_registry' = IF e.read = "own" THEN Tools!Registered(e.server) ELSE tool_registry
    PROVE  NamesInv'
<1>0. PICK N \in Nat : N = Len(joined)
  BY DEF NamesInv
<1> DEFINE i == e.server
           offered == {Tools!RemoteName(Tools!Adapted(i)[d].name) : d \in DOMAIN Tools!Adapted(i)}
           new == IF e.read = "own" THEN offered \ DOMAIN tool_registry ELSE {}
<1>1. /\ DOMAIN joined = 1..N /\ DOMAIN joined' = 1..(N + 1)
      /\ joined' \in Seq([server : DOMAIN Config, read : {"own", "empty"}, answered : BOOLEAN])
      /\ joined'[N + 1] = e /\ \A k \in 1..N : joined'[k] = joined[k]
  BY <1>0 DEF NamesInv
<1>2. /\ DOMAIN tool_registry' = DOMAIN tool_registry \cup new
      /\ \A n \in DOMAIN tool_registry : n \notin new /\ tool_registry'[n] = tool_registry[n]
      /\ \A n \in new : tool_registry'[n].server = i
  <2>1. CASE e.read = "own"
    <3>1. tool_registry' = [n \in DOMAIN tool_registry \cup new |->
                              IF n \in new THEN [origin |-> "mcp", server |-> i] ELSE tool_registry[n]]
      BY <2>1 DEF Tools!Registered
    <3>2. \A n \in DOMAIN tool_registry : n \notin new
      OBVIOUS
    <3> HIDE DEF new
    <3> QED BY <3>1, <3>2
  <2>2. CASE e.read # "own"
    BY <2>2
  <2> QED BY <2>1, <2>2
<1>3. /\ \A k \in 1..N : \A name : Tools!Offers(k, name)' <=> Tools!Offers(k, name)
      /\ \A name : Tools!Offers(N + 1, name)' <=>
            e.read = "own" /\ \E d \in DOMAIN Tools!Adapted(i) : Tools!Adapted(i)[d].name = name
  BY <1>1 DEF Tools!Offers
<1>4. /\ \A s : \A k \in Tools!ReadOf(s) : k \in 1..N /\ k \in Tools!ReadOf(s)'
      /\ e.read = "own" => N + 1 \in Tools!ReadOf(i)'
  BY <1>1 DEF Tools!ReadOf
<1>5. \A n \in new : e.read = "own" /\ n = Tools!RemoteName(n.tool)
  BY DEF Tools!RemoteName
<1>6. e.read = "own" => offered \subseteq DOMAIN tool_registry \cup new
  OBVIOUS
<1> HIDE DEF new
<1>7. \A n \in OursByName : n \in DOMAIN tool_registry' /\ tool_registry'[n].origin = "native"
  BY <1>2 DEF NamesInv
<1>8. ASSUME NEW n \in DOMAIN tool_registry' \ OursByName, NEW s, s = tool_registry'[n].server
      PROVE  /\ s \in DOMAIN Config /\ Tools!Buildable(s)
             /\ \E k \in Tools!ReadOf(s)' : \A j \in 1..(k - 1) : ~Tools!Offers(j, n.tool)'
  <2>1. CASE n \in DOMAIN tool_registry
    <3>1. s = tool_registry[n].server
      BY <1>2, <1>8, <2>1
    <3>2. /\ s \in DOMAIN Config /\ Tools!Buildable(s)
          /\ \E k \in Tools!ReadOf(s) : \A j \in 1..(k - 1) : ~Tools!Offers(j, n.tool)
      BY <1>8, <2>1, <3>1 DEF NamesInv
    <3>3. PICK k \in Tools!ReadOf(s) : \A j \in 1..(k - 1) : ~Tools!Offers(j, n.tool)
      BY <3>2
    <3>4. k \in 1..N /\ k \in Tools!ReadOf(s)'
      BY <1>4
    <3>5. \A j \in 1..(k - 1) : ~Tools!Offers(j, n.tool)'
      BY <1>3, <3>3, <3>4
    <3> QED BY <3>2, <3>4, <3>5
  <2>2. CASE n \in new
    <3>1. s = i /\ e.read = "own" /\ n = Tools!RemoteName(n.tool) /\ n \notin DOMAIN tool_registry
      BY <1>2, <1>5, <1>8, <2>2
    <3>2. \A j \in 1..N : ~Tools!Offers(j, n.tool)'
      BY <1>1, <1>3, <3>1, SMTT(30) DEF NamesInv
    <3>3. N + 1 \in Tools!ReadOf(s)' /\ (N + 1) - 1 = N
      BY <1>4, <3>1
    <3> QED BY <3>1, <3>2, <3>3
  <2> QED BY <1>2, <1>8, <2>1, <2>2
<1>9. ASSUME NEW k \in DOMAIN joined', NEW name, Tools!Offers(k, name)'
      PROVE  Tools!RemoteName(name) \in DOMAIN tool_registry'
  <2>1. CASE k \in 1..N
    BY <1>1, <1>2, <1>3, <1>9, <2>1 DEF NamesInv
  <2>2. CASE k = N + 1
    <3>1. Tools!RemoteName(name) \in offered /\ e.read = "own"
      BY <1>3, <1>9, <2>2
    <3> HIDE DEF offered
    <3> QED BY <1>2, <1>6, <3>1
  <2> QED BY <1>1, <2>1, <2>2
<1>10. \A k \in DOMAIN joined' : Config[joined'[k].server].orderly /\ joined'[k].answered => joined'[k].read = "own"
  BY <1>1 DEF NamesInv
<1>11. \A n \in DOMAIN tool_registry' \ OursByName :
          /\ tool_registry'[n].server \in DOMAIN Config
          /\ Tools!Buildable(tool_registry'[n].server)
          /\ \E k \in {x \in DOMAIN joined' : joined'[x].server = tool_registry'[n].server /\ joined'[x].read = "own"} :
                \A j \in 1..(k - 1) : ~Tools!Offers(j, n.tool)'
  BY <1>8 DEF Tools!ReadOf
<1> QED BY <1>1, <1>7, <1>9, <1>10, <1>11 DEF NamesInv, Tools!Buildable, Tools!ReadOf

(* What is read when the server has answered in order. *)
LEMMA ReadInOrder ==
    ASSUME ToolsInv, session.at = "read"
    PROVE  /\ session # Tools!NoSession /\ session.server \in DOMAIN Config /\ Tools!Buildable(session.server)
           /\ session.goal \in {"list", "call"}
           /\ Tools!Reading \in {"raise", "own", "empty"}
           /\ Config[session.server].orderly /\ Tools!Reading = "own" => session.asked = <<>>
           /\ Config[session.server].orderly /\ Tools!Reading = "empty" => session.asked # <<>>
<1>1. session # Tools!NoSession /\ SessionInv
  BY NoneIsOpen DEF ToolsInv
<1>2. Tools!Reading \in {"raise", "own", "empty"}
  BY DEF Tools!Reading
<1>3. Tools!Reading # "raise" => Tools!Responses # {} /\ (Tools!Reading = "own" <=> Tools!Taken.id = 2)
  BY DEF Tools!Reading, Tools!Taken
<1> QED BY <1>1, <1>2, <1>3 DEF SessionInv, InOrder

LEMMA Joins == ASSUME ToolsInv, Tools!Join PROVE ToolsInv'
<1> DEFINE i == session.server
           answered == session.asked = <<>>
           e == [server |-> i, read |-> Tools!Reading, answered |-> answered]
<1>1. /\ session.at = "read" /\ session.goal = "list" /\ session' = Tools!NoSession
      /\ UNCHANGED <<todo, outcome>>
      /\ joined' = IF Tools!Reading = "raise" THEN joined ELSE Append(joined, e)
  BY DEF Tools!Join
<1>2. /\ i \in DOMAIN Config /\ Tools!Buildable(i) /\ Tools!Reading \in {"raise", "own", "empty"}
      /\ Config[i].orderly /\ Tools!Reading = "empty" => session.asked # <<>>
  BY <1>1, ReadInOrder
<1>3. SessionInv' /\ Listing' = 0 /\ Listing = 1
  BY <1>1 DEF SessionInv, Listing, Tools!NoSession
<1>4. tool_registry' = IF Tools!Reading = "own" THEN Tools!Registered(i) ELSE tool_registry
  BY DEF Tools!Join
<1>5. NamesInv'
  <2>1. CASE Tools!Reading = "raise"
    BY <1>1, <1>4, <2>1, NamesStay DEF ToolsInv
  <2>2. CASE Tools!Reading # "raise"
    <3>1. e \in [server : DOMAIN Config, read : {"own", "empty"}, answered : BOOLEAN]
      BY <1>2, <2>2
    <3>2. e.server = i /\ e.read = Tools!Reading /\ (e.answered <=> answered)
      OBVIOUS
    <3>3. Config[i].orderly /\ answered => Tools!Reading = "own"
      BY <1>2, <2>2
    <3>4. joined' = Append(joined, e)
      BY <1>1, <2>2
    <3> HIDE DEF e, i, answered
    <3> QED BY <1>2, <1>4, <3>1, <3>2, <3>3, <3>4, ServerJoins DEF ToolsInv
  <2> QED BY <2>1, <2>2
<1>6. /\ summary' = [servers |-> summary'.servers, tools |-> summary'.tools, failed |-> summary'.failed]
      /\ \/ summary'.servers = summary.servers + 1 /\ summary'.failed = summary.failed
         \/ summary'.servers = summary.servers /\ summary'.failed = summary.failed + 1
  <2>1. \/ summary' = [summary EXCEPT !.failed = @ + 1]
        \/ summary' = [summary EXCEPT !.servers = @ + 1]
        \/ \E more : summary' = [summary EXCEPT !.servers = @ + 1, !.tools = more]
    BY DEF Tools!Join, Tools!Fail
  <2>2. summary = [servers |-> summary.servers, tools |-> summary.tools, failed |-> summary.failed]
    BY DEF ToolsInv, CountsInv
  <2> QED BY <2>1, <2>2
<1>7. CountsInv'
  <2>1. Len(todo) \in Nat /\ Len(Config) \in Nat
    BY ServersAreListed DEF ToolsInv, CountsInv
  <2>2. summary'.servers \in Nat /\ summary'.failed \in Nat
        /\ summary'.servers + summary'.failed + Len(todo) + Listing' = Len(Config)
    BY <1>3, <1>6, <2>1 DEF ToolsInv, CountsInv
  <2>3. todo' \in Seq(DOMAIN Config) /\ Len(todo') = Len(todo)
    BY <1>1 DEF ToolsInv, CountsInv
  <2> QED BY <1>6, <2>2, <2>3 DEF CountsInv
<1> QED BY <1>1, <1>3, <1>5, <1>7 DEF ToolsInv, OutcomeInv

LEMMA ToolsAreCalled ==
    ASSUME ToolsInv, \/ Tools!Return \/ \E n \in Tools!Names : Tools!Invoke(n) \/ Tools!Serve(n)
    PROVE  ToolsInv'
<1>1. UNCHANGED <<todo, tool_registry, summary, joined>>
  BY DEF Tools!Return, Tools!Invoke, Tools!Serve
<1>2. NamesInv'
  BY <1>1, NamesStay DEF ToolsInv
<1>3. CASE Tools!Return
  <2>1. /\ session.at = "read" /\ session.goal = "call" /\ session' = Tools!NoSession
        /\ outcome' = [kind |-> Tools!Reading, server |-> session.server, tool |-> session.tool,
                       unanswered |-> session.asked # <<>>]
    BY <1>3 DEF Tools!Return, Tools!Ended
  <2>2. SessionInv' /\ Listing' = 0 /\ Listing = 0
    BY <2>1 DEF SessionInv, Listing, Tools!NoSession
  <2>3. OutcomeInv'
    BY <2>1, ReadInOrder DEF OutcomeInv
  <2>4. CountsInv'
    BY <1>1, <2>2 DEF ToolsInv, CountsInv
  <2> QED BY <1>2, <2>2, <2>3, <2>4 DEF ToolsInv
<1>4. ASSUME NEW n, Tools!Serve(n) PROVE ToolsInv'
  <2>1. /\ session' = session
        /\ \E kind \in {"own", "isError", "INVALID_PARAMS", "METHOD_NOT_FOUND"} :
              outcome' = [kind |-> kind, server |-> 0, tool |-> n.tool, unanswered |-> FALSE]
    BY <1>4 DEF Tools!Serve, Tools!Ended
  <2>2. OutcomeInv'
    BY <2>1 DEF OutcomeInv
  <2>3. SessionInv' /\ Listing' = Listing
    BY <2>1 DEF ToolsInv, SessionInv, InOrder, Listing, Tools!Responses, Tools!Taken, Tools!Buildable
  <2>4. CountsInv'
    BY <1>1, <2>3 DEF ToolsInv, CountsInv
  <2> QED BY <1>2, <2>2, <2>3, <2>4 DEF ToolsInv
<1>5. ASSUME NEW n, Tools!Invoke(n) PROVE ToolsInv'
  <2>1. session = Tools!NoSession /\ Listing = 0
    BY <1>5, NoneIsOpen DEF Tools!Invoke
  <2>2. \/ /\ session' = session
           /\ \E kind \in {"refused", "own"} :
                 outcome' = [kind |-> kind, server |-> 0, tool |-> n.tool, unanswered |-> FALSE]
        \/ /\ n \in DOMAIN tool_registry /\ tool_registry[n].origin = "mcp"
           /\ session' = Tools!Opened("call", tool_registry[n].server, n.tool) /\ outcome' = outcome
    BY <1>5 DEF Tools!Invoke, Tools!Ended
  <2>3. SessionInv' /\ Listing' = 0
    <3>1. CASE session' = session
      BY <2>1, <3>1 DEF SessionInv, Listing, Tools!NoSession
    <3>2. CASE n \in DOMAIN tool_registry /\ tool_registry[n].origin = "mcp"
               /\ session' = Tools!Opened("call", tool_registry[n].server, n.tool)
      <4>1. n \in DOMAIN tool_registry \ OursByName
        BY <3>2 DEF ToolsInv, NamesInv
      <4>2. tool_registry[n].server \in DOMAIN Config /\ Tools!Buildable(tool_registry[n].server)
        BY <4>1 DEF ToolsInv, NamesInv
      <4> QED BY <3>2, <4>2, SessionBegins DEF Listing
    <3> QED BY <2>2, <3>1, <3>2
  <2>4. OutcomeInv'
    BY <2>2 DEF ToolsInv, OutcomeInv
  <2>5. CountsInv'
    BY <1>1, <2>1, <2>3 DEF ToolsInv, CountsInv
  <2> QED BY <1>2, <2>3, <2>4, <2>5 DEF ToolsInv
<1> QED BY <1>3, <1>4, <1>5

LEMMA ToolsInitial == PlatformInit => ToolsInv
<1> SUFFICES ASSUME PlatformInit PROVE ToolsInv
  OBVIOUS
<1>1. /\ todo = [i \in DOMAIN Config |-> i] /\ summary = [servers |-> 0, tools |-> 0, failed |-> 0]
      /\ joined = <<>> /\ session = Tools!NoSession
      /\ tool_registry = [n \in OursByName |-> [origin |-> "native", server |-> 0]]
      /\ outcome = [kind |-> "none", server |-> 0, tool |-> "", unanswered |-> FALSE]
  BY DEF PlatformInit, Tools!Init, OursByName
<1>2. todo \in Seq(DOMAIN Config) /\ Len(todo) = Len(Config)
  <2>1. todo \in [1..Len(Config) -> DOMAIN Config]
    BY <1>1, ServersAreListed
  <2> QED BY <2>1, ServersAreListed, SMT
<1>3. CountsInv
  <2>1. Listing = 0 /\ Len(Config) \in Nat
    BY <1>1, NoneIsOpen, ServersAreListed
  <2>2. summary.servers = 0 /\ summary.failed = 0
        /\ summary = [servers |-> summary.servers, tools |-> summary.tools, failed |-> summary.failed]
    BY <1>1
  <2> QED BY <1>2, <2>1, <2>2 DEF CountsInv
<1>4. NamesInv
  <2>1. joined \in Seq([server : DOMAIN Config, read : {"own", "empty"}, answered : BOOLEAN]) /\ DOMAIN joined = {}
    <3>1. <<>> \in Seq([server : DOMAIN Config, read : {"own", "empty"}, answered : BOOLEAN])
      OBVIOUS
    <3>2. DOMAIN <<>> = {}
      OBVIOUS
    <3> QED BY <1>1, <3>1, <3>2
  <2> QED BY <1>1, <2>1 DEF NamesInv
<1> QED BY <1>1, <1>3, <1>4, NoneIsOpen DEF ToolsInv, OutcomeInv

(* A name keeps meaning one tool, native or of the first server that was   *)
(* read to offer it; a server that answers what it is asked in order, to   *)
(* the end, has its tools registered and each call answered by its own     *)
(* result; and every configured server joined, failed or is still to do,   *)
(* whatever other servers print, leave out or offer (discover_mcp_tools,   *)
(* Registry.register, StdioMCPClient, MCPToolAdapter).                     *)
THEOREM ToolsAnswer == PlatformSpec => []ToolsAnswerForThemselves
<1>1. ToolsInv /\ [PlatformNext]_allVars => ToolsInv'
  <2> SUFFICES ASSUME ToolsInv, [PlatformNext]_allVars PROVE ToolsInv'
    OBVIOUS
  <2>1. CASE Tools!Next
    BY <2>1, Connecting, Joins, ServersTalk, ToolsAreCalled DEF Tools!Next
  <2>2. CASE UNCHANGED toolsVars
    <3>1. UNCHANGED <<todo, tool_registry, summary, joined, session, outcome>>
      BY <2>2 DEF toolsVars
    <3>2. NamesInv'
      BY <3>1, NamesStay DEF ToolsInv
    <3>3. SessionInv' /\ Listing' = Listing
      BY <3>1 DEF ToolsInv, SessionInv, InOrder, Listing, Tools!Responses, Tools!Taken, Tools!Buildable
    <3>4. CountsInv' /\ OutcomeInv'
      BY <3>1, <3>3 DEF ToolsInv, CountsInv, OutcomeInv
    <3> QED BY <3>2, <3>3, <3>4 DEF ToolsInv
  <2> QED BY <2>1, <2>2 DEF PlatformNext, allVars
<1>2. ToolsInv => Tools!ToolsAnswerForThemselves
  <2> SUFFICES ASSUME ToolsInv PROVE Tools!ToolsAnswerForThemselves
    OBVIOUS
  <2>1. \A x \in Native : tool_registry[Tools!NativeName(x)].origin = "native"
    BY DEF ToolsInv, NamesInv, OursByName
  <2>2. \A n \in DOMAIN tool_registry \ {Tools!NativeName(x) : x \in Native} :
          \E k \in Tools!ReadOf(tool_registry[n].server) : \A j \in 1..(k - 1) : ~Tools!Offers(j, n.tool)
    BY DEF ToolsInv, NamesInv, OursByName
  <2>3. ASSUME NEW k \in DOMAIN joined, Config[joined[k].server].orderly, joined[k].answered,
               NEW d \in DOMAIN Tools!Adapted(joined[k].server)
        PROVE  Tools!RemoteName(Tools!Adapted(joined[k].server)[d].name) \in DOMAIN tool_registry
    <3>1. joined[k].read = "own"
      BY <2>3 DEF ToolsInv, NamesInv
    <3>2. Tools!Offers(k, Tools!Adapted(joined[k].server)[d].name)
      BY <3>1 DEF Tools!Offers
    <3> QED BY <3>2 DEF ToolsInv, NamesInv
  <2>4. summary.servers + summary.failed + Len(todo) + Listing = Len(Config)
    BY DEF ToolsInv, CountsInv
  <2> QED BY <2>1, <2>2, <2>3, <2>4 DEF ToolsInv, OutcomeInv, Tools!ToolsAnswerForThemselves, Listing
<1> QED BY <1>1, <1>2, ToolsInitial, PTL DEF PlatformSpec, ToolsAnswerForThemselves
----------------------------------------------------------------------------
(* The scheduler's tasks: Notifications. *)

LEMMA Appended ==
    ASSUME NEW S, NEW s \in Seq(S), NEW e \in S
    PROVE  /\ Append(s, e) \in Seq(S)
           /\ Len(s) \in Nat /\ DOMAIN s = 1..Len(s)
           /\ Len(Append(s, e)) = Len(s) + 1
           /\ DOMAIN Append(s, e) = 1..(Len(s) + 1)
           /\ Append(s, e)[Len(s) + 1] = e
           /\ \A i \in DOMAIN s : Append(s, e)[i] = s[i]
  BY SMT

LEMMA Taken ==
    ASSUME NEW S, NEW s \in Seq(S), s # <<>>
    PROVE  /\ 1 \in DOMAIN s /\ Head(s) = s[1] /\ Head(s) \in S
           /\ Tail(s) \in Seq(S)
           /\ \A i \in DOMAIN Tail(s) : i \in Nat /\ i > 0 /\ i + 1 \in DOMAIN s /\ Tail(s)[i] = s[i + 1]
           /\ \A i \in DOMAIN s : i = 1 \/ (i - 1 \in DOMAIN Tail(s) /\ Tail(s)[i - 1] = s[i])
  BY SMT

Names == {"in_app", "telegram", "smtp"}
NotePlaces == {"idle", "next", "preference", "recipient", "send", "done", "raised"}
NoteKinds == {"event", "digest", "digest by hand"}
Noted == [user : Notify!Users, channel : Names \cup {"none"}]
Note == [at : NotePlaces, kind : NoteKinds, todo : Seq(Notify!Users), channel : Nat, sent : Nat,
         log : Seq(Noted)]

NotifyTypeOK ==
    /\ task \in [Tasks -> Note]
    /\ inbox \in [Notify!Users -> Nat]
    /\ enabled \in BOOLEAN

(* What a list of attempts says of a user. *)
NoTwice(log) == \A j, k \in DOMAIN log : log[j] = log[k] => j = k
Unheard(log, user) == \A k \in DOMAIN log : log[k].user # user
PassedOver(log, user) ==
    /\ \A k \in DOMAIN log : log[k].user = user => log[k].channel = "none"
    /\ \E k \in DOMAIN log : log[k].user = user
TriedUpTo(log, user, last) ==
    /\ \A k \in DOMAIN log : log[k].user = user => \E c \in 1..last : log[k].channel = Channels[c]
    /\ \A c \in 1..last : \E k \in DOMAIN log : log[k].user = user /\ log[k].channel = Channels[c]
Treated(log, user) == \/ Unheard(log, user)
                      \/ PassedOver(log, user)
                      \/ TriedUpTo(log, user, Len(Channels))
Addressed(log) == {log[k].user : k \in DOMAIN log}

(* A task tells its users in turn: one it has not come to is unheard, and  *)
(* the one it is at was tried on the channels before the next one.         *)
NoteInv(note) ==
    /\ NoTwice(note.log)
    /\ \A i, j \in DOMAIN note.todo : note.todo[i] = note.todo[j] => i = j
    /\ note.at \in {"preference", "recipient", "send"} => note.todo # <<>>
    /\ note.channel \in 1..Len(Channels)
    /\ note.at # "send" => note.channel = 1
    /\ \A i \in DOMAIN note.todo : i > 1 \/ note.at # "send" => Unheard(note.log, note.todo[i])
    /\ note.at = "send" => TriedUpTo(note.log, note.todo[1], note.channel - 1)
    /\ \A user \in Notify!Users :
          (\A i \in DOMAIN note.todo : note.todo[i] # user) => Treated(note.log, user)
    /\ note.sent + (IF note.at = "send" /\ note.channel > 1 THEN 1 ELSE 0) = Cardinality(Addressed(note.log))

(* The schedule has one run at most. *)
OneScheduled == \A t, u \in Notify!Scheduled : t = u

NotifyInv ==
    /\ NotifyTypeOK
    /\ \A t \in Tasks : NoteInv(task[t])
    /\ OneScheduled

----------------------------------------------------------------------------
LEMMA NotifyCounts == \A S : Notify!Cardinality(S) = Cardinality(S)
  BY DEF Notify!Cardinality, Cardinality

LEMMA NotedAre == \A log \in Seq(Noted) : \A k \in DOMAIN log :
                    /\ log[k] \in Noted /\ log[k].user \in Notify!Users
                    /\ log[k].channel \in Names \cup {"none"}
<1> SUFFICES ASSUME NEW log \in Seq(Noted), NEW k \in DOMAIN log
             PROVE  /\ log[k] \in Noted /\ log[k].user \in Notify!Users
                    /\ log[k].channel \in Names \cup {"none"}
  OBVIOUS
<1>1. log[k] \in Noted
  BY SMT
<1> QED BY <1>1 DEF Noted

LEMMA SameNoted == \A m, n \in Noted : m.user = n.user /\ m.channel = n.channel => m = n
  BY DEF Noted

(* The channels: their names differ, and none is called "none".            *)
LEMMA ChannelNames ==
    /\ Len(Channels) \in Nat /\ Len(Channels) > 0 /\ DOMAIN Channels = 1..Len(Channels)
    /\ \A c \in 1..Len(Channels) : Channels[c] \in Names /\ Channels[c] # "none"
    /\ \A c, d \in 1..Len(Channels) : Channels[c] = Channels[d] => c = d
<1>1. Channels \in Seq(Names) /\ Channels # <<>>
  BY ChannelsAssumption DEF Names
<1>2. Len(Channels) \in Nat /\ Len(Channels) > 0 /\ DOMAIN Channels = 1..Len(Channels)
  BY <1>1, SMT
<1>3. \A c \in 1..Len(Channels) : Channels[c] \in Names
  BY <1>1, <1>2, SMT
<1> QED BY <1>2, <1>3, ChannelsAssumption DEF Names

LEMMA AddressedIsFinite ==
    ASSUME NEW log \in Seq(Noted)
    PROVE  IsFiniteSet(Addressed(log)) /\ Cardinality(Addressed(log)) \in Nat
<1>1. Addressed(log) \subseteq Notify!Users
  BY NotedAre DEF Addressed
<1>2. IsFiniteSet(Notify!Users)
  BY FS_Interval, ActiveAssumption DEF Notify!Users
<1>3. IsFiniteSet(Addressed(log))
  BY <1>1, <1>2, FS_Subset
<1> QED BY <1>3, FS_CardinalityType

(* One more attempt is on record. *)
LEMMA OneMore ==
    ASSUME NEW log \in Seq(Noted), NEW e \in Noted, NEW more, more = Append(log, e)
    PROVE  /\ more \in Seq(Noted)
           /\ Addressed(more) = Addressed(log) \cup {e.user}
           /\ e.user \in Addressed(log) => Cardinality(Addressed(more)) = Cardinality(Addressed(log))
           /\ Unheard(log, e.user) => Cardinality(Addressed(more)) = Cardinality(Addressed(log)) + 1
           /\ (\A k \in DOMAIN log : log[k] # e) /\ NoTwice(log) => NoTwice(more)
           /\ \A user : user # e.user =>
                 /\ Unheard(log, user) => Unheard(more, user)
                 /\ Treated(log, user) => Treated(more, user)
           /\ e.channel = "none" /\ Unheard(log, e.user) => PassedOver(more, e.user)
           /\ \A c \in 1..Len(Channels) :
                 e.channel = Channels[c] /\ TriedUpTo(log, e.user, c - 1) => TriedUpTo(more, e.user, c)
<1> DEFINE n == Len(log) + 1
<1>1. /\ more \in Seq(Noted) /\ DOMAIN more = DOMAIN log \cup {n} /\ n \notin DOMAIN log
      /\ more[n] = e /\ \A k \in DOMAIN log : more[k] = log[k]
  <2>1. /\ more \in Seq(Noted) /\ Len(log) \in Nat /\ DOMAIN log = 1..Len(log)
        /\ DOMAIN more = 1..(Len(log) + 1) /\ more[Len(log) + 1] = e
        /\ \A k \in DOMAIN log : more[k] = log[k]
    BY Appended
  <2>2. 1..(Len(log) + 1) = 1..Len(log) \cup {Len(log) + 1} /\ Len(log) + 1 \notin 1..Len(log)
    BY <2>1, SMT
  <2> QED BY <2>1, <2>2
<1> HIDE DEF n
<1>2. Addressed(more) = Addressed(log) \cup {e.user}
  BY <1>1 DEF Addressed
<1>3. e.user \in Addressed(log) => Cardinality(Addressed(more)) = Cardinality(Addressed(log))
  <2>1. e.user \in Addressed(log) => Addressed(more) = Addressed(log)
    BY <1>2
  <2> QED BY <2>1
<1>4. Unheard(log, e.user) => Cardinality(Addressed(more)) = Cardinality(Addressed(log)) + 1
  <2>1. Unheard(log, e.user) => e.user \notin Addressed(log)
    BY DEF Unheard, Addressed
  <2> QED BY <1>2, <2>1, AddressedIsFinite, FS_AddElement
<1>5. (\A k \in DOMAIN log : log[k] # e) /\ NoTwice(log) => NoTwice(more)
  BY <1>1 DEF NoTwice
<1>6. ASSUME NEW user, user # e.user
      PROVE  /\ Unheard(log, user) => Unheard(more, user)
             /\ PassedOver(log, user) => PassedOver(more, user)
             /\ \A c \in Nat : TriedUpTo(log, user, c) => TriedUpTo(more, user, c)
  <2>1. Unheard(log, user) => Unheard(more, user)
    BY <1>1, <1>6 DEF Unheard
  <2>2. PassedOver(log, user) => PassedOver(more, user)
    BY <1>1, <1>6 DEF PassedOver
  <2>3. ASSUME NEW c \in Nat, TriedUpTo(log, user, c) PROVE TriedUpTo(more, user, c)
    <3>1. \A k \in DOMAIN more : more[k].user = user => \E i \in 1..c : more[k].channel = Channels[i]
      BY <1>1, <1>6, <2>3 DEF TriedUpTo
    <3>2. ASSUME NEW i \in 1..c
          PROVE  \E k \in DOMAIN more : more[k].user = user /\ more[k].channel = Channels[i]
      <4>1. PICK k \in DOMAIN log : log[k].user = user /\ log[k].channel = Channels[i]
        BY <2>3 DEF TriedUpTo
      <4> QED BY <1>1, <4>1
    <3> QED BY <3>1, <3>2 DEF TriedUpTo
  <2> QED BY <2>1, <2>2, <2>3
<1>7. \A user : user # e.user => (Treated(log, user) => Treated(more, user))
  BY <1>6, ChannelNames DEF Treated
<1>8. e.channel = "none" /\ Unheard(log, e.user) => PassedOver(more, e.user)
  BY <1>1 DEF PassedOver, Unheard
<1>9. ASSUME NEW c \in 1..Len(Channels), e.channel = Channels[c], TriedUpTo(log, e.user, c - 1)
      PROVE  TriedUpTo(more, e.user, c)
  <2>1. 1..c = 1..(c - 1) \cup {c}
    BY ChannelNames, SMT
  <2>2. \A k \in DOMAIN more : more[k].user = e.user => \E i \in 1..c : more[k].channel = Channels[i]
    BY <1>1, <1>9, <2>1 DEF TriedUpTo
  <2>3. ASSUME NEW i \in 1..c
        PROVE  \E k \in DOMAIN more : more[k].user = e.user /\ more[k].channel = Channels[i]
    <3>1. CASE i = c
      BY <1>1, <1>9, <3>1
    <3>2. CASE i \in 1..(c - 1)
      <4>1. PICK k \in DOMAIN log : log[k].user = e.user /\ log[k].channel = Channels[i]
        BY <1>9, <3>2 DEF TriedUpTo
      <4> QED BY <1>1, <4>1
    <3> QED BY <2>1, <3>1, <3>2
  <2> QED BY <2>2, <2>3 DEF TriedUpTo
<1> QED BY <1>1, <1>2, <1>3, <1>4, <1>5, <1>6, <1>7, <1>8, <1>9

(* Who is not in the rest of a list is its first, or was not in it.        *)
LEMMA RestOf ==
    ASSUME NEW list \in Seq(Notify!Users), list # <<>>,
           \A i, j \in DOMAIN list : list[i] = list[j] => i = j
    PROVE  /\ Tail(list) \in Seq(Notify!Users) /\ list[1] \in Notify!Users /\ Head(list) = list[1]
           /\ \A i, j \in DOMAIN Tail(list) : Tail(list)[i] = Tail(list)[j] => i = j
           /\ \A i \in DOMAIN Tail(list) :
                 \E k \in DOMAIN list : k > 1 /\ Tail(list)[i] = list[k] /\ list[k] # list[1]
           /\ \A user : (\A i \in DOMAIN Tail(list) : Tail(list)[i] # user) =>
                 user = list[1] \/ \A i \in DOMAIN list : list[i] # user
<1>1. /\ 1 \in DOMAIN list /\ Head(list) = list[1] /\ Head(list) \in Notify!Users
      /\ Tail(list) \in Seq(Notify!Users)
      /\ \A i \in DOMAIN Tail(list) : i \in Nat /\ i > 0 /\ i + 1 \in DOMAIN list /\ Tail(list)[i] = list[i + 1]
      /\ \A i \in DOMAIN list : i = 1 \/ (i - 1 \in DOMAIN Tail(list) /\ Tail(list)[i - 1] = list[i])
  BY Taken
<1>2. ASSUME NEW i \in DOMAIN Tail(list), NEW j \in DOMAIN Tail(list), Tail(list)[i] = Tail(list)[j]
      PROVE  i = j
  <2>1. i + 1 = j + 1
    BY <1>1, <1>2
  <2> QED BY <1>1, <2>1, SMT
<1>3. ASSUME NEW i \in DOMAIN Tail(list)
      PROVE  \E k \in DOMAIN list : k > 1 /\ Tail(list)[i] = list[k] /\ list[k] # list[1]
  <2>1. i + 1 > 1 /\ i + 1 # 1
    BY <1>1, SMT
  <2> QED BY <1>1, <2>1
<1>4. ASSUME NEW user, \A i \in DOMAIN Tail(list) : Tail(list)[i] # user, user # list[1],
             NEW i \in DOMAIN list
      PROVE  list[i] # user
  BY <1>1, <1>4
<1> QED BY <1>1, <1>2, <1>3, <1>4

----------------------------------------------------------------------------
LEMMA IdleNote == /\ Notify!Idle \in Note /\ Notify!Idle.at = "idle" /\ Notify!Idle.log = <<>>
                  /\ Notify!Idle.todo = <<>> /\ Notify!Idle.channel = 1 /\ Notify!Idle.sent = 0
  BY SMT DEF Notify!Idle, Note, NotePlaces, NoteKinds

LEMMA NotifyInitial == PlatformInit => NotifyInv
<1> SUFFICES ASSUME PlatformInit PROVE NotifyInv
  OBVIOUS
<1>1. /\ task = [t \in Tasks |-> Notify!Idle] /\ inbox = [user \in Notify!Users |-> 0] /\ enabled = TRUE
  BY DEF PlatformInit, Notify!Init
<1>2. /\ Notify!Idle \in Note /\ Notify!Idle.at = "idle" /\ Notify!Idle.log = <<>>
      /\ Notify!Idle.todo = <<>> /\ Notify!Idle.channel = 1 /\ Notify!Idle.sent = 0
  BY IdleNote
<1>3. DOMAIN <<>> = {}
  BY SMT
<1>4. Addressed(<<>>) = {} /\ Cardinality(Addressed(<<>>)) = 0
  BY <1>3, FS_EmptySet DEF Addressed
<1>5. NoteInv(Notify!Idle)
  BY <1>2, <1>3, <1>4, ChannelNames DEF NoteInv, NoTwice, Treated, Unheard
<1> QED BY <1>1, <1>2, <1>5 DEF NotifyInv, NotifyTypeOK, OneScheduled, Notify!Scheduled

(* A task goes on: it is a well-formed one, and scheduled only if it was.  *)
LEMMA OneNote ==
    ASSUME NotifyInv, NEW t \in Tasks, NEW note \in Note,
           task' = [task EXCEPT ![t] = note], NoteInv(note),
           inbox' \in [Notify!Users -> Nat], enabled' \in BOOLEAN,
           note.kind = "digest" /\ note.at \notin {"idle", "done", "raised"} =>
               t \in Notify!Scheduled \/ Notify!Scheduled = {}
    PROVE  NotifyInv'
<1>1. task' \in [Tasks -> Note] /\ task'[t] = note /\ \A u \in Tasks : u # t => task'[u] = task[u]
  BY DEF NotifyInv, NotifyTypeOK
<1>2. NotifyTypeOK' /\ \A u \in Tasks : NoteInv(task'[u])
  BY <1>1 DEF NotifyInv, NotifyTypeOK
<1>3. ASSUME NEW u \in Notify!Scheduled' PROVE u = t \/ u \in Notify!Scheduled
  BY <1>1, <1>3 DEF Notify!Scheduled
<1>4. t \in Notify!Scheduled' => t \in Notify!Scheduled \/ Notify!Scheduled = {}
  BY <1>1 DEF Notify!Scheduled
<1>5. ASSUME NEW u \in Notify!Scheduled', NEW v \in Notify!Scheduled' PROVE u = v
  BY <1>3, <1>4, <1>5 DEF NotifyInv, OneScheduled
<1> QED BY <1>2, <1>5 DEF NotifyInv, OneScheduled

(* What an attempt on channel c finds on record of the user it is for. *)
LEMMA BeforeTheAttempt ==
    ASSUME NEW log \in Seq(Noted), NEW user \in Notify!Users, NEW c \in 1..Len(Channels),
           TriedUpTo(log, user, c - 1)
    PROVE  /\ \A k \in DOMAIN log : log[k] # [user |-> user, channel |-> Channels[c]]
           /\ c = 1 => Unheard(log, user)
           /\ c > 1 => user \in Addressed(log)
<1>1. c - 1 \in Nat /\ (c > 1 => 1 \in 1..(c - 1)) /\ (c = 1 => 1..(c - 1) = {})
  BY ChannelNames, SMT
<1>2. \A i \in 1..(c - 1) : i \in 1..Len(Channels) /\ i # c
  BY ChannelNames, SMT
<1>3. ASSUME NEW k \in DOMAIN log, log[k] = [user |-> user, channel |-> Channels[c]] PROVE FALSE
  <2>1. log[k].user = user /\ log[k].channel = Channels[c]
    BY <1>3
  <2>2. PICK i \in 1..(c - 1) : log[k].channel = Channels[i]
    BY <2>1 DEF TriedUpTo
  <2> QED BY <1>2, <2>1, <2>2, ChannelNames
<1>4. c = 1 => Unheard(log, user)
  BY <1>1 DEF TriedUpTo, Unheard
<1>5. c > 1 => user \in Addressed(log)
  BY <1>1 DEF TriedUpTo, Addressed
<1> QED BY <1>3, <1>4, <1>5

(* A user is told: the task is at the next one. *)
LEMMA TellOne ==
    ASSUME NotifyInv, NEW t \in Tasks, task[t].at \in {"preference", "recipient", "send"},
           NEW channel \in Names \cup {"none"}, Notify!Told(t, Notify!Tried(t, channel)),
           \/ task[t].at # "send" /\ channel = "none"
           \/ task[t].at = "send" /\ task[t].channel = Len(Channels) /\ channel = Channels[task[t].channel],
           inbox' \in [Notify!Users -> Nat], enabled' \in BOOLEAN
    PROVE  NotifyInv'
<1> DEFINE old == task[t]
           user == old.todo[1]
           e == [user |-> user, channel |-> channel]
           note == [old EXCEPT !.at = "next", !.todo = Tail(old.todo), !.channel = 1,
                               !.sent = old.sent + 1, !.log = Append(old.log, e)]
<1>1. /\ old \in Note /\ NoteInv(old) /\ old.log \in Seq(Noted) /\ old.todo \in Seq(Notify!Users)
      /\ old.todo # <<>> /\ old.channel \in 1..Len(Channels) /\ old.sent \in Nat
  BY DEF NotifyInv, NotifyTypeOK, NoteInv, Note
<1>2. /\ Tail(old.todo) \in Seq(Notify!Users) /\ user \in Notify!Users /\ Head(old.todo) = user
      /\ \A i, j \in DOMAIN Tail(old.todo) : Tail(old.todo)[i] = Tail(old.todo)[j] => i = j
      /\ \A i \in DOMAIN Tail(old.todo) :
            \E k \in DOMAIN old.todo : k > 1 /\ Tail(old.todo)[i] = old.todo[k] /\ old.todo[k] # user
      /\ \A u : (\A i \in DOMAIN Tail(old.todo) : Tail(old.todo)[i] # u) =>
            u = user \/ \A i \in DOMAIN old.todo : old.todo[i] # u
  <2>1. \A i, j \in DOMAIN old.todo : old.todo[i] = old.todo[j] => i = j
    BY <1>1 DEF NoteInv
  <2> QED BY <1>1, <2>1, RestOf
<1>3. e \in Noted /\ e.user = user /\ e.channel = channel /\ Notify!Tried(t, channel) = e
  BY <1>2 DEF Noted, Notify!Tried
<1>4. /\ note.at = "next" /\ note.kind = old.kind /\ note.todo = Tail(old.todo) /\ note.channel = 1
      /\ note.sent = old.sent + 1 /\ note.log = Append(old.log, e)
  BY <1>1 DEF Note
<1>5. /\ note.log \in Seq(Noted)
      /\ Addressed(note.log) = Addressed(old.log) \cup {user}
      /\ user \in Addressed(old.log) => Cardinality(Addressed(note.log)) = Cardinality(Addressed(old.log))
      /\ Unheard(old.log, user) => Cardinality(Addressed(note.log)) = Cardinality(Addressed(old.log)) + 1
      /\ (\A k \in DOMAIN old.log : old.log[k] # e) /\ NoTwice(old.log) => NoTwice(note.log)
      /\ \A u : u # user => /\ Unheard(old.log, u) => Unheard(note.log, u)
                            /\ Treated(old.log, u) => Treated(note.log, u)
      /\ channel = "none" /\ Unheard(old.log, user) => PassedOver(note.log, user)
      /\ \A c \in 1..Len(Channels) :
            channel = Channels[c] /\ TriedUpTo(old.log, user, c - 1) => TriedUpTo(note.log, user, c)
  <2> HIDE DEF note, e, user, old
  <2> QED BY <1>1, <1>3, <1>4, OneMore, ZenonT(40)
<1>6. note \in Note
  <2>1. Append(old.log, e) \in Seq(Noted)
    BY <1>4, <1>5
  <2>2. old.sent + 1 \in Nat /\ 1 \in Nat /\ "next" \in NotePlaces
    BY <1>1 DEF NotePlaces
  <2> HIDE DEF e, user, old
  <2> QED BY <1>1, <1>2, <2>1, <2>2 DEF Note
<1>7. task' = [task EXCEPT ![t] = note]
  BY <1>3 DEF Notify!Told, NotifyInv, NotifyTypeOK
<1>8. 1 \in DOMAIN old.todo
  BY <1>1, Taken
<1>9. /\ \A k \in DOMAIN old.log : old.log[k] # e
      /\ Treated(note.log, user)
      /\ note.sent = Cardinality(Addressed(note.log))
  <2>1. Cardinality(Addressed(old.log)) \in Nat
    BY <1>1, AddressedIsFinite
  <2>2. CASE old.at # "send" /\ channel = "none"
    <3>1. Unheard(old.log, user) /\ old.sent = Cardinality(Addressed(old.log))
      BY <1>1, <1>8, <2>2 DEF NoteInv
    <3>2. \A k \in DOMAIN old.log : old.log[k] # e
      BY <1>3, <3>1 DEF Unheard
    <3> QED BY <1>4, <1>5, <2>2, <3>1, <3>2 DEF Treated
  <2>3. CASE old.at = "send" /\ old.channel = Len(Channels) /\ channel = Channels[old.channel]
    <3>1. TriedUpTo(old.log, user, old.channel - 1)
      BY <1>1, <2>3 DEF NoteInv
    <3>2. /\ \A k \in DOMAIN old.log : old.log[k] # e
          /\ old.channel = 1 => Unheard(old.log, user)
          /\ old.channel > 1 => user \in Addressed(old.log)
      BY <1>1, <1>2, <2>3, <3>1, BeforeTheAttempt, SMTT(30)
    <3>3. TriedUpTo(note.log, user, Len(Channels))
      BY <1>1, <1>5, <2>3, <3>1
    <3>4. old.sent + (IF old.channel > 1 THEN 1 ELSE 0) = Cardinality(Addressed(old.log))
      BY <1>1, <2>3 DEF NoteInv
    <3>5. note.sent = Cardinality(Addressed(note.log))
      <4>1. old.channel = 1 \/ old.channel > 1
        BY <1>1, ChannelNames, SMT
      <4> QED BY <1>1, <1>4, <1>5, <2>1, <3>2, <3>4, <4>1
    <3> QED BY <3>2, <3>3, <3>5 DEF Treated
  <2> QED BY <2>2, <2>3
<1>10. \A i \in DOMAIN note.todo : Unheard(note.log, note.todo[i])
  <2> SUFFICES ASSUME NEW i \in DOMAIN note.todo PROVE Unheard(note.log, note.todo[i])
    OBVIOUS
  <2>1. PICK k \in DOMAIN old.todo : k > 1 /\ note.todo[i] = old.todo[k] /\ old.todo[k] # user
    BY <1>2, <1>4
  <2>2. Unheard(old.log, old.todo[k])
    BY <1>1, <2>1 DEF NoteInv
  <2> QED BY <1>5, <2>1, <2>2
<1>11. ASSUME NEW u \in Notify!Users, \A i \in DOMAIN note.todo : note.todo[i] # u
       PROVE  Treated(note.log, u)
  <2>1. CASE u = user
    BY <1>9, <2>1
  <2>2. CASE u # user
    <3>1. Treated(old.log, u)
      <4> HIDE DEF note, e, user, old
      <4>1. \A i \in DOMAIN old.todo : old.todo[i] # u
        BY <1>2, <1>4, <1>11, <2>2, ZenonT(40)
      <4> QED BY <1>1, <4>1 DEF NoteInv
    <3> QED BY <1>5, <2>2, <3>1
  <2> QED BY <2>1, <2>2
<1>12. NoteInv(note)
  <2>1. NoTwice(note.log)
    BY <1>1, <1>5, <1>9 DEF NoteInv
  <2>2. note.sent + (IF note.at = "send" /\ note.channel > 1 THEN 1 ELSE 0) = Cardinality(Addressed(note.log))
    BY <1>1, <1>4, <1>9
  <2>3. 1 \in 1..Len(Channels)
    BY ChannelNames, SMT
  <2> HIDE DEF note, e, user, old
  <2> QED BY <1>2, <1>4, <1>10, <1>11, <2>1, <2>2, <2>3 DEF NoteInv
<1>13. note.kind = "digest" => t \in Notify!Scheduled
  BY <1>1, <1>4 DEF Notify!Scheduled
<1> HIDE DEF note, e, user, old
<1> QED BY <1>6, <1>7, <1>12, <1>13, OneNote

(* A task moves to another place with nobody told. *)
LEMMA MoveOn ==
    ASSUME NotifyInv, NEW t \in Tasks, NEW there \in NotePlaces, Notify!Goto(t, there),
           task[t].at \notin {"idle", "send", "done", "raised"},
           there \in {"preference", "recipient", "send"} => task[t].todo # <<>>,
           inbox' \in [Notify!Users -> Nat], enabled' \in BOOLEAN
    PROVE  NotifyInv'
<1> DEFINE old == task[t]
           note == [old EXCEPT !.at = there]
<1>1. /\ old \in Note /\ NoteInv(old) /\ old.channel = 1
      /\ there \in {"preference", "recipient", "send"} => old.todo # <<>>
  BY DEF NotifyInv, NotifyTypeOK, NoteInv
<1>2. /\ note \in Note /\ note.at = there /\ note.kind = old.kind /\ note.todo = old.todo
      /\ note.channel = 1 /\ note.sent = old.sent /\ note.log = old.log
  BY <1>1 DEF Note
<1>3. task' = [task EXCEPT ![t] = note]
  BY DEF Notify!Goto, NotifyInv, NotifyTypeOK
<1>4. note.kind = "digest" => t \in Notify!Scheduled
  BY <1>2 DEF Notify!Scheduled
<1>5. \A i \in DOMAIN old.todo : Unheard(old.log, old.todo[i])
  BY <1>1 DEF NoteInv
<1>6. there = "send" => TriedUpTo(old.log, old.todo[1], 0)
  <2>1. there = "send" => 1 \in DOMAIN old.todo
    BY <1>1, Taken DEF Note
  <2>2. 1..0 = {}
    BY SMT
  <2> QED BY <1>5, <2>1, <2>2 DEF TriedUpTo, Unheard
<1> HIDE DEF note, old
<1>7. NoteInv(note)
  <2>1. note.channel \in 1..Len(Channels) /\ note.channel - 1 = 0
    BY <1>2, ChannelNames, SMT
  <2>2. old.at # "send" /\ old.sent = Cardinality(Addressed(old.log))
    <3>1. old.at # "send" /\ old.sent \in Nat
      BY <1>1 DEF old, Note
    <3> QED BY <1>1, <3>1 DEF NoteInv
  <2>3. note.sent + (IF note.at = "send" /\ note.channel > 1 THEN 1 ELSE 0) = Cardinality(Addressed(note.log))
    <3>1. old.sent \in Nat
      BY <1>1 DEF Note
    <3> QED BY <1>2, <2>1, <2>2, <3>1
  <2>4. there = "send" => TriedUpTo(note.log, note.todo[1], note.channel - 1)
    BY <1>2, <1>6, <2>1
  <2> QED BY <1>1, <1>2, <1>5, <2>1, <2>3, <2>4 DEF NoteInv
<1> QED BY <1>2, <1>3, <1>4, <1>7, OneNote

LEMMA StartOne ==
    ASSUME NotifyInv, NEW t \in Tasks, NEW kind \in NoteKinds, NEW recipients \in Seq(Notify!Users),
           Notify!Start(t, kind, recipients),
           \A i, j \in DOMAIN recipients : recipients[i] = recipients[j] => i = j,
           kind = "digest" => Notify!Scheduled = {}
    PROVE  NotifyInv'
<1> DEFINE note == [Notify!Idle EXCEPT !.at = "next", !.kind = kind, !.todo = recipients]
<1>0. Notify!Idle \in Note /\ Notify!Idle.channel = 1 /\ Notify!Idle.sent = 0 /\ Notify!Idle.log = <<>>
  BY IdleNote
<1>1. /\ note \in Note /\ note.at = "next" /\ note.kind = kind /\ note.todo = recipients
      /\ note.channel = 1 /\ note.sent = 0 /\ note.log = <<>>
  BY <1>0 DEF Note, NotePlaces
<1>2. task' = [task EXCEPT ![t] = note] /\ inbox' = inbox /\ enabled' = enabled
  BY DEF Notify!Start
<1>3. DOMAIN <<>> = {}
  BY SMT
<1>4. Addressed(<<>>) = {} /\ Cardinality(Addressed(<<>>)) = 0
  BY <1>3, FS_EmptySet DEF Addressed
<1> HIDE DEF note
<1>5. NoteInv(note)
  BY <1>1, <1>3, <1>4, ChannelNames DEF NoteInv, NoTwice, Treated, Unheard
<1> QED BY <1>1, <1>2, <1>5, OneNote DEF NotifyInv, NotifyTypeOK

LEMMA SkipOne ==
    ASSUME NotifyInv, NEW t \in Tasks, Notify!SkipInactive(t)
    PROVE  NotifyInv'
<1> DEFINE old == task[t]
           note == [old EXCEPT !.todo = Tail(old.todo)]
<1>1. old \in Note /\ NoteInv(old) /\ old.at = "next" /\ old.todo # <<>> /\ old.todo \in Seq(Notify!Users)
  BY DEF NotifyInv, NotifyTypeOK, Notify!SkipInactive, Note
<1>2. /\ Tail(old.todo) \in Seq(Notify!Users)
      /\ old.todo[1] \in Notify!Users
      /\ \A i, j \in DOMAIN Tail(old.todo) : Tail(old.todo)[i] = Tail(old.todo)[j] => i = j
      /\ \A i \in DOMAIN Tail(old.todo) :
            \E k \in DOMAIN old.todo : k > 1 /\ Tail(old.todo)[i] = old.todo[k] /\ old.todo[k] # old.todo[1]
      /\ \A u : (\A i \in DOMAIN Tail(old.todo) : Tail(old.todo)[i] # u) =>
            u = old.todo[1] \/ \A i \in DOMAIN old.todo : old.todo[i] # u
  <2>1. \A i, j \in DOMAIN old.todo : old.todo[i] = old.todo[j] => i = j
    BY <1>1 DEF NoteInv
  <2> QED BY <1>1, <2>1, RestOf
<1>3. /\ note \in Note /\ note.at = "next" /\ note.kind = old.kind /\ note.todo = Tail(old.todo)
      /\ note.channel = old.channel /\ note.sent = old.sent /\ note.log = old.log
  BY <1>1, <1>2 DEF Note
<1>4. task' = [task EXCEPT ![t] = note] /\ inbox' = inbox /\ enabled' = enabled
  BY DEF Notify!SkipInactive, NotifyInv, NotifyTypeOK
<1>5. note.kind = "digest" => t \in Notify!Scheduled
  BY <1>1, <1>3 DEF Notify!Scheduled
<1>6. 1 \in DOMAIN old.todo
  BY <1>1, Taken
<1> HIDE DEF note, old
<1>7. \A i \in DOMAIN old.todo : Unheard(old.log, old.todo[i])
  BY <1>1 DEF NoteInv
<1>8. \A i \in DOMAIN note.todo : Unheard(note.log, note.todo[i])
  BY <1>2, <1>3, <1>7
<1>9. ASSUME NEW u \in Notify!Users, \A i \in DOMAIN note.todo : note.todo[i] # u
      PROVE  Treated(note.log, u)
  BY <1>1, <1>2, <1>3, <1>6, <1>7, <1>9 DEF NoteInv, Treated
<1>10. NoteInv(note)
  BY <1>1, <1>2, <1>3, <1>8, <1>9 DEF NoteInv
<1> QED BY <1>3, <1>4, <1>5, <1>10, OneNote DEF NotifyInv, NotifyTypeOK

LEMMA AttemptOne ==
    ASSUME NotifyInv, NEW t \in Tasks, NEW channel \in Names, NEW how,
           Notify!Attempt(t, channel, how), inbox' \in [Notify!Users -> Nat]
    PROVE  NotifyInv'
<1> DEFINE old == task[t]
           user == old.todo[1]
           e == [user |-> user, channel |-> channel]
           note == [old EXCEPT !.channel = old.channel + 1, !.log = Append(old.log, e)]
<1>1. /\ old \in Note /\ NoteInv(old) /\ old.log \in Seq(Noted) /\ old.todo \in Seq(Notify!Users)
      /\ old.at = "send" /\ old.todo # <<>> /\ old.channel \in 1..Len(Channels) /\ old.sent \in Nat
      /\ channel = Channels[old.channel] /\ enabled' \in BOOLEAN
  BY DEF NotifyInv, NotifyTypeOK, NoteInv, Note, Notify!Attempt
<1>2. CASE old.channel = Len(Channels)
  <2>1. Notify!Told(t, Notify!Tried(t, channel))
    BY <1>2 DEF Notify!Attempt
  <2> QED BY <1>1, <1>2, <2>1, TellOne
<1>3. CASE old.channel # Len(Channels)
  <2>1. user \in Notify!Users /\ Head(old.todo) = user /\ 1 \in DOMAIN old.todo
    BY <1>1, Taken
  <2>2. e \in Noted /\ e.user = user /\ e.channel = channel /\ Notify!Tried(t, channel) = e
    BY <2>1 DEF Noted, Notify!Tried
  <2>3. /\ note.at = "send" /\ note.kind = old.kind /\ note.todo = old.todo /\ note.sent = old.sent
        /\ note.channel = old.channel + 1 /\ note.log = Append(old.log, e)
    BY <1>1 DEF Note
  <2>4. /\ note.channel \in 1..Len(Channels) /\ note.channel \in Nat /\ note.channel > 1
        /\ note.channel - 1 = old.channel
    BY <1>1, <1>3, <2>3, ChannelNames, SMT
  <2>5. /\ note.log \in Seq(Noted)
        /\ user \in Addressed(old.log) => Cardinality(Addressed(note.log)) = Cardinality(Addressed(old.log))
        /\ Unheard(old.log, user) => Cardinality(Addressed(note.log)) = Cardinality(Addressed(old.log)) + 1
        /\ (\A k \in DOMAIN old.log : old.log[k] # e) /\ NoTwice(old.log) => NoTwice(note.log)
        /\ \A u : u # user => /\ Unheard(old.log, u) => Unheard(note.log, u)
                              /\ Treated(old.log, u) => Treated(note.log, u)
        /\ TriedUpTo(old.log, user, old.channel - 1) => TriedUpTo(note.log, user, old.channel)
    <3> HIDE DEF note, e, user, old
    <3>1. /\ note.log \in Seq(Noted)
          /\ user \in Addressed(old.log) => Cardinality(Addressed(note.log)) = Cardinality(Addressed(old.log))
          /\ Unheard(old.log, user) => Cardinality(Addressed(note.log)) = Cardinality(Addressed(old.log)) + 1
          /\ (\A k \in DOMAIN old.log : old.log[k] # e) /\ NoTwice(old.log) => NoTwice(note.log)
          /\ \A u : u # user => /\ Unheard(old.log, u) => Unheard(note.log, u)
                                /\ Treated(old.log, u) => Treated(note.log, u)
          /\ \A c \in 1..Len(Channels) :
                channel = Channels[c] /\ TriedUpTo(old.log, user, c - 1) => TriedUpTo(note.log, user, c)
      <4>1. old.log \in Seq(Noted) /\ note.log = Append(old.log, e)
        BY <1>1, <2>3
      <4>2. e \in Noted /\ e.user = user /\ e.channel = channel
        BY <2>2
      <4> QED BY <4>1, <4>2, OneMore
    <3> QED BY <1>1, <3>1
  <2>6. note \in Note
    BY <1>1, <2>3, <2>4, <2>5 DEF Note
  <2>7. task' = [task EXCEPT ![t] = note]
    BY <1>3, <2>2 DEF Notify!Attempt, NotifyInv, NotifyTypeOK
  <2>8. note.kind = "digest" => t \in Notify!Scheduled
    BY <1>1, <2>3 DEF Notify!Scheduled
  <2>9. TriedUpTo(old.log, user, old.channel - 1)
    BY <1>1 DEF NoteInv
  <2>10. /\ \A k \in DOMAIN old.log : old.log[k] # e
         /\ old.channel = 1 => Unheard(old.log, user)
         /\ old.channel > 1 => user \in Addressed(old.log)
    BY <1>1, <2>1, <2>9, BeforeTheAttempt
  <2>11. Cardinality(Addressed(note.log)) = old.sent + 1
    <3>1. Cardinality(Addressed(old.log)) \in Nat
      BY <1>1, AddressedIsFinite
    <3>2. old.sent + (IF old.channel > 1 THEN 1 ELSE 0) = Cardinality(Addressed(old.log))
      BY <1>1 DEF NoteInv
    <3>3. old.channel = 1 \/ old.channel > 1
      BY <1>1, ChannelNames, SMT
    <3> QED BY <1>1, <2>5, <2>10, <3>1, <3>2, <3>3
  <2>12. \A i \in DOMAIN note.todo : i > 1 => Unheard(note.log, note.todo[i])
    <3> SUFFICES ASSUME NEW i \in DOMAIN old.todo, i > 1 PROVE Unheard(note.log, old.todo[i])
      BY <2>3
    <3>1. old.todo[i] # user
      BY <1>1, <2>1 DEF NoteInv
    <3>2. Unheard(old.log, old.todo[i])
      BY <1>1 DEF NoteInv
    <3> QED BY <2>5, <3>1, <3>2
  <2>13. ASSUME NEW u \in Notify!Users, \A i \in DOMAIN note.todo : note.todo[i] # u
         PROVE  Treated(note.log, u)
    <3>1. u # user /\ Treated(old.log, u)
      BY <1>1, <2>1, <2>3, <2>13 DEF NoteInv
    <3> QED BY <2>5, <3>1
  <2>14. NoTwice(note.log)
    BY <1>1, <2>5, <2>10 DEF NoteInv
  <2>15. \A i, j \in DOMAIN note.todo : note.todo[i] = note.todo[j] => i = j
    BY <1>1, <2>3 DEF NoteInv
  <2>16. TriedUpTo(note.log, note.todo[1], note.channel - 1)
    BY <2>3, <2>4, <2>5, <2>9
  <2>17. note.todo # <<>>
    BY <1>1, <2>3
  <2> HIDE DEF note, e, user, old
  <2>18. note.sent + (IF note.at = "send" /\ note.channel > 1 THEN 1 ELSE 0) = Cardinality(Addressed(note.log))
    BY <2>3, <2>4, <2>11
  <2>19. NoteInv(note)
    BY <2>3, <2>4, <2>12, <2>13, <2>14, <2>15, <2>16, <2>17, <2>18 DEF NoteInv
  <2> QED BY <1>1, <2>6, <2>7, <2>8, <2>19, OneNote
<1> QED BY <1>2, <1>3

----------------------------------------------------------------------------
LEMMA NotifyStep ==
    ASSUME NotifyInv, focus = "notify", Notify!Next
    PROVE  NotifyInv'
<1>1. /\ task \in [Tasks -> Note] /\ inbox \in [Notify!Users -> Nat] /\ enabled \in BOOLEAN
      /\ \A t \in Tasks : NoteInv(task[t])
  BY DEF NotifyInv, NotifyTypeOK
<1>2. ASSUME NEW t \in Tasks, Notify!OnEvent(t) \/ Notify!RunOnSchedule(t) \/ Notify!RunNow(t)
      PROVE  NotifyInv'
  <2>1. CASE Notify!OnEvent(t)
    <3>1. PICK owner \in {<<>>} \cup {<<user>> : user \in Notify!Users} : Notify!Start(t, "event", owner)
      BY <2>1 DEF Notify!OnEvent
    <3>2. owner \in Seq(Notify!Users) /\ \A i, j \in DOMAIN owner : owner[i] = owner[j] => i = j
      <4>1. CASE owner = <<>>
        BY <4>1, SMT
      <4>2. ASSUME NEW user \in Notify!Users, owner = <<user>>
            PROVE  owner \in Seq(Notify!Users) /\ \A i, j \in DOMAIN owner : owner[i] = owner[j] => i = j
        BY <4>2, SMT
      <4> QED BY <4>1, <4>2
    <3> QED BY <3>1, <3>2, StartOne DEF NoteKinds
  <2>2. Notify!All \in Seq(Notify!Users) /\ \A i, j \in DOMAIN Notify!All : Notify!All[i] = Notify!All[j] => i = j
    BY ActiveAssumption, SMT DEF Notify!All, Notify!Users
  <2>3. CASE Notify!RunOnSchedule(t)
    BY <2>2, <2>3, StartOne DEF Notify!RunOnSchedule, NoteKinds
  <2>4. CASE Notify!RunNow(t)
    BY <2>2, <2>4, StartOne DEF Notify!RunNow, NoteKinds
  <2> QED BY <1>2, <2>1, <2>3, <2>4
<1>3. ASSUME NEW t \in Tasks, Notify!Dispatch(t) \/ Notify!Finish(t) PROVE NotifyInv'
  BY <1>1, <1>3, MoveOn DEF Notify!Dispatch, Notify!Finish, NotePlaces
<1>4. ASSUME NEW t \in Tasks, Notify!ReadPreference(t) PROVE NotifyInv'
  <2>1. task[t].at = "preference" /\ task[t].todo # <<>> /\ inbox' = inbox /\ enabled' = enabled
    BY <1>1, <1>4 DEF Notify!ReadPreference, NoteInv
  <2>2. CASE Notify!Told(t, Notify!Tried(t, "none"))
    BY <1>1, <2>1, <2>2, TellOne
  <2>3. CASE Notify!Goto(t, "recipient")
    BY <1>1, <2>1, <2>3, MoveOn DEF NotePlaces
  <2> QED BY <1>4, <2>2, <2>3 DEF Notify!ReadPreference
<1>5. ASSUME NEW t \in Tasks, Notify!ResolveEmail(t) PROVE NotifyInv'
  <2>1. task[t].at = "recipient" /\ task[t].todo # <<>> /\ inbox' = inbox /\ enabled' = enabled
    BY <1>1, <1>5 DEF Notify!ResolveEmail, NoteInv
  <2>2. CASE Notify!Told(t, Notify!Tried(t, "none"))
    BY <1>1, <2>1, <2>2, TellOne
  <2>3. CASE Notify!Goto(t, "send") \/ Notify!Goto(t, "raised")
    BY <1>1, <2>1, <2>3, MoveOn DEF NotePlaces
  <2> QED BY <1>5, <2>2, <2>3 DEF Notify!ResolveEmail
<1>6. ASSUME NEW t \in Tasks, NEW how \in {"sent", "failed"}, Notify!SendInApp(t, how) PROVE NotifyInv'
  <2>1. task[t] \in Note /\ task[t].todo # <<>> /\ task[t].todo \in Seq(Notify!Users)
    BY <1>1, <1>6 DEF Notify!SendInApp, Notify!Attempt, NoteInv, Note
  <2>2. Head(task[t].todo) \in Notify!Users
    BY <2>1, Taken
  <2>3. inbox' \in [Notify!Users -> Nat]
    BY <1>1, <1>6, <2>2 DEF Notify!SendInApp
  <2> QED BY <1>6, <2>3, AttemptOne DEF Notify!SendInApp, Names
<1>7. ASSUME NEW t \in Tasks, NEW how \in {"sent", "failed"},
             Notify!SendBySmtp(t, how) \/ Notify!SendByTelegram(t, how)
      PROVE  NotifyInv'
  BY <1>1, <1>7, AttemptOne DEF Notify!SendBySmtp, Notify!SendByTelegram, Names
<1>8. ASSUME Notify!PauseJob \/ Notify!ResumeJob \/ Notify!SetPreference
             \/ \E user \in Notify!Users : Notify!MarkRead(user) \/ Notify!MarkAllRead(user)
      PROVE  NotifyInv'
  <2>1. task' = task /\ enabled' \in BOOLEAN
    BY <1>1, <1>8 DEF Notify!PauseJob, Notify!ResumeJob, Notify!SetPreference,
                      Notify!MarkRead, Notify!MarkAllRead
  <2>2. inbox' \in [Notify!Users -> Nat]
    BY <1>1, <1>8 DEF Notify!PauseJob, Notify!ResumeJob, Notify!SetPreference,
                      Notify!MarkRead, Notify!MarkAllRead
  <2> QED BY <1>1, <2>1, <2>2 DEF NotifyInv, NotifyTypeOK, OneScheduled, Notify!Scheduled
<1> QED BY <1>2, <1>3, <1>4, <1>5, <1>6, <1>7, <1>8, SkipOne DEF Notify!Next

(* What the invariant says of a user a task is done with. *)
LEMMA ToldOnce ==
    ASSUME NotifyInv, NEW t \in Tasks, NEW user \in Notify!Users, Notify!Finished(t, user)
    PROVE  LET mine == Notify!Entries(t, user)
               tried == {task[t].log[e].channel : e \in mine}
           IN  /\ tried \in {{}, {"none"}, {Channels[c] : c \in DOMAIN Channels}}
               /\ Cardinality(mine) = Cardinality(tried)
<1> DEFINE log == task[t].log
           mine == Notify!Entries(t, user)
           tried == {log[e].channel : e \in mine}
           name == [e \in mine |-> log[e].channel]
<1>1. /\ log \in Seq(Noted) /\ NoTwice(log) /\ Treated(log, user)
  BY DEF NotifyInv, NotifyTypeOK, NoteInv, Note, Notify!Finished
<1>2. mine \subseteq DOMAIN log /\ \A e \in DOMAIN log : e \in mine <=> log[e].user = user
  BY DEF Notify!Entries
<1> HIDE DEF log, mine
<1>3. tried \in {{}, {"none"}, {Channels[c] : c \in DOMAIN Channels}}
  <2>1. CASE Unheard(log, user)
    BY <1>2, <2>1 DEF Unheard
  <2>2. CASE PassedOver(log, user)
    <3>1. \A e \in mine : log[e].channel = "none"
      BY <1>2, <2>2 DEF PassedOver
    <3>2. \E e \in mine : TRUE
      BY <1>2, <2>2 DEF PassedOver
    <3> QED BY <3>1, <3>2
  <2>3. CASE TriedUpTo(log, user, Len(Channels))
    <3>1. \A e \in mine : \E c \in DOMAIN Channels : log[e].channel = Channels[c]
      BY <1>2, <2>3, ChannelNames DEF TriedUpTo
    <3>2. \A c \in DOMAIN Channels : \E e \in mine : log[e].channel = Channels[c]
      BY <1>2, <2>3, ChannelNames DEF TriedUpTo
    <3>3. tried = {Channels[c] : c \in DOMAIN Channels}
      BY <3>1, <3>2
    <3> QED BY <3>3
  <2> QED BY <1>1, <2>1, <2>2, <2>3 DEF Treated
<1>4. name \in Bijection(mine, tried)
  <2>1. name \in [mine -> tried] /\ \A w \in tried : \E e \in mine : name[e] = w
    OBVIOUS
  <2>2. ASSUME NEW i \in mine, NEW j \in mine, name[i] = name[j] PROVE i = j
    <3>1. log[i] \in Noted /\ log[j] \in Noted
      BY <1>1, <1>2, NotedAre
    <3>2. log[i] = log[j]
      BY <1>2, <2>2, <3>1, SameNoted
    <3> QED BY <1>1, <1>2, <3>2 DEF NoTwice
  <2> HIDE DEF name, tried
  <2> QED BY <2>1, <2>2 DEF Bijection, Injection, Surjection, IsInjective
<1>5. IsFiniteSet(mine)
  <2>1. Len(log) \in Nat /\ DOMAIN log = 1..Len(log)
    BY <1>1, SMT
  <2>2. IsFiniteSet(1..Len(log))
    BY <2>1, FS_Interval
  <2> QED BY <1>2, <2>1, <2>2, FS_Subset
<1>6. Cardinality(mine) = Cardinality(tried)
  <2>1. ExistsBijection(mine, tried)
    BY <1>4 DEF ExistsBijection
  <2> HIDE DEF tried, name
  <2> QED BY <1>5, <2>1, FS_Bijection, FS_CardinalityType
<1> QED BY <1>3, <1>6 DEF log, mine

LEMMA NotifyInvCounts == NotifyInv => Notify!EachChannelOnce
<1> SUFFICES ASSUME NotifyInv PROVE Notify!EachChannelOnce
  OBVIOUS
<1>1. Notify!Cardinality(Notify!Scheduled) <= 1
  <2>1. CASE Notify!Scheduled = {}
    BY <2>1, NotifyCounts, FS_EmptySet
  <2>2. CASE Notify!Scheduled # {}
    <3>1. PICK t \in Notify!Scheduled : TRUE
      BY <2>2
    <3>2. Notify!Scheduled = {t}
      BY <3>1 DEF NotifyInv, OneScheduled
    <3>3. Cardinality({t}) = 1
      BY FS_Singleton
    <3> QED BY <3>2, <3>3, NotifyCounts
  <2> QED BY <2>1, <2>2
<1>2. ASSUME NEW t \in Tasks
      PROVE  task[t].sent = Notify!Cardinality({task[t].log[e].user : e \in DOMAIN task[t].log})
                            - (IF task[t].at = "send" /\ task[t].channel > 1 THEN 1 ELSE 0)
  <2>1. /\ task[t] \in Note /\ NoteInv(task[t])
    BY DEF NotifyInv, NotifyTypeOK
  <2>2. Notify!Cardinality({task[t].log[e].user : e \in DOMAIN task[t].log}) = Cardinality(Addressed(task[t].log))
    BY NotifyCounts DEF Addressed
  <2>3. task[t].log \in Seq(Noted) /\ task[t].sent \in Nat
    BY <2>1 DEF Note
  <2>4. Cardinality(Addressed(task[t].log)) \in Nat
    BY <2>3, AddressedIsFinite
  <2>5. task[t].sent + (IF task[t].at = "send" /\ task[t].channel > 1 THEN 1 ELSE 0)
           = Cardinality(Addressed(task[t].log))
    BY <2>1 DEF NoteInv
  <2> QED BY <2>2, <2>3, <2>4, <2>5
<1> QED BY <1>1, <1>2, ToldOnce, NotifyCounts DEF Notify!EachChannelOnce

(* A user a task is done with was not to be told or was tried on every     *)
(* channel exactly once, whichever channels fail and whatever other tasks  *)
(* and preferences do meanwhile; the digest counts one dispatch for each;  *)
(* one scheduled job runs at a time (NotificationDispatcher, DailyDigest,  *)
(* Scheduler).                                                             *)
THEOREM OnceOnEveryChannel == PlatformSpec => []EachChannelOnce
<1>1. NotifyInv /\ [PlatformNext]_allVars => NotifyInv'
  <2> SUFFICES ASSUME NotifyInv, [PlatformNext]_allVars PROVE NotifyInv'
    OBVIOUS
  <2>1. CASE focus = "notify" /\ Notify!Next
    BY <2>1, NotifyStep
  <2>2. CASE UNCHANGED notifyVars
    BY <2>2 DEF NotifyInv, NotifyTypeOK, OneScheduled, Notify!Scheduled, notifyVars
  <2> QED BY <2>1, <2>2 DEF PlatformNext, allVars
<1>2. NotifyInv => EachChannelOnce
  BY NotifyInvCounts DEF EachChannelOnce
<1> QED BY <1>1, <1>2, NotifyInitial, PTL DEF PlatformSpec

----------------------------------------------------------------------------
(* Connections: ConnectionPool. *)

PoolPlaces == {"arrived", "resolving", "reading", "running", "failing", "ended"}
PoolUses == {"create", "audit", "step", "finish"}
Asked == [at : PoolPlaces, kind : {"agent", "plain", "stream"}, own : BOOLEAN, nested : BOOLEAN,
          uses : Seq(PoolUses), outcome : {"none", "answered", "refused"}]
Busy == {r \in Requests : asking[r].at \notin {"arrived", "ended"} \/ asking[r].own}
Owning == {r \in Requests : asking[r].own}
Nested == {r \in Requests : asking[r].nested}

PoolTypeOK ==
    /\ asking \in [Requests -> Asked]
    /\ committed \in [Requests -> Seq(Nat)]
    /\ most \in Nat

(* Who holds what: a second connection for a use that goes on, or for the  *)
(* failure; an own one until the end, and a stream's beyond.               *)
HoldersInv(r) ==
    LET q == asking[r] IN
    /\ q.nested => q.at \in {"running", "failing"}
    /\ q.nested /\ q.at = "running" => q.uses # <<>>
    /\ q.at = "resolving" => q.own
    /\ q.at \in {"arrived", "resolving", "reading"} => q.uses = <<>>
    /\ q.at = "ended" /\ q.own => q.kind = "stream"
    /\ q.outcome = "none" <=> q.at # "ended"
CountedInv ==
    /\ Cardinality(Owning) + Cardinality(Nested) <= POOL
    /\ Cardinality(Busy) <= most

(* What is on record while a request runs: every use that is over, in      *)
(* order, audits possibly missing once there were as many asks as          *)
(* connections.                                                            *)
Over(q) == IF q.nested /\ q.at = "running" THEN Len(q.uses) - 1 ELSE Len(q.uses)
Recorded(q, uses) ==
    /\ Pool!InTurn(uses)
    /\ \A i \in DOMAIN uses : uses[i] <= Over(q)
    /\ \A k \in 1..Over(q) : q.uses[k] # "audit" \/ most < POOL => \E i \in DOMAIN uses : uses[i] = k
RecordInv(r) ==
    LET q == asking[r] IN
    /\ q.outcome # "refused" => Recorded(q, committed[r])
    /\ most < POOL /\ q.outcome = "refused" =>
          /\ \A k \in DOMAIN q.uses : Pool!Wrote(r, k)
          /\ q.kind = "agent" /\ q.uses # <<>> => Pool!Wrote(r, Pool!Failure)

PoolInv == /\ PoolTypeOK /\ CountedInv
           /\ \A r \in Requests : HoldersInv(r) /\ RecordInv(r)

----------------------------------------------------------------------------
LEMMA PoolCounts == \A S : Pool!Cardinality(S) = Cardinality(S)
  BY DEF Pool!Cardinality, Cardinality

LEMMA PoolSets ==
    /\ IsFiniteSet(Busy) /\ IsFiniteSet(Owning) /\ IsFiniteSet(Nested)
    /\ Cardinality(Busy) \in Nat /\ Cardinality(Owning) \in Nat /\ Cardinality(Nested) \in Nat
    /\ Pool!Held = Cardinality(Owning) + Cardinality(Nested)
<1>1. Busy \subseteq Requests /\ Owning \subseteq Requests /\ Nested \subseteq Requests
  BY DEF Busy, Owning, Nested
<1>2. IsFiniteSet(Busy) /\ IsFiniteSet(Owning) /\ IsFiniteSet(Nested)
  BY <1>1, RequestsAssumption, FS_Subset
<1>3. Pool!Held = Cardinality(Owning) + Cardinality(Nested)
  BY PoolCounts DEF Pool!Held, Owning, Nested
<1> QED BY <1>2, <1>3, FS_CardinalityType

(* Members come or go one at a time. *)
LEMMA OneAtMost ==
    ASSUME NEW S, NEW T, NEW r, IsFiniteSet(S), IsFiniteSet(T), T \subseteq S \cup {r}
    PROVE  /\ Cardinality(T) <= Cardinality(S) + 1
           /\ T \subseteq S => Cardinality(T) <= Cardinality(S)
           /\ Cardinality(S) \in Nat /\ Cardinality(T) \in Nat
<1>1. IsFiniteSet(S \cup {r}) /\ Cardinality(S \cup {r}) <= Cardinality(S) + 1 /\ Cardinality(S) \in Nat
  <2>1. CASE r \in S
    <3>1. S \cup {r} = S
      BY <2>1
    <3>2. Cardinality(S) \in Nat
      BY FS_CardinalityType
    <3> QED BY <3>1, <3>2
  <2>2. CASE r \notin S
    <3>1. Cardinality(S) \in Nat
      BY FS_CardinalityType
    <3>2. IsFiniteSet(S \cup {r}) /\ Cardinality(S \cup {r}) = Cardinality(S) + 1
      BY <2>2, FS_AddElement
    <3> QED BY <3>1, <3>2
  <2> QED BY <2>1, <2>2
<1>2. Cardinality(T) <= Cardinality(S \cup {r}) /\ Cardinality(T) \in Nat /\ Cardinality(S \cup {r}) \in Nat
  BY <1>1, FS_Subset, FS_CardinalityType
<1>3. T \subseteq S => Cardinality(T) <= Cardinality(S)
  BY FS_Subset
<1> QED BY <1>1, <1>2, <1>3

(* A request steps, takes a connection only if one is free, and leaves its *)
(* own record right.                                                       *)
LEMMA OneAsk ==
    ASSUME PoolInv, NEW r \in Requests, NEW q \in Asked, NEW from, Pool!Step(r, from, q),
           committed' \in [Requests -> Seq(Nat)], \A s \in Requests : s # r => committed'[s] = committed[s],
           \/ (q.own => asking[r].own) /\ (q.nested => asking[r].nested)
           \/ Pool!Free > 0 /\ (q.own => asking[r].own)
           \/ Pool!Free > 0 /\ (q.nested => asking[r].nested),
           HoldersInv(r)',
           most <= most' /\ most' \in Nat => RecordInv(r)'
    PROVE  PoolInv'
<1>1. asking' \in [Requests -> Asked] /\ asking'[r] = q /\ \A s \in Requests : s # r => asking'[s] = asking[s]
  BY DEF Pool!Step, PoolInv, PoolTypeOK
<1>2. IsFiniteSet(Busy') /\ Cardinality(Busy') \in Nat
  <2>1. Busy' \subseteq Requests
    BY DEF Busy
  <2> QED BY <2>1, RequestsAssumption, FS_Subset, FS_CardinalityType
<1>3. most' \in Nat /\ most <= most' /\ Cardinality(Busy') <= most'
  <2>1. most' = IF Cardinality(Busy') > most THEN Cardinality(Busy') ELSE most
    BY PoolCounts DEF Pool!Step, Busy
  <2>2. most \in Nat
    BY DEF PoolInv, PoolTypeOK
  <2> QED BY <1>2, <2>1, <2>2
<1>4. /\ Owning' \subseteq Owning \cup {r} /\ Nested' \subseteq Nested \cup {r}
      /\ (q.own => asking[r].own) => Owning' \subseteq Owning
      /\ (q.nested => asking[r].nested) => Nested' \subseteq Nested
  BY <1>1 DEF Owning, Nested
<1>5. IsFiniteSet(Owning') /\ IsFiniteSet(Nested')
  <2>1. Owning' \subseteq Requests /\ Nested' \subseteq Requests
    BY DEF Owning, Nested
  <2> QED BY <2>1, RequestsAssumption, FS_Subset
<1>6. /\ Cardinality(Owning') <= Cardinality(Owning) + 1 /\ Cardinality(Nested') <= Cardinality(Nested) + 1
      /\ (q.own => asking[r].own) => Cardinality(Owning') <= Cardinality(Owning)
      /\ (q.nested => asking[r].nested) => Cardinality(Nested') <= Cardinality(Nested)
      /\ Cardinality(Owning') \in Nat /\ Cardinality(Nested') \in Nat
      /\ Cardinality(Owning) \in Nat /\ Cardinality(Nested) \in Nat
  BY <1>4, <1>5, OneAtMost, PoolSets
<1>7. Cardinality(Owning') + Cardinality(Nested') <= POOL
  <2>1. Cardinality(Owning) + Cardinality(Nested) <= POOL /\ POOL \in Nat
    BY SizesAssumption DEF PoolInv, CountedInv
  <2>2. Pool!Free > 0 => Cardinality(Owning) + Cardinality(Nested) + 1 <= POOL
    BY <1>6, <2>1, PoolSets DEF Pool!Free
  <2> QED BY <1>6, <2>1, <2>2
<1>8. PoolTypeOK' /\ CountedInv'
  BY <1>1, <1>3, <1>7 DEF PoolTypeOK, CountedInv
<1>9. ASSUME NEW s \in Requests, s # r PROVE HoldersInv(s)' /\ RecordInv(s)'
  <2>1. asking'[s] = asking[s] /\ committed'[s] = committed[s] /\ (most' < POOL => most < POOL)
    BY <1>1, <1>3, <1>9, SizesAssumption DEF PoolInv, PoolTypeOK
  <2>2. HoldersInv(s) /\ RecordInv(s)
    BY DEF PoolInv
  <2>3. HoldersInv(s)'
    BY <2>1, <2>2 DEF HoldersInv
  <2>4. \A k : Pool!Wrote(s, k)' <=> Pool!Wrote(s, k)
    BY <2>1 DEF Pool!Wrote
  <2>5. asking[s].outcome # "refused" => Recorded(asking[s], committed[s])'
    BY <2>1, <2>2 DEF RecordInv, Recorded
  <2>6. RecordInv(s)'
    BY <2>1, <2>2, <2>4, <2>5 DEF RecordInv
  <2> QED BY <2>3, <2>6
<1> QED BY <1>3, <1>8, <1>9 DEF PoolInv

LEMMA PoolInitial == PlatformInit => PoolInv
<1> SUFFICES ASSUME PlatformInit PROVE PoolInv
  OBVIOUS
<1>1. asking = [r \in Requests |-> Pool!Arrived] /\ committed = [r \in Requests |-> <<>>] /\ most = 0
  BY DEF PlatformInit, Pool!Init
<1>2. <<>> \in Seq(Nat) /\ <<>> \in Seq(PoolUses) /\ DOMAIN <<>> = {} /\ Len(<<>>) = 0
  BY SMT
<1>3. /\ Pool!Arrived \in Asked /\ Pool!Arrived.at = "arrived" /\ Pool!Arrived.own = FALSE
      /\ Pool!Arrived.nested = FALSE /\ Pool!Arrived.uses = <<>> /\ Pool!Arrived.outcome = "none"
  BY <1>2 DEF Pool!Arrived, Asked, PoolPlaces
<1>4. PoolTypeOK
  BY <1>1, <1>2, <1>3 DEF PoolTypeOK
<1>5. Owning = {} /\ Nested = {} /\ Busy = {}
  BY <1>1, <1>3 DEF Owning, Nested, Busy
<1>6. CountedInv
  BY <1>1, <1>5, FS_EmptySet, SizesAssumption DEF CountedInv
<1>7. ASSUME NEW r \in Requests PROVE HoldersInv(r) /\ RecordInv(r)
  <2>1. asking[r] = Pool!Arrived /\ committed[r] = <<>>
    BY <1>1
  <2>2. Over(asking[r]) = 0
    BY <1>2, <1>3, <2>1 DEF Over
  <2>3. 1..0 = {}
    BY SMT
  <2>4. Recorded(asking[r], committed[r])
    BY <1>2, <2>1, <2>2, <2>3 DEF Recorded, Pool!InTurn
  <2> QED BY <1>3, <2>1, <2>4 DEF HoldersInv, RecordInv
<1> QED BY <1>4, <1>6, <1>7 DEF PoolInv

LEMMA Stepped ==
    ASSUME PoolInv, NEW r \in Requests, NEW q \in Asked, NEW from, Pool!Step(r, from, q)
    PROVE  asking'[r] = q /\ asking[r].at = from
  BY DEF Pool!Step, PoolInv, PoolTypeOK

(* How many uses are over is a number. *)
LEMMA OverIs ==
    ASSUME PoolInv, NEW r \in Requests
    PROVE  /\ Over(asking[r]) \in Nat /\ Len(asking[r].uses) \in Nat
           /\ asking[r].uses \in Seq(PoolUses) /\ DOMAIN asking[r].uses = 1..Len(asking[r].uses)
           /\ ~asking[r].nested => Over(asking[r]) = Len(asking[r].uses)
<1>1. asking[r].uses \in Seq(PoolUses) /\ HoldersInv(r)
  BY DEF PoolInv, PoolTypeOK, Asked
<1>2. /\ Len(asking[r].uses) \in Nat /\ DOMAIN asking[r].uses = 1..Len(asking[r].uses)
      /\ asking[r].uses # <<>> => Len(asking[r].uses) > 0
  BY <1>1, SMT
<1> QED BY <1>1, <1>2 DEF HoldersInv, Over

(* A request goes on: what is on record of the uses that are over is what  *)
(* it was.                                                                 *)
LEMMA KeptRecord ==
    ASSUME PoolInv, NEW r \in Requests, NEW q \in Asked, asking'[r] = q, committed'[r] = committed[r],
           asking[r].at # "ended", q.outcome # "refused", Over(q) = Over(asking[r]),
           \A k \in 1..Over(q) : q.uses[k] = asking[r].uses[k],
           most <= most' /\ most' \in Nat
    PROVE  RecordInv(r)'
<1>1. Recorded(asking[r], committed[r])
  BY DEF PoolInv, HoldersInv, RecordInv
<1>2. most' < POOL => most < POOL
  BY SizesAssumption DEF PoolInv, PoolTypeOK
<1>3. Over(asking[r])' = Over(q)
  BY DEF Over
<1>4. Recorded(asking[r], committed[r])'
  BY <1>1, <1>2, <1>3 DEF Recorded, Pool!InTurn
<1> QED BY <1>4 DEF RecordInv

(* A request moves, with the same uses. *)
LEMMA AskMoved ==
    ASSUME PoolInv, NEW r \in Requests, NEW q \in Asked, NEW from, Pool!Step(r, from, q), UNCHANGED committed,
           from # "ended", q.uses = asking[r].uses, q.outcome = asking[r].outcome, ~asking[r].nested,
           ~q.nested \/ q.at # "running",
           \/ (q.own => asking[r].own) /\ (q.nested => asking[r].nested)
           \/ Pool!Free > 0 /\ (q.own => asking[r].own)
           \/ Pool!Free > 0 /\ (q.nested => asking[r].nested),
           HoldersInv(r)'
    PROVE  PoolInv'
<1>1. asking'[r] = q /\ asking[r].at = from /\ asking[r].outcome = "none"
  BY Stepped DEF PoolInv, HoldersInv
<1>2. Over(q) = Over(asking[r])
  BY OverIs DEF Over
<1>3. committed \in [Requests -> Seq(Nat)]
  BY DEF PoolInv, PoolTypeOK
<1>4. most <= most' /\ most' \in Nat => RecordInv(r)'
  BY <1>1, <1>2, KeptRecord
<1> QED BY <1>3, <1>4, OneAsk

LEMMA KindFields ==
    ASSUME NEW x \in Asked, NEW kind \in {"agent", "plain", "stream"}
    PROVE  LET y == [x EXCEPT !.at = "resolving", !.kind = kind, !.own = TRUE] IN
           /\ y \in Asked /\ y.at = "resolving" /\ y.kind = kind /\ y.own = TRUE /\ y.nested = x.nested
           /\ y.uses = x.uses /\ y.outcome = x.outcome
  BY DEF Asked, PoolPlaces

LEMMA ReadingFields ==
    ASSUME NEW x \in Asked, NEW own \in BOOLEAN
    PROVE  LET y == [x EXCEPT !.at = "reading", !.own = own] IN
           /\ y \in Asked /\ y.at = "reading" /\ y.own = own /\ y.nested = x.nested
           /\ y.kind = x.kind /\ y.uses = x.uses /\ y.outcome = x.outcome
  BY DEF Asked, PoolPlaces

LEMMA RunningFields ==
    ASSUME NEW x \in Asked, NEW own \in BOOLEAN
    PROVE  LET y == [x EXCEPT !.at = "running", !.own = own] IN
           /\ y \in Asked /\ y.at = "running" /\ y.own = own /\ y.nested = x.nested
           /\ y.kind = x.kind /\ y.uses = x.uses /\ y.outcome = x.outcome
  BY DEF Asked, PoolPlaces

LEMMA GivenFields ==
    ASSUME NEW x \in Asked
    PROVE  LET y == [x EXCEPT !.own = FALSE] IN
           /\ y \in Asked /\ y.at = x.at /\ y.own = FALSE /\ y.nested = x.nested
           /\ y.kind = x.kind /\ y.uses = x.uses /\ y.outcome = x.outcome
  BY DEF Asked

LEMMA PlaceFields ==
    ASSUME NEW x \in Asked, NEW there \in PoolPlaces
    PROVE  LET y == [x EXCEPT !.at = there] IN
           /\ y \in Asked /\ y.at = there /\ y.own = x.own /\ y.nested = x.nested
           /\ y.kind = x.kind /\ y.uses = x.uses /\ y.outcome = x.outcome
  BY DEF Asked

LEMMA SecondFields ==
    ASSUME NEW x \in Asked, NEW b \in BOOLEAN
    PROVE  LET y == [x EXCEPT !.nested = b] IN
           /\ y \in Asked /\ y.at = x.at /\ y.own = x.own /\ y.nested = b
           /\ y.kind = x.kind /\ y.uses = x.uses /\ y.outcome = x.outcome
  BY DEF Asked

LEMMA UsedFields ==
    ASSUME PoolInv, NEW r \in Requests, NEW use \in PoolUses
    PROVE  LET x == asking[r]
               y == Pool!Used(r, use) IN
           /\ y \in Asked /\ y.at = x.at /\ y.own = x.own /\ y.nested = x.nested
           /\ y.kind = x.kind /\ y.uses = Append(x.uses, use) /\ y.outcome = x.outcome
<1>1. asking[r] \in Asked /\ Append(asking[r].uses, use) \in Seq(PoolUses)
  BY OverIs, Appended DEF PoolInv, PoolTypeOK
<1> QED BY <1>1 DEF Asked, Pool!Used

LEMMA EndFields ==
    ASSUME PoolInv, NEW r \in Requests, NEW ending \in {"answered", "refused"}
    PROVE  LET x == asking[r]
               y == Pool!End(r, ending) IN
           /\ y \in Asked /\ y.at = "ended" /\ y.nested = x.nested /\ y.kind = x.kind
           /\ y.uses = x.uses /\ y.outcome = ending
           /\ y.own => x.own /\ x.kind = "stream"
<1>1. asking[r] \in Asked
  BY DEF PoolInv, PoolTypeOK
<1>2. PICK b \in BOOLEAN : b = (asking[r].own /\ asking[r].kind = "stream")
  BY Zenon
<1>3. Pool!End(r, ending) = [asking[r] EXCEPT !.at = "ended", !.outcome = ending, !.own = b]
  BY <1>2 DEF Pool!End
<1>4. b => asking[r].own /\ asking[r].kind = "stream"
  BY <1>2, Zenon
<1> DEFINE y == [asking[r] EXCEPT !.at = "ended", !.outcome = ending, !.own = b]
<1>5. /\ y \in Asked /\ y.at = "ended" /\ y.nested = asking[r].nested /\ y.kind = asking[r].kind
      /\ y.uses = asking[r].uses /\ y.outcome = ending /\ y.own = b
  BY <1>1 DEF Asked, PoolPlaces
<1>6. Pool!End(r, ending) = y
  BY <1>3
<1> HIDE DEF y
<1>7. y.own => asking[r].own /\ asking[r].kind = "stream"
  BY <1>4, <1>5, Zenon
<1> QED BY <1>5, <1>6, <1>7

LEMMA KindsAre == \A r : Pool!KindsOf(r) \subseteq {"agent", "plain", "stream"}
  BY DEF Pool!KindsOf

LEMMA FollowsAre == \A r : Pool!Follows(r) \subseteq PoolUses
  BY DEF Pool!Follows, PoolUses

LEMMA PoolMoves ==
    ASSUME PoolInv, NEW r \in Requests,
           \/ Pool!Begin(r) \/ Pool!Resolve(r) \/ Pool!Read(r) \/ Pool!SavePlan(r) \/ Pool!NodeFails(r)
    PROVE  PoolInv'
<1>1. asking[r] \in Asked /\ HoldersInv(r)
  BY DEF PoolInv, PoolTypeOK
<1>2. UNCHANGED committed
  BY DEF Pool!Begin, Pool!Resolve, Pool!Read, Pool!SavePlan, Pool!NodeFails, Pool!Silent
<1>3. CASE Pool!Begin(r)
  <2>1. PICK kind \in {"agent", "plain", "stream"} :
           Pool!Step(r, "arrived", [asking[r] EXCEPT !.at = "resolving", !.kind = kind, !.own = TRUE])
    BY <1>3, KindsAre DEF Pool!Begin
  <2> DEFINE q == [asking[r] EXCEPT !.at = "resolving", !.kind = kind, !.own = TRUE]
  <2>2. /\ q \in Asked /\ q.at = "resolving" /\ q.own = TRUE /\ q.nested = asking[r].nested
        /\ q.uses = asking[r].uses /\ q.outcome = asking[r].outcome
    BY <1>1, KindFields, ZenonT(40)
  <2>3. Pool!Step(r, "arrived", q)
    BY <2>1
  <2> HIDE DEF q
  <2>4. asking'[r] = q /\ asking[r].at = "arrived" /\ ~asking[r].nested
    BY <1>1, <2>2, <2>3, Stepped DEF HoldersInv
  <2>5. HoldersInv(r)'
    BY <1>1, <2>2, <2>4 DEF HoldersInv
  <2>6. Pool!Free > 0
    BY <1>3 DEF Pool!Begin
  <2> QED BY <1>2, <2>2, <2>4, <2>5, <2>6, <2>3, AskMoved
<1>4. CASE Pool!Resolve(r)
  <2>1. PICK own \in BOOLEAN : Pool!Step(r, "resolving", [asking[r] EXCEPT !.at = "reading", !.own = own])
    BY <1>4 DEF Pool!Resolve
  <2> DEFINE q == [asking[r] EXCEPT !.at = "reading", !.own = own]
  <2>2. /\ q \in Asked /\ q.at = "reading" /\ q.nested = asking[r].nested
        /\ q.uses = asking[r].uses /\ q.outcome = asking[r].outcome
    BY <1>1, ReadingFields, ZenonT(40)
  <2>3. Pool!Step(r, "resolving", q)
    BY <2>1
  <2> HIDE DEF q
  <2>4. /\ q \in Asked /\ q.at = "reading" /\ q.nested = asking[r].nested
        /\ q.uses = asking[r].uses /\ q.outcome = asking[r].outcome /\ Pool!Step(r, "resolving", q)
    BY <2>2, <2>3
  <2>5. asking'[r] = q /\ asking[r].at = "resolving" /\ asking[r].own /\ ~asking[r].nested
    BY <1>1, <2>4, Stepped DEF HoldersInv
  <2>6. HoldersInv(r)'
    BY <1>1, <2>4, <2>5 DEF HoldersInv
  <2> QED BY <1>2, <2>4, <2>5, <2>6, AskMoved
<1>5. CASE Pool!Read(r)
  <2>1. PICK own \in BOOLEAN :
           /\ own => asking[r].own \/ Pool!Free > 0
           /\ Pool!Step(r, "reading", [asking[r] EXCEPT !.at = "running", !.own = own])
    BY <1>5 DEF Pool!Read
  <2> DEFINE q == [asking[r] EXCEPT !.at = "running", !.own = own]
  <2>2. /\ q \in Asked /\ q.at = "running" /\ q.nested = asking[r].nested /\ q.own = own
        /\ q.uses = asking[r].uses /\ q.outcome = asking[r].outcome
    BY <1>1, RunningFields, ZenonT(40)
  <2>3. Pool!Step(r, "reading", q)
    BY <2>1
  <2>4. /\ q \in Asked /\ q.at = "running" /\ q.nested = asking[r].nested /\ q.own = own
        /\ q.uses = asking[r].uses /\ q.outcome = asking[r].outcome /\ Pool!Step(r, "reading", q)
    <3> HIDE DEF q
    <3> QED BY <2>2, <2>3
  <2>5. (q.own => asking[r].own) \/ Pool!Free > 0
    BY <2>1, <2>4, Zenon
  <2> HIDE DEF q
  <2>6. asking'[r] = q /\ asking[r].at = "reading" /\ ~asking[r].nested
    BY <1>1, <2>4, Stepped DEF HoldersInv
  <2>7. HoldersInv(r)'
    BY <1>1, <2>4, <2>6 DEF HoldersInv
  <2> QED BY <1>2, <2>4, <2>5, <2>6, <2>7, AskMoved
<1>6. CASE Pool!SavePlan(r)
  <2> DEFINE q == [asking[r] EXCEPT !.own = FALSE]
  <2>1. /\ q \in Asked /\ q.at = asking[r].at /\ q.own = FALSE /\ q.nested = asking[r].nested
        /\ q.uses = asking[r].uses /\ q.outcome = asking[r].outcome
    BY <1>1, GivenFields
  <2>2. Pool!Step(r, "running", q) /\ ~asking[r].nested
    BY <1>6 DEF Pool!SavePlan
  <2> HIDE DEF q
  <2>3. asking'[r] = q /\ asking[r].at = "running"
    BY <2>1, <2>2, Stepped
  <2>4. HoldersInv(r)'
    BY <1>1, <2>1, <2>2, <2>3 DEF HoldersInv
  <2> QED BY <1>2, <2>1, <2>2, <2>3, <2>4, AskMoved
<1>7. CASE Pool!NodeFails(r)
  <2> DEFINE q == [asking[r] EXCEPT !.at = "failing"]
  <2>1. /\ q \in Asked /\ q.at = "failing" /\ q.own = asking[r].own /\ q.nested = asking[r].nested
        /\ q.uses = asking[r].uses /\ q.outcome = asking[r].outcome
    BY <1>1, PlaceFields DEF PoolPlaces
  <2>2. Pool!Step(r, "running", q) /\ ~asking[r].nested
    BY <1>7 DEF Pool!NodeFails
  <2> HIDE DEF q
  <2>3. asking'[r] = q /\ asking[r].at = "running"
    BY <2>1, <2>2, Stepped
  <2>4. HoldersInv(r)'
    BY <1>1, <2>1, <2>2, <2>3 DEF HoldersInv
  <2> QED BY <1>2, <2>1, <2>2, <2>3, <2>4, AskMoved
<1> QED BY <1>3, <1>4, <1>5, <1>6, <1>7

LEMMA PoolOpens == ASSUME PoolInv, NEW r \in Requests, Pool!Open(r) PROVE PoolInv'
<1>1. /\ asking[r] \in Asked /\ HoldersInv(r) /\ ~asking[r].nested /\ Pool!Free > 0 /\ UNCHANGED committed
      /\ committed \in [Requests -> Seq(Nat)]
  BY DEF PoolInv, PoolTypeOK, Pool!Open, Pool!Silent
<1>2. ASSUME NEW use \in PoolUses, Pool!Step(r, "running", [Pool!Used(r, use) EXCEPT !.nested = TRUE])
      PROVE  PoolInv'
  <2> DEFINE x == Pool!Used(r, use)
             q == [x EXCEPT !.nested = TRUE]
  <2>1. /\ x \in Asked /\ x.at = asking[r].at /\ x.own = asking[r].own /\ x.kind = asking[r].kind
        /\ x.uses = Append(asking[r].uses, use) /\ x.outcome = asking[r].outcome
    BY UsedFields
  <2>2. Pool!Step(r, "running", q)
    BY <1>2
  <2> HIDE DEF x
  <2>3. /\ q \in Asked /\ q.at = x.at /\ q.own = x.own /\ q.nested = TRUE
        /\ q.kind = x.kind /\ q.uses = x.uses /\ q.outcome = x.outcome
    BY <2>1, SecondFields
  <2> HIDE DEF q
  <2>4. asking'[r] = q /\ asking[r].at = "running"
    BY <2>2, <2>3, Stepped
  <2>5. /\ Over(asking[r]) = Len(asking[r].uses) /\ Len(asking[r].uses) \in Nat
        /\ Len(q.uses) = Len(asking[r].uses) + 1
        /\ \A k \in 1..Len(asking[r].uses) : q.uses[k] = asking[r].uses[k]
    BY <1>1, <2>1, <2>3, OverIs, Appended
  <2>6. Over(q) = Over(asking[r])
    BY <2>1, <2>3, <2>4, <2>5 DEF Over
  <2>7. q.uses # <<>>
    BY <2>5, SMT
  <2>8. HoldersInv(r)'
    BY <1>1, <2>1, <2>3, <2>4, <2>7 DEF HoldersInv
  <2>9. q.outcome # "refused" /\ asking[r].at # "ended"
    BY <1>1, <2>1, <2>3, <2>4 DEF HoldersInv
  <2>10. most <= most' /\ most' \in Nat => RecordInv(r)'
    BY <1>1, <2>3, <2>4, <2>5, <2>6, <2>9, KeptRecord
  <2> QED BY <1>1, <2>1, <2>2, <2>3, <2>8, <2>10, OneAsk
<1>3. CASE Pool!Step(r, "failing", [asking[r] EXCEPT !.nested = TRUE])
  <2> DEFINE q == [asking[r] EXCEPT !.nested = TRUE]
  <2>1. /\ q \in Asked /\ q.at = asking[r].at /\ q.own = asking[r].own /\ q.nested = TRUE
        /\ q.uses = asking[r].uses /\ q.outcome = asking[r].outcome
    BY <1>1, SecondFields
  <2>2. Pool!Step(r, "failing", q)
    BY <1>3
  <2> HIDE DEF q
  <2>3. asking'[r] = q /\ asking[r].at = "failing"
    BY <2>1, <2>2, Stepped
  <2>4. HoldersInv(r)'
    BY <1>1, <2>1, <2>3 DEF HoldersInv
  <2> QED BY <1>1, <2>1, <2>2, <2>3, <2>4, AskMoved
<1>4. \/ \E use \in PoolUses : Pool!Step(r, "running", [Pool!Used(r, use) EXCEPT !.nested = TRUE])
      \/ Pool!Step(r, "failing", [asking[r] EXCEPT !.nested = TRUE])
  BY FollowsAre DEF Pool!Open
<1> QED BY <1>2, <1>3, <1>4

(* There is always a connection while asks are fewer. *)
LEMMA CrowdedIfExhausted == PoolInv /\ Pool!Exhausted => most >= POOL /\ most \in Nat
<1> SUFFICES ASSUME PoolInv, Pool!Exhausted PROVE most >= POOL /\ most \in Nat
  OBVIOUS
<1>1. Pool!Free = 0 /\ Nested = {}
  BY DEF Pool!Exhausted, Nested
<1>2. Owning \subseteq Busy
  BY DEF Owning, Busy
<1>3. Cardinality(Owning) <= Cardinality(Busy)
  BY <1>2, PoolSets, FS_Subset
<1>4. POOL - (Cardinality(Owning) + 0) = 0
  BY <1>1, FS_EmptySet, PoolSets DEF Pool!Free
<1>5. Cardinality(Busy) <= most /\ most \in Nat
  BY DEF PoolInv, PoolTypeOK, CountedInv
<1> QED BY <1>3, <1>4, <1>5, PoolSets, SizesAssumption

(* A use is over: committed, or its audit given up. *)
LEMMA UsePassed ==
    ASSUME PoolInv, NEW r \in Requests, NEW q \in Asked, NEW n \in Nat,
           asking'[r] = q, asking[r].at = "running", q.outcome = "none",
           Over(asking[r]) = n, Over(q) = n + 1, \A k \in 1..n : q.uses[k] = asking[r].uses[k],
           \/ committed'[r] = Append(committed[r], n + 1)
           \/ committed'[r] = committed[r] /\ q.uses[n + 1] = "audit" /\ most >= POOL,
           most <= most' /\ most' \in Nat
    PROVE  RecordInv(r)'
<1> DEFINE old == committed[r]
           new == committed'[r]
<1>1. /\ old \in Seq(Nat) /\ Recorded(asking[r], old) /\ DOMAIN old = 1..Len(old) /\ Len(old) \in Nat
      /\ \A i \in DOMAIN old : old[i] \in Nat
  <2>1. old \in Seq(Nat) /\ Recorded(asking[r], old)
    BY DEF PoolInv, PoolTypeOK, HoldersInv, RecordInv
  <2>2. DOMAIN old = 1..Len(old) /\ Len(old) \in Nat /\ \A i \in DOMAIN old : old[i] \in Nat
    BY <2>1, SMT
  <2> QED BY <2>1, <2>2
<1>2. /\ Pool!InTurn(old) /\ \A i \in DOMAIN old : old[i] <= n
      /\ \A k \in 1..n : asking[r].uses[k] # "audit" \/ most < POOL => \E i \in DOMAIN old : old[i] = k
  BY <1>1 DEF Recorded
<1>3. \A k \in 1..(n + 1) : k \in 1..n \/ k = n + 1
  BY SMT
<1>4. most' < POOL => most < POOL /\ ~(most >= POOL)
  BY SizesAssumption DEF PoolInv, PoolTypeOK
<1>5. \A a \in Nat : a <= n => a <= n + 1 /\ a < n + 1
  BY SMT
<1> SUFFICES /\ Pool!InTurn(new) /\ \A i \in DOMAIN new : new[i] <= n + 1
             /\ \A k \in 1..(n + 1) :
                   q.uses[k] # "audit" \/ most' < POOL => \E i \in DOMAIN new : new[i] = k
  <2>1. Recorded(asking[r], committed[r])' <=>
           /\ Pool!InTurn(new) /\ \A i \in DOMAIN new : new[i] <= n + 1
           /\ \A k \in 1..(n + 1) :
                 q.uses[k] # "audit" \/ most' < POOL => \E i \in DOMAIN new : new[i] = k
    BY DEF Recorded, Over, Pool!InTurn
  <2> QED BY <2>1 DEF RecordInv
<1>6. CASE committed'[r] = Append(committed[r], n + 1)
  <2>1. /\ DOMAIN new = 1..(Len(old) + 1) /\ new[Len(old) + 1] = n + 1 /\ \A i \in DOMAIN old : new[i] = old[i]
    BY <1>1, <1>6, Appended
  <2>2. /\ \A i \in DOMAIN new : i \in DOMAIN old \/ i = Len(old) + 1
        /\ Len(old) + 1 \in DOMAIN new /\ DOMAIN old \subseteq DOMAIN new
    BY <1>1, <2>1, SMT
  <2>3. \A i \in DOMAIN new : new[i] <= n + 1
    BY <1>1, <1>2, <1>5, <2>1, <2>2
  <2>4. Pool!InTurn(new)
    <3> SUFFICES ASSUME NEW i \in DOMAIN new, NEW j \in DOMAIN new, i < j PROVE new[i] < new[j]
      BY DEF Pool!InTurn
    <3>1. i \in DOMAIN old
      BY <1>1, <2>1, <2>2, SMT
    <3>2. CASE j \in DOMAIN old
      BY <1>2, <2>1, <3>1, <3>2 DEF Pool!InTurn
    <3>3. CASE j = Len(old) + 1
      BY <1>1, <1>2, <1>5, <2>1, <3>1, <3>3
    <3> QED BY <2>2, <3>2, <3>3
  <2>5. ASSUME NEW k \in 1..(n + 1), q.uses[k] # "audit" \/ most' < POOL
        PROVE  \E i \in DOMAIN new : new[i] = k
    <3>1. CASE k = n + 1
      BY <2>1, <2>2, <3>1
    <3>2. CASE k \in 1..n
      <4>1. PICK i \in DOMAIN old : old[i] = k
        BY <1>2, <1>4, <2>5, <3>2
      <4> QED BY <2>1, <2>2, <4>1
    <3> QED BY <1>3, <3>1, <3>2
  <2> QED BY <2>3, <2>4, <2>5
<1>7. CASE committed'[r] = committed[r] /\ q.uses[n + 1] = "audit" /\ most >= POOL
  <2>1. new = old
    BY <1>7
  <2>2. \A i \in DOMAIN new : new[i] <= n + 1
    BY <1>1, <1>2, <1>5, <2>1
  <2>3. ASSUME NEW k \in 1..(n + 1), q.uses[k] # "audit" \/ most' < POOL
        PROVE  \E i \in DOMAIN new : new[i] = k
    <3>1. k \in 1..n /\ q.uses[k] # "audit"
      BY <1>3, <1>4, <1>7, <2>3
    <3> QED BY <1>2, <2>1, <3>1
  <2> QED BY <1>2, <2>1, <2>2, <2>3
<1> QED BY <1>6, <1>7

(* Of a request that was refused in no crowd, everything is on record. *)
Complete(r) ==
    most < POOL =>
        /\ \A k \in DOMAIN asking[r].uses : Pool!Wrote(r, k)
        /\ asking[r].kind = "agent" /\ asking[r].uses # <<>> => Pool!Wrote(r, Pool!Failure)

(* A request ends without another write. *)
LEMMA AskEnds ==
    ASSUME PoolInv, NEW r \in Requests, NEW ending \in {"answered", "refused"}, NEW from \in PoolPlaces,
           Pool!Step(r, from, Pool!End(r, ending)), from # "ended", ~asking[r].nested, UNCHANGED committed,
           ending = "refused" => Complete(r)
    PROVE  PoolInv'
<1>1. PICK q \in Asked : q = Pool!End(r, ending)
  BY EndFields
<1>2. /\ q.at = "ended" /\ q.nested = asking[r].nested /\ q.kind = asking[r].kind
      /\ q.uses = asking[r].uses /\ q.outcome = ending
      /\ q.own => asking[r].own /\ asking[r].kind = "stream"
  BY <1>1, EndFields
<1>3. asking'[r] = q /\ asking[r].at = from /\ Pool!Step(r, from, q)
  BY <1>1, Stepped
<1>4. HoldersInv(r)'
  BY <1>2, <1>3 DEF PoolInv, HoldersInv
<1>5. committed \in [Requests -> Seq(Nat)]
  BY DEF PoolInv, PoolTypeOK
<1>6. ASSUME most <= most', most' \in Nat PROVE RecordInv(r)'
  <2>1. CASE ending = "answered"
    <3>1. Over(q) = Over(asking[r])
      BY <1>2, OverIs DEF Over
    <3> QED BY <1>2, <1>3, <1>6, <2>1, <3>1, KeptRecord
  <2>2. CASE ending = "refused"
    <3>1. most' < POOL => most < POOL
      BY <1>6, SizesAssumption DEF PoolInv, PoolTypeOK
    <3>2. \A k : Pool!Wrote(r, k)' <=> Pool!Wrote(r, k)
      BY DEF Pool!Wrote
    <3> QED BY <1>2, <1>3, <2>2, <3>1, <3>2 DEF RecordInv, Complete
  <2> QED BY <2>1, <2>2
<1> QED BY <1>2, <1>3, <1>4, <1>5, <1>6, OneAsk

LEMMA PoolCommits == ASSUME PoolInv, NEW r \in Requests, Pool!Commit(r) PROVE PoolInv'
<1> DEFINE x == asking[r]
           closed == [x EXCEPT !.nested = FALSE]
<1>1. /\ x \in Asked /\ committed[r] \in Seq(Nat) /\ HoldersInv(r) /\ x.nested
      /\ committed \in [Requests -> Seq(Nat)] /\ x.outcome = "none" /\ Recorded(x, committed[r])
  BY DEF PoolInv, PoolTypeOK, Pool!Commit, HoldersInv, RecordInv
<1>2. /\ closed \in Asked /\ closed.at = x.at /\ closed.own = x.own /\ closed.nested = FALSE
      /\ closed.kind = x.kind /\ closed.uses = x.uses /\ closed.outcome = x.outcome
  BY <1>1, SecondFields
<1>3. /\ committed' = [committed EXCEPT ![r] = Append(committed[r], Pool!Written(r))]
      /\ \/ Pool!Step(r, "running", closed)
         \/ Pool!Step(r, "failing", [closed EXCEPT !.at = "ended", !.outcome = "refused", !.own = FALSE])
  BY DEF Pool!Commit
<1>4. /\ x.uses \in Seq(PoolUses) /\ Len(x.uses) \in Nat /\ Over(x) \in Nat
      /\ Pool!Written(r) \in Nat /\ DOMAIN x.uses = 1..Len(x.uses)
  BY OverIs DEF Pool!Written, Pool!Failure
<1>5. /\ committed' \in [Requests -> Seq(Nat)] /\ committed'[r] = Append(committed[r], Pool!Written(r))
      /\ \A s \in Requests : s # r => committed'[s] = committed[s]
  <2>1. Append(committed[r], Pool!Written(r)) \in Seq(Nat)
    BY <1>1, <1>4, Appended
  <2> QED BY <1>1, <1>3, <2>1
<1>6. CASE Pool!Step(r, "running", closed)
  <2> HIDE DEF closed, x
  <2>1. asking'[r] = closed /\ x.at = "running"
    BY <1>2, <1>6, Stepped DEF x
  <2>2. Pool!Written(r) = Len(x.uses) /\ Over(x) = Len(x.uses) - 1 /\ Over(closed) = Len(x.uses)
    BY <1>1, <1>2, <2>1 DEF Pool!Written, Over, x
  <2>3. Over(closed) = Over(x) + 1 /\ Pool!Written(r) = Over(x) + 1
    BY <1>4, <2>2
  <2>4. HoldersInv(r)'
    BY <1>1, <1>2, <2>1 DEF HoldersInv, x
  <2>5. \A k \in 1..Over(x) : closed.uses[k] = x.uses[k]
    BY <1>2
  <2>6. most <= most' /\ most' \in Nat => RecordInv(r)'
    BY <1>1, <1>2, <1>4, <1>5, <2>1, <2>3, <2>5, UsePassed DEF x
  <2> QED BY <1>2, <1>5, <1>6, <2>4, <2>6, OneAsk DEF x
<1>7. CASE Pool!Step(r, "failing", [closed EXCEPT !.at = "ended", !.outcome = "refused", !.own = FALSE])
  <2> DEFINE q == [closed EXCEPT !.at = "ended", !.outcome = "refused", !.own = FALSE]
  <2>1. Pool!Step(r, "failing", q)
    BY <1>7
  <2>2. /\ q \in Asked /\ q.at = "ended" /\ q.own = FALSE /\ q.nested = FALSE
        /\ q.kind = x.kind /\ q.uses = x.uses /\ q.outcome = "refused"
    <3> HIDE DEF closed
    <3> QED BY <1>2 DEF Asked, PoolPlaces
  <2> HIDE DEF q, closed, x
  <2>3. asking'[r] = q /\ x.at = "failing"
    BY <2>1, <2>2, Stepped DEF x
  <2>4. Pool!Written(r) = Pool!Failure /\ Over(x) = Len(x.uses)
    BY <2>3 DEF Pool!Written, Over, x
  <2>5. HoldersInv(r)'
    BY <1>1, <2>2, <2>3 DEF HoldersInv, x
  <2>6. /\ DOMAIN committed'[r] = 1..(Len(committed[r]) + 1) /\ committed'[r][Len(committed[r]) + 1] = Pool!Failure
        /\ DOMAIN committed[r] = 1..Len(committed[r]) /\ Len(committed[r]) \in Nat
        /\ \A i \in DOMAIN committed[r] : committed'[r][i] = committed[r][i]
    BY <1>1, <1>4, <1>5, <2>4, Appended
  <2>7. Pool!Wrote(r, Pool!Failure)'
    <3>1. Len(committed[r]) + 1 \in DOMAIN committed'[r]
      BY <2>6
    <3> QED BY <2>6, <3>1 DEF Pool!Wrote
  <2>8. ASSUME NEW k \in DOMAIN x.uses, most < POOL PROVE Pool!Wrote(r, k)'
    <3>1. PICK i \in DOMAIN committed[r] : committed[r][i] = k
      BY <1>1, <1>4, <2>4, <2>8 DEF Recorded
    <3>2. i \in DOMAIN committed'[r]
      BY <2>6, <3>1
    <3> QED BY <2>6, <3>1, <3>2 DEF Pool!Wrote
  <2>9. ASSUME most <= most', most' \in Nat PROVE RecordInv(r)'
    <3>1. most' < POOL => most < POOL
      BY <2>9, SizesAssumption DEF PoolInv, PoolTypeOK
    <3> QED BY <2>2, <2>3, <2>7, <2>8, <3>1 DEF RecordInv
  <2> QED BY <1>5, <2>1, <2>2, <2>5, <2>9, OneAsk DEF x
<1> QED BY <1>3, <1>6, <1>7

LEMMA PoolTimesOut == ASSUME PoolInv, NEW r \in Requests, Pool!TimeOut(r) PROVE PoolInv'
<1> DEFINE x == asking[r]
<1>1. /\ x \in Asked /\ HoldersInv(r) /\ ~x.nested /\ UNCHANGED committed
      /\ committed \in [Requests -> Seq(Nat)] /\ most >= POOL /\ most \in Nat
  BY CrowdedIfExhausted DEF PoolInv, PoolTypeOK, Pool!TimeOut, Pool!Silent, Pool!Exhausted
<1>2. ASSUME NEW from \in {"arrived", "reading", "running", "failing"}, Pool!Step(r, from, Pool!End(r, "refused"))
      PROVE  PoolInv'
  <2>1. Complete(r)
    BY <1>1, SizesAssumption DEF Complete
  <2> QED BY <1>1, <1>2, <2>1, AskEnds DEF PoolPlaces
<1>3. CASE Pool!Step(r, "running", Pool!Used(r, "audit"))
  <2>1. PICK q \in Asked : q = Pool!Used(r, "audit")
    BY UsedFields DEF PoolUses
  <2>2. /\ q.at = x.at /\ q.own = x.own /\ q.nested = x.nested
        /\ q.kind = x.kind /\ q.uses = Append(x.uses, "audit") /\ q.outcome = x.outcome
    BY <2>1, UsedFields DEF PoolUses
  <2>3. asking'[r] = q /\ x.at = "running" /\ Pool!Step(r, "running", q)
    BY <1>3, <2>1, Stepped
  <2>4. /\ Over(x) = Len(x.uses) /\ Len(x.uses) \in Nat /\ x.uses \in Seq(PoolUses)
    BY <1>1, OverIs
  <2>5. /\ Len(q.uses) = Len(x.uses) + 1 /\ q.uses[Len(x.uses) + 1] = "audit"
        /\ \A k \in 1..Len(x.uses) : q.uses[k] = x.uses[k]
    BY <2>2, <2>4, Appended DEF PoolUses
  <2>6. Over(q) = Len(x.uses) + 1
    BY <1>1, <2>2, <2>5 DEF Over
  <2>7. HoldersInv(r)' /\ q.outcome = "none"
    BY <1>1, <2>2, <2>3 DEF HoldersInv
  <2>8. most <= most' /\ most' \in Nat => RecordInv(r)'
    BY <1>1, <2>3, <2>4, <2>5, <2>6, <2>7, UsePassed
  <2> QED BY <1>1, <2>2, <2>3, <2>7, <2>8, OneAsk
<1>4. CASE Pool!Step(r, "running", [asking[r] EXCEPT !.at = "failing"])
  <2> DEFINE q == [asking[r] EXCEPT !.at = "failing"]
  <2>1. /\ q \in Asked /\ q.at = "failing" /\ q.own = asking[r].own /\ q.nested = asking[r].nested
        /\ q.uses = asking[r].uses /\ q.outcome = asking[r].outcome
    BY <1>1, PlaceFields DEF PoolPlaces
  <2>2. Pool!Step(r, "running", q)
    BY <1>4
  <2> HIDE DEF q
  <2>3. asking'[r] = q /\ asking[r].at = "running"
    BY <2>1, <2>2, Stepped
  <2>4. HoldersInv(r)'
    BY <1>1, <2>1, <2>3 DEF HoldersInv
  <2> QED BY <1>1, <2>1, <2>2, <2>3, <2>4, AskMoved
<1>5. \/ \E from \in {"arrived", "reading", "running", "failing"} : Pool!Step(r, from, Pool!End(r, "refused"))
      \/ Pool!Step(r, "running", Pool!Used(r, "audit"))
      \/ Pool!Step(r, "running", [asking[r] EXCEPT !.at = "failing"])
  BY DEF Pool!TimeOut, Pool!GiveUp
<1> QED BY <1>2, <1>3, <1>4, <1>5

LEMMA PoolReplies ==
    ASSUME PoolInv, NEW r \in Requests, Pool!Reply(r) \/ Pool!CallFails(r) \/ Pool!Refuse(r)
    PROVE  PoolInv'
<1>1. asking[r] \in Asked /\ HoldersInv(r) /\ UNCHANGED committed
  BY DEF PoolInv, PoolTypeOK, Pool!Reply, Pool!CallFails, Pool!Refuse, Pool!Silent
<1>2. CASE Pool!Reply(r)
  BY <1>1, <1>2, AskEnds DEF Pool!Reply, PoolPlaces
<1>3. CASE Pool!CallFails(r)
  <2>1. /\ asking[r].kind # "agent" /\ ~asking[r].nested /\ Pool!Step(r, "running", Pool!End(r, "refused"))
        /\ asking[r].at = "running"
    BY <1>3 DEF Pool!CallFails, Pool!Step
  <2>2. Recorded(asking[r], committed[r])
    BY <2>1 DEF PoolInv, HoldersInv, RecordInv
  <2>3. Complete(r)
    BY <2>1, <2>2, OverIs DEF Complete, Recorded, Pool!Wrote
  <2> QED BY <1>1, <2>1, <2>3, AskEnds DEF PoolPlaces
<1>4. CASE Pool!Refuse(r)
  <2>1. PICK from \in {"resolving", "reading"} : Pool!Step(r, from, Pool!End(r, "refused"))
    BY <1>4 DEF Pool!Refuse
  <2>2. asking[r].at = from
    BY <2>1 DEF Pool!Step
  <2>3. asking[r].uses = <<>> /\ ~asking[r].nested /\ DOMAIN <<>> = {}
    BY <1>1, <2>2, SMT DEF HoldersInv
  <2>4. Complete(r)
    BY <2>3 DEF Complete
  <2> QED BY <1>1, <2>1, <2>3, <2>4, AskEnds DEF PoolPlaces
<1> QED BY <1>2, <1>3, <1>4

(* What the frames of a stream took is back, and nothing else changes. *)
LEMMA PoolCollects == ASSUME PoolInv, NEW r \in Requests, Pool!Collect(r) PROVE PoolInv'
<1> DEFINE q == [asking[r] EXCEPT !.own = FALSE]
<1>1. /\ asking[r] \in Asked /\ HoldersInv(r) /\ RecordInv(r) /\ UNCHANGED committed
      /\ committed \in [Requests -> Seq(Nat)]
  BY DEF PoolInv, PoolTypeOK, Pool!Collect, Pool!Silent
<1>2. /\ q \in Asked /\ q.at = asking[r].at /\ q.own = FALSE /\ q.nested = asking[r].nested
      /\ q.kind = asking[r].kind /\ q.uses = asking[r].uses /\ q.outcome = asking[r].outcome
  BY <1>1, GivenFields
<1>3. Pool!Step(r, "ended", q)
  BY DEF Pool!Collect
<1> HIDE DEF q
<1>4. asking'[r] = q /\ asking[r].at = "ended"
  BY <1>2, <1>3, Stepped
<1>5. HoldersInv(r)'
  BY <1>1, <1>2, <1>4 DEF HoldersInv
<1>6. ASSUME most <= most', most' \in Nat PROVE RecordInv(r)'
  <2>1. most' < POOL => most < POOL
    BY <1>6, SizesAssumption DEF PoolInv, PoolTypeOK
  <2>2. Over(q) = Over(asking[r])
    BY <1>2 DEF Over
  <2>3. asking[r].outcome # "refused" => Recorded(asking[r], committed[r])'
    <3>1. Over(asking[r])' = Over(asking[r])
      BY <1>4, <2>2 DEF Over
    <3> QED BY <1>1, <1>2, <1>4, <2>1, <3>1 DEF RecordInv, Recorded, Pool!InTurn
  <2>4. \A k : Pool!Wrote(r, k)' <=> Pool!Wrote(r, k)
    BY <1>1 DEF Pool!Wrote
  <2> QED BY <1>1, <1>2, <1>4, <2>1, <2>3, <2>4 DEF RecordInv
<1> QED BY <1>1, <1>2, <1>3, <1>5, <1>6, OneAsk

(* The pool is never overdrawn, and a request that ended holds nothing but *)
(* what the frames of a stream took; while there are fewer asks at once    *)
(* than connections, every call that was made is audited, every step on    *)
(* record and every failure of a run; and however crowded, an answer has   *)
(* its run and every step on record, in order (get_db_session, the         *)
(* executor, the recorder).                                                *)
THEOREM EnoughConnectionsLoseNothing == PlatformSpec => []NothingLostUnlessCrowded
<1>1. PoolInv /\ [PlatformNext]_allVars => PoolInv'
  <2> SUFFICES ASSUME PoolInv, [PlatformNext]_allVars PROVE PoolInv'
    OBVIOUS
  <2>1. CASE Pool!Next
    BY <2>1, PoolMoves, PoolOpens, PoolReplies, PoolCommits, PoolTimesOut, PoolCollects DEF Pool!Next
  <2>2. CASE UNCHANGED poolVars
    <3>1. PoolTypeOK' /\ CountedInv'
      BY <2>2 DEF poolVars, PoolInv, PoolTypeOK, CountedInv, Owning, Nested, Busy
    <3>2. \A r \in Requests : HoldersInv(r)' /\ RecordInv(r)'
      BY <2>2 DEF poolVars, PoolInv, HoldersInv, RecordInv, Recorded, Pool!Wrote
    <3> QED BY <3>1, <3>2 DEF PoolInv
  <2> QED BY <2>1, <2>2 DEF PlatformNext, allVars
<1>2. PoolInv => Pool!NothingLostUnlessCrowded
  <2> SUFFICES ASSUME PoolInv PROVE Pool!NothingLostUnlessCrowded
    OBVIOUS
  <2>1. Pool!Held <= POOL
    BY PoolSets DEF PoolInv, CountedInv
  <2>2. ASSUME NEW r \in Requests, asking[r].outcome = "answered"
        PROVE  /\ Pool!InTurn(committed[r])
               /\ \A k \in DOMAIN asking[r].uses :
                     asking[r].uses[k] # "audit" \/ most < POOL => Pool!Wrote(r, k)
    <3>1. Recorded(asking[r], committed[r]) /\ ~asking[r].nested
      BY <2>2 DEF PoolInv, HoldersInv, RecordInv
    <3> QED BY <3>1, OverIs DEF Recorded, Pool!Wrote
  <2>3. \A r \in Requests : asking[r].at = "ended" /\ asking[r].own => asking[r].kind = "stream"
    BY DEF PoolInv, HoldersInv
  <2>4. \A r \in Requests : most < POOL /\ asking[r].outcome = "refused" =>
           /\ \A k \in DOMAIN asking[r].uses : Pool!Wrote(r, k)
           /\ asking[r].kind = "agent" /\ asking[r].uses # <<>> => Pool!Wrote(r, Pool!Failure)
    BY DEF PoolInv, RecordInv
  <2> QED BY <2>1, <2>2, <2>3, <2>4 DEF Pool!NothingLostUnlessCrowded
<1> QED BY <1>1, <1>2, PoolInitial, PTL DEF PlatformSpec, NothingLostUnlessCrowded
====
