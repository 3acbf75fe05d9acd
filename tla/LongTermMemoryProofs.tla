---- MODULE LongTermMemoryProofs ----
(***************************************************************************)
(* Proofs about LongTermMemory, for every set of memories and of requests  *)
(* and every TopK.                                                         *)
(***************************************************************************)
EXTENDS LongTermMemory, TLAPS

Steps == {"idle", "index", "commit", "hydrate", "answered", "delete", "delete vector"}
Remembers == {"index", "commit"}
Request == [at: Steps, entries: SUBSET Entries, indexed: BOOLEAN, gone: SUBSET Entries]

(* Rows, vectors and requests are well formed; ids of rows were given out. *)
TypeOK ==
    /\ row \in [Entries -> {"none", "plain", "indexed"}]
    /\ vectors \subseteq Entries
    /\ born \subseteq Entries
    /\ request \in [Requests -> Request]
    /\ \A e \in Entries : row[e] # "none" => e \in born

(* What a request may rely on, whatever the others do meanwhile.           *)
Knows(r) ==
    LET mine == request[r].entries IN
    /\ request[r].at \in Remembers => \A e \in mine : row[e] = "none" /\ e \in born
    /\ request[r].at = "commit" /\ request[r].indexed => mine \subseteq vectors
    /\ request[r].at \in {"delete", "delete vector"} => \A e \in mine : e \in born /\ ~Remembering(e)
    /\ request[r].at = "delete vector" => \A e \in mine : row[e] = "none"
    /\ request[r].at \in {"hydrate", "answered"} => request[r].gone \subseteq Forgotten
    /\ request[r].at = "answered" => mine \cap request[r].gone = {}

(* A memory is remembered by one request. *)
Apart ==
    \A q, r \in Requests : request[q].at \in Remembers /\ request[r].at \in Remembers /\ q # r =>
        request[q].entries \cap request[r].entries = {}

Named == \A e \in Entries : row[e] = "indexed" => e \in vectors

IInv == TypeOK /\ Apart /\ Named /\ \A r \in Requests : Knows(r)

----------------------------------------------------------------------------
LEMMA Fields ==
    \A x \in Request : DOMAIN x = {"at", "entries", "indexed", "gone"}
  BY SMT DEF Request

LEMMA OneField ==
    ASSUME NEW x \in Request
    PROVE  /\ \A p \in Steps : [x EXCEPT !.at = p] \in Request
           /\ \A s \in SUBSET Entries : [x EXCEPT !.entries = s] \in Request
           /\ \A b \in BOOLEAN : [x EXCEPT !.indexed = b] \in Request
           /\ \A s \in SUBSET Entries : [x EXCEPT !.gone = s] \in Request
  BY SMT DEF Request

LEMMA Begun ==
    /\ Idle \in Request /\ Idle.at = "idle"
    /\ \A p \in Steps, s, g \in SUBSET Entries, b \in BOOLEAN :
          /\ [Idle EXCEPT !.at = p, !.entries = s] \in Request
          /\ [Idle EXCEPT !.at = p, !.entries = s, !.indexed = b] \in Request
          /\ [Idle EXCEPT !.at = p, !.entries = s, !.gone = g] \in Request
<1>1. Idle \in Request /\ Idle.at = "idle"
  BY SMT DEF Idle, Request, Steps
<1>2. ASSUME NEW p \in Steps, NEW s \in SUBSET Entries, NEW g \in SUBSET Entries, NEW b \in BOOLEAN
      PROVE  /\ [Idle EXCEPT !.at = p, !.entries = s] \in Request
             /\ [Idle EXCEPT !.at = p, !.entries = s, !.indexed = b] \in Request
             /\ [Idle EXCEPT !.at = p, !.entries = s, !.gone = g] \in Request
  <2> DEFINE x == [Idle EXCEPT !.at = p]
             y == [x EXCEPT !.entries = s]
             z == [y EXCEPT !.indexed = b]
             w == [y EXCEPT !.gone = g]
  <2>1. x \in Request
    BY <1>1, OneField
  <2>2. /\ y = [Idle EXCEPT !.at = p, !.entries = s]
        /\ z = [Idle EXCEPT !.at = p, !.entries = s, !.indexed = b]
        /\ w = [Idle EXCEPT !.at = p, !.entries = s, !.gone = g]
    BY Zenon
  <2> HIDE DEF x
  <2>3. y \in Request
    BY <2>1, OneField
  <2> HIDE DEF y
  <2>4. z \in Request /\ w \in Request
    BY <2>3, OneField
  <2> QED BY <2>2, <2>3, <2>4
<1> QED BY <1>1, <1>2

LEMMA InitIInv == Init => IInv
<1> SUFFICES ASSUME Init PROVE IInv
  OBVIOUS
<1>1. Idle \in Request /\ Idle.at = "idle"
  BY SMT DEF Idle, Request, Steps
<1>2. \A r \in Requests : request[r].at = "idle"
  BY <1>1 DEF Init
<1>3. TypeOK
  BY <1>1, SMT DEF Init, TypeOK
<1>4. Apart /\ \A r \in Requests : Knows(r)
  BY <1>2 DEF Apart, Knows, Remembers
<1>5. Named
  BY SMT DEF Init, Named
<1> QED BY <1>3, <1>4, <1>5 DEF IInv

(* A request goes on; of what it does, what the others need to know is     *)
(* that it brings back only what it remembers, and takes only the vectors  *)
(* it has to delete.                                                       *)
LEMMA Goes ==
    ASSUME IInv, NEW r \in Requests, NEW to \in Request,
           request' = [request EXCEPT ![r] = to],
           born \subseteq born', born' \subseteq Entries, vectors' \subseteq Entries,
           row' \in [Entries -> {"none", "plain", "indexed"}],
           to.at \in Remembers =>
               \/ request[r].at \in Remembers /\ to.entries = request[r].entries
               \/ to.entries \cap born = {},
           \A e \in Entries : row[e] = "none" /\ row'[e] # "none" =>
               e \in request[r].entries /\ request[r].at = "commit",
           \A e \in vectors : e \notin vectors' =>
               e \in request[r].entries /\ request[r].at = "delete vector",
           \A e \in Entries : row'[e] = "indexed" /\ row[e] # "indexed" => e \in vectors'
    PROVE  /\ TypeOK' /\ Apart' /\ Named'
           /\ \A q \in Requests \ {r} : Knows(q)'
           /\ request'[r] = to
           /\ \A e \in born : Remembering(e)' => Remembering(e)
           /\ Forgotten \subseteq Forgotten'
<1> USE DEF IInv
<1>1. /\ request' \in [Requests -> Request] /\ request'[r] = to
      /\ \A q \in Requests : q # r => request'[q] = request[q]
  BY DEF TypeOK
<1>2. \A e \in born : Remembering(e)' => Remembering(e)
  BY <1>1 DEF Remembering, Remembers
<1>3. \A e \in Entries : row[e] = "none" /\ row'[e] # "none" => Remembering(e)
  BY DEF Remembering
<1>4. Forgotten \subseteq Forgotten'
  BY <1>2, <1>3 DEF Forgotten, TypeOK
<1>5. TypeOK'
  <2>1. \A e \in Entries : row'[e] # "none" => e \in born'
    BY DEF TypeOK, Knows, Remembers
  <2> QED BY <1>1, <2>1 DEF TypeOK
<1>6. Apart'
  <2>0. ASSUME NEW q \in Requests, q # r, request[q].at \in Remembers, to.at \in Remembers
        PROVE  to.entries \cap request[q].entries = {}
    <3>1. \A e \in request[q].entries : e \in born
      BY <2>0 DEF Knows
    <3> QED BY <2>0, <3>1 DEF Apart
  <2> SUFFICES ASSUME NEW q \in Requests, NEW p \in Requests, q # p,
                      request'[q].at \in Remembers, request'[p].at \in Remembers
               PROVE  request'[q].entries \cap request'[p].entries = {}
    BY DEF Apart
  <2>1. CASE q # r /\ p # r
    BY <1>1, <2>1 DEF Apart
  <2>2. CASE q = r
    BY <1>1, <2>0, <2>2
  <2>3. CASE p = r
    BY <1>1, <2>0, <2>3
  <2> QED BY <2>1, <2>2, <2>3
<1>7. \A e \in Entries : row'[e] = "indexed" => e \in vectors'
  <2> SUFFICES ASSUME NEW e \in Entries, row'[e] = "indexed", e \notin vectors' PROVE FALSE
    OBVIOUS
  <2>1. row[e] = "indexed" /\ e \in vectors
    BY DEF Named
  <2>2. row[e] = "none"
    BY <2>1 DEF Knows
  <2> QED BY <2>1, <2>2
<1>8. ASSUME NEW q \in Requests \ {r} PROVE Knows(q)'
  <2>1. request'[q] = request[q] /\ Knows(q)
    BY <1>1
  <2>2. request[q].at \in Remembers => \A e \in request[q].entries : Remembering(e) /\ e \in Entries
    BY DEF Remembering, Remembers, TypeOK, Knows
  <2>3. request[q].at \in Remembers => \A e \in request[q].entries : row'[e] = "none" /\ e \in born'
    BY <2>1, <2>2 DEF Knows, Apart, Remembers
  <2>4. request[q].at = "commit" /\ request[q].indexed => request[q].entries \subseteq vectors'
    BY <2>1, <2>2 DEF Knows, Remembers
  <2>5. request[q].at \in {"delete", "delete vector"} => \A e \in request[q].entries : e \in born' /\ ~Remembering(e)'
    BY <1>2, <2>1 DEF Knows
  <2>6. request[q].at = "delete vector" => \A e \in request[q].entries : row'[e] = "none"
    BY <1>3, <2>1 DEF Knows, TypeOK
  <2>7. request[q].at \in {"hydrate", "answered"} => request[q].gone \subseteq Forgotten'
    BY <1>4, <2>1 DEF Knows
  <2> QED BY <2>1, <2>3, <2>4, <2>5, <2>6, <2>7 DEF Knows
<1> QED BY <1>1, <1>2, <1>4, <1>5, <1>6, <1>7, <1>8 DEF Named

----------------------------------------------------------------------------
(* One lemma for each step.                                                *)
LEMMA RememberIInv ==
    ASSUME IInv, NEW r \in Requests, NEW e \in Entries, Remember(r, e)
    PROVE  IInv'
<1> DEFINE to == [Idle EXCEPT !.at = "index", !.entries = {e}]
<1>0. to \in Request
  BY Begun DEF Steps
<1>1. to \in Request /\ to.at = "index" /\ to.entries = {e}
  BY <1>0, Begun, Fields
<1>2. /\ request' = [request EXCEPT ![r] = to] /\ e \notin born /\ born' = born \cup {e}
      /\ row' = row /\ vectors' = vectors
  BY DEF Remember
<1> HIDE DEF to
<1>3. /\ TypeOK' /\ Apart' /\ Named' /\ \A q \in Requests \ {r} : Knows(q)'
      /\ request'[r] = to
  BY <1>1, <1>2, Goes DEF IInv, TypeOK
<1>4. row[e] = "none"
  BY <1>2 DEF IInv, TypeOK
<1>5. Knows(r)'
  BY <1>1, <1>2, <1>3, <1>4 DEF Knows, Remembers
<1> QED BY <1>3, <1>5 DEF IInv

LEMMA IndexIInv ==
    ASSUME IInv, NEW r \in Requests, NEW taken \in BOOLEAN, NEW answered \in BOOLEAN, Index(r, taken, answered)
    PROVE  IInv'
<1> DEFINE to == [request[r] EXCEPT !.at = "commit", !.indexed = answered]
<1>0. request[r] \in Request /\ request[r].entries \subseteq Entries
  BY SMT DEF IInv, TypeOK, Request
<1>1. to \in Request
  <2> DEFINE x == [request[r] EXCEPT !.at = "commit"]
  <2>1. x \in Request
    BY <1>0, OneField DEF Steps
  <2>2. to = [x EXCEPT !.indexed = answered]
    BY Zenon
  <2> HIDE DEF x, to
  <2>3. [x EXCEPT !.indexed = answered] \in Request
    BY <2>1, OneField
  <2> QED BY <2>2, <2>3
<1>2. to.at = "commit" /\ to.indexed = answered /\ to.entries = request[r].entries
  BY <1>0, Fields
<1>3. /\ request' = [request EXCEPT ![r] = to] /\ request[r].at = "index" /\ (answered => taken)
      /\ vectors' = (IF taken THEN vectors \cup request[r].entries ELSE vectors)
      /\ row' = row /\ born' = born
  BY DEF Index
<1> HIDE DEF to
<1>4. vectors \subseteq vectors' /\ vectors' \subseteq Entries /\ (answered => request[r].entries \subseteq vectors')
  BY <1>0, <1>3 DEF IInv, TypeOK
<1>5. /\ TypeOK' /\ Apart' /\ Named' /\ \A q \in Requests \ {r} : Knows(q)'
      /\ request'[r] = to
  BY <1>1, <1>2, <1>3, <1>4, Goes DEF IInv, TypeOK, Remembers
<1>6. Knows(r)'
  BY <1>2, <1>3, <1>4, <1>5 DEF IInv, Knows, Remembers
<1> QED BY <1>5, <1>6 DEF IInv

LEMMA CommitIInv ==
    ASSUME IInv, NEW r \in Requests, Commit(r)
    PROVE  IInv'
<1>1. Idle \in Request /\ Idle.at = "idle"
  BY SMT DEF Idle, Request, Steps
<1>2. /\ request' = [request EXCEPT ![r] = Idle] /\ request[r].at = "commit"
      /\ row' = [e \in Entries |->
                   IF e \notin request[r].entries THEN row[e]
                   ELSE IF request[r].indexed THEN "indexed" ELSE "plain"]
      /\ vectors' = vectors /\ born' = born
  BY DEF Commit
<1>3. row' \in [Entries -> {"none", "plain", "indexed"}]
  BY <1>2 DEF IInv, TypeOK
<1>4. \A e \in Entries : row[e] = "none" /\ row'[e] # "none" => e \in request[r].entries
  BY <1>2
<1>5. \A e \in Entries : row'[e] = "indexed" /\ row[e] # "indexed" => e \in vectors'
  BY <1>2 DEF IInv, Knows
<1>6. /\ TypeOK' /\ Apart' /\ Named' /\ \A q \in Requests \ {r} : Knows(q)'
      /\ request'[r] = Idle
  BY <1>1, <1>2, <1>3, <1>4, <1>5, Goes DEF IInv, TypeOK, Remembers
<1>7. Knows(r)'
  BY <1>1, <1>6 DEF Knows, Remembers
<1> QED BY <1>6, <1>7 DEF IInv

(* The steps that change neither table. *)
LEMMA QuietIInv ==
    ASSUME IInv, NEW r \in Requests, NEW to \in Request,
           request' = [request EXCEPT ![r] = to], UNCHANGED <<row, vectors, born>>,
           to.at \notin Remembers
    PROVE  /\ TypeOK' /\ Apart' /\ Named' /\ \A q \in Requests \ {r} : Knows(q)'
           /\ request'[r] = to /\ Forgotten \subseteq Forgotten'
           /\ \A e \in born : Remembering(e)' => Remembering(e)
  BY Goes DEF IInv, TypeOK

LEMMA MatchIInv ==
    ASSUME IInv, NEW r \in Requests, NEW matches \in SUBSET vectors, Match(r, matches)
    PROVE  IInv'
<1> DEFINE to == [Idle EXCEPT !.at = "hydrate", !.entries = matches, !.gone = Forgotten]
<1>0. matches \subseteq Entries /\ Forgotten \subseteq Entries
  BY DEF IInv, TypeOK, Forgotten
<1>6. to \in Request
  BY <1>0, Begun DEF Steps
<1>1. to \in Request /\ to.at = "hydrate" /\ to.gone = Forgotten
  BY <1>6, Begun, Fields
<1>2. request' = [request EXCEPT ![r] = to] /\ UNCHANGED <<row, vectors, born>>
  BY DEF Match
<1> HIDE DEF to
<1>3. to.at \notin Remembers
  BY <1>1 DEF Remembers
<1>4. /\ TypeOK' /\ Apart' /\ Named' /\ \A q \in Requests \ {r} : Knows(q)'
      /\ request'[r] = to /\ Forgotten \subseteq Forgotten'
  BY <1>1, <1>2, <1>3, QuietIInv
<1>5. Knows(r)'
  BY <1>1, <1>4 DEF Knows, Remembers
<1> QED BY <1>4, <1>5 DEF IInv

(* What was forgotten when the recall began has no row now. *)
LEMMA HydrateIInv ==
    ASSUME IInv, NEW r \in Requests, Hydrate(r)
    PROVE  IInv'
<1> DEFINE live == {e \in request[r].entries : row[e] # "none"}
           to == [request[r] EXCEPT !.at = "answered", !.entries = live]
<1>0. request[r] \in Request /\ live \subseteq Entries
  BY SMT DEF IInv, TypeOK, Request
<1>1. to \in Request
  <2> DEFINE x == [request[r] EXCEPT !.at = "answered"]
  <2>1. x \in Request
    BY <1>0, OneField DEF Steps
  <2>2. to = [x EXCEPT !.entries = live]
    BY Zenon
  <2> HIDE DEF x, to, live
  <2>3. [x EXCEPT !.entries = live] \in Request
    BY <1>0, <2>1, OneField
  <2> QED BY <2>2, <2>3
<1>2. to.at = "answered" /\ to.entries = live /\ to.gone = request[r].gone
  BY <1>0, Fields
<1>3. request' = [request EXCEPT ![r] = to] /\ request[r].at = "hydrate" /\ UNCHANGED <<row, vectors, born>>
  BY DEF Hydrate
<1>4. live \cap request[r].gone = {}
  BY <1>3 DEF IInv, Knows, Forgotten
<1> HIDE DEF to, live
<1>5. to.at \notin Remembers
  BY <1>2 DEF Remembers
<1>6. /\ TypeOK' /\ Apart' /\ Named' /\ \A q \in Requests \ {r} : Knows(q)'
      /\ request'[r] = to /\ Forgotten \subseteq Forgotten'
  BY <1>1, <1>3, <1>5, QuietIInv
<1>7. to.gone \subseteq Forgotten'
  BY <1>2, <1>3, <1>6 DEF IInv, Knows
<1>8. Knows(r)'
  BY <1>2, <1>4, <1>6, <1>7 DEF Knows, Remembers
<1> QED BY <1>6, <1>8 DEF IInv

(* Answered and Lose. *)
LEMMA EndIInv ==
    ASSUME IInv, NEW r \in Requests, request' = [request EXCEPT ![r] = Idle], UNCHANGED <<row, vectors, born>>
    PROVE  IInv'
<1>1. Idle \in Request /\ Idle.at = "idle"
  BY Begun
<1>9. Idle.at \notin Remembers
  BY <1>1 DEF Remembers
<1>2. /\ TypeOK' /\ Apart' /\ Named' /\ \A q \in Requests \ {r} : Knows(q)'
      /\ request'[r] = Idle
  BY <1>1, <1>9, QuietIInv
<1>4. request'[r].at = "idle"
  BY <1>1, <1>2
<1>3. Knows(r)'
  BY <1>4 DEF Knows, Remembers
<1> QED BY <1>2, <1>3 DEF IInv

LEMMA StartForgetIInv ==
    ASSUME IInv, NEW r \in Requests, NEW e \in Entries, StartForget(r, e)
    PROVE  IInv'
<1> DEFINE named == row[e] = "indexed"
           to == [Idle EXCEPT !.at = "delete", !.entries = {e}, !.indexed = named]
<1>0. named \in BOOLEAN
  OBVIOUS
<1>2. request' = [request EXCEPT ![r] = to] /\ row[e] # "none" /\ UNCHANGED <<row, vectors, born>>
  BY DEF StartForget
<1> HIDE DEF named
<1>8. "delete" \in Steps /\ {e} \in SUBSET Entries
  BY DEF Steps
<1>7. to \in Request
  BY <1>0, <1>8, Begun, Zenon
<1>1. to \in Request /\ to.at = "delete" /\ to.entries = {e}
  BY <1>7, Begun, Fields
<1> HIDE DEF to
<1>3. to.at \notin Remembers
  BY <1>1 DEF Remembers
<1>4. /\ TypeOK' /\ Apart' /\ Named' /\ \A q \in Requests \ {r} : Knows(q)'
      /\ request'[r] = to /\ \A k \in born : Remembering(k)' => Remembering(k)
  BY <1>1, <1>2, <1>3, QuietIInv
<1>5. e \in born /\ ~Remembering(e)
  BY <1>2 DEF IInv, TypeOK, Knows, Remembering, Remembers
<1>6. Knows(r)'
  BY <1>1, <1>2, <1>4, <1>5 DEF Knows, Remembers
<1> QED BY <1>4, <1>6 DEF IInv

LEMMA DeleteRowIInv ==
    ASSUME IInv, NEW r \in Requests, DeleteRow(r)
    PROVE  IInv'
<1> DEFINE to == IF request[r].indexed THEN [request[r] EXCEPT !.at = "delete vector"] ELSE Idle
<1>9. request[r] \in Request
  BY DEF IInv, TypeOK
<1>10. Idle \in Request /\ Idle.at = "idle"
  BY Begun
<1>0. request[r] \in Request /\ Idle \in Request /\ Idle.at = "idle"
  BY <1>9, <1>10
<1>1. to \in Request
  BY <1>0, OneField DEF Steps
<1>2. to.at = "idle" \/ (to.at = "delete vector" /\ to.entries = request[r].entries)
  BY <1>0, Fields
<1>3. /\ request' = [request EXCEPT ![r] = to] /\ request[r].at = "delete"
      /\ row' = [e \in Entries |-> IF e \in request[r].entries THEN "none" ELSE row[e]]
      /\ UNCHANGED <<vectors, born>>
  BY DEF DeleteRow
<1> HIDE DEF to
<1>4. /\ row' \in [Entries -> {"none", "plain", "indexed"}]
      /\ \A e \in Entries : ~(row[e] = "none" /\ row'[e] # "none")
      /\ \A e \in Entries : ~(row'[e] = "indexed" /\ row[e] # "indexed")
  BY <1>3 DEF IInv, TypeOK
<1>5. to.at \notin Remembers
  BY <1>2 DEF Remembers
<1>6. /\ TypeOK' /\ Apart' /\ Named' /\ \A q \in Requests \ {r} : Knows(q)'
      /\ request'[r] = to /\ \A k \in born : Remembering(k)' => Remembering(k)
  BY <1>1, <1>3, <1>4, <1>5, Goes DEF IInv, TypeOK
<1>7. request[r].entries \subseteq Entries
  BY <1>0, SMT DEF Request
<1>8. Knows(r)'
  BY <1>2, <1>3, <1>6, <1>7 DEF IInv, Knows, Remembers
<1> QED BY <1>6, <1>8 DEF IInv

(* The vector it takes has no row, and nobody is about to commit one.      *)
LEMMA DeleteVectorIInv ==
    ASSUME IInv, NEW r \in Requests, NEW taken \in BOOLEAN, DeleteVector(r, taken)
    PROVE  IInv'
<1>1. Idle \in Request /\ Idle.at = "idle"
  BY Begun
<1>9. Idle.at \notin Remembers
  BY <1>1 DEF Remembers
<1>2. /\ request' = [request EXCEPT ![r] = Idle] /\ request[r].at = "delete vector"
      /\ vectors' = (IF taken THEN vectors \ request[r].entries ELSE vectors)
      /\ UNCHANGED <<row, born>>
  BY DEF DeleteVector
<1>3. vectors' \subseteq Entries /\ \A e \in vectors : e \notin vectors' => e \in request[r].entries
  BY <1>2 DEF IInv, TypeOK
<1>4. /\ TypeOK' /\ Apart' /\ Named' /\ \A q \in Requests \ {r} : Knows(q)'
      /\ request'[r] = Idle
  BY <1>1, <1>2, <1>3, <1>9, Goes DEF IInv, TypeOK
<1>6. request'[r].at = "idle"
  BY <1>1, <1>4
<1>5. Knows(r)'
  BY <1>6 DEF Knows, Remembers
<1> QED BY <1>4, <1>5 DEF IInv

----------------------------------------------------------------------------
LEMMA StepIInv == IInv /\ [Next]_vars => IInv'
<1> SUFFICES ASSUME IInv, [Next]_vars PROVE IInv'
  OBVIOUS
<1>1. CASE UNCHANGED vars
  BY <1>1 DEF vars, IInv, TypeOK, Apart, Named, Knows, Remembering, Forgotten
<1>2. ASSUME NEW r \in Requests, NEW e \in Entries, Remember(r, e) PROVE IInv'
  BY <1>2, RememberIInv
<1>3. ASSUME NEW r \in Requests, NEW e \in Entries, StartForget(r, e) PROVE IInv'
  BY <1>3, StartForgetIInv
<1>4. ASSUME NEW r \in Requests, NEW taken \in BOOLEAN, NEW answered \in BOOLEAN, Index(r, taken, answered)
      PROVE  IInv'
  BY <1>4, IndexIInv
<1>5. ASSUME NEW r \in Requests, Commit(r) PROVE IInv'
  BY <1>5, CommitIInv
<1>6. ASSUME NEW r \in Requests, NEW matches \in SUBSET vectors, Match(r, matches) PROVE IInv'
  BY <1>6, MatchIInv
<1>7. ASSUME NEW r \in Requests, Hydrate(r) PROVE IInv'
  BY <1>7, HydrateIInv
<1>8. ASSUME NEW r \in Requests, Answered(r) \/ Lose(r) PROVE IInv'
  BY <1>8, EndIInv DEF Answered, Lose
<1>9. ASSUME NEW r \in Requests, DeleteRow(r) PROVE IInv'
  BY <1>9, DeleteRowIInv
<1>10. ASSUME NEW r \in Requests, NEW taken \in BOOLEAN, DeleteVector(r, taken) PROVE IInv'
  BY <1>10, DeleteVectorIInv
<1> QED BY <1>1, <1>2, <1>3, <1>4, <1>5, <1>6, <1>7, <1>8, <1>9, <1>10 DEF Next

LEMMA Invariant == Spec => []IInv
  BY InitIInv, StepIInv, PTL DEF Spec

(* A row that names a vector has it, and no recall answers with what was   *)
(* forgotten before it began, whatever failed or was lost                  *)
(* (MemoryService.remember, recall, forget).                               *)
THEOREM RowsDecide == Spec => []RowsDecideRecall
<1>1. IInv => RowsDecideRecall
  BY DEF IInv, Named, Knows, RowsDecideRecall
<1> QED BY <1>1, Invariant, PTL
====
