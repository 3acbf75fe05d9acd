---- MODULE ServicesProofs ----
(***************************************************************************)
(* Proofs about the components of MCServices, for every value of their     *)
(* constants: the chunker, the compression of what is retrieved, the event *)
(* bus, long-term memory and a streamed question.                          *)
(***************************************************************************)
EXTENDS MCServices, FiniteSetTheorems, SequenceTheorems, WellFoundedInduction, TLAPS

serviceVars == <<focus, vars, budgetVars, calendarVars, memoryVars, fanoutVars, answerVars>>

----------------------------------------------------------------------------
(* The chunker. *)

LEMMA TypeStep == TypeOK /\ [Next]_vars => TypeOK'
<1> SUFFICES ASSUME TypeOK, [Next]_vars PROVE TypeOK'
  OBVIOUS
<1>1. CASE Next
  <2>1. PICK end \in 1..length :
           /\ start < length
           /\ chunks' = IF Piece(end) = {} THEN chunks ELSE Append(chunks, Piece(end))
           /\ start' = IF end = length THEN length
                                       ELSE Larger(end - chunk_overlap, start + 1)
           /\ UNCHANGED given
    BY <1>1 DEF Next, Split
  <2>2. Piece(end) \in SUBSET (0..(length - 1))
    BY <2>1, SMT DEF Piece, TypeOK
  <2>3. chunks' \in Seq(SUBSET (0..(length - 1)))
    <3>1. ASSUME NEW S, NEW q \in Seq(S), NEW e \in S PROVE Append(q, e) \in Seq(S)
      BY <3>1
    <3> QED
      BY <2>1, <2>2, <3>1 DEF TypeOK
  <2>4. start' \in 0..length
    BY <2>1, SMT DEF TypeOK, Larger
  <2> QED
    BY <2>1, <2>3, <2>4 DEF TypeOK, given
<1>2. CASE UNCHANGED vars
  BY <1>2 DEF TypeOK, vars, given
<1> QED
  BY <1>1, <1>2

(* The chunker never leaves the text and its chunks are pieces of it.      *)
THEOREM TypeCorrect == Spec => []TypeOK
<1>1. Init => TypeOK
  BY SMT DEF Init, TypeOK
<1> QED
  BY <1>1, TypeStep, PTL DEF Spec

(* What is whole in a chunk stays so: chunks are only added. *)
LEMMA WholeStays ==
    ASSUME TypeOK, NEW P \in SUBSET (0..(length - 1)),
           chunks' = IF P = {} THEN chunks ELSE Append(chunks, P),
           NEW a, NEW b, Whole(a, b)
    PROVE  Whole(a, b)'
<1>1. PICK c \in DOMAIN chunks : a..b \subseteq chunks[c]
  BY DEF Whole
<1>2. c \in DOMAIN chunks' /\ chunks'[c] = chunks[c]
  <2>1. chunks \in Seq(SUBSET (0..(length - 1)))
    BY DEF TypeOK
  <2>2. CASE P = {}
    BY <2>2
  <2>3. CASE P # {}
    BY <1>1, <2>1, <2>3, SMT
  <2> QED
    BY <2>2, <2>3
<1> QED
  BY <1>1, <1>2 DEF Whole

(* A stretch inside the window is whole in the chunk made of the window. *)
LEMMA StretchInWindow ==
    ASSUME TypeOK, NEW end \in 1..length,
           chunks' = IF Piece(end) = {} THEN chunks ELSE Append(chunks, Piece(end)),
           NEW a \in 0..(length - 1), NEW b \in 0..(length - 1), Stretch(a, b),
           start <= a, b < end
    PROVE  Whole(a, b)'
<1>1. a..b \subseteq Piece(end)
  <2> SUFFICES ASSUME NEW i \in a..b PROVE i \in Piece(end)
    OBVIOUS
  <2>1. a \in visible /\ b \in visible
    BY SMT DEF Stretch
  <2>2. {a, b, i} \subseteq start..(end - 1)
    BY SMT DEF TypeOK
  <2>3. a <= i /\ i <= b
    BY SMT
  <2> QED
    BY <2>1, <2>2, <2>3 DEF Piece
<1>2. Piece(end) # {}
  BY <1>1, SMT DEF Stretch
<1>3. chunks \in Seq(SUBSET (0..(length - 1)))
  BY DEF TypeOK
<1>4. Piece(end) \in SUBSET (0..(length - 1))
  BY SMT DEF Piece, TypeOK
<1>5. /\ Len(chunks) + 1 \in DOMAIN chunks'
      /\ chunks'[Len(chunks) + 1] = Piece(end)
  BY <1>2, <1>3, <1>4, SMT
<1> QED
  BY <1>1, <1>5 DEF Whole

(* The next window starts early enough for a stretch the window cuts:      *)
(* the overlap reaches back to its beginning, and it began after the       *)
(* window did, which holds it otherwise.                                   *)
LEMMA CutStretchIsAhead ==
    ASSUME TypeOK, NEW end \in 1..length, EndsAt(end), start < length,
           NEW a \in 0..(length - 1), NEW b \in 0..(length - 1), Stretch(a, b),
           start <= a, end <= b
    PROVE  end # length /\ Larger(end - chunk_overlap, start + 1) <= a
<1>1. end # length
  BY SMT
<1>2. start + chunk_size < length
  BY <1>1, SMT DEF EndsAt, TypeOK
<1>3. \/ end = start + chunk_size
      \/ end \in Breaks(start + chunk_size)
  BY <1>2, SMT DEF EndsAt, TypeOK
<1>4. end \notin visible \/ end = start + chunk_size
  BY <1>3 DEF Breaks
<1>5. start # a
  <2> SUFFICES ASSUME start = a PROVE FALSE
    OBVIOUS
  <2>1. start <= end
    BY <1>3, SMT DEF Breaks, TypeOK
  <2>2. end \in a..b
    BY <2>1, SMT DEF TypeOK
  <2>3. end = start + chunk_size
    BY <2>2, <1>4 DEF Stretch
  <2> QED
    BY <2>3, SMT DEF Stretch, Larger, TypeOK
<1>6. end - chunk_overlap <= a
  BY SMT DEF Stretch, Larger, TypeOK
<1> QED
  BY <1>1, <1>5, <1>6, SMT DEF Larger, TypeOK

(* Until the loop is left, what starts at or after the next window may be  *)
(* missing, and nothing else is.                                           *)
LEMMA CoveredStep == TypeOK /\ CoveredSoFar /\ [Next]_vars => CoveredSoFar'
<1> SUFFICES ASSUME TypeOK, CoveredSoFar, [Next]_vars PROVE CoveredSoFar'
  OBVIOUS
<1>1. CASE Next
  <2>1. PICK end \in 1..length :
           /\ start < length
           /\ EndsAt(end)
           /\ chunks' = IF Piece(end) = {} THEN chunks ELSE Append(chunks, Piece(end))
           /\ start' = IF end = length THEN length
                                       ELSE Larger(end - chunk_overlap, start + 1)
           /\ UNCHANGED given
    BY <1>1 DEF Next, Split
  <2>2. SUFFICES ASSUME NEW a \in 0..(length - 1), NEW b \in 0..(length - 1),
                        Stretch(a, b)
                 PROVE  start' <= a \/ Whole(a, b)'
    BY <2>1 DEF CoveredSoFar, Stretch, given
  <2>3. Piece(end) \in SUBSET (0..(length - 1))
    BY SMT DEF Piece, TypeOK
  <2>4. CASE Whole(a, b)
    BY <2>1, <2>3, <2>4, WholeStays
  <2>5. CASE start <= a /\ b < end
    BY <2>1, <2>2, <2>5, StretchInWindow
  <2>6. CASE start <= a /\ ~(b < end)
    <3>1. end <= b
      BY <2>6, SMT
    <3> QED
      BY <2>1, <2>2, <2>6, <3>1, CutStretchIsAhead
  <2> QED
    BY <2>2, <2>4, <2>5, <2>6 DEF CoveredSoFar
<1>2. CASE UNCHANGED vars
  BY <1>2 DEF CoveredSoFar, Stretch, Whole, vars, given
<1> QED
  BY <1>1, <1>2

(* Every visible character, and every word not longer than the overlap, is *)
(* whole in some chunk when split returns.                                 *)
THEOREM NothingIsLost == ServicesSpec => []NothingLost
<1> DEFINE Inv == (focus # "chunker" /\ ChunkerIdle) \/ (TypeOK /\ CoveredSoFar)
<1>1. ServicesInit => Inv
  <2>1. Init => TypeOK /\ CoveredSoFar
    BY SMT DEF Init, TypeOK, CoveredSoFar
  <2> QED
    BY <2>1 DEF ServicesInit
<1>2. Inv /\ [ServicesNext]_serviceVars => Inv'
  <2> SUFFICES ASSUME Inv, [ServicesNext]_serviceVars PROVE Inv'
    OBVIOUS
  <2>1. UNCHANGED focus /\ ((focus = "chunker" /\ Next) \/ UNCHANGED vars)
    BY DEF ServicesNext, serviceVars
  <2>2. CASE focus # "chunker" /\ ChunkerIdle
    BY <2>1, <2>2 DEF ChunkerIdle, vars, given
  <2>3. CASE TypeOK /\ CoveredSoFar
    <3>1. TypeOK' /\ CoveredSoFar'
      BY <2>1, <2>3, TypeStep, CoveredStep
    <3> QED
      BY <3>1
  <2> QED
    BY <2>2, <2>3
<1>3. Inv => NothingLost
  <2>1. ChunkerIdle => NothingLost
    BY SMT DEF ChunkerIdle, NothingLost
  <2>2. TypeOK /\ CoveredSoFar => NothingLost
    BY SMT DEF TypeOK, CoveredSoFar, NothingLost
  <2> QED
    BY <2>1, <2>2
<1> HIDE DEF Inv
<1> QED
  BY <1>1, <1>2, <1>3, PTL DEF ServicesSpec, serviceVars

----------------------------------------------------------------------------
(* Compression: ContextBudget. *)

Words == UNION {t.words : t \in Texts}
KeptPiece == [of : Nat, chars : Nat, words : SUBSET Words]

(* The tokens counted after each of the kept chunks. *)
Running(f, s) == /\ f \in [0..Len(s) -> Nat]
                 /\ f[0] = 0
                 /\ \A k \in 1..Len(s) : f[k] = f[k - 1] + Budget!Tokens(s[k].chars)

PassedOver == \A i \in 1..(next - 1) :
                 Budget!Kept(i) \/ Budget!Covered(retrieved[i].words) \/ Budget!Tokens(retrieved[i].chars) > Budget!Remaining

BudgetInv ==
    /\ retrieved \in Seq(Texts)
    /\ budget \in Int
    /\ next \in 1..(Len(retrieved) + 1)
    /\ packed \in Seq(KeptPiece)
    /\ used \in Nat
    /\ duplicates \in Nat
    /\ over_budget \in Nat
    /\ \E f : Running(f, packed) /\ used = f[Len(packed)]
    /\ used <= (IF budget > 0 THEN budget ELSE -1) + 1
    /\ PassedOver
    /\ Len(packed) + duplicates + over_budget = next - 1

----------------------------------------------------------------------------
LEMMA Least == ASSUME NEW T, T \subseteq Nat, T # {} PROVE \E x \in T : \A y \in T : x <= y
<1>1. IsWellFoundedOn(OpToRel(<, Nat), Nat)
  BY NatLessThanWellFounded
<1>2. PICK x \in T : \A y \in T : ~(<<y, x>> \in OpToRel(<, Nat))
  BY <1>1, WFMin
<1>3. \A y \in T : ~(y < x)
  BY <1>2 DEF OpToRel
<1> QED BY <1>3

LEMMA SomeTokens == \A n \in Nat : Budget!Tokens(n) \in Nat /\ (n # 0 => Budget!Tokens(n) > 0)
<1>1. \A n \in Nat : (2 * n) \div 7 \in Nat
  BY SMT
<1> QED BY <1>1 DEF Budget!Tokens

(* A cut costs at most one token more than it was made for. *)
LEMMA CutFits ==
    ASSUME NEW room \in Nat, room > 1, NEW chars \in Nat, NEW cut \in Budget!CutLengths(chars, (7 * room) \div 2)
    PROVE  cut \in Nat /\ Budget!Tokens(cut) <= room + 1
<1>1. PICK limit \in Nat : limit = (7 * room) \div 2 /\ 2 * limit <= 7 * room /\ limit > 2
  <2>1. (7 * room) \div 2 \in Nat /\ 2 * ((7 * room) \div 2) <= 7 * room /\ (7 * room) \div 2 > 2
    BY SMT
  <2> QED BY <2>1
<1>2. cut \in Nat /\ cut <= limit + 2
  <2>1. CASE limit >= chars
    BY <1>1, <2>1 DEF Budget!CutLengths
  <2>2. CASE ~(limit >= chars)
    <3>1. cut \in {n + 2 : n \in {1, limit \div 2 + 1, limit}}
      BY <1>1, <2>2 DEF Budget!CutLengths
    <3>2. limit \div 2 + 1 \in Nat /\ limit \div 2 + 1 <= limit
      BY <1>1, SMT
    <3> QED BY <1>1, <3>1, <3>2
  <2> QED BY <2>1, <2>2
<1>3. 2 * cut <= 7 * room + 4
  BY <1>1, <1>2
<1>4. (2 * cut) \div 7 + 1 <= room + 1
  BY <1>2, <1>3, SMT
<1> QED BY <1>2, <1>4 DEF Budget!Tokens

(* The sum is the one the definition of Cost names. *)
LEMMA CostIs ==
    ASSUME packed \in Seq(KeptPiece), NEW f, Running(f, packed)
    PROVE  Budget!Cost = f[Len(packed)]
<1> DEFINE n == Len(packed)
           cost(k) == Budget!Tokens(packed[k].chars)
           Sums(g) == g = [k \in 0..n |-> IF k = 0 THEN 0 ELSE g[k - 1] + cost(k)]
<1>1. n \in Nat
  OBVIOUS
<1>2. Sums(f)
  <2>1. f \in [0..n -> Nat] /\ f[0] = 0 /\ \A k \in 1..n : f[k] = f[k - 1] + cost(k)
    BY DEF Running
  <2> HIDE DEF n, cost
  <2>2. \A k \in 0..n : f[k] = IF k = 0 THEN 0 ELSE f[k - 1] + cost(k)
    BY <1>1, <2>1
  <2> QED BY <2>1, <2>2
<1>3. ASSUME NEW g, Sums(g) PROVE g[n] = f[n]
  <2> HIDE DEF n, cost
  <2> DEFINE Off == {k \in 0..n : g[k] # f[k]}
  <2>1. CASE Off = {}
    BY <1>1, <2>1
  <2>2. CASE Off # {}
    <3>1. Off \subseteq Nat
      BY <1>1
    <3>2. PICK x \in Off : \A y \in Off : x <= y
      <4> HIDE DEF Off
      <4> QED BY <2>2, <3>1, Least
    <3>3. x \in 0..n /\ g[x] # f[x] /\ x \in Nat
      BY <1>1
    <3>4. x # 0
      BY <1>2, <1>3, <3>3
    <3>5. x - 1 \in 0..n /\ x - 1 \notin Off
      BY <1>1, <3>2, <3>3, <3>4
    <3>6. g[x - 1] = f[x - 1]
      BY <3>5
    <3>7. g[x] = g[x - 1] + cost(x) /\ f[x] = f[x - 1] + cost(x)
      BY <1>2, <1>3, <3>3, <3>4
    <3> QED BY <3>3, <3>6, <3>7
  <2> QED BY <2>1, <2>2
<1>4. Budget!Cost = (CHOOSE g : Sums(g))[n]
  BY DEF Budget!Cost
<1> HIDE DEF Sums, n
<1>5. Sums(CHOOSE g : Sums(g))
  BY <1>2
<1> QED BY <1>3, <1>4, <1>5 DEF n

----------------------------------------------------------------------------
(* One more chunk is kept. *)
LEMMA OneMore ==
    ASSUME BudgetInv, Budget!Turn, NEW piece \in KeptPiece, piece.of = next, packed' = Append(packed, piece),
           used' = used + Budget!Tokens(piece.chars),
           used' <= budget + 1,
           UNCHANGED <<duplicates, over_budget>>
    PROVE  BudgetInv'
<1>0. PICK n \in Nat : n = Len(packed)
  BY DEF BudgetInv
<1>1. /\ packed' \in Seq(KeptPiece) /\ Len(packed') = n + 1 /\ packed'[n + 1] = piece
      /\ \A k \in 1..n : packed'[k] = packed[k]
      /\ DOMAIN packed = 1..n /\ DOMAIN packed' = 1..(n + 1)
  BY <1>0 DEF BudgetInv
<1>2. PICK cost \in Nat : cost = Budget!Tokens(piece.chars)
  BY SomeTokens DEF KeptPiece
<1>3. /\ retrieved' = retrieved /\ budget' = budget /\ budget > 0 /\ next \in Nat /\ next' = next + 1
      /\ next' \in 1..(Len(retrieved) + 1) /\ Len(retrieved) \in Nat
  BY DEF Budget!Turn, Budget!given, BudgetInv
<1>4. \E f : Running(f, packed') /\ used' = f[Len(packed')]
  <2>1. PICK f : Running(f, packed) /\ used = f[Len(packed)]
    BY DEF BudgetInv
  <2> DEFINE g == [k \in 0..(n + 1) |-> IF k = n + 1 THEN f[n] + cost ELSE f[k]]
  <2>2. f \in [0..n -> Nat] /\ f[0] = 0 /\ \A k \in 1..n : f[k] = f[k - 1] + Budget!Tokens(packed[k].chars)
    BY <1>0, <2>1 DEF Running
  <2>3. g \in [0..(n + 1) -> Nat] /\ g[0] = 0 /\ g[n + 1] = g[n] + cost
    BY <2>2
  <2>4. \A k \in 1..n : g[k] = g[k - 1] + Budget!Tokens(packed'[k].chars)
    BY <1>1, <2>2
  <2>5. \A k \in 1..(n + 1) : g[k] = g[k - 1] + Budget!Tokens(packed'[k].chars)
    <3> HIDE DEF g
    <3>1. (n + 1) - 1 = n
      OBVIOUS
    <3> QED BY <1>1, <1>2, <2>3, <2>4, <3>1
  <2>6. g[n + 1] = used'
    BY <1>0, <1>2, <2>1, <2>2
  <2> HIDE DEF g
  <2> QED BY <1>1, <2>3, <2>5, <2>6 DEF Running
<1>5. PassedOver'
  <2>1. /\ Budget!Remaining' <= Budget!Remaining /\ Budget!Remaining \in Int /\ Budget!Remaining' \in Int
    <3>1. used \in Nat /\ budget \in Int /\ used' = used + cost
      BY <1>2 DEF BudgetInv
    <3> QED BY <1>2, <1>3, <3>1 DEF Budget!Remaining
  <2> SUFFICES ASSUME NEW i \in 1..next
               PROVE  \/ Budget!Kept(i)' \/ Budget!Covered(retrieved[i].words)'
                      \/ Budget!Tokens(retrieved[i].chars) > Budget!Remaining'
    BY <1>3 DEF PassedOver
  <2>2. CASE i = next
    BY <1>1, <2>2 DEF Budget!Kept
  <2>3. CASE i # next
    <3>1. \/ Budget!Kept(i) \/ Budget!Covered(retrieved[i].words)
          \/ Budget!Tokens(retrieved[i].chars) > Budget!Remaining
      BY <1>3, <2>3 DEF BudgetInv, PassedOver
    <3>2. Budget!Kept(i) => Budget!Kept(i)'
      BY <1>1 DEF Budget!Kept
    <3>3. Budget!Covered(retrieved[i].words) => Budget!Covered(retrieved[i].words)'
      BY <1>1, <1>3 DEF Budget!Covered
    <3>4. Budget!Tokens(retrieved[i].chars) \in Nat
      <4>1. retrieved[i] \in Texts
        BY <1>3, <2>3 DEF BudgetInv
      <4> QED BY <4>1, TextsAssumption, SomeTokens
    <3> QED BY <2>1, <3>1, <3>2, <3>3, <3>4
  <2> QED BY <2>2, <2>3
<1>6. used' \in Nat /\ used' <= (IF budget' > 0 THEN budget' ELSE -1) + 1
  BY <1>2, <1>3 DEF BudgetInv
<1>7. Len(packed') + duplicates' + over_budget' = next' - 1
  BY <1>0, <1>1, <1>3 DEF BudgetInv
<1> QED BY <1>1, <1>3, <1>4, <1>5, <1>6, <1>7 DEF BudgetInv

(* A chunk is passed over. *)
LEMMA PassesOver ==
    ASSUME BudgetInv, Budget!Turn, UNCHANGED <<packed, used>>,
           Budget!Covered(Budget!Chunk.words) \/ Budget!Tokens(Budget!Chunk.chars) > Budget!Remaining,
           \/ duplicates' = duplicates + 1 /\ over_budget' = over_budget
           \/ duplicates' = duplicates /\ over_budget' = over_budget + 1
    PROVE  BudgetInv'
<1>1. /\ retrieved' = retrieved /\ budget' = budget /\ next \in Nat /\ next' = next + 1
      /\ next' \in 1..(Len(retrieved) + 1) /\ Len(retrieved) \in Nat
  BY DEF Budget!Turn, Budget!given, BudgetInv
<1>2. PassedOver'
  <2>1. Budget!Remaining' = Budget!Remaining /\ Budget!Chunk = retrieved[next]
    BY <1>1 DEF Budget!Remaining, Budget!Chunk
  <2>2. \A i : Budget!Kept(i)' <=> Budget!Kept(i)
    BY DEF Budget!Kept
  <2>3. \A words : Budget!Covered(words)' <=> Budget!Covered(words)
    BY DEF Budget!Covered
  <2> SUFFICES ASSUME NEW i \in 1..next
               PROVE  \/ Budget!Kept(i) \/ Budget!Covered(retrieved[i].words)
                      \/ Budget!Tokens(retrieved[i].chars) > Budget!Remaining
    BY <1>1, <2>1, <2>2 DEF PassedOver, Budget!Covered
  <2> QED BY <1>1, <2>1 DEF BudgetInv, PassedOver
<1>3. /\ duplicates' \in Nat /\ over_budget' \in Nat
      /\ Len(packed') + duplicates' + over_budget' = next' - 1
  <2>1. /\ duplicates \in Nat /\ over_budget \in Nat /\ Len(packed) \in Nat /\ Len(packed') = Len(packed)
        /\ Len(packed) + duplicates + over_budget = next - 1
    BY DEF BudgetInv
  <2> QED BY <1>1, <2>1
<1> QED BY <1>1, <1>2, <1>3 DEF BudgetInv

LEMMA ChunkIs ==
    ASSUME BudgetInv, Budget!Turn
    PROVE  /\ Budget!Chunk.chars \in Nat /\ Budget!Chunk.words \subseteq Words
           /\ budget \in Int /\ budget > 0 /\ used \in Nat /\ next \in Nat
           /\ Budget!Tokens(Budget!Chunk.chars) \in Nat /\ Budget!Remaining = budget - used
<1>1. /\ Budget!Chunk \in Texts /\ budget \in Int /\ budget > 0 /\ used \in Nat /\ next \in Nat
  BY DEF Budget!Turn, Budget!Chunk, BudgetInv
<1> QED BY <1>1, TextsAssumption, SomeTokens DEF Words, Budget!Remaining

LEMMA BudgetNext == BudgetInv /\ Budget!Next => BudgetInv'
<1> SUFFICES ASSUME BudgetInv, Budget!Next PROVE BudgetInv'
  OBVIOUS
<1>1. CASE Budget!Refuse
  <2>1. /\ budget <= 0 /\ budget \in Int /\ next = 1 /\ next' = Len(retrieved) + 1 /\ over_budget' = Len(retrieved)
        /\ UNCHANGED <<retrieved, budget, packed, used, duplicates>> /\ Len(retrieved) \in Nat
    BY <1>1 DEF Budget!Refuse, Budget!given, BudgetInv
  <2>2. Len(packed) = 0 /\ duplicates = 0
    BY <2>1 DEF BudgetInv
  <2>3. used = 0
    BY <2>2 DEF BudgetInv, Running
  <2>4. PassedOver'
    <3> SUFFICES ASSUME NEW i \in 1..Len(retrieved) PROVE Budget!Tokens(retrieved[i].chars) > Budget!Remaining'
      BY <2>1 DEF PassedOver
    <3>1. retrieved[i] \in Texts
      BY DEF BudgetInv
    <3>2. Budget!Tokens(retrieved[i].chars) \in Nat /\ Budget!Tokens(retrieved[i].chars) > 0
      BY <3>1, TextsAssumption, SomeTokens
    <3> QED BY <2>1, <2>3, <3>2 DEF Budget!Remaining
  <2> QED BY <2>1, <2>2, <2>4 DEF BudgetInv
<1>2. CASE Budget!SkipDuplicate
  BY <1>2, PassesOver DEF Budget!SkipDuplicate
<1>3. CASE Budget!TakeWhole
  <2> DEFINE piece == [of |-> next, chars |-> Budget!Chunk.chars, words |-> Budget!Chunk.words]
  <2>1. /\ Budget!Turn /\ packed' = Append(packed, piece) /\ used' = used + Budget!Tokens(piece.chars)
        /\ Budget!Tokens(piece.chars) <= Budget!Remaining /\ UNCHANGED <<duplicates, over_budget>>
    BY <1>3 DEF Budget!TakeWhole, Budget!Keep
  <2>2. piece \in KeptPiece /\ piece.of = next /\ used' <= budget + 1
    BY <2>1, ChunkIs DEF KeptPiece
  <2> HIDE DEF piece
  <2> QED BY <2>1, <2>2, OneMore
<1>4. CASE Budget!TakeShortened
  <2>1. PICK cut \in Budget!CutLengths(Budget!Chunk.chars, (7 * Budget!Remaining) \div 2), words \in SUBSET Budget!Chunk.words :
          Budget!Keep(cut, words)
    BY <1>4 DEF Budget!TakeShortened
  <2> DEFINE piece == [of |-> next, chars |-> cut, words |-> words]
  <2>2. /\ Budget!Turn /\ packed' = Append(packed, piece) /\ used' = used + Budget!Tokens(piece.chars)
        /\ Budget!Remaining >= 40 /\ UNCHANGED <<duplicates, over_budget>>
    BY <1>4, <2>1 DEF Budget!TakeShortened, Budget!Overflows, Budget!Keep, Budget!MIN_USEFUL_TAIL
  <2>3. PICK room \in Nat, long \in Nat : room = Budget!Remaining /\ long = Budget!Chunk.chars /\ room > 1
    BY <2>2, ChunkIs
  <2>4. cut \in Nat /\ Budget!Tokens(cut) <= room + 1
    BY <2>1, <2>3, CutFits
  <2>5. piece \in KeptPiece /\ piece.of = next
    BY <2>2, <2>4, ChunkIs DEF KeptPiece
  <2>6. used' <= budget + 1
    <3>1. used' = used + Budget!Tokens(cut) /\ Budget!Tokens(cut) \in Nat
      BY <2>2, <2>4, SomeTokens
    <3>2. room = budget - used /\ budget \in Int /\ used \in Nat
      BY <2>2, <2>3, ChunkIs
    <3> QED BY <2>4, <3>1, <3>2
  <2> HIDE DEF piece
  <2> QED BY <2>2, <2>5, <2>6, OneMore
<1>5. CASE Budget!Drop
  BY <1>5, PassesOver DEF Budget!Drop, Budget!Overflows
<1> QED BY <1>1, <1>2, <1>3, <1>4, <1>5 DEF Budget!Next

LEMMA BudgetInitial == ServicesInit => BudgetInv
<1> SUFFICES ASSUME ServicesInit PROVE BudgetInv
  OBVIOUS
<1>1. /\ retrieved \in Seq(Texts) /\ budget \in Int /\ next = 1 /\ packed = <<>> /\ used = 0
      /\ duplicates = 0 /\ over_budget = 0
  <2>1. CASE focus = "budget"
    <3>1. Budget!Init
      BY <2>1 DEF ServicesInit
    <3>2. retrieved \in Seq(Texts)
      <4>1. PICK m \in 0..MaxRetrieved : retrieved \in [1..m -> Texts]
        BY <3>1 DEF Budget!Init, Budget!SeqOf
      <4> QED BY <4>1, SMT
    <3> QED BY <3>1, <3>2, BudgetsAssumption DEF Budget!Init
  <2>2. CASE focus # "budget"
    <3>1. BudgetIdle
      BY <2>2 DEF ServicesInit
    <3>2. <<>> \in Seq(Texts)
      OBVIOUS
    <3> QED BY <3>1, <3>2 DEF BudgetIdle
  <2> QED BY <2>1, <2>2
<1>2. packed \in Seq(KeptPiece) /\ Len(packed) = 0
  <2>1. <<>> \in Seq(KeptPiece)
    OBVIOUS
  <2> QED BY <1>1, <2>1
<1>3. Running([k \in 0..0 |-> 0], packed)
  BY <1>2 DEF Running
<1>4. \E f : Running(f, packed) /\ used = f[Len(packed)]
  BY <1>1, <1>2, <1>3
<1>5. PassedOver
  BY <1>1 DEF PassedOver
<1>6. Len(retrieved) \in Nat
  BY <1>1
<1> QED BY <1>1, <1>2, <1>4, <1>5, <1>6 DEF BudgetInv

LEMMA BudgetStays == BudgetInv /\ UNCHANGED budgetVars => BudgetInv'
<1> SUFFICES ASSUME BudgetInv, UNCHANGED budgetVars PROVE BudgetInv'
  OBVIOUS
<1>1. UNCHANGED <<retrieved, budget, next, packed, used, duplicates, over_budget>>
  BY DEF budgetVars
<1>2. PassedOver'
  BY <1>1 DEF BudgetInv, PassedOver, Budget!Kept, Budget!Covered, Budget!Remaining
<1> QED BY <1>1, <1>2 DEF BudgetInv

(* The budget is used up and not overrun: what is counted is what the kept *)
(* chunks cost, at most one token over, and a chunk that was passed over   *)
(* repeats a kept one or does not fit in what is left, which is all        *)
(* accounted for (compress, _truncate_to_tokens).                          *)
THEOREM BudgetIsFilled == ServicesSpec => []FilledToBudget
<1>1. BudgetInv /\ [ServicesNext]_serviceVars => BudgetInv'
  BY BudgetNext, BudgetStays DEF ServicesNext, serviceVars
<1>2. BudgetInv => Budget!FilledToBudget
  BY CostIs DEF BudgetInv, PassedOver, Budget!FilledToBudget
<1> QED BY <1>1, <1>2, BudgetInitial, PTL DEF ServicesSpec, FilledToBudget, serviceVars

----------------------------------------------------------------------------
(* The calendar. *)

(* Induction, over a set of numbers. *)
LEMMA ByInduction == ASSUME NEW S, 0 \in S, \A n \in Nat : n \in S => n + 1 \in S PROVE Nat \subseteq S
<1> DEFINE Out == {n \in Nat : n \notin S}
<1>1. CASE Out = {}
  BY <1>1
<1>2. CASE Out # {}
  <2>1. PICK x \in Out : \A y \in Out : x <= y
    <3>1. Out \subseteq Nat
      OBVIOUS
    <3> HIDE DEF Out
    <3> QED BY <1>2, <3>1, Least
  <2>2. x \in Nat /\ x # 0 /\ x - 1 \notin Out
    BY <2>1
  <2>3. x - 1 \in Nat /\ x - 1 \in S
    BY <2>2
  <2>4. (x - 1) + 1 \in S
    BY <2>3
  <2>5. (x - 1) + 1 = x
    BY <2>2
  <2> QED BY <2>1, <2>4, <2>5
<1> QED BY <1>1, <1>2

Interval == {e \in Calendar!Times \X Calendar!Times : e[1] < e[2]}

(* The hours that the intervals of a list take. *)
Occupied(s, h) == \E i \in DOMAIN s : s[i][1] <= h /\ h < s[i][2]
ByStart(s) == \A i, j \in DOMAIN s : i <= j => s[i][1] <= s[j][1]

LEMMA HoursAreNumbers == \A e \in Interval : e[1] \in Nat /\ e[2] \in Nat /\ e = <<e[1], e[2]>> /\ e[1] < e[2]
  BY DayAssumption DEF Interval, Calendar!Times

LEMMA Spans == ASSUME NEW a \in Calendar!Times, NEW b \in Calendar!Times, a < b PROVE <<a, b>> \in Interval
  BY DEF Interval

----------------------------------------------------------------------------
(* _merge: the intervals of the result take the same hours and begin in    *)
(* order.                                                                  *)

MergeInv(m, s, k) ==
    /\ m \in Seq(Interval)
    /\ ByStart(m)
    /\ \A i \in DOMAIN m : \E j \in 1..k : m[i][1] <= s[j][1]
    /\ \A h \in Int : Occupied(m, h) <=> \E j \in 1..k : s[j][1] <= h /\ h < s[j][2]

LEMMA JoinedType ==
    ASSUME NEW m \in Seq(Interval), NEW v \in Interval
    PROVE  Calendar!Joined(m, v) \in Seq(Interval)
<1> DEFINE n == Len(m)
           w == <<m[n][1], Calendar!Later(m[n][2], v[2])>>
<1>1. CASE m # <<>> /\ v[1] <= m[n][2]
  <2>1. n \in 1..n /\ m[n] \in Interval
    BY <1>1
  <2>2. /\ m[n][1] \in Calendar!Times /\ m[n][2] \in Calendar!Times /\ v[2] \in Calendar!Times
        /\ m[n][1] \in Nat /\ m[n][2] \in Nat /\ v[2] \in Nat /\ m[n][1] < m[n][2]
    BY <2>1, HoursAreNumbers DEF Interval
  <2>3. Calendar!Later(m[n][2], v[2]) \in {m[n][2], v[2]} /\ Calendar!Later(m[n][2], v[2]) >= m[n][2]
    BY <2>2 DEF Calendar!Later
  <2>4. w \in Interval
    BY <2>2, <2>3, Spans
  <2>5. Calendar!Joined(m, v) = [m EXCEPT ![n] = w]
    BY <1>1 DEF Calendar!Joined, Calendar!Last
  <2> HIDE DEF w
  <2> QED BY <2>1, <2>4, <2>5
<1>2. CASE ~(m # <<>> /\ v[1] <= m[n][2])
  BY <1>2 DEF Calendar!Joined, Calendar!Last
<1> QED BY <1>1, <1>2

LEMMA JoinsOne ==
    ASSUME NEW m \in Seq(Interval), ByStart(m), NEW v \in Interval, \A i \in DOMAIN m : m[i][1] <= v[1]
    PROVE  LET joined == Calendar!Joined(m, v) IN
           /\ ByStart(joined)
           /\ \A i \in DOMAIN joined : joined[i][1] <= v[1]
           /\ \A h \in Int : Occupied(joined, h) <=> Occupied(m, h) \/ (v[1] <= h /\ h < v[2])
<1> DEFINE joined == Calendar!Joined(m, v)
           n == Len(m)
<1>0. joined \in Seq(Interval)
  BY JoinedType
<1>1. n \in Nat /\ DOMAIN m = 1..n
  OBVIOUS
<1>2. \A i \in 1..n : m[i] \in Interval /\ m[i][1] \in Nat /\ m[i][2] \in Nat /\ m[i][1] < m[i][2]
  BY <1>1, HoursAreNumbers
<1>3. v[1] \in Nat /\ v[2] \in Nat /\ v[1] < v[2]
  BY HoursAreNumbers
<1>4. CASE m # <<>> /\ v[1] <= m[n][2]
  <2> DEFINE w == <<m[n][1], Calendar!Later(m[n][2], v[2])>>
  <2>1. n \in 1..n
    BY <1>1, <1>4
  <2>3. joined = [m EXCEPT ![n] = w]
    BY <1>4 DEF Calendar!Joined, Calendar!Last
  <2>4. w[1] = m[n][1] /\ w[2] = (IF m[n][2] > v[2] THEN m[n][2] ELSE v[2])
    BY DEF Calendar!Later
  <2> HIDE DEF w, joined, n
  <2>5. DOMAIN joined = 1..n
    BY <1>1, <2>1, <2>3
  <2>6. \A i \in 1..n : joined[i] = IF i = n THEN w ELSE m[i]
    BY <1>1, <2>1, <2>3
  <2>7. \A i \in 1..n : joined[i][1] = m[i][1]
    BY <2>4, <2>6
  <2>8. ByStart(joined) /\ \A i \in DOMAIN joined : joined[i][1] <= v[1]
    BY <1>1, <2>5, <2>7 DEF ByStart
  <2>9. ASSUME NEW h \in Int PROVE Occupied(joined, h) <=> Occupied(m, h) \/ (v[1] <= h /\ h < v[2])
    <3>1. Occupied(joined, h) <=> \/ \E i \in 1..n : i # n /\ m[i][1] <= h /\ h < m[i][2]
                                  \/ w[1] <= h /\ h < w[2]
      BY <2>1, <2>5, <2>6 DEF Occupied
    <3>2. Occupied(m, h) <=> \/ \E i \in 1..n : i # n /\ m[i][1] <= h /\ h < m[i][2]
                             \/ m[n][1] <= h /\ h < m[n][2]
      BY <1>1, <2>1 DEF Occupied
    <3>3. m[n][1] <= v[1] /\ m[n][1] \in Nat /\ m[n][2] \in Nat
      BY <1>1, <1>2, <2>1
    <3>4. w[1] <= h /\ h < w[2] <=> (m[n][1] <= h /\ h < m[n][2]) \/ (v[1] <= h /\ h < v[2])
      BY <1>3, <1>4, <2>4, <3>3
    <3> QED BY <3>1, <3>2, <3>4
  <2> QED BY <2>8, <2>9 DEF joined
<1>5. CASE ~(m # <<>> /\ v[1] <= m[n][2])
  <2>1. joined = Append(m, v)
    BY <1>5 DEF Calendar!Joined, Calendar!Last
  <2> HIDE DEF joined, n
  <2>2. DOMAIN joined = 1..(n + 1) /\ joined[n + 1] = v /\ \A i \in 1..n : joined[i] = m[i]
    BY <2>1 DEF n
  <2>3. \A i \in 1..(n + 1) : i \in 1..n \/ i = n + 1
    BY <1>1
  <2>4. ASSUME NEW i \in 1..(n + 1) PROVE joined[i][1] \in Nat /\ joined[i][1] <= v[1]
    <3>1. CASE i \in 1..n
      BY <1>1, <1>2, <2>2, <3>1
    <3>2. CASE i = n + 1
      BY <1>3, <2>2, <3>2
    <3> QED BY <2>3, <3>1, <3>2
  <2>6. ASSUME NEW i \in 1..(n + 1), NEW j \in 1..(n + 1), i <= j PROVE joined[i][1] <= joined[j][1]
    <3>1. CASE j = n + 1
      BY <2>2, <2>4, <3>1
    <3>2. CASE j # n + 1
      <4>1. i \in 1..n /\ j \in 1..n
        BY <1>1, <2>6, <3>2
      <4>2. m[i][1] <= m[j][1]
        BY <1>1, <2>6, <4>1 DEF ByStart
      <4> QED BY <2>2, <4>1, <4>2
    <3> QED BY <3>1, <3>2
  <2>5. ASSUME NEW h \in Int PROVE Occupied(joined, h) <=> Occupied(m, h) \/ (v[1] <= h /\ h < v[2])
    BY <1>1, <2>2, <2>3 DEF Occupied
  <2> QED BY <2>2, <2>4, <2>5, <2>6 DEF joined, ByStart
<1> QED BY <1>4, <1>5

(* What has an upper bound has a largest number. *)
LEMMA Largest ==
    ASSUME NEW T, T \subseteq Nat, T # {}, NEW n \in Nat, \A x \in T : x <= n
    PROVE  \E x \in T : \A y \in T : y <= x
<1> DEFINE Short == {n - x : x \in T}
<1>1. Short \subseteq Nat /\ Short # {}
  <2>1. \A x \in T : n - x \in Nat
    OBVIOUS
  <2>2. Short \subseteq Nat
    BY <2>1
  <2>3. PICK x \in T : TRUE
    OBVIOUS
  <2>4. n - x \in Short
    BY <2>3
  <2> QED BY <2>2, <2>4
<1>2. PICK d \in Short : \A e \in Short : d <= e
  <2> HIDE DEF Short
  <2> QED BY <1>1, Least
<1>3. PICK x \in T : d = n - x
  BY <1>2
<1>4. ASSUME NEW y \in T PROVE y <= x
  <2>1. n - x <= n - y
    BY <1>2, <1>3
  <2> QED BY <2>1
<1> QED BY <1>4

LEMMA LastByStart ==
    ASSUME NEW T, T \subseteq Interval, T # {}
    PROVE  \E e \in T : \A f \in T \ {e} : Calendar!Before(f, e)
<1> DEFINE Starts == {e[1] : e \in T}
<1>1. \A e \in T : e[1] \in Nat /\ e[2] \in Nat /\ e = <<e[1], e[2]>> /\ e[1] <= Horizon /\ e[2] <= Horizon
  BY HoursAreNumbers DEF Interval, Calendar!Times
<1>2. PICK a \in Starts : \A b \in Starts : b <= a
  <2>1. Starts \subseteq Nat /\ Starts # {} /\ \A x \in Starts : x <= Horizon
    BY <1>1
  <2> HIDE DEF Starts
  <2> QED BY <2>1, Largest, DayAssumption
<1> DEFINE Ends == {e[2] : e \in {g \in T : g[1] = a}}
<1>3. PICK c \in Ends : \A d \in Ends : d <= c
  <2>1. Ends \subseteq Nat /\ Ends # {} /\ \A x \in Ends : x <= Horizon
    BY <1>1
  <2> HIDE DEF Ends, Starts
  <2> QED BY <2>1, Largest, DayAssumption
<1>4. PICK e \in T : e[1] = a /\ e[2] = c
  BY <1>3
<1>5. ASSUME NEW f \in T \ {e} PROVE Calendar!Before(f, e)
  <2>1. f[1] <= a /\ (f[1] = a => f[2] <= c)
    BY <1>2, <1>3
  <2>2. f[1] # e[1] \/ f[2] # e[2]
    BY <1>1
  <2>3. f[1] \in Nat /\ f[2] \in Nat /\ e[1] \in Nat /\ e[2] \in Nat
    BY <1>1
  <2> QED BY <1>4, <2>1, <2>2, <2>3 DEF Calendar!Before
<1> QED BY <1>5

LEMMA CalendarCounts == \A S : Calendar!Cardinality(S) = Cardinality(S)
  BY DEF Calendar!Cardinality, Cardinality

Sorted(s) == \A i, j \in DOMAIN s : i < j => Calendar!Before(s[i], s[j])

LEMMA CanBeSorted ==
    ASSUME NEW I, I \subseteq Interval, IsFiniteSet(I)
    PROVE  \E s \in [1..Cardinality(I) -> I] : Sorted(s)
<1> DEFINE Sortable(T) == \E s \in [1..Cardinality(T) -> T] : Sorted(s)
           Sizes == {n \in Nat : \A T \in SUBSET I : Cardinality(T) = n => Sortable(T)}
<1>1. \A T \in SUBSET I : IsFiniteSet(T) /\ Cardinality(T) \in Nat
  BY FS_Subset, FS_CardinalityType
<1>2. 0 \in Sizes
  <2>1. ASSUME NEW T \in SUBSET I, Cardinality(T) = 0 PROVE Sortable(T)
    <3>1. [i \in 1..0 |-> 0] \in [1..0 -> T] /\ Sorted([i \in 1..0 |-> 0])
      BY DEF Sorted
    <3> QED BY <2>1, <3>1
  <2> QED BY <2>1
<1>3. ASSUME NEW n \in Nat, n \in Sizes PROVE n + 1 \in Sizes
  <2> SUFFICES ASSUME NEW T \in SUBSET I, Cardinality(T) = n + 1 PROVE Sortable(T)
    OBVIOUS
  <2>1. T # {}
    BY FS_EmptySet
  <2>2. PICK e \in T : \A f \in T \ {e} : Calendar!Before(f, e)
    BY <2>1, LastByStart
  <2>3. Cardinality(T \ {e}) = n
    <3>1. IsFiniteSet(T)
      BY <1>1
    <3>2. Cardinality(T \ {e}) = Cardinality(T) - 1
      BY <3>1, FS_RemoveElement
    <3> QED BY <3>2
  <2>4. PICK s \in [1..n -> T \ {e}] : Sorted(s)
    BY <1>3, <2>3
  <2> DEFINE t == [i \in 1..(n + 1) |-> IF i = n + 1 THEN e ELSE s[i]]
  <2>5. \A i \in 1..(n + 1) : i # n + 1 => i \in 1..n /\ s[i] \in T \ {e}
    BY <2>4
  <2>6. t \in [1..(n + 1) -> T]
    BY <2>5
  <2>7. Sorted(t)
    <3> SUFFICES ASSUME NEW i \in 1..(n + 1), NEW j \in 1..(n + 1), i < j PROVE Calendar!Before(t[i], t[j])
      BY DEF Sorted
    <3>1. i # n + 1 /\ i \in 1..n /\ t[i] = s[i]
      OBVIOUS
    <3>2. CASE j = n + 1
      BY <2>2, <2>5, <3>1, <3>2
    <3>3. CASE j # n + 1
      BY <2>4, <2>5, <3>1, <3>3 DEF Sorted
    <3> QED BY <3>2, <3>3
  <2> QED BY <2>6, <2>7
<1>4. Nat \subseteq Sizes
  <2> HIDE DEF Sizes
  <2> QED BY <1>2, <1>3, ByInduction
<1> QED BY <1>1, <1>4

(* sorted takes every interval once, in order. *)
LEMMA OrderedIsSorted ==
    ASSUME NEW I, I \subseteq Interval, IsFiniteSet(I)
    PROVE  LET s == Calendar!Ordered(I) IN
           /\ s \in Seq(I)
           /\ \A i, j \in DOMAIN s : i <= j => s[i][1] <= s[j][1]
           /\ \A e \in I : \E i \in DOMAIN s : s[i] = e
<1> DEFINE n == Cardinality(I)
           s == Calendar!Ordered(I)
<1>1. n \in Nat
  BY FS_CardinalityType
<1>2. s \in [1..n -> I] /\ Sorted(s)
  BY CanBeSorted, CalendarCounts DEF Calendar!Ordered, Sorted
<1> HIDE DEF s
<1>3. s \in Seq(I) /\ DOMAIN s = 1..n
  BY <1>1, <1>2
<1>4. ASSUME NEW i \in 1..n, NEW j \in 1..n, i < j PROVE s[i][1] <= s[j][1] /\ s[i] # s[j]
  <2>1. Calendar!Before(s[i], s[j])
    BY <1>2, <1>4 DEF Sorted
  <2>2. \A k \in 1..n : s[k][1] \in Nat /\ s[k][2] \in Nat
    BY <1>2, HoursAreNumbers
  <2> QED BY <2>1, <2>2 DEF Calendar!Before
<1>5. ASSUME NEW i \in 1..n, NEW j \in 1..n, i <= j PROVE s[i][1] <= s[j][1]
  <2>1. CASE i < j
    BY <1>4, <2>1
  <2>2. CASE i = j
    BY <1>2, <2>2, HoursAreNumbers
  <2> QED BY <1>5, <2>1, <2>2
<1>6. s \in Injection(1..n, I)
  <2>1. \A i, j \in 1..n : i # j => s[i] # s[j]
    BY <1>4
  <2> QED BY <1>2, <2>1 DEF Injection, IsInjective
<1>7. IsFiniteSet(1..n) /\ Cardinality(1..n) = n
  BY <1>1, FS_Interval
<1>8. s \in Surjection(1..n, I)
  BY <1>6, <1>7, FS_Injection
<1>9. \A e \in I : \E i \in 1..n : s[i] = e
  BY <1>8 DEF Surjection
<1> QED BY <1>3, <1>5, <1>9 DEF s
(* A loop of n rounds over values of a set builds a list of n + 1 values.  *)
Steps(n, S) == [(1..n) \X S -> S]
Loops(g, first, n, S, step) ==
    g \in [0..n -> S] /\ g[0] = first /\ \A k \in 1..n : g[k] = step[<<k, g[k - 1]>>]

LEMMA Rounds ==
    ASSUME NEW S, NEW first \in S, NEW n \in Nat, NEW step \in Steps(n, S)
    PROVE  \E g : Loops(g, first, n, S, step)
<1> USE DEF Steps, Loops
<1> DEFINE Far(m) == \E g \in [0..m -> S] : g[0] = first /\ \A k \in 1..m : g[k] = step[<<k, g[k - 1]>>]
           Lengths == {m \in Nat : m <= n => Far(m)}
<1>1. 0 \in Lengths
  <2>1. [k \in 0..0 |-> first] \in [0..0 -> S] /\ [k \in 0..0 |-> first][0] = first /\ 1..0 = {}
    OBVIOUS
  <2> QED BY <2>1
<1>2. ASSUME NEW m \in Nat, m \in Lengths PROVE m + 1 \in Lengths
  <2> SUFFICES ASSUME m + 1 <= n PROVE Far(m + 1)
    OBVIOUS
  <2>1. PICK g \in [0..m -> S] : g[0] = first /\ \A k \in 1..m : g[k] = step[<<k, g[k - 1]>>]
    BY <1>2
  <2> DEFINE v == step[<<m + 1, g[m]>>]
             f == [k \in 0..(m + 1) |-> IF k = m + 1 THEN v ELSE g[k]]
  <2>2. v \in S
    OBVIOUS
  <2> HIDE DEF v
  <2>3. f \in [0..(m + 1) -> S] /\ f[0] = first /\ f[m + 1] = v
    BY <2>1, <2>2
  <2>4. \A k \in 0..m : f[k] = g[k]
    OBVIOUS
  <2>5. ASSUME NEW k \in 1..(m + 1) PROVE f[k] = step[<<k, f[k - 1]>>]
    <3>1. CASE k = m + 1
      <4>1. f[k - 1] = g[m]
        BY <2>4, <3>1
      <4> QED BY <2>3, <3>1, <4>1 DEF v
    <3>2. CASE k # m + 1
      <4>1. k \in 1..m /\ k \in 0..m /\ k - 1 \in 0..m
        BY <3>2
      <4> HIDE DEF f
      <4> QED BY <2>1, <2>4, <4>1
    <3> QED BY <3>1, <3>2
  <2> HIDE DEF f
  <2> QED BY <2>3, <2>5
<1>3. Nat \subseteq Lengths
  <2> HIDE DEF Lengths
  <2> QED BY <1>1, <1>2, ByInduction
<1> QED BY <1>3

(* _merge keeps the hours: those that the result takes are those that the  *)
(* intervals take.                                                         *)
LEMMA MergeKeeps ==
    ASSUME NEW I, I \subseteq Interval, IsFiniteSet(I)
    PROVE  LET busy == Calendar!Merge(I) IN
           /\ busy \in Seq(Interval)
           /\ ByStart(busy)
           /\ \A h \in Int : Occupied(busy, h) <=> \E e \in I : e[1] <= h /\ h < e[2]
<1> DEFINE s == Calendar!Ordered(I)
           n == Len(s)
           Loop(g) == g = [k \in 0..n |-> IF k = 0 THEN <<>> ELSE Calendar!Joined(g[k - 1], s[k])]
<1>1. Calendar!Merge(I) = (CHOOSE g : Loop(g))[n]
  BY DEF Calendar!Merge
<1>2. s \in Seq(I) /\ ByStart(s) /\ \A e \in I : \E i \in DOMAIN s : s[i] = e
  BY OrderedIsSorted DEF ByStart
<1> HIDE DEF s
<1>3. n \in Nat /\ DOMAIN s = 1..n /\ \A k \in 1..n : s[k] \in I /\ s[k] \in Interval
  BY <1>2
<1> HIDE DEF n
<1>4. \E g : Loop(g)
  <2> DEFINE step == [x \in (1..n) \X Seq(Interval) |-> Calendar!Joined(x[2], s[x[1]])]
  <2>1. step \in [(1..n) \X Seq(Interval) -> Seq(Interval)]
    BY <1>3, JoinedType
  <2>2. \A k \in 1..n, m \in Seq(Interval) : step[<<k, m>>] = Calendar!Joined(m, s[k])
    OBVIOUS
  <2> HIDE DEF step
  <2>3. PICK g \in [0..n -> Seq(Interval)] : g[0] = <<>> /\ \A k \in 1..n : g[k] = step[<<k, g[k - 1]>>]
    <3> DEFINE S == Seq(Interval)
               first == <<>>
    <3>1. first \in S /\ step \in Steps(n, S)
      BY <2>1 DEF Steps
    <3> HIDE DEF S, first
    <3>2. \E f : Loops(f, first, n, S, step)
      BY <1>3, <3>1, Rounds
    <3> QED BY <3>2 DEF S, first, Loops
  <2>4. ASSUME NEW k \in 0..n PROVE g[k] = IF k = 0 THEN <<>> ELSE Calendar!Joined(g[k - 1], s[k])
    <3>1. k # 0 => k \in 1..n /\ k - 1 \in 0..n
      BY <1>3
    <3> QED BY <2>2, <2>3, <3>1
  <2>5. Loop(g)
    BY <2>3, <2>4
  <2> QED BY <2>5
<1> DEFINE g == CHOOSE g : Loop(g)
<1>5. Loop(g)
  BY <1>4
<1> HIDE DEF g
<1>6. g[0] = <<>> /\ \A k \in 1..n : g[k] = Calendar!Joined(g[k - 1], s[k])
  <2>1. 0 \in 0..n /\ \A k \in 1..n : k \in 0..n /\ k # 0
    BY <1>3
  <2> QED BY <1>5, <2>1
<1> HIDE DEF Loop
<1> DEFINE Done == {k \in Nat : k <= n => MergeInv(g[k], s, k)}
<1>7. 0 \in Done
  <2>1. MergeInv(<<>>, s, 0)
    BY DEF MergeInv, ByStart, Occupied
  <2> QED BY <1>6, <2>1
<1>8. ASSUME NEW k \in Nat, k \in Done PROVE k + 1 \in Done
  <2> SUFFICES ASSUME k + 1 <= n PROVE MergeInv(g[k + 1], s, k + 1)
    OBVIOUS
  <2>1. MergeInv(g[k], s, k)
    BY <1>3, <1>8
  <2>2. k + 1 \in 1..n /\ 1..(k + 1) = (1..k) \cup {k + 1} /\ g[k + 1] = Calendar!Joined(g[k], s[k + 1])
    BY <1>3, <1>6
  <2> DEFINE m == g[k]
             v == s[k + 1]
             joined == Calendar!Joined(m, v)
  <2>3. v \in Interval
    BY <1>3, <2>2
  <2>4. \A i \in DOMAIN m : m[i][1] <= v[1]
    <3> SUFFICES ASSUME NEW i \in DOMAIN m PROVE m[i][1] <= v[1]
      OBVIOUS
    <3>1. PICK j \in 1..k : m[i][1] <= s[j][1]
      BY <2>1 DEF MergeInv
    <3>2. j \in 1..n /\ j <= k + 1
      BY <1>3
    <3>3. s[j][1] <= v[1]
      BY <1>2, <1>3, <2>2, <3>2 DEF ByStart
    <3>4. m[i][1] \in Nat /\ s[j][1] \in Nat /\ v[1] \in Nat
      BY <1>3, <2>1, <2>3, <3>2, HoursAreNumbers DEF MergeInv
    <3> QED BY <3>1, <3>3, <3>4
  <2>5. m \in Seq(Interval) /\ ByStart(m) /\ \A h \in Int : Occupied(m, h) <=> \E j \in 1..k : s[j][1] <= h /\ h < s[j][2]
    BY <2>1 DEF MergeInv
  <2> HIDE DEF m
  <2>6. joined \in Seq(Interval)
    BY <2>3, <2>5, JoinedType
  <2>7. /\ ByStart(joined)
        /\ \A i \in DOMAIN joined : joined[i][1] <= v[1]
        /\ \A h \in Int : Occupied(joined, h) <=> Occupied(m, h) \/ (v[1] <= h /\ h < v[2])
    BY <2>3, <2>4, <2>5, JoinsOne
  <2> HIDE DEF joined
  <2>8. \A h \in Int : Occupied(joined, h) <=> \E j \in 1..(k + 1) : s[j][1] <= h /\ h < s[j][2]
    BY <2>2, <2>5, <2>7
  <2>9. \A i \in DOMAIN joined : \E j \in 1..(k + 1) : joined[i][1] <= s[j][1]
    BY <2>2, <2>7
  <2>10. MergeInv(joined, s, k + 1)
    BY <2>6, <2>7, <2>8, <2>9 DEF MergeInv
  <2> QED BY <2>2, <2>10 DEF joined, m
<1>9. MergeInv(g[n], s, n)
  <2>1. Nat \subseteq Done
    <3> HIDE DEF Done
    <3> QED BY <1>7, <1>8, ByInduction
  <2> QED BY <1>3, <2>1
<1>10. Calendar!Merge(I) = g[n]
  BY <1>1 DEF g
<1>11. \A h : (\E j \in 1..n : s[j][1] <= h /\ h < s[j][2]) <=> \E e \in I : e[1] <= h /\ h < e[2]
  BY <1>2, <1>3
<1> QED BY <1>9, <1>10, <1>11 DEF MergeInv

----------------------------------------------------------------------------
(* The search of a window.  A hole is a gap between the first k intervals  *)
(* that cannot be extended in the window.                                  *)
Held(s, k, h) == \E i \in 1..k : s[i][1] <= h /\ h < s[i][2]
Hole(s, k, w1, w2, d, a, b) ==
    /\ b - a >= d /\ w1 <= a /\ b <= w2
    /\ \A h \in a..(b - 1) : ~Held(s, k, h)
    /\ a = w1 \/ Held(s, k, a - 1)
    /\ b = w2 \/ Held(s, k, b)

(* After k rounds the cursor is at the window's start or where one of the  *)
(* intervals ends, none that begins in the window reaches beyond it, and   *)
(* the slots are the holes that end inside the window.                     *)
SearchInv(r, s, k, w1, w2, d) ==
    /\ r \in [slots : Seq(Int \X Int), cursor : Int]
    /\ w1 <= r.cursor
    /\ r.cursor = w1 \/ \E i \in 1..k : s[i][1] < r.cursor /\ s[i][1] < w2 /\ s[i][2] = r.cursor
    /\ \A i \in 1..k : s[i][2] <= r.cursor \/ w2 <= s[i][1]
    /\ \A i \in DOMAIN r.slots : Hole(s, k, w1, w2, d, r.slots[i][1], r.slots[i][2]) /\ r.slots[i][2] < w2
    /\ \A a, b \in Int : Hole(s, k, w1, w2, d, a, b) /\ b < w2 => \E i \in DOMAIN r.slots : r.slots[i] = <<a, b>>
    /\ \A i, j \in DOMAIN r.slots : i < j => r.slots[i][2] <= r.slots[j][1]

LEMMA BusyHours ==
    ASSUME NEW s \in Seq(Interval), ByStart(s)
    PROVE  /\ Len(s) \in Nat
           /\ \A i \in 1..Len(s) : s[i][1] \in Int /\ s[i][2] \in Int /\ s[i][1] < s[i][2]
           /\ \A i, j \in 1..Len(s) : i <= j => s[i][1] <= s[j][1]
<1>1. DOMAIN s = 1..Len(s) /\ \A i \in 1..Len(s) : s[i] \in Interval
  OBVIOUS
<1>2. \A i \in 1..Len(s) : s[i][1] \in Int /\ s[i][2] \in Int /\ s[i][1] < s[i][2]
  BY <1>1, HoursAreNumbers
<1> QED BY <1>1, <1>2 DEF ByStart

LEMMA HeldNext ==
    ASSUME NEW s, NEW k \in Nat
    PROVE  \A h : Held(s, k + 1, h) <=> Held(s, k, h) \/ (s[k + 1][1] <= h /\ h < s[k + 1][2])
<1>1. 1..(k + 1) = (1..k) \cup {k + 1}
  OBVIOUS
<1> QED BY <1>1 DEF Held

(* The hour after a hole, if it is taken, is where an interval begins.     *)
LEMMA HoleBegins ==
    ASSUME NEW s \in Seq(Interval), ByStart(s), NEW k \in Nat, k <= Len(s),
           NEW w1 \in Int, NEW w2 \in Int, NEW d \in Nat \ {0}, NEW a \in Int, NEW b \in Int,
           Hole(s, k, w1, w2, d, a, b), Held(s, k, b)
    PROVE  \E i \in 1..k : s[i][1] = b /\ b < s[i][2]
<1>1. PICK i \in 1..k : s[i][1] <= b /\ b < s[i][2]
  BY DEF Held
<1>2. s[i][1] \in Int /\ s[i][2] \in Int
  BY BusyHours
<1>3. b - 1 \in a..(b - 1)
  BY DEF Hole
<1>4. ~(s[i][1] <= b - 1 /\ b - 1 < s[i][2])
  BY <1>3 DEF Hole, Held
<1> QED BY <1>1, <1>2, <1>4

LEMMA HoleStays ==
    ASSUME NEW s \in Seq(Interval), ByStart(s), NEW k \in Nat, k + 1 <= Len(s),
           NEW w1 \in Int, NEW w2 \in Int, NEW d \in Nat \ {0}, NEW a \in Int, NEW b \in Int,
           Held(s, k, b) \/ b < w2
    PROVE  Hole(s, k, w1, w2, d, a, b) => Hole(s, k + 1, w1, w2, d, a, b)
<1> SUFFICES ASSUME Hole(s, k, w1, w2, d, a, b) PROVE Hole(s, k + 1, w1, w2, d, a, b)
  OBVIOUS
<1>1. PICK i \in 1..k : s[i][1] = b /\ b < s[i][2]
  <2>1. Held(s, k, b) /\ k <= Len(s)
    BY BusyHours DEF Hole
  <2> QED BY <2>1, HoleBegins
<1>2. s[k + 1][1] \in Int /\ s[k + 1][2] \in Int /\ b <= s[k + 1][1]
  <2>1. Len(s) \in Nat /\ i \in 1..Len(s) /\ k + 1 \in 1..Len(s) /\ i <= k + 1
    BY <1>1, BusyHours
  <2> QED BY <1>1, <2>1, BusyHours
<1>3. \A h \in a..(b - 1) : ~Held(s, k + 1, h)
  <2>1. \A h \in a..(b - 1) : ~Held(s, k, h) /\ ~(s[k + 1][1] <= h)
    BY <1>2 DEF Hole
  <2> QED BY <2>1, HeldNext
<1>4. \A h : Held(s, k, h) => Held(s, k + 1, h)
  BY HeldNext
<1> QED BY <1>3, <1>4 DEF Hole

LEMMA HoleWas ==
    ASSUME NEW s \in Seq(Interval), ByStart(s), NEW k \in Nat, k + 1 <= Len(s),
           NEW w1 \in Int, NEW w2 \in Int, NEW d \in Nat \ {0}, NEW a \in Int, NEW b \in Int,
           Held(s, k, b)
    PROVE  Hole(s, k + 1, w1, w2, d, a, b) => Hole(s, k, w1, w2, d, a, b)
<1> SUFFICES ASSUME Hole(s, k + 1, w1, w2, d, a, b) PROVE Hole(s, k, w1, w2, d, a, b)
  OBVIOUS
<1>1. PICK i \in 1..k : s[i][1] <= b /\ b < s[i][2]
  BY DEF Held
<1>2. s[i][1] \in Int /\ s[i][2] \in Int /\ s[k + 1][1] \in Int /\ s[k + 1][2] \in Int /\ s[i][1] <= s[k + 1][1]
  BY BusyHours
<1>3. b - 1 \in a..(b - 1)
  BY DEF Hole
<1>4. \A h \in a..(b - 1) : ~Held(s, k, h) /\ ~(s[k + 1][1] <= h /\ h < s[k + 1][2])
  BY HeldNext DEF Hole
<1>5. s[i][1] = b
  <2>1. ~Held(s, k, b - 1)
    BY <1>3, <1>4
  <2>2. ~(s[i][1] <= b - 1 /\ b - 1 < s[i][2])
    BY <2>1 DEF Held
  <2> QED BY <1>1, <1>2, <2>2
<1>6. ~(s[k + 1][1] <= a - 1)
  BY <1>2, <1>5 DEF Hole
<1>7. a = w1 \/ Held(s, k, a - 1)
  BY <1>6, HeldNext DEF Hole
<1> QED BY <1>4, <1>7 DEF Hole

LEMMA HoleIsNew ==
    ASSUME NEW s \in Seq(Interval), ByStart(s), NEW k \in Nat, k + 1 <= Len(s),
           NEW w1 \in Int, NEW w2 \in Int, NEW d \in Nat \ {0}, NEW a \in Int, NEW b \in Int,
           Hole(s, k + 1, w1, w2, d, a, b), b < w2, ~Held(s, k, b)
    PROVE  b = s[k + 1][1]
<1>1. PICK i \in 1..(k + 1) : s[i][1] = b /\ b < s[i][2]
  <2>1. k + 1 \in Nat /\ Held(s, k + 1, b)
    BY DEF Hole
  <2> QED BY <2>1, HoleBegins
<1>2. i \notin 1..k
  BY <1>1, BusyHours DEF Held
<1> QED BY <1>1, <1>2

(* One round: the interval is passed over, or the cursor moves behind it.  *)
LEMMA PassesOne ==
    ASSUME NEW s \in Seq(Interval), ByStart(s), NEW k \in Nat, k + 1 <= Len(s),
           NEW w1 \in Int, NEW w2 \in Int, w1 < w2, NEW d \in Nat \ {0},
           NEW r, SearchInv(r, s, k, w1, w2, d)
    PROVE  SearchInv(Calendar!Passed(r, s[k + 1], <<w1, w2>>, d), s, k + 1, w1, w2, d)
<1> DEFINE p == s[k + 1][1]
           q == s[k + 1][2]
           c == r.cursor
           Behind(x) == x = w1 \/ \E i \in 1..(k + 1) : s[i][1] < x /\ s[i][1] < w2 /\ s[i][2] = x
<1>1. /\ c \in Int /\ w1 <= c /\ r.slots \in Seq(Int \X Int)
      /\ c = w1 \/ \E i \in 1..k : s[i][1] < c /\ s[i][1] < w2 /\ s[i][2] = c
      /\ \A i \in 1..k : s[i][2] <= c \/ w2 <= s[i][1]
  BY DEF SearchInv
<1>2. /\ p \in Int /\ q \in Int /\ p < q
      /\ \A i \in 1..k : s[i][1] \in Int /\ s[i][2] \in Int /\ s[i][1] <= p /\ s[i][1] < s[i][2]
  <2>1. Len(s) \in Nat /\ k + 1 \in 1..Len(s) /\ \A i \in 1..k : i \in 1..Len(s) /\ i <= k + 1
    BY BusyHours
  <2> QED BY <2>1, BusyHours
<1>3. 1..(k + 1) = (1..k) \cup {k + 1}
  OBVIOUS
<1>4. \A h : Held(s, k + 1, h) <=> Held(s, k, h) \/ (p <= h /\ h < q)
  BY HeldNext
<1> HIDE DEF p, q, c
<1>5. \A i \in DOMAIN r.slots : /\ r.slots[i] \in Int \X Int
                                /\ Hole(s, k + 1, w1, w2, d, r.slots[i][1], r.slots[i][2]) /\ r.slots[i][2] < w2
                                /\ r.slots[i][2] <= c
  <2> SUFFICES ASSUME NEW i \in DOMAIN r.slots
               PROVE  /\ r.slots[i] \in Int \X Int
                      /\ Hole(s, k + 1, w1, w2, d, r.slots[i][1], r.slots[i][2]) /\ r.slots[i][2] < w2
                      /\ r.slots[i][2] <= c
    OBVIOUS
  <2>1. PICK a \in Int, b \in Int : r.slots[i] = <<a, b>>
    <3>1. r.slots[i] \in Int \X Int
      BY <1>1
    <3> QED BY <3>1
  <2>2. Hole(s, k, w1, w2, d, a, b) /\ b < w2
    BY <2>1 DEF SearchInv
  <2>3. Hole(s, k + 1, w1, w2, d, a, b)
    BY <2>2, HoleStays
  <2>4. Held(s, k, b)
    BY <2>2 DEF Hole
  <2>5. b <= c
    <3>1. PICK j \in 1..k : s[j][1] <= b /\ b < s[j][2]
      BY <2>4 DEF Held
    <3>2. s[j][1] \in Int /\ s[j][2] \in Int
      BY <1>2, <3>1
    <3>3. s[j][1] < w2
      BY <2>2, <3>1, <3>2
    <3>4. s[j][2] <= c
      BY <1>1, <3>1, <3>2, <3>3
    <3> QED BY <1>1, <3>1, <3>2, <3>4
  <2> QED BY <2>1, <2>2, <2>3, <2>5
<1>6. \A a, b \in Int : Hole(s, k + 1, w1, w2, d, a, b) /\ b < w2 /\ Held(s, k, b) =>
          \E i \in DOMAIN r.slots : r.slots[i] = <<a, b>>
  BY HoleWas DEF SearchInv
<1>7. \A i, j \in DOMAIN r.slots : i < j => r.slots[i][2] <= r.slots[j][1]
  BY DEF SearchInv
<1>8. CASE q <= c \/ w2 <= p
  <2>1. Calendar!Passed(r, s[k + 1], <<w1, w2>>, d) = r
    BY <1>8 DEF Calendar!Passed, p, q, c
  <2>2. ASSUME NEW a \in Int, NEW b \in Int, Hole(s, k + 1, w1, w2, d, a, b), b < w2 PROVE Held(s, k, b)
    <3> SUFFICES ASSUME ~Held(s, k, b) PROVE FALSE
      OBVIOUS
    <3>1. b = p
      BY <2>2, HoleIsNew DEF p
    <3>2. q <= c /\ c # w1
      BY <1>1, <1>2, <1>8, <2>2, <3>1 DEF Hole
    <3>3. PICK i \in 1..k : s[i][1] < c /\ s[i][2] = c
      BY <1>1, <3>2
    <3> QED BY <1>1, <1>2, <3>1, <3>2, <3>3 DEF Held
  <2>3. \A i \in 1..(k + 1) : s[i][2] <= c \/ w2 <= s[i][1]
    BY <1>1, <1>3, <1>8 DEF p, q
  <2>4. Behind(c)
    BY <1>1, <1>3
  <2>5. \A a, b \in Int : Hole(s, k + 1, w1, w2, d, a, b) /\ b < w2 => \E i \in DOMAIN r.slots : r.slots[i] = <<a, b>>
    BY <1>6, <2>2
  <2>6. r \in [slots : Seq(Int \X Int), cursor : Int]
    BY DEF SearchInv
  <2>7. SearchInv(r, s, k + 1, w1, w2, d)
    BY <1>1, <1>5, <1>7, <2>3, <2>4, <2>5, <2>6 DEF SearchInv, c
  <2> QED BY <2>1, <2>7
<1>9. CASE ~(q <= c \/ w2 <= p)
  <2> DEFINE more == p - c >= d
             slots == IF more THEN Append(r.slots, <<c, p>>) ELSE r.slots
  <2>1. Calendar!Passed(r, s[k + 1], <<w1, w2>>, d) = [slots |-> slots, cursor |-> q]
    <3>1. Calendar!Later(c, q) = q
      BY <1>1, <1>2, <1>9 DEF Calendar!Later
    <3> QED BY <1>9, <3>1 DEF Calendar!Passed, p, q, c
  <2>2. q > c /\ p < w2
    BY <1>1, <1>2, <1>9
  <2>3. ASSUME NEW a \in Int, NEW b \in Int, Hole(s, k + 1, w1, w2, d, a, b), b < w2, ~Held(s, k, b)
        PROVE  more /\ a = c /\ b = p
    <3>1. b = p
      BY <2>3, HoleIsNew DEF p
    <3>2. \A h \in a..(p - 1) : ~Held(s, k, h)
      BY <1>4, <2>3, <3>1 DEF Hole
    <3>3. w1 <= a /\ p - a >= d /\ (a = w1 \/ Held(s, k, a - 1))
      BY <1>2, <1>4, <2>3, <3>1 DEF Hole
    <3>4. ~(a < c)
      <4> SUFFICES ASSUME a < c PROVE FALSE
        OBVIOUS
      <4>1. PICK i \in 1..k : s[i][1] < c /\ s[i][2] = c
        BY <1>1, <3>3
      <4>2. s[i][1] <= c - 1 /\ c - 1 < s[i][2] /\ s[i][1] <= p
        BY <1>1, <1>2, <4>1
      <4>3. Held(s, k, c - 1)
        BY <4>2 DEF Held
      <4>4. ~(s[i][1] <= p /\ p < s[i][2])
        BY <2>3, <3>1 DEF Held
      <4>5. c - 1 \in a..(p - 1)
        <5>1. c \in Int /\ p \in Int /\ a <= c - 1 /\ c <= p
          BY <1>1, <1>2, <4>1, <4>2, <4>4
        <5> QED BY <5>1
      <4> QED BY <3>2, <4>3, <4>5
    <3>5. ~(a > c)
      <4> SUFFICES ASSUME a > c PROVE FALSE
        OBVIOUS
      <4>1. PICK i \in 1..k : s[i][1] <= a - 1 /\ a - 1 < s[i][2]
        BY <1>1, <3>3 DEF Held
      <4>2. s[i][1] <= a - 1 /\ a <= p /\ s[i][1] \in Int /\ s[i][2] \in Int
        BY <1>2, <3>3, <4>1
      <4>3. s[i][1] < w2
        BY <1>2, <2>2, <4>2
      <4>4. s[i][2] <= c
        BY <1>1, <4>2, <4>3
      <4> QED BY <1>1, <4>1, <4>2, <4>4
    <3> QED BY <1>1, <3>1, <3>3, <3>4, <3>5
  <2>4. ASSUME more PROVE Hole(s, k + 1, w1, w2, d, c, p)
    <3>1. \A h \in c..(p - 1) : ~Held(s, k + 1, h)
      <4> SUFFICES ASSUME NEW h \in c..(p - 1), Held(s, k, h) PROVE FALSE
        BY <1>1, <1>2, <1>4
      <4>1. PICK i \in 1..k : s[i][1] <= h /\ h < s[i][2]
        BY DEF Held
      <4>2. h \in Int /\ c <= h /\ h < w2 /\ s[i][1] \in Int /\ s[i][2] \in Int
        BY <1>1, <1>2, <2>2
      <4>3. ~(s[i][2] <= c) /\ ~(w2 <= s[i][1])
        BY <1>1, <4>1, <4>2
      <4> QED BY <1>1, <4>3
    <3>2. c = w1 \/ Held(s, k + 1, c - 1)
      <4> SUFFICES ASSUME c # w1 PROVE Held(s, k, c - 1)
        BY <1>4
      <4>1. PICK i \in 1..k : s[i][1] < c /\ s[i][2] = c
        BY <1>1
      <4>2. s[i][1] <= c - 1 /\ c - 1 < s[i][2]
        BY <1>1, <1>2, <4>1
      <4> QED BY <4>2 DEF Held
    <3>3. Held(s, k + 1, p)
      BY <1>2, <1>4
    <3> QED BY <1>1, <1>2, <2>2, <2>4, <3>1, <3>2, <3>3 DEF Hole
  <2>5. \A i \in 1..(k + 1) : s[i][2] <= q \/ w2 <= s[i][1]
    <3>1. \A i \in 1..k : s[i][2] <= q \/ w2 <= s[i][1]
      BY <1>1, <1>2, <2>2
    <3>2. s[k + 1][2] <= q
      BY <1>2 DEF q
    <3> QED BY <1>3, <3>1, <3>2
  <2>6. Behind(q)
    BY <1>2, <1>3, <2>2 DEF p, q
  <2> DEFINE n == Len(r.slots)
  <2>7. /\ n \in Nat /\ DOMAIN r.slots = 1..n
        /\ slots \in Seq(Int \X Int)
        /\ more => /\ DOMAIN slots = 1..(n + 1) /\ slots[n + 1] = <<c, p>>
                   /\ \A i \in 1..n : slots[i] = r.slots[i]
    <3>1. <<c, p>> \in Int \X Int
      BY <1>1, <1>2
    <3> HIDE DEF more
    <3> QED BY <1>1, <3>1
  <2>9. ~more => slots = r.slots
    OBVIOUS
  <2> HIDE DEF slots, n, more
  <2>8. more => \A i \in 1..(n + 1) : i \in 1..n \/ i = n + 1
    BY <2>7
  <2>10. \A i \in DOMAIN slots : Hole(s, k + 1, w1, w2, d, slots[i][1], slots[i][2]) /\ slots[i][2] < w2
    <3> SUFFICES ASSUME NEW i \in DOMAIN slots
                 PROVE  Hole(s, k + 1, w1, w2, d, slots[i][1], slots[i][2]) /\ slots[i][2] < w2
      OBVIOUS
    <3>1. CASE more /\ i = n + 1
      <4>1. slots[i][1] = c /\ slots[i][2] = p
        BY <2>7, <3>1
      <4> QED BY <2>2, <2>4, <3>1, <4>1
    <3>2. CASE ~(more /\ i = n + 1)
      <4>1. i \in DOMAIN r.slots /\ slots[i] = r.slots[i]
        BY <2>7, <2>8, <2>9, <3>2
      <4> QED BY <1>5, <4>1
    <3> QED BY <3>1, <3>2
  <2>11. ASSUME NEW a \in Int, NEW b \in Int, Hole(s, k + 1, w1, w2, d, a, b), b < w2
         PROVE  \E i \in DOMAIN slots : slots[i] = <<a, b>>
    <3>1. CASE Held(s, k, b)
      <4>1. PICK i \in DOMAIN r.slots : r.slots[i] = <<a, b>>
        BY <1>6, <2>11, <3>1
      <4>2. i \in DOMAIN slots /\ slots[i] = r.slots[i]
        <5>1. i \in 1..n /\ 1..n \subseteq 1..(n + 1)
          BY <2>7
        <5> QED BY <2>7, <2>9, <5>1
      <4> QED BY <4>1, <4>2
    <3>2. CASE ~Held(s, k, b)
      <4>1. more /\ a = c /\ b = p
        BY <2>3, <2>11, <3>2
      <4>2. n + 1 \in 1..(n + 1)
        BY <2>7
      <4> QED BY <2>7, <4>1, <4>2
    <3> QED BY <3>1, <3>2
  <2>12. ASSUME NEW i \in DOMAIN slots, NEW j \in DOMAIN slots, i < j PROVE slots[i][2] <= slots[j][1]
    <3>1. CASE more /\ j = n + 1
      <4>1. i \in 1..n
        BY <2>7, <2>8, <2>12, <3>1
      <4>2. slots[i][2] <= c /\ slots[j][1] = c
        <5>1. slots[i] = r.slots[i] /\ slots[j] = <<c, p>> /\ i \in DOMAIN r.slots
          BY <2>7, <3>1, <4>1
        <5> QED BY <1>5, <5>1
      <4> QED BY <4>2
    <3>2. CASE ~(more /\ j = n + 1)
      <4>1. j \in 1..n /\ i \in 1..n /\ slots[i] = r.slots[i] /\ slots[j] = r.slots[j]
        <5>1. CASE more
          <6>1. i \in 1..(n + 1) /\ j \in 1..(n + 1) /\ j # n + 1
            BY <2>7, <3>2, <5>1
          <6>2. j \in 1..n /\ i \in 1..n
            <7>1. n \in Nat /\ i < j
              BY <2>7, <2>12
            <7> QED BY <6>1, <7>1
          <6> QED BY <2>7, <5>1, <6>2
        <5>2. CASE ~more
          BY <2>7, <2>9, <5>2
        <5> QED BY <5>1, <5>2
      <4> QED BY <1>7, <2>7, <2>12, <4>1
    <3> QED BY <3>1, <3>2
  <2>13. w1 <= q
    BY <1>1, <1>2, <2>2
  <2> DEFINE rest == [slots |-> slots, cursor |-> q]
  <2>14. rest \in [slots : Seq(Int \X Int), cursor : Int] /\ rest.slots = slots /\ rest.cursor = q
    BY <1>2, <2>7
  <2> HIDE DEF rest
  <2>15. SearchInv(rest, s, k + 1, w1, w2, d)
    BY <2>5, <2>6, <2>10, <2>11, <2>12, <2>13, <2>14 DEF SearchInv
  <2> QED BY <2>1, <2>15 DEF rest
<1> QED BY <1>8, <1>9

(* The search of a window finds its holes, in order.                       *)
HolesFound(slots, s, w1, w2, d) ==
    /\ slots \in Seq(Int \X Int)
    /\ \A i \in DOMAIN slots : Hole(s, Len(s), w1, w2, d, slots[i][1], slots[i][2])
    /\ \A a, b \in Int : Hole(s, Len(s), w1, w2, d, a, b) => \E i \in DOMAIN slots : slots[i] = <<a, b>>
    /\ \A i, j \in DOMAIN slots : i < j => slots[i][2] <= slots[j][1]

LEMMA WindowHoles ==
    ASSUME NEW s \in Seq(Interval), ByStart(s),
           NEW w1 \in Int, NEW w2 \in Int, w1 < w2, NEW d \in Nat \ {0}
    PROVE  HolesFound(Calendar!WindowSlots(<<w1, w2>>, s, d), s, w1, w2, d)
<1> DEFINE window == <<w1, w2>>
           begin == [slots |-> <<>>, cursor |-> window[1]]
           n == Len(s)
           Loop(g) == g = [k \in 0..n |-> IF k = 0 THEN begin ELSE Calendar!Passed(g[k - 1], s[k], window, d)]
           last == (CHOOSE g : Loop(g))[n]
<1>1. Calendar!WindowSlots(window, s, d) =
        IF window[2] - last.cursor >= d THEN Append(last.slots, <<last.cursor, window[2]>>) ELSE last.slots
  BY DEF Calendar!WindowSlots
<1>2. n \in Nat /\ \A k \in 1..n : s[k] \in Interval /\ s[k][1] \in Nat /\ s[k][2] \in Nat
  BY HoursAreNumbers
<1> HIDE DEF n
<1>3. \E g : Loop(g)
  <2> DEFINE S == [slots : Seq(Int \X Int), cursor : Int]
             step == [x \in (1..n) \X S |-> Calendar!Passed(x[2], s[x[1]], window, d)]
  <2>1. ASSUME NEW k \in 1..n, NEW r \in S PROVE Calendar!Passed(r, s[k], window, d) \in S
    <3>1. r.cursor \in Int /\ r.slots \in Seq(Int \X Int)
      OBVIOUS
    <3>2. <<r.cursor, s[k][1]>> \in Int \X Int /\ Calendar!Later(r.cursor, s[k][2]) \in Int
      BY <1>2, <3>1 DEF Calendar!Later
    <3>3. Append(r.slots, <<r.cursor, s[k][1]>>) \in Seq(Int \X Int)
      BY <3>1, <3>2
    <3> QED BY <3>1, <3>2, <3>3 DEF Calendar!Passed
  <2>2. begin \in S
    OBVIOUS
  <2> HIDE DEF S
  <2>3. step \in Steps(n, S) /\ \A k \in 1..n, r \in S : step[<<k, r>>] = Calendar!Passed(r, s[k], window, d)
    BY <2>1 DEF Steps
  <2> HIDE DEF step, begin, window
  <2>4. PICK g : Loops(g, begin, n, S, step)
    BY <1>2, <2>2, <2>3, Rounds
  <2>5. g \in [0..n -> S] /\ g[0] = begin /\ \A k \in 1..n : g[k] = step[<<k, g[k - 1]>>]
    BY <2>4 DEF Loops
  <2>6. ASSUME NEW k \in 0..n PROVE g[k] = IF k = 0 THEN begin ELSE Calendar!Passed(g[k - 1], s[k], window, d)
    <3>1. k # 0 => k \in 1..n /\ k - 1 \in 0..n
      BY <1>2
    <3> QED BY <2>3, <2>5, <3>1
  <2>7. Loop(g)
    BY <2>5, <2>6
  <2> QED BY <2>7
<1> DEFINE g == CHOOSE g : Loop(g)
<1>4. Loop(g)
  BY <1>3
<1> HIDE DEF g
<1>5. g[0] = begin /\ \A k \in 1..n : g[k] = Calendar!Passed(g[k - 1], s[k], window, d)
  <2>1. 0 \in 0..n /\ \A k \in 1..n : k \in 0..n /\ k # 0
    BY <1>2
  <2> HIDE DEF begin, window
  <2> QED BY <1>4, <2>1
<1>6. last = g[n]
  BY DEF g
<1> HIDE DEF Loop, last
<1> DEFINE Done == {k \in Nat : k <= n => SearchInv(g[k], s, k, w1, w2, d)}
<1>7. 0 \in Done
  <2>1. begin.slots = <<>> /\ begin.cursor = w1 /\ begin \in [slots : Seq(Int \X Int), cursor : Int]
    OBVIOUS
  <2>2. \A h : ~Held(s, 0, h)
    BY DEF Held
  <2>3. \A a, b \in Int : Hole(s, 0, w1, w2, d, a, b) => b = w2
    BY <2>2 DEF Hole
  <2> HIDE DEF begin
  <2>4. SearchInv(begin, s, 0, w1, w2, d)
    BY <2>1, <2>3 DEF SearchInv
  <2> QED BY <1>5, <2>4
<1>8. ASSUME NEW k \in Nat, k \in Done PROVE k + 1 \in Done
  <2> SUFFICES ASSUME k + 1 <= n PROVE SearchInv(g[k + 1], s, k + 1, w1, w2, d)
    OBVIOUS
  <2>1. SearchInv(g[k], s, k, w1, w2, d)
    BY <1>2, <1>8
  <2>2. g[k + 1] = Calendar!Passed(g[k], s[k + 1], window, d)
    BY <1>2, <1>5
  <2>3. SearchInv(Calendar!Passed(g[k], s[k + 1], window, d), s, k + 1, w1, w2, d)
    BY <2>1, PassesOne DEF n
  <2> QED BY <2>2, <2>3
<1>9. SearchInv(last, s, n, w1, w2, d)
  <2>1. Nat \subseteq Done
    <3> HIDE DEF Done
    <3> QED BY <1>7, <1>8, ByInduction
  <2> QED BY <1>2, <1>6, <2>1
<1> DEFINE c == last.cursor
           found == last.slots
           more == w2 - c >= d
           slots == IF more THEN Append(found, <<c, w2>>) ELSE found
<1>10. /\ c \in Int /\ w1 <= c /\ found \in Seq(Int \X Int)
       /\ c = w1 \/ \E i \in 1..n : s[i][1] < c /\ s[i][1] < w2 /\ s[i][2] = c
       /\ \A i \in 1..n : s[i][2] <= c \/ w2 <= s[i][1]
  BY <1>9 DEF SearchInv
<1>11. \A a, b \in Int : Hole(s, n, w1, w2, d, a, b) /\ b < w2 => \E i \in DOMAIN found : found[i] = <<a, b>>
  BY <1>9 DEF SearchInv
<1>12. \A i, j \in DOMAIN found : i < j => found[i][2] <= found[j][1]
  BY <1>9 DEF SearchInv
<1>13. \A i \in DOMAIN found : Hole(s, n, w1, w2, d, found[i][1], found[i][2]) /\ found[i][2] < w2
  BY <1>9 DEF SearchInv
<1> HIDE DEF c, found
<1>14. \A i \in 1..n : s[i][1] \in Int /\ s[i][2] \in Int /\ s[i][1] < s[i][2]
  BY BusyHours DEF n
<1>15. \A i \in DOMAIN found : found[i][2] <= c
  <2> SUFFICES ASSUME NEW i \in DOMAIN found PROVE found[i][2] <= c
    OBVIOUS
  <2>1. PICK a \in Int, b \in Int : found[i] = <<a, b>>
    <3>1. found[i] \in Int \X Int
      BY <1>10
    <3> QED BY <3>1
  <2>2. b < w2 /\ Held(s, n, b)
    BY <1>13, <2>1 DEF Hole
  <2>3. PICK j \in 1..n : s[j][1] <= b /\ b < s[j][2]
    BY <2>2 DEF Held
  <2>4. s[j][1] \in Int /\ s[j][2] \in Int
    BY <1>14, <2>3
  <2>5. s[j][1] < w2
    BY <2>2, <2>3, <2>4
  <2>6. s[j][2] <= c
    BY <1>10, <2>3, <2>5, <2>4
  <2> QED BY <1>10, <2>1, <2>3, <2>4, <2>6
<1>16. c = w1 \/ Held(s, n, c - 1)
  <2> SUFFICES ASSUME c # w1 PROVE Held(s, n, c - 1)
    OBVIOUS
  <2>1. PICK i \in 1..n : s[i][1] < c /\ s[i][2] = c
    BY <1>10
  <2>2. s[i][1] <= c - 1 /\ c - 1 < s[i][2]
    BY <1>10, <1>14, <2>1
  <2> QED BY <2>2 DEF Held
<1>17. ASSUME more PROVE Hole(s, n, w1, w2, d, c, w2)
  <2>1. \A h \in c..(w2 - 1) : ~Held(s, n, h)
    <3> SUFFICES ASSUME NEW h \in c..(w2 - 1), Held(s, n, h) PROVE FALSE
      OBVIOUS
    <3>1. PICK i \in 1..n : s[i][1] <= h /\ h < s[i][2]
      BY DEF Held
    <3>2. h \in Int /\ c <= h /\ h < w2 /\ s[i][1] \in Int /\ s[i][2] \in Int
      BY <1>10, <1>14
    <3>3. ~(s[i][2] <= c) /\ ~(w2 <= s[i][1])
      BY <1>10, <3>1, <3>2
    <3> QED BY <1>10, <3>3
  <2> QED BY <1>10, <1>16, <1>17, <2>1 DEF Hole
<1>18. ASSUME NEW a \in Int, Hole(s, n, w1, w2, d, a, w2) PROVE more /\ a = c
  <2>1. w1 <= a /\ w2 - a >= d /\ (a = w1 \/ Held(s, n, a - 1)) /\ \A h \in a..(w2 - 1) : ~Held(s, n, h)
    BY <1>18 DEF Hole
  <2>2. ~(a < c)
    <3> SUFFICES ASSUME a < c PROVE FALSE
      OBVIOUS
    <3>1. PICK i \in 1..n : s[i][1] < c /\ s[i][1] < w2 /\ s[i][2] = c
      BY <1>10, <2>1
    <3>2. s[i][1] \in Int
      BY <1>14
    <3>3. CASE c <= w2
      <4>1. c - 1 \in a..(w2 - 1) /\ s[i][1] <= c - 1 /\ c - 1 < s[i][2]
        BY <1>10, <3>1, <3>2, <3>3
      <4> QED BY <2>1, <4>1 DEF Held
    <3>4. CASE c > w2
      <4>1. w2 - 1 \in a..(w2 - 1) /\ s[i][1] <= w2 - 1 /\ w2 - 1 < s[i][2]
        BY <1>10, <2>1, <3>1, <3>2, <3>4
      <4> QED BY <2>1, <4>1 DEF Held
    <3> QED BY <1>10, <3>3, <3>4
  <2>3. ~(a > c)
    <3> SUFFICES ASSUME a > c PROVE FALSE
      OBVIOUS
    <3>1. PICK i \in 1..n : s[i][1] <= a - 1 /\ a - 1 < s[i][2]
      BY <1>10, <2>1 DEF Held
    <3>2. s[i][1] \in Int /\ s[i][2] \in Int
      BY <1>14
    <3>3. s[i][1] < w2
      BY <2>1, <3>1, <3>2
    <3>4. s[i][2] <= c
      BY <1>10, <3>2, <3>3
    <3> QED BY <1>10, <3>1, <3>2, <3>4
  <2> QED BY <1>10, <2>1, <2>2, <2>3
<1> DEFINE m == Len(found)
<1>19. /\ m \in Nat /\ DOMAIN found = 1..m
       /\ slots \in Seq(Int \X Int)
       /\ more => /\ DOMAIN slots = 1..(m + 1) /\ slots[m + 1] = <<c, w2>>
                  /\ \A i \in 1..m : slots[i] = found[i]
  <2>1. <<c, w2>> \in Int \X Int
    BY <1>10
  <2> HIDE DEF more
  <2> QED BY <1>10, <2>1
<1>20. ~more => slots = found
  OBVIOUS
<1>21. Calendar!WindowSlots(window, s, d) = slots
  BY <1>1 DEF c, found
<1> HIDE DEF slots, m, more
<1>22. more => \A i \in 1..(m + 1) : i \in 1..m \/ i = m + 1
  BY <1>19
<1>23. ASSUME NEW i \in DOMAIN slots PROVE Hole(s, n, w1, w2, d, slots[i][1], slots[i][2])
  <2>1. CASE more /\ i = m + 1
    <3>1. slots[i][1] = c /\ slots[i][2] = w2
      BY <1>19, <2>1
    <3> QED BY <1>17, <2>1, <3>1
  <2>2. CASE ~(more /\ i = m + 1)
    <3>1. i \in DOMAIN found /\ slots[i] = found[i]
      BY <1>19, <1>20, <1>22, <2>2
    <3> QED BY <1>13, <3>1
  <2> QED BY <2>1, <2>2
<1>24. ASSUME NEW a \in Int, NEW b \in Int, Hole(s, n, w1, w2, d, a, b) PROVE \E i \in DOMAIN slots : slots[i] = <<a, b>>
  <2>1. CASE b < w2
    <3>1. PICK i \in DOMAIN found : found[i] = <<a, b>>
      BY <1>11, <1>24, <2>1
    <3>2. i \in DOMAIN slots /\ slots[i] = found[i]
      <4>1. i \in 1..m /\ 1..m \subseteq 1..(m + 1)
        BY <1>19, <3>1
      <4> QED BY <1>19, <1>20, <3>1, <4>1
    <3> QED BY <3>1, <3>2
  <2>2. CASE b = w2
    <3>1. more /\ a = c /\ m + 1 \in 1..(m + 1)
      BY <1>18, <1>19, <1>24, <2>2
    <3> QED BY <1>19, <2>2, <3>1
  <2>3. b <= w2
    BY <1>24 DEF Hole
  <2> QED BY <2>1, <2>2, <2>3
<1>25. ASSUME NEW i \in DOMAIN slots, NEW j \in DOMAIN slots, i < j PROVE slots[i][2] <= slots[j][1]
  <2>1. CASE more /\ j = m + 1
    <3>1. i \in 1..m
      BY <1>19, <1>22, <1>25, <2>1
    <3>2. slots[i] = found[i] /\ slots[j] = <<c, w2>> /\ i \in DOMAIN found
      BY <1>19, <2>1, <3>1
    <3> QED BY <1>15, <3>2
  <2>2. CASE ~(more /\ j = m + 1)
    <3>1. i \in 1..m /\ j \in 1..m
      <4>1. CASE more
        <5>1. i \in 1..(m + 1) /\ j \in 1..m
          BY <1>19, <1>22, <2>2, <4>1
        <5>2. m \in Nat /\ i < j
          BY <1>19, <1>25
        <5> QED BY <5>1, <5>2
      <4>2. CASE ~more
        BY <1>19, <1>20, <4>2
      <4> QED BY <4>1, <4>2
    <3>2. slots[i] = found[i] /\ slots[j] = found[j]
      BY <1>19, <1>20, <3>1
    <3> QED BY <1>12, <1>19, <1>25, <3>1, <3>2
  <2> QED BY <2>1, <2>2
<1> HIDE DEF window
<1> QED BY <1>19, <1>21, <1>23, <1>24, <1>25 DEF HolesFound, n, window

----------------------------------------------------------------------------
(* Days and their hours. *)
LEMMA DayOf ==
    ASSUME NEW h \in Nat
    PROVE  h \div DAY \in Nat /\ (h \div DAY) * DAY <= h /\ h < (h \div DAY) * DAY + DAY
  BY DayAssumption, Z3

LEMMA HourOf ==
    ASSUME NEW n \in Nat, NEW h \in Int, n * DAY <= h, h < n * DAY + DAY
    PROVE  h % DAY = h - n * DAY
<1> DEFINE q == h \div DAY
           r == h % DAY
<1>1. h >= 0 /\ DAY \in Nat /\ DAY > 0 /\ n * DAY \in Nat
  BY DayAssumption
<1>2. q \in Int /\ r \in 0..(DAY - 1) /\ h = q * DAY + r
  BY <1>1
<1> HIDE DEF q, r
<1>3. ~(q < n)
  BY <1>1, <1>2
<1>4. ~(q > n)
  BY <1>1, <1>2
<1> QED BY <1>1, <1>2, <1>3, <1>4 DEF r

LEMMA DaysApart == ASSUME NEW m \in Int, NEW n \in Int, m < n PROVE m * DAY + DAY <= n * DAY
  BY DayAssumption

(* What a search is asked for, and its window on a day.                    *)
Asked(since, end, d, open, close) ==
    /\ since \in Calendar!Times /\ end \in Calendar!Times /\ since < end
    /\ d \in 1..DAY
    /\ open \in 0..DAY /\ close \in 0..DAY /\ open < close

Opens(n, since, open) == Calendar!Later(n * DAY + open, since)
Closes(n, end, close) == Calendar!Earlier(n * DAY + close, end)

LEMMA WindowHours ==
    ASSUME NEW since, NEW end, NEW d, NEW open, NEW close, Asked(since, end, d, open, close), NEW n \in Nat
    PROVE  /\ since \in Nat /\ end \in Nat /\ d \in Nat \ {0}
           /\ Opens(n, since, open) \in Nat /\ Closes(n, end, close) \in Nat
           /\ n * DAY <= Opens(n, since, open) /\ since <= Opens(n, since, open)
           /\ Closes(n, end, close) <= n * DAY + DAY /\ Closes(n, end, close) <= end
           /\ \A h \in Int : n * DAY <= h /\ h < n * DAY + DAY =>
                 (Calendar!WorkingHour(h, since, end, open, close) <=>
                  Opens(n, since, open) <= h /\ h < Closes(n, end, close))
<1>1. /\ since \in Nat /\ end \in Nat /\ d \in Nat \ {0} /\ open \in Nat /\ close \in Nat
      /\ open <= DAY /\ close <= DAY /\ DAY \in Nat
  BY DayAssumption DEF Asked, Calendar!Times
<1>2. n * DAY \in Nat
  BY <1>1
<1>3. \A h \in Int : n * DAY <= h /\ h < n * DAY + DAY => h % DAY = h - n * DAY
  BY HourOf
<1> DEFINE midnight == n * DAY
<1> HIDE DEF midnight
<1>4. /\ Opens(n, since, open) = IF midnight + open > since THEN midnight + open ELSE since
      /\ Closes(n, end, close) = IF midnight + close < end THEN midnight + close ELSE end
  BY DEF Opens, Closes, Calendar!Later, Calendar!Earlier, midnight
<1>5. midnight \in Nat
  BY <1>2 DEF midnight
<1>6. /\ Opens(n, since, open) \in Nat /\ Closes(n, end, close) \in Nat
      /\ midnight <= Opens(n, since, open) /\ since <= Opens(n, since, open)
      /\ Closes(n, end, close) <= midnight + DAY /\ Closes(n, end, close) <= end
  BY <1>1, <1>4, <1>5
<1>7. ASSUME NEW h \in Int, midnight <= h, h < midnight + DAY
      PROVE  Calendar!WorkingHour(h, since, end, open, close) <=>
                Opens(n, since, open) <= h /\ h < Closes(n, end, close)
  <2>1. h % DAY = h - midnight
    BY <1>3, <1>7 DEF midnight
  <2> QED BY <1>1, <1>4, <1>5, <2>1 DEF Calendar!WorkingHour
<1> QED BY <1>1, <1>6, <1>7 DEF midnight

(* The hours that are taken in the search are those that events take.      *)
Covers(busy, since, end) ==
    \A h \in Int : since <= h /\ h < end => (Held(busy, Len(busy), h) <=> ~Calendar!FreeHour(h))

LEMMA BusyCovers ==
    ASSUME events \subseteq Interval, IsFiniteSet(events), NEW since \in Int, NEW end \in Int
    PROVE  LET busy == Calendar!Merge(Calendar!Overlapping(since, end)) IN
           busy \in Seq(Interval) /\ ByStart(busy) /\ Covers(busy, since, end)
<1> DEFINE I == Calendar!Overlapping(since, end)
           busy == Calendar!Merge(I)
<1>1. I \subseteq Interval /\ IsFiniteSet(I)
  <2>1. I \subseteq events
    BY DEF Calendar!Overlapping
  <2> QED BY <2>1, FS_Subset
<1>2. \A e : e \in I <=> e \in events /\ e[1] < end /\ e[2] > since
  BY DEF Calendar!Overlapping
<1> HIDE DEF I
<1>3. busy \in Seq(Interval) /\ ByStart(busy) /\ \A h \in Int : Occupied(busy, h) <=> \E e \in I : e[1] <= h /\ h < e[2]
  BY <1>1, MergeKeeps
<1> HIDE DEF busy
<1>4. \A h : Occupied(busy, h) <=> Held(busy, Len(busy), h)
  BY <1>3 DEF Occupied, Held
<1>5. ASSUME NEW h \in Int, since <= h, h < end
      PROVE  (\E e \in I : e[1] <= h /\ h < e[2]) <=> ~Calendar!FreeHour(h)
  <2>1. \A e \in events : e[1] \in Int /\ e[2] \in Int
    BY HoursAreNumbers
  <2>2. \A e \in events : e[1] <= h /\ h < e[2] => e[1] < end /\ e[2] > since
    BY <1>5, <2>1
  <2> QED BY <1>2, <2>2 DEF Calendar!FreeHour
<1> QED BY <1>3, <1>4, <1>5 DEF busy, I, Covers

(* A hole of a day's window is a slot. *)
LEMMA HoleIsSlot ==
    ASSUME NEW since, NEW end, NEW d, NEW open, NEW close, Asked(since, end, d, open, close),
           NEW busy, Covers(busy, since, end), NEW n \in Nat, NEW a \in Int, NEW b \in Int,
           Hole(busy, Len(busy), Opens(n, since, open), Closes(n, end, close), d, a, b)
    PROVE  /\ a \in Calendar!Times /\ b \in Calendar!Times
           /\ Calendar!IsSlot(a, b, since, end, d, open, close)
<1> DEFINE w1 == Opens(n, since, open)
           w2 == Closes(n, end, close)
           midnight == n * DAY
           Free(h) == Calendar!FreeHour(h)
           Working(h) == Calendar!WorkingHour(h, since, end, open, close)
<1>1. /\ since \in Nat /\ end \in Nat /\ d \in Nat \ {0} /\ w1 \in Nat /\ w2 \in Nat
      /\ midnight <= w1 /\ since <= w1 /\ w2 <= midnight + DAY /\ w2 <= end
      /\ \A h \in Int : midnight <= h /\ h < midnight + DAY => (Working(h) <=> w1 <= h /\ h < w2)
  BY WindowHours
<1>2. \A h \in Int : midnight <= h /\ h < midnight + DAY => h % DAY = h - midnight
  BY HourOf
<1>3. midnight \in Nat /\ DAY \in Nat /\ DAY > 0 /\ (midnight + DAY) % DAY = 0
  <2>1. n + 1 \in Nat /\ (n + 1) * DAY = midnight + DAY /\ DAY \in Nat /\ DAY > 0
    BY DayAssumption
  <2>2. (midnight + DAY) % DAY = (midnight + DAY) - (n + 1) * DAY
    BY <2>1, HourOf
  <2> QED BY <2>1, <2>2
<1>4. \A h \in Int : since <= h /\ h < end => (Held(busy, Len(busy), h) <=> ~Free(h))
  BY DEF Covers
<1>5. \A h \in Int : Working(h) => since <= h /\ h < end
  BY DEF Calendar!WorkingHour
<1> DEFINE k == Len(busy)
<1>6. /\ b - a >= d /\ w1 <= a /\ b <= w2 /\ \A h \in a..(b - 1) : ~Held(busy, k, h)
      /\ a = w1 \/ Held(busy, k, a - 1)
      /\ b = w2 \/ Held(busy, k, b)
  BY DEF Hole
<1> HIDE DEF w1, w2, midnight, Free, Working, k
<1>7. ASSUME NEW h \in a..(b - 1) PROVE Free(h) /\ Working(h) /\ (h > a => h % DAY # 0)
  <2>1. h \in Int /\ w1 <= h /\ h < w2 /\ midnight <= h /\ h < midnight + DAY
    BY <1>1, <1>3, <1>6
  <2>2. Working(h)
    BY <1>1, <2>1
  <2>3. Free(h)
    BY <1>4, <1>5, <1>6, <2>1, <2>2 DEF k
  <2>4. h > a => h - midnight # 0
    BY <1>1, <1>3, <1>6, <2>1
  <2> QED BY <1>2, <2>1, <2>2, <2>3, <2>4
<1>8. ASSUME Free(a - 1), Working(a - 1) PROVE a % DAY = 0
  <2>1. a - 1 \in Int /\ a \in Int /\ ~Held(busy, k, a - 1)
    BY <1>4, <1>5, <1>8 DEF k
  <2>2. a = w1
    BY <1>6, <2>1
  <2>3. ~(midnight <= a - 1 /\ a - 1 < midnight + DAY)
    BY <1>1, <1>8, <2>1, <2>2
  <2>4. a = midnight
    BY <1>1, <1>3, <1>6, <2>1, <2>2, <2>3
  <2> QED BY <1>2, <1>3, <2>4
<1>9. ASSUME Free(b), Working(b) PROVE b % DAY = 0
  <2>1. b \in Int /\ ~Held(busy, k, b)
    BY <1>4, <1>5, <1>9 DEF k
  <2>2. b = w2
    BY <1>6, <2>1
  <2>3. ~(midnight <= b /\ b < midnight + DAY)
    BY <1>1, <1>9, <2>1, <2>2
  <2>4. b = midnight + DAY
    BY <1>1, <1>3, <1>6, <2>1, <2>2, <2>3
  <2> QED BY <1>3, <2>4
<1>10. a \in Calendar!Times /\ b \in Calendar!Times
  <2>1. end <= Horizon
    BY DayAssumption DEF Asked, Calendar!Times
  <2>2. 0 <= a /\ a <= b /\ b <= end
    BY <1>1, <1>6
  <2> QED BY <1>1, <2>1, <2>2, DayAssumption DEF Calendar!Times
<1> QED BY <1>6, <1>7, <1>8, <1>9, <1>10 DEF Calendar!IsSlot, Free, Working

(* A slot is a hole of the window of the day that it begins on.            *)
LEMMA SlotIsHole ==
    ASSUME NEW since, NEW end, NEW d, NEW open, NEW close, Asked(since, end, d, open, close),
           NEW busy, Covers(busy, since, end), NEW a \in Calendar!Times, NEW b \in Calendar!Times,
           Calendar!IsSlot(a, b, since, end, d, open, close)
    PROVE  LET n == a \div DAY IN
           /\ since \div DAY <= n /\ n <= end \div DAY
           /\ Opens(n, since, open) < Closes(n, end, close)
           /\ Hole(busy, Len(busy), Opens(n, since, open), Closes(n, end, close), d, a, b)
<1> DEFINE n == a \div DAY
           w1 == Opens(n, since, open)
           w2 == Closes(n, end, close)
           midnight == n * DAY
           Free(h) == Calendar!FreeHour(h)
           Working(h) == Calendar!WorkingHour(h, since, end, open, close)
           k == Len(busy)
<1>1. a \in Nat /\ b \in Nat /\ n \in Nat /\ midnight <= a /\ a < midnight + DAY
  BY DayOf, DayAssumption DEF Calendar!Times
<1> HIDE DEF n
<1>2. /\ since \in Nat /\ end \in Nat /\ d \in Nat \ {0} /\ w1 \in Nat /\ w2 \in Nat
      /\ midnight <= w1 /\ since <= w1 /\ w2 <= midnight + DAY /\ w2 <= end
      /\ \A h \in Int : midnight <= h /\ h < midnight + DAY => (Working(h) <=> w1 <= h /\ h < w2)
  BY <1>1, WindowHours
<1>3. \A h \in Int : midnight <= h /\ h < midnight + DAY => h % DAY = h - midnight
  BY <1>1, HourOf
<1>4. midnight \in Nat /\ DAY \in Nat /\ DAY > 0 /\ (midnight + DAY) % DAY = 0
  <2>1. n + 1 \in Nat /\ (n + 1) * DAY = midnight + DAY /\ DAY \in Nat /\ DAY > 0
    BY <1>1, DayAssumption
  <2>2. (midnight + DAY) % DAY = (midnight + DAY) - (n + 1) * DAY
    BY <1>1, <2>1, HourOf
  <2> QED BY <1>1, <2>1, <2>2
<1>5. \A h \in Int : since <= h /\ h < end => (Held(busy, k, h) <=> ~Free(h))
  BY DEF Covers
<1>6. \A h \in Int : Working(h) => since <= h /\ h < end
  BY DEF Calendar!WorkingHour
<1>7. /\ b - a >= d
      /\ \A h \in a..(b - 1) : Free(h) /\ Working(h) /\ (h > a => h % DAY # 0)
      /\ Free(a - 1) /\ Working(a - 1) => a % DAY = 0
      /\ Free(b) /\ Working(b) => b % DAY = 0
  BY DEF Calendar!IsSlot
<1>8. n >= since \div DAY /\ n <= end \div DAY
  <2>1. a \in a..(b - 1)
    BY <1>1, <1>2, <1>7
  <2>2. since <= a /\ a < end
    BY <1>1, <1>6, <1>7, <2>1
  <2>3. since \div DAY \in Nat /\ (since \div DAY) * DAY <= since
    BY <1>2, DayOf
  <2>4. end \div DAY \in Nat /\ end < (end \div DAY) * DAY + DAY
    BY <1>2, DayOf
  <2>5. ~(n < since \div DAY)
    <3> SUFFICES ASSUME n < since \div DAY PROVE FALSE
      OBVIOUS
    <3>1. n * DAY + DAY <= (since \div DAY) * DAY
      BY <1>1, <2>3, DaysApart
    <3> QED BY <1>1, <1>2, <1>4, <2>2, <2>3, <3>1
  <2>6. ~(end \div DAY < n)
    <3> SUFFICES ASSUME end \div DAY < n PROVE FALSE
      OBVIOUS
    <3>1. (end \div DAY) * DAY + DAY <= n * DAY
      BY <1>1, <2>4, DaysApart
    <3> QED BY <1>1, <1>2, <1>4, <2>2, <2>4, <3>1
  <2> QED BY <1>1, <2>3, <2>4, <2>5, <2>6
<1> HIDE DEF w1, w2, midnight, Free, Working, k
<1>9. b <= midnight + DAY
  <2> SUFFICES ASSUME b > midnight + DAY PROVE FALSE
    BY <1>1, <1>4
  <2>1. midnight + DAY \in a..(b - 1) /\ midnight + DAY > a
    BY <1>1, <1>4
  <2> QED BY <1>4, <1>7, <2>1
<1>10. \A h \in a..(b - 1) : h \in Int /\ w1 <= h /\ h < w2 /\ ~Held(busy, k, h)
  <2> SUFFICES ASSUME NEW h \in a..(b - 1) PROVE h \in Int /\ w1 <= h /\ h < w2 /\ ~Held(busy, k, h)
    OBVIOUS
  <2>1. h \in Int /\ midnight <= h /\ h < midnight + DAY
    BY <1>1, <1>4, <1>9
  <2>2. Free(h) /\ Working(h)
    BY <1>7
  <2>3. w1 <= h /\ h < w2
    BY <1>2, <2>1, <2>2
  <2> QED BY <1>5, <1>6, <2>1, <2>2, <2>3
<1>11. w1 <= a /\ b <= w2
  <2>1. a \in a..(b - 1) /\ b - 1 \in a..(b - 1)
    BY <1>1, <1>2, <1>7
  <2>2. w1 <= a /\ b - 1 < w2
    BY <1>10, <2>1
  <2> QED BY <1>1, <1>2, <2>2
<1>12. w1 < w2
  BY <1>1, <1>2, <1>7, <1>11
<1>13. a = w1 \/ Held(busy, k, a - 1)
  <2> SUFFICES ASSUME a # w1 PROVE Held(busy, k, a - 1)
    OBVIOUS
  <2>1. a - 1 \in Int /\ w1 <= a - 1 /\ a - 1 < w2 /\ midnight <= a - 1 /\ a - 1 < midnight + DAY
    BY <1>1, <1>2, <1>4, <1>7, <1>11
  <2>2. Working(a - 1)
    BY <1>2, <2>1
  <2>3. a % DAY # 0
    <3>1. a % DAY = a - midnight
      BY <1>1, <1>3
    <3> QED BY <1>1, <1>4, <2>1, <3>1
  <2>4. ~Free(a - 1)
    BY <1>7, <2>2, <2>3
  <2> QED BY <1>5, <1>6, <2>1, <2>2, <2>4
<1>14. b = w2 \/ Held(busy, k, b)
  <2> SUFFICES ASSUME b # w2 PROVE Held(busy, k, b)
    OBVIOUS
  <2>1. b \in Int /\ w1 <= b /\ b < w2 /\ midnight < b /\ b < midnight + DAY
    BY <1>1, <1>2, <1>4, <1>7, <1>11
  <2>2. Working(b)
    BY <1>2, <1>4, <2>1
  <2>3. b % DAY # 0
    <3>1. b % DAY = b - midnight
      BY <1>3, <1>4, <2>1
    <3> QED BY <1>1, <1>4, <2>1, <3>1
  <2>4. ~Free(b)
    BY <1>7, <2>2, <2>3
  <2> QED BY <1>5, <1>6, <2>1, <2>2, <2>4
<1>15. Hole(busy, k, w1, w2, d, a, b)
  BY <1>7, <1>10, <1>11, <1>13, <1>14 DEF Hole
<1> QED BY <1>8, <1>12, <1>15 DEF n, w1, w2, k

(* The search of the days before day number n has found the holes of their *)
(* windows, in order.                                                      *)
HoleOn(busy, n, since, end, d, open, close, a, b) ==
    /\ Opens(n, since, open) < Closes(n, end, close)
    /\ Hole(busy, Len(busy), Opens(n, since, open), Closes(n, end, close), d, a, b)

DaysInv(slots, first, n, busy, since, end, d, open, close) ==
    /\ slots \in Seq(Int \X Int)
    /\ \A i \in DOMAIN slots :
          /\ \E m \in Nat : first <= m /\ m < n /\ HoleOn(busy, m, since, end, d, open, close, slots[i][1], slots[i][2])
          /\ slots[i][2] <= n * DAY
    /\ \A m \in Nat, a, b \in Int :
          first <= m /\ m < n /\ HoleOn(busy, m, since, end, d, open, close, a, b) =>
              \E i \in DOMAIN slots : slots[i] = <<a, b>>
    /\ \A i, j \in DOMAIN slots : i < j => slots[i][2] <= slots[j][1]

(* One more day. *)
LEMMA OneMoreDay ==
    ASSUME NEW since, NEW end, NEW d, NEW open, NEW close, Asked(since, end, d, open, close),
           NEW busy \in Seq(Interval), ByStart(busy), NEW first \in Nat, NEW n \in Nat, first <= n,
           NEW slots, DaysInv(slots, first, n, busy, since, end, d, open, close),
           NEW more,
           more = IF Opens(n, since, open) < Closes(n, end, close)
                  THEN Calendar!WindowSlots(<<Opens(n, since, open), Closes(n, end, close)>>, busy, d) ELSE <<>>
    PROVE  DaysInv(slots \o more, first, n + 1, busy, since, end, d, open, close)
<1> DEFINE w1 == Opens(n, since, open)
           w2 == Closes(n, end, close)
           On(m, a, b) == HoleOn(busy, m, since, end, d, open, close, a, b)
           midnight == n * DAY
<1>1. /\ w1 \in Nat /\ w2 \in Nat /\ midnight <= w1 /\ w2 <= midnight + DAY /\ d \in Nat \ {0}
      /\ midnight \in Nat /\ (n + 1) * DAY = midnight + DAY /\ DAY \in Nat
  BY WindowHours, DayAssumption
<1> HIDE DEF midnight
<1>2. /\ more \in Seq(Int \X Int)
      /\ \A i \in DOMAIN more : On(n, more[i][1], more[i][2])
      /\ \A a, b \in Int : On(n, a, b) => \E i \in DOMAIN more : more[i] = <<a, b>>
      /\ \A i, j \in DOMAIN more : i < j => more[i][2] <= more[j][1]
  <2>0. \A a, b : On(n, a, b) <=> w1 < w2 /\ Hole(busy, Len(busy), w1, w2, d, a, b)
    BY DEF HoleOn
  <2> HIDE DEF w1, w2, On
  <2>1. CASE w1 < w2
    <3>1. more = Calendar!WindowSlots(<<w1, w2>>, busy, d)
      BY <2>1 DEF w1, w2
    <3>2. w1 \in Int /\ w2 \in Int
      BY <1>1
    <3>3. HolesFound(more, busy, w1, w2, d)
      BY <1>1, <2>1, <3>1, <3>2, WindowHoles
    <3> QED BY <2>0, <2>1, <3>3 DEF HolesFound
  <2>2. CASE ~(w1 < w2)
    <3>1. more = <<>>
      BY <2>2 DEF w1, w2
    <3>2. \A i \in DOMAIN more : FALSE
      <4>1. DOMAIN <<>> = {}
        OBVIOUS
      <4> QED BY <3>1, <4>1
    <3>3. more \in Seq(Int \X Int)
      <4>1. <<>> \in Seq(Int \X Int)
        OBVIOUS
      <4> QED BY <3>1, <4>1
    <3> QED BY <2>0, <2>2, <3>2, <3>3
  <2> QED BY <2>1, <2>2
<1>3. \A i \in DOMAIN more : /\ more[i][1] \in Int /\ more[i][2] \in Int
                             /\ midnight <= more[i][1] /\ more[i][2] <= midnight + DAY
  <2> SUFFICES ASSUME NEW i \in DOMAIN more
               PROVE  /\ more[i][1] \in Int /\ more[i][2] \in Int
                      /\ midnight <= more[i][1] /\ more[i][2] <= midnight + DAY
    OBVIOUS
  <2>1. more[i] \in Int \X Int
    BY <1>2
  <2>2. w1 <= more[i][1] /\ more[i][2] <= w2
    BY <1>2 DEF HoleOn, Hole
  <2> HIDE DEF w1, w2
  <2> QED BY <1>1, <2>1, <2>2
<1> HIDE DEF w1, w2, On
<1>4. /\ slots \in Seq(Int \X Int)
      /\ \A i \in DOMAIN slots : (\E m \in Nat : first <= m /\ m < n /\ On(m, slots[i][1], slots[i][2])) /\ slots[i][2] <= midnight
      /\ \A m \in Nat, a, b \in Int : first <= m /\ m < n /\ On(m, a, b) => \E i \in DOMAIN slots : slots[i] = <<a, b>>
      /\ \A i, j \in DOMAIN slots : i < j => slots[i][2] <= slots[j][1]
  BY DEF DaysInv, On, midnight
<1> DEFINE x == Len(slots)
           y == Len(more)
           all == slots \o more
<1>5. /\ x \in Nat /\ y \in Nat /\ DOMAIN slots = 1..x /\ DOMAIN more = 1..y
      /\ all \in Seq(Int \X Int) /\ DOMAIN all = 1..(x + y)
      /\ \A i \in 1..x : all[i] = slots[i]
      /\ \A i \in 1..y : all[x + i] = more[i]
  BY <1>2, <1>4
<1> HIDE DEF x, y, all
<1>6. \A i \in 1..(x + y) : i \in 1..x \/ (i - x \in 1..y /\ all[i] = more[i - x])
  <2> SUFFICES ASSUME NEW i \in 1..(x + y), i \notin 1..x PROVE i - x \in 1..y /\ all[i] = more[i - x]
    OBVIOUS
  <2>1. i - x \in 1..y /\ x + (i - x) = i
    BY <1>5
  <2> QED BY <1>5, <2>1
<1>7. ASSUME NEW i \in DOMAIN all
      PROVE  (\E m \in Nat : first <= m /\ m < n + 1 /\ On(m, all[i][1], all[i][2])) /\ all[i][2] <= midnight + DAY
  <2>1. CASE i \in 1..x
    <3>1. slots[i] \in Int \X Int
      BY <1>4, <1>5, <2>1
    <3>2. all[i] = slots[i] /\ slots[i][2] \in Int /\ slots[i][2] <= midnight
      BY <1>4, <1>5, <2>1, <3>1
    <3>3. PICK m \in Nat : first <= m /\ m < n /\ On(m, slots[i][1], slots[i][2])
      BY <1>4, <1>5, <2>1
    <3>4. m < n + 1 /\ slots[i][2] <= midnight + DAY
      BY <1>1, <3>2, <3>3
    <3> QED BY <3>2, <3>3, <3>4
  <2>2. CASE i \notin 1..x
    <3>1. i - x \in DOMAIN more /\ all[i] = more[i - x]
      BY <1>5, <1>6, <2>2
    <3>2. On(n, all[i][1], all[i][2]) /\ all[i][2] <= midnight + DAY
      BY <1>2, <1>3, <3>1
    <3> QED BY <3>2
  <2> QED BY <2>1, <2>2
<1>8. ASSUME NEW m \in Nat, NEW a \in Int, NEW b \in Int, first <= m, m < n + 1, On(m, a, b)
      PROVE  \E i \in DOMAIN all : all[i] = <<a, b>>
  <2>1. CASE m < n
    <3>1. PICK i \in 1..x : slots[i] = <<a, b>>
      BY <1>4, <1>5, <1>8, <2>1
    <3>2. i \in 1..(x + y)
      BY <1>5, <3>1
    <3> QED BY <1>5, <3>1, <3>2
  <2>2. CASE m = n
    <3>1. PICK i \in 1..y : more[i] = <<a, b>>
      BY <1>2, <1>5, <1>8, <2>2
    <3>2. x + i \in 1..(x + y)
      BY <1>5, <3>1
    <3> QED BY <1>5, <3>1, <3>2
  <2> QED BY <1>8, <2>1, <2>2
<1>9. ASSUME NEW i \in DOMAIN all, NEW j \in DOMAIN all, i < j PROVE all[i][2] <= all[j][1]
  <2>1. i \in Int /\ j \in Int /\ x \in Nat /\ y \in Nat /\ i < j /\ i >= 1 /\ j <= x + y
    BY <1>5, <1>9
  <2>2. CASE j \in 1..x
    <3>1. i \in 1..x
      BY <2>1, <2>2
    <3> QED BY <1>4, <1>5, <1>9, <2>2, <3>1
  <2>3. CASE i \in 1..x /\ j \notin 1..x
    <3>1. slots[i] \in Int \X Int /\ slots[i][2] <= midnight /\ all[i] = slots[i]
      BY <1>4, <1>5, <2>3
    <3>2. j - x \in DOMAIN more /\ all[j] = more[j - x]
      BY <1>5, <1>6, <2>3
    <3>3. midnight <= all[j][1] /\ all[j][1] \in Int
      BY <1>3, <3>2
    <3> QED BY <1>1, <3>1, <3>3
  <2>4. CASE i \notin 1..x
    <3>1. j \notin 1..x
      BY <2>1, <2>4
    <3>2. i - x \in DOMAIN more /\ all[i] = more[i - x] /\ j - x \in DOMAIN more /\ all[j] = more[j - x]
      BY <1>5, <1>6, <2>4, <3>1
    <3>3. i - x < j - x
      BY <2>1
    <3> QED BY <1>2, <3>2, <3>3
  <2> QED BY <2>2, <2>3, <2>4
<1>10. (n + 1) * DAY = midnight + DAY
  BY <1>1
<1>11. /\ all \in Seq(Int \X Int)
       /\ \A i \in DOMAIN all : /\ \E m \in Nat : first <= m /\ m < n + 1 /\ On(m, all[i][1], all[i][2])
                                /\ all[i][2] <= (n + 1) * DAY
       /\ \A m \in Nat, a, b \in Int : first <= m /\ m < n + 1 /\ On(m, a, b) => \E i \in DOMAIN all : all[i] = <<a, b>>
       /\ \A i, j \in DOMAIN all : i < j => all[i][2] <= all[j][1]
  <2> HIDE DEF midnight
  <2> QED BY <1>5, <1>7, <1>8, <1>9, <1>10
<1>12. DaysInv(all, first, n + 1, busy, since, end, d, open, close)
  BY <1>11 DEF DaysInv, On
<1> QED BY <1>12 DEF all

(* The search finds the slots there are, in order.                         *)
LEMMA SearchFinds ==
    ASSUME events \subseteq Interval, IsFiniteSet(events),
           NEW since, NEW end, NEW d, NEW open, NEW close, Asked(since, end, d, open, close)
    PROVE  LET slots == Calendar!FreeSlots(since, end, d, open, close) IN
           /\ \A i \in 1..(Len(slots) - 1) : slots[i][2] <= slots[i + 1][1]
           /\ Calendar!ToSet(slots) = {s \in Calendar!Times \X Calendar!Times :
                                          Calendar!IsSlot(s[1], s[2], since, end, d, open, close)}
<1> DEFINE busy == Calendar!Merge(Calendar!Overlapping(since, end))
           first == since \div DAY
           days == end \div DAY - first + 1
           window(n) == Calendar!WorkingWindow(first + n - 1, since, end, open, close)
           found(n) == IF window(n)[1] < window(n)[2] THEN Calendar!WindowSlots(window(n), busy, d) ELSE <<>>
           Loop(g) == g = [n \in 0..days |-> IF n = 0 THEN <<>> ELSE g[n - 1] \o found(n)]
           slots == Calendar!FreeSlots(since, end, d, open, close)
<1>1. slots = (CHOOSE g : Loop(g))[days]
  BY DEF Calendar!FreeSlots
<1>2. since \in Nat /\ end \in Nat /\ since < end /\ d \in Nat \ {0}
  BY WindowHours DEF Asked
<1>3. busy \in Seq(Interval) /\ ByStart(busy) /\ Covers(busy, since, end)
  BY <1>2, BusyCovers
<1>4. first \in Nat /\ end \div DAY \in Nat /\ first <= end \div DAY
  <2>1. /\ first \in Nat /\ first * DAY <= since /\ end \div DAY \in Nat /\ end < (end \div DAY) * DAY + DAY
        /\ DAY \in Nat
    BY <1>2, DayOf, DayAssumption
  <2>2. ~(end \div DAY < first)
    <3> SUFFICES ASSUME end \div DAY < first PROVE FALSE
      OBVIOUS
    <3>1. (end \div DAY) * DAY + DAY <= first * DAY
      BY <2>1, DaysApart
    <3> QED BY <1>2, <2>1, <3>1
  <2> QED BY <2>1, <2>2
<1>5. days \in Nat /\ first + days = end \div DAY + 1
  BY <1>4
<1>6. \A n : window(n) = <<Opens(first + n - 1, since, open), Closes(first + n - 1, end, close)>>
  BY DEF Calendar!WorkingWindow, Opens, Closes
<1> HIDE DEF busy, first, days, window, slots
<1> DEFINE Inv(s, n) == DaysInv(s, first, n, busy, since, end, d, open, close)
<1>7. Inv(<<>>, first)
  <2>1. \A m \in Nat : ~(first <= m /\ m < first)
    BY <1>4
  <2> QED BY <2>1 DEF DaysInv
<1>8. ASSUME NEW n \in Nat, NEW s, Inv(s, first + n) PROVE Inv(s \o found(n + 1), first + (n + 1))
  <2> DEFINE m == first + n
  <2>1. m \in Nat /\ first <= m /\ first + (n + 1) - 1 = m /\ m + 1 = first + (n + 1)
    BY <1>4
  <2>2. window(n + 1) = <<Opens(m, since, open), Closes(m, end, close)>>
    BY <1>6, <2>1
  <2> HIDE DEF m
  <2>3. found(n + 1) = IF Opens(m, since, open) < Closes(m, end, close)
                       THEN Calendar!WindowSlots(<<Opens(m, since, open), Closes(m, end, close)>>, busy, d) ELSE <<>>
    BY <2>2
  <2>4. Inv(s, m)
    BY <1>8 DEF m
  <2> HIDE DEF found
  <2>5. Inv(s \o found(n + 1), m + 1)
    BY <1>3, <1>4, <2>1, <2>3, <2>4, OneMoreDay
  <2> QED BY <2>1, <2>5
<1> HIDE DEF found
<1>9. \E g : Loop(g)
  <2> DEFINE Far(m) == \E g : g = [n \in 0..m |-> IF n = 0 THEN <<>> ELSE g[n - 1] \o found(n)]
             Lengths == {m \in Nat : Far(m)}
  <2>1. 0 \in Lengths
    <3>1. [n \in 0..0 |-> <<>>] = [n \in 0..0 |-> IF n = 0 THEN <<>> ELSE [m \in 0..0 |-> <<>>][n - 1] \o found(n)]
      OBVIOUS
    <3> QED BY <3>1
  <2>2. ASSUME NEW m \in Nat, m \in Lengths PROVE m + 1 \in Lengths
    <3>1. PICK g : g = [n \in 0..m |-> IF n = 0 THEN <<>> ELSE g[n - 1] \o found(n)]
      BY <2>2
    <3> DEFINE f == [n \in 0..(m + 1) |-> IF n = m + 1 THEN g[m] \o found(m + 1) ELSE g[n]]
    <3>2. ASSUME NEW n \in 0..(m + 1) PROVE f[n] = IF n = 0 THEN <<>> ELSE f[n - 1] \o found(n)
      <4>1. CASE n = 0
        <5>1. 0 \in 0..m /\ 0 # m + 1
          OBVIOUS
        <5>2. g[0] = <<>>
          BY <3>1, <5>1
        <5> QED BY <4>1, <5>1, <5>2
      <4>2. CASE n = m + 1
        <5>1. m \in 0..(m + 1) /\ m # m + 1 /\ n - 1 = m /\ n # 0
          BY <4>2
        <5>2. f[m] = g[m] /\ f[n] = g[m] \o found(m + 1)
          BY <4>2, <5>1
        <5> HIDE DEF f
        <5> QED BY <4>2, <5>1, <5>2
      <4>3. CASE n # 0 /\ n # m + 1
        <5>1. n \in 0..m /\ n - 1 \in 0..m /\ n - 1 \in 0..(m + 1) /\ n - 1 # m + 1
          BY <4>3
        <5>2. g[n] = g[n - 1] \o found(n)
          BY <3>1, <4>3, <5>1
        <5>3. f[n] = g[n] /\ f[n - 1] = g[n - 1]
          BY <4>3, <5>1
        <5> HIDE DEF f
        <5> QED BY <4>3, <5>2, <5>3
      <4> QED BY <4>1, <4>2, <4>3
    <3>3. f = [n \in 0..(m + 1) |-> IF n = 0 THEN <<>> ELSE f[n - 1] \o found(n)]
      BY <3>2
    <3> HIDE DEF f
    <3>4. Far(m + 1)
      BY <3>3
    <3> HIDE DEF Far
    <3> QED BY <3>4
  <2>3. Nat \subseteq Lengths
    <3> HIDE DEF Lengths
    <3> QED BY <2>1, <2>2, ByInduction
  <2> QED BY <1>5, <2>3
<1> DEFINE g == CHOOSE g : Loop(g)
<1>10. Loop(g)
  BY <1>9
<1> HIDE DEF g
<1>11. g[0] = <<>> /\ \A n \in 1..days : g[n] = g[n - 1] \o found(n)
  <2>1. 0 \in 0..days /\ \A n \in 1..days : n \in 0..days /\ n # 0
    BY <1>5
  <2> QED BY <1>10, <2>1
<1> HIDE DEF Loop
<1> DEFINE Done == {n \in Nat : n <= days => Inv(g[n], first + n)}
<1>12. 0 \in Done
  <2>1. first + 0 = first
    BY <1>4
  <2> QED BY <1>7, <1>11, <2>1
<1>13. ASSUME NEW n \in Nat, n \in Done PROVE n + 1 \in Done
  <2> SUFFICES ASSUME n + 1 <= days PROVE Inv(g[n + 1], first + (n + 1))
    OBVIOUS
  <2>1. Inv(g[n], first + n)
    BY <1>5, <1>13
  <2>2. g[n + 1] = g[n] \o found(n + 1)
    <3>1. n + 1 \in 1..days /\ (n + 1) - 1 = n
      BY <1>5
    <3> QED BY <1>11, <3>1
  <2> HIDE DEF Inv
  <2> QED BY <1>8, <2>1, <2>2
<1>14. Inv(slots, end \div DAY + 1)
  <2>1. Nat \subseteq Done
    <3> HIDE DEF Done
    <3> QED BY <1>12, <1>13, ByInduction
  <2>2. Inv(g[days], first + days)
    BY <1>5, <2>1
  <2>3. slots = g[days]
    BY <1>1 DEF g
  <2> HIDE DEF Inv
  <2> QED BY <1>5, <2>2, <2>3
<1>15. slots \in Seq(Int \X Int) /\ \A i, j \in DOMAIN slots : i < j => slots[i][2] <= slots[j][1]
  BY <1>14 DEF DaysInv
<1>16. \A i \in 1..(Len(slots) - 1) : slots[i][2] <= slots[i + 1][1]
  <2> SUFFICES ASSUME NEW i \in 1..(Len(slots) - 1) PROVE slots[i][2] <= slots[i + 1][1]
    OBVIOUS
  <2>1. i \in DOMAIN slots /\ i + 1 \in DOMAIN slots /\ i < i + 1
    BY <1>15
  <2> QED BY <1>15, <2>1
<1>17. ASSUME NEW i \in DOMAIN slots
       PROVE  /\ slots[i] \in Calendar!Times \X Calendar!Times
              /\ Calendar!IsSlot(slots[i][1], slots[i][2], since, end, d, open, close)
  <2>1. PICK a \in Int, b \in Int : slots[i] = <<a, b>>
    <3>1. slots[i] \in Int \X Int
      BY <1>15
    <3> QED BY <3>1
  <2>2. PICK m \in Nat : HoleOn(busy, m, since, end, d, open, close, a, b)
    BY <1>14, <2>1 DEF DaysInv
  <2>3. a \in Calendar!Times /\ b \in Calendar!Times /\ Calendar!IsSlot(a, b, since, end, d, open, close)
    BY <1>3, <2>2, HoleIsSlot DEF HoleOn
  <2> QED BY <2>1, <2>3
<1>18. ASSUME NEW a \in Calendar!Times, NEW b \in Calendar!Times, Calendar!IsSlot(a, b, since, end, d, open, close)
       PROVE  \E i \in DOMAIN slots : slots[i] = <<a, b>>
  <2> DEFINE m == a \div DAY
  <2>1. a \in Nat /\ b \in Nat /\ m \in Nat
    BY DayOf, DayAssumption DEF Calendar!Times
  <2>2. first <= m /\ m <= end \div DAY /\ HoleOn(busy, m, since, end, d, open, close, a, b)
    BY <1>3, <1>18, SlotIsHole DEF HoleOn, first
  <2> HIDE DEF m
  <2>3. m < end \div DAY + 1
    BY <1>4, <2>1, <2>2
  <2>4. a \in Int /\ b \in Int
    BY <2>1
  <2>5. \A x \in Nat, y, z \in Int :
           first <= x /\ x < end \div DAY + 1 /\ HoleOn(busy, x, since, end, d, open, close, y, z) =>
               \E i \in DOMAIN slots : slots[i] = <<y, z>>
    BY <1>14 DEF DaysInv
  <2> QED BY <2>1, <2>2, <2>3, <2>4, <2>5
<1>19. Calendar!ToSet(slots) = {s \in Calendar!Times \X Calendar!Times :
                                  Calendar!IsSlot(s[1], s[2], since, end, d, open, close)}
  <2>1. \A s : s \in Calendar!ToSet(slots) <=> \E i \in DOMAIN slots : slots[i] = s
    BY DEF Calendar!ToSet
  <2>2. \A s \in Calendar!Times \X Calendar!Times : s = <<s[1], s[2]>> /\ s[1] \in Calendar!Times /\ s[2] \in Calendar!Times
    OBVIOUS
  <2> QED BY <1>17, <1>18, <2>1, <2>2
<1> QED BY <1>16, <1>19 DEF slots

(* The calendar holds events that end after they begin. *)
CalendarInv == events \subseteq Interval

LEMMA CalendarInitial == ServicesInit => CalendarInv
  BY DEF ServicesInit, Calendar!Init, CalendarInv

LEMMA CalendarSteps == ASSUME CalendarInv, [ServicesNext]_serviceVars PROVE CalendarInv'
<1>1. CASE focus = "calendar" /\ Calendar!Next
  <2>1. PICK starts_at \in Calendar!Times, ends_at \in Calendar!Times :
            Calendar!CreateEvent(starts_at, ends_at) \/ Calendar!DeleteEvent(starts_at, ends_at)
    BY <1>1 DEF Calendar!Next
  <2>2. CASE Calendar!CreateEvent(starts_at, ends_at)
    BY <2>1, <2>2, Spans DEF Calendar!CreateEvent, CalendarInv
  <2>3. CASE Calendar!DeleteEvent(starts_at, ends_at)
    BY <2>3 DEF Calendar!DeleteEvent, CalendarInv
  <2> QED BY <2>1, <2>2, <2>3
<1>2. CASE UNCHANGED events
  BY <1>2 DEF CalendarInv
<1> QED BY <1>1, <1>2 DEF ServicesNext, serviceVars, calendarVars

LEMMA HoldsTheGaps == ASSUME CalendarInv PROVE SlotsAreTheGaps
<1>1. IsFiniteSet(events)
  <2>1. Interval \subseteq Calendar!Times \X Calendar!Times
    BY DEF Interval
  <2>2. IsFiniteSet(Calendar!Times)
    BY FS_Interval, DayAssumption DEF Calendar!Times
  <2> QED BY <2>1, <2>2, FS_Product, FS_Subset DEF CalendarInv
<1> SUFFICES ASSUME NEW since \in Calendar!Times, NEW end \in Calendar!Times, NEW d \in 1..DAY,
                    NEW open \in 0..DAY, NEW close \in 0..DAY, since < end, open < close
             PROVE  LET slots == Calendar!FreeSlots(since, end, d, open, close) IN
                    /\ \A i \in 1..(Len(slots) - 1) : slots[i][2] <= slots[i + 1][1]
                    /\ Calendar!ToSet(slots) = {s \in Calendar!Times \X Calendar!Times :
                                                   Calendar!IsSlot(s[1], s[2], since, end, d, open, close)}
  BY DEF SlotsAreTheGaps, Calendar!SlotsAreTheGaps
<1>2. Asked(since, end, d, open, close)
  BY DEF Asked
<1> QED BY <1>1, <1>2, SearchFinds DEF CalendarInv

(* A search for free time answers with exactly the longest runs of free    *)
(* working hours that are long enough, in order and each once: merging the *)
(* events hides no gap and invents none, whatever straddles a day or the   *)
(* search (local.py, free_slots with _merge and _working_windows).         *)
THEOREM SlotsAreFound == ServicesSpec => []SlotsAreTheGaps
<1>1. CalendarInv /\ [ServicesNext]_serviceVars => CalendarInv'
  BY CalendarSteps
<1>2. CalendarInv => SlotsAreTheGaps
  BY HoldsTheGaps
<1> QED BY <1>1, <1>2, CalendarInitial, PTL DEF ServicesSpec, SlotsAreTheGaps, serviceVars

----------------------------------------------------------------------------
(* The event bus. *)

Published == [of : Publishers, number : Nat \ {0}]
Call == [handler : Nat, event : Published]
Publishing == [at : {"away", "local", "mirror"}, number : Nat, handler : Nat]
Consuming == [running : BOOLEAN, event : Published \cup {<<>>}, handler : Nat]

FanoutTypeOK ==
    /\ publisher \in [Publishers -> Publishing]
    /\ listening \subseteq Replicas
    /\ buffer \in [Replicas -> Seq(Published)]
    /\ consumer \in [Replicas -> Consuming]
    /\ handled \in [Replicas -> Seq(Call)]

(* A request has called its own handlers up to where it is, and no more.   *)
Reaches(p, n, h) == n < p.number \/ (n = p.number /\ (p.at # "local" \/ h < p.handler))

HomeInv(q, p, log) ==
    /\ p.at # "away" => p.number > 0
    /\ p.at = "local" => p.handler \in 1..HANDLERS
    /\ \A i \in DOMAIN log : log[i].event.of = q => Reaches(p, log[i].event.number, log[i].handler)
    /\ \A n \in 1..p.number, h \in 1..HANDLERS :
          Reaches(p, n, h) => \E i \in DOMAIN log : log[i] = [handler |-> h, event |-> Fanout!Event(q, n)]

(* A replica handles in order what it gets from others, all of it mirrored *)
(* by a request that had called its own handlers.                          *)
Mirrored(ps, e) ==
    LET p == ps[e.of] IN e.number < p.number \/ (e.number = p.number /\ p.at = "away")

InOrder(log) ==
    \A i, j \in DOMAIN log :
        i < j /\ log[i].handler = log[j].handler /\ log[i].event.of = log[j].event.of =>
            log[i].event.number < log[j].event.number

LogInv(ps, r, log) ==
    /\ \A i \in DOMAIN log : Home(log[i].event.of) # r => Mirrored(ps, log[i].event)
    /\ InOrder(log)

BufferInv(ps, r, log, held) ==
    /\ \A j \in DOMAIN held : Mirrored(ps, held[j])
    /\ \A j, k \in DOMAIN held : j < k /\ held[j].of = held[k].of => held[j].number < held[k].number
    /\ \A i \in DOMAIN log, j \in DOMAIN held :
          Home(held[j].of) # r /\ log[i].event.of = held[j].of => log[i].event.number < held[j].number

ConsumerInv(ps, r, log, held, c) ==
    c.event # <<>> =>
        /\ Home(c.event.of) # r
        /\ Mirrored(ps, c.event)
        /\ \A i \in DOMAIN log : log[i].event.of = c.event.of =>
              \/ log[i].event.number < c.event.number
              \/ log[i].event.number = c.event.number /\ log[i].handler < c.handler
        /\ \A j \in DOMAIN held : held[j].of = c.event.of => c.event.number < held[j].number

ReplicaInv(ps, r, log, held, c) ==
    LogInv(ps, r, log) /\ BufferInv(ps, r, log, held) /\ ConsumerInv(ps, r, log, held, c)

FanoutInv ==
    /\ FanoutTypeOK
    /\ \A q \in Publishers : HomeInv(q, publisher[q], handled[Home(q)])
    /\ \A r \in Replicas : ReplicaInv(publisher, r, handled[r], buffer[r], consumer[r])

----------------------------------------------------------------------------
LEMMA Appended ==
    ASSUME NEW S, NEW s \in Seq(S), NEW e \in S
    PROVE  /\ Append(s, e) \in Seq(S)
           /\ Len(s) \in Nat /\ DOMAIN s = 1..Len(s)
           /\ Len(Append(s, e)) = Len(s) + 1
           /\ DOMAIN Append(s, e) = 1..(Len(s) + 1)
           /\ Append(s, e)[Len(s) + 1] = e
           /\ \A i \in DOMAIN s : Append(s, e)[i] = s[i]
  BY SMT

LEMMA Taken ==
    ASSUME NEW S, NEW s \in Seq(S), s # <<>>
    PROVE  /\ 1 \in DOMAIN s /\ Head(s) = s[1] /\ Head(s) \in S
           /\ Tail(s) \in Seq(S)
           /\ \A i \in DOMAIN Tail(s) : i \in Nat /\ i > 0 /\ i + 1 \in DOMAIN s /\ Tail(s)[i] = s[i + 1]
  BY SMT

LEMMA Elements == \A S : \A s \in Seq(S) : \A i \in DOMAIN s : s[i] \in S
  BY SMT

LEMMA CallsAre == \A s \in Seq(Call) : \A i \in DOMAIN s :
                    s[i] \in Call /\ s[i].handler \in Nat /\ s[i].event \in Published
<1> SUFFICES ASSUME NEW s \in Seq(Call), NEW i \in DOMAIN s
             PROVE  s[i] \in Call /\ s[i].handler \in Nat /\ s[i].event \in Published
  OBVIOUS
<1>1. s[i] \in Call
  BY Elements
<1> QED BY <1>1 DEF Call

LEMMA EventsAre == \A e \in Published : e.of \in Publishers /\ e.number \in Nat /\ e.number > 0
  BY SMT DEF Published

LEMMA HomeIsReplica == \A q \in Publishers : Home(q) \in Replicas
  BY PlacementAssumption DEF Home

LEMMA NoEventIsNothing == \A e \in Published : e # <<>>
<1> SUFFICES ASSUME NEW e \in Published, e = <<>> PROVE FALSE
  OBVIOUS
<1>1. DOMAIN e = {"of", "number"}
  BY DEF Published
<1>2. DOMAIN <<>> = {}
  BY SMT
<1> QED BY <1>1, <1>2

LEMMA FanoutInitial == ServicesInit => FanoutInv
<1> SUFFICES ASSUME ServicesInit PROVE FanoutInv
  OBVIOUS
<1>1. PICK started \in SUBSET Replicas :
        /\ publisher = [q \in Publishers |-> [at |-> "away", number |-> 0, handler |-> 0]]
        /\ listening = started
        /\ buffer = [r \in Replicas |-> <<>>]
        /\ consumer = [r \in Replicas |-> [running |-> r \in started, event |-> <<>>, handler |-> 0]]
        /\ handled = [r \in Replicas |-> <<>>]
  BY DEF ServicesInit, Fanout!Init, Fanout!Nothing
<1>2. FanoutTypeOK
  BY <1>1, SMT DEF FanoutTypeOK, Publishing, Consuming
<1>3. ASSUME NEW q \in Publishers PROVE HomeInv(q, publisher[q], handled[Home(q)])
  BY <1>1, HomeIsReplica, SMT DEF HomeInv
<1>4. ASSUME NEW r \in Replicas 
      PROVE  ReplicaInv(publisher, r, handled[r], buffer[r], consumer[r])
  BY <1>1, SMT DEF ReplicaInv, LogInv, InOrder, BufferInv, ConsumerInv
<1> QED BY <1>2, <1>3, <1>4 DEF FanoutInv

(* What was mirrored stays so, and that is all a replica relies on.        *)
LEMMA StaysMirrored ==
    ASSUME NEW ps, NEW qs, NEW log \in Seq(Call), NEW held \in Seq(Published),
           NEW c \in Consuming, NEW r,
           \A e \in Published : Mirrored(ps, e) => Mirrored(qs, e),
           ReplicaInv(ps, r, log, held, c)
    PROVE  ReplicaInv(qs, r, log, held, c)
<1>1. c.event = <<>> \/ c.event \in Published
  BY DEF Consuming
<1>2. \A i \in DOMAIN log : log[i].event \in Published
  BY CallsAre
<1>3. \A j \in DOMAIN held : held[j] \in Published
  BY Elements
<1>4. LogInv(qs, r, log)
  BY <1>2 DEF ReplicaInv, LogInv
<1>5. BufferInv(qs, r, log, held)
  BY <1>3 DEF ReplicaInv, BufferInv
<1>6. ConsumerInv(qs, r, log, held, c)
  BY <1>1 DEF ReplicaInv, ConsumerInv
<1> QED BY <1>4, <1>5, <1>6 DEF ReplicaInv

LEMMA PublishInv ==
    ASSUME FanoutInv, NEW q \in Publishers, Fanout!Publish(q) PROVE FanoutInv'
<1> USE DEF Fanout!Publish
<1>1. publisher[q] \in Publishing /\ publisher' \in [Publishers -> Publishing]
  BY SMT DEF FanoutInv, FanoutTypeOK, Publishing
<1>2. FanoutTypeOK'
  BY <1>1 DEF FanoutInv, FanoutTypeOK
<1>3. UNCHANGED <<handled, buffer, consumer>>
  OBVIOUS
<1>4. ASSUME NEW p \in Publishers PROVE HomeInv(p, publisher'[p], handled[Home(p)])
  <2>1. CASE p # q
    BY <2>1 DEF FanoutInv, FanoutTypeOK
  <2>2. CASE p = q
    <3> DEFINE log == handled[Home(q)]
               to == publisher'[q]
    <3>1. /\ to.at = "local" /\ to.handler = 1 /\ to.number = publisher[q].number + 1
          /\ publisher[q].number \in Nat /\ publisher[q].at = "away"
      BY <1>1 DEF FanoutInv, FanoutTypeOK, Publishing
    <3>2. /\ \A n, h \in Nat : Reaches(publisher[q], n, h) => Reaches(to, n, h)
          /\ \A n, h \in Nat \ {0} : Reaches(to, n, h) =>
                Reaches(publisher[q], n, h) /\ n \in 1..publisher[q].number
      BY <3>1, SMT DEF Reaches
    <3>3. \A i \in DOMAIN log : log[i].event.number \in Nat /\ log[i].handler \in Nat
      <4>1. log \in Seq(Call)
        BY HomeIsReplica DEF FanoutInv, FanoutTypeOK
      <4> QED BY <4>1, CallsAre, EventsAre
    <3>4. 1 \in 1..HANDLERS /\ \A h \in 1..HANDLERS : h \in Nat \ {0}
      BY HandlersAssumption, SMT
    <3>5. to.number > 0 /\ \A n \in 1..to.number : n \in Nat \ {0}
      BY <3>1, SMT
    <3>6. HomeInv(q, publisher[q], log)
      BY DEF FanoutInv
    <3> HIDE DEF Fanout!Publish, to, log
    <3> QED
      BY <2>2, <3>1, <3>2, <3>3, <3>4, <3>5, <3>6 DEF HomeInv, to, log
  <2> QED BY <2>1, <2>2
<1>5. ASSUME NEW e \in Published, Mirrored(publisher, e) PROVE Mirrored(publisher', e)
  <2>1. CASE e.of # q
    BY <1>5, <2>1, EventsAre DEF FanoutInv, FanoutTypeOK, Mirrored
  <2>2. CASE e.of = q
    BY <1>1, <1>5, <2>2, EventsAre, SMT DEF FanoutInv, FanoutTypeOK, Publishing, Mirrored
  <2> QED BY <2>1, <2>2
<1>6. ASSUME NEW r \in Replicas PROVE ReplicaInv(publisher', r, handled[r], buffer[r], consumer[r])
  BY <1>5, StaysMirrored DEF FanoutInv, FanoutTypeOK
<1> QED BY <1>2, <1>3, <1>4, <1>6 DEF FanoutInv

(* A handler is called: its replica's log has one call more.               *)
LEMMA Called ==
    ASSUME FanoutTypeOK, NEW r \in Replicas, NEW h \in Nat, NEW e \in Published,
           Fanout!Call(r, h, e)
    PROVE  /\ handled' \in [Replicas -> Seq(Call)]
           /\ handled[r] \in Seq(Call) /\ [handler |-> h, event |-> e] \in Call
           /\ handled'[r] = Append(handled[r], [handler |-> h, event |-> e])
           /\ \A s \in Replicas : s # r => handled'[s] = handled[s]
<1> DEFINE c == [handler |-> h, event |-> e]
<1>1. handled \in [Replicas -> Seq(Call)] /\ handled[r] \in Seq(Call) /\ c \in Call
  BY DEF FanoutTypeOK, Call
<1>2. handled' = [handled EXCEPT ![r] = Append(handled[r], c)]
  BY DEF Fanout!Call
<1> HIDE DEF c
<1>3. Append(handled[r], c) \in Seq(Call)
  BY <1>1, Appended
<1> QED BY <1>1, <1>2, <1>3 DEF c

(* A log with a call that is behind those of its handler and request.      *)
LEMMA CallKeepsOrder ==
    ASSUME NEW log \in Seq(Call), InOrder(log), NEW c \in Call,
           \A i \in DOMAIN log : log[i].event.of = c.event.of /\ log[i].handler = c.handler =>
               log[i].event.number < c.event.number
    PROVE  InOrder(Append(log, c))
<1> DEFINE more == Append(log, c)
<1>1. /\ Len(log) \in Nat /\ DOMAIN log = 1..Len(log) /\ DOMAIN more = 1..(Len(log) + 1)
      /\ more[Len(log) + 1] = c /\ \A i \in DOMAIN log : more[i] = log[i]
  BY Appended
<1> HIDE DEF more
<1> SUFFICES ASSUME NEW i \in DOMAIN more, NEW j \in DOMAIN more, i < j,
                    more[i].handler = more[j].handler, more[i].event.of = more[j].event.of
             PROVE  more[i].event.number < more[j].event.number
  BY DEF InOrder, more
<1>2. i \in DOMAIN log /\ (j \in DOMAIN log \/ j = Len(log) + 1)
  BY <1>1, SMT
<1>3. CASE j \in DOMAIN log
  BY <1>1, <1>2, <1>3 DEF InOrder
<1>4. CASE j = Len(log) + 1
  BY <1>1, <1>2, <1>4
<1> QED BY <1>2, <1>3, <1>4

(* A handler of the publisher's own replica is called.                     *)
LEMMA DispatchInv ==
    ASSUME FanoutInv, NEW q \in Publishers, NEW raises \in BOOLEAN, Fanout!Dispatch(q, raises)
    PROVE  FanoutInv'
<1> DEFINE p == publisher[q]
           to == publisher'[q]
           r == Home(q)
           e == Fanout!Event(q, p.number)
           c == [handler |-> p.handler, event |-> e]
           log == handled[r]
           more == Append(log, c)
<1>1. /\ p.at = "local" /\ UNCHANGED <<listening, buffer, consumer>>
      /\ Fanout!Call(r, p.handler, e)
      /\ publisher' = IF p.handler = HANDLERS
                      THEN [publisher EXCEPT ![q].at = "mirror"]
                      ELSE [publisher EXCEPT ![q].handler = p.handler + 1]
  BY DEF Fanout!Dispatch
<1>2. /\ FanoutTypeOK /\ r \in Replicas /\ p \in Publishing /\ HomeInv(q, p, log)
      /\ ReplicaInv(publisher, r, log, buffer[r], consumer[r])
  BY HomeIsReplica DEF FanoutInv, FanoutTypeOK
<1>3. /\ p.number \in Nat /\ p.number > 0 /\ p.handler \in 1..HANDLERS
      /\ HANDLERS \in Nat /\ p.handler \in Nat
  BY <1>1, <1>2, HandlersAssumption, SMT DEF HomeInv, Publishing
<1>4. e \in Published /\ e.of = q /\ e.number = p.number
  BY <1>3 DEF Published, Fanout!Event
<1>5. /\ publisher' \in [Publishers -> Publishing]
      /\ to.number = p.number
      /\ \/ p.handler = HANDLERS /\ to.at = "mirror"
         \/ p.handler # HANDLERS /\ to.at = "local" /\ to.handler = p.handler + 1
      /\ \A x \in Publishers : x # q => publisher'[x] = publisher[x]
  <2>1. publisher \in [Publishers -> Publishing]
    BY <1>2 DEF FanoutTypeOK
  <2>2. CASE p.handler = HANDLERS
    BY <1>1, <2>1, <2>2, SMT DEF Publishing
  <2>3. CASE p.handler # HANDLERS
    BY <1>1, <1>3, <2>1, <2>3, SMT DEF Publishing
  <2> QED BY <2>2, <2>3
<1>6. \A x \in Published : Mirrored(publisher, x) => Mirrored(publisher', x)
  BY <1>1, <1>5, EventsAre DEF Mirrored
<1>7. /\ handled' \in [Replicas -> Seq(Call)] /\ log \in Seq(Call) /\ c \in Call
      /\ handled'[r] = more /\ \A s \in Replicas : s # r => handled'[s] = handled[s]
  BY <1>1, <1>2, <1>3, <1>4, Called
<1>8. FanoutTypeOK'
  BY <1>1, <1>2, <1>5, <1>7 DEF FanoutTypeOK
<1>9. /\ Len(log) \in Nat /\ DOMAIN log = 1..Len(log) /\ DOMAIN more = 1..(Len(log) + 1)
      /\ more[Len(log) + 1] = c /\ \A i \in DOMAIN log : more[i] = log[i]
      /\ \A i \in DOMAIN more : i \in DOMAIN log \/ i = Len(log) + 1
      /\ \A i \in DOMAIN log : i \in DOMAIN more
      /\ Len(log) + 1 \in DOMAIN more
  <2>1. /\ Len(log) \in Nat /\ DOMAIN log = 1..Len(log) /\ DOMAIN more = 1..(Len(log) + 1)
        /\ more[Len(log) + 1] = c /\ \A i \in DOMAIN log : more[i] = log[i]
    BY <1>7, Appended
  <2> QED BY <2>1, SMT
<1>10. c.handler = p.handler /\ c.event = e
  OBVIOUS
<1>11. \A i \in DOMAIN log : log[i].handler \in Nat /\ log[i].event \in Published
                          /\ log[i].event.number \in Nat
  BY <1>7, CallsAre, EventsAre
<1> HIDE DEF p, to, r, e, c, log, more
<1>12. /\ \A n, h \in Nat : Reaches(p, n, h) => Reaches(to, n, h)
       /\ Reaches(to, p.number, p.handler)
       /\ \A n, h \in Nat : h <= HANDLERS /\ Reaches(to, n, h) =>
             Reaches(p, n, h) \/ (n = p.number /\ h = p.handler)
  BY <1>1, <1>3, <1>5, SMT DEF Reaches
<1>13. HomeInv(q, to, more)
  <2>1. /\ to.at # "away" => to.number > 0
        /\ to.at = "local" => to.handler \in 1..HANDLERS
    BY <1>3, <1>5, SMT
  <2>2. ASSUME NEW i \in DOMAIN more, more[i].event.of = q
        PROVE  Reaches(to, more[i].event.number, more[i].handler)
    <3>1. CASE i \in DOMAIN log
      BY <1>2, <1>9, <1>11, <1>12, <2>2, <3>1 DEF HomeInv
    <3>2. CASE i = Len(log) + 1
      BY <1>4, <1>9, <1>10, <1>12, <3>2
    <3> QED BY <1>9, <3>1, <3>2
  <2>3. ASSUME NEW n \in 1..to.number, NEW h \in 1..HANDLERS, Reaches(to, n, h)
        PROVE  \E i \in DOMAIN more : more[i] = [handler |-> h, event |-> Fanout!Event(q, n)]
    <3>1. n \in Nat /\ h \in Nat /\ h <= HANDLERS /\ n \in 1..p.number
      BY <1>3, <1>5, SMT
    <3>2. CASE Reaches(p, n, h)
      <4>1. PICK i \in DOMAIN log : log[i] = [handler |-> h, event |-> Fanout!Event(q, n)]
        BY <1>2, <3>1, <3>2 DEF HomeInv
      <4> QED BY <1>9, <4>1
    <3>3. CASE n = p.number /\ h = p.handler
      BY <1>9, <3>3 DEF c, e
    <3> QED BY <1>12, <2>3, <3>1, <3>2, <3>3
  <2> QED BY <2>1, <2>2, <2>3 DEF HomeInv
<1>14. ASSUME NEW x \in Publishers, x # q PROVE HomeInv(x, publisher'[x], handled'[Home(x)])
  <2>1. HomeInv(x, publisher[x], handled[Home(x)]) /\ publisher'[x] = publisher[x] /\ Home(x) \in Replicas
    BY <1>5, <1>14, HomeIsReplica DEF FanoutInv
  <2>2. CASE Home(x) # r
    BY <1>7, <2>1, <2>2
  <2>3. CASE Home(x) = r
    <3>1. HomeInv(x, publisher[x], log)
      BY <2>1, <2>3 DEF log
    <3>2. \A i \in DOMAIN more : more[i].event.of = x => i \in DOMAIN log
      BY <1>4, <1>9, <1>10, <1>14
    <3>3. HomeInv(x, publisher[x], more)
      BY <1>9, <3>1, <3>2 DEF HomeInv
    <3> QED BY <1>7, <2>1, <2>3, <3>3
  <2> QED BY <2>2, <2>3
<1>15. ASSUME NEW s \in Replicas, s # r
       PROVE  ReplicaInv(publisher', s, handled'[s], buffer[s], consumer[s])
  <2>1. handled'[s] = handled[s] /\ handled[s] \in Seq(Call) /\ buffer[s] \in Seq(Published)
        /\ consumer[s] \in Consuming /\ ReplicaInv(publisher, s, handled[s], buffer[s], consumer[s])
    BY <1>2, <1>7, <1>15 DEF FanoutInv, FanoutTypeOK
  <2> QED BY <1>6, <2>1, StaysMirrored
<1>16. ReplicaInv(publisher', r, more, buffer[r], consumer[r])
  <2>1. buffer[r] \in Seq(Published) /\ consumer[r] \in Consuming
    BY <1>2 DEF FanoutTypeOK
  <2>2. ReplicaInv(publisher', r, log, buffer[r], consumer[r])
    BY <1>2, <1>6, <1>7, <2>1, StaysMirrored
  <2>3. Home(c.event.of) = r
    BY <1>4, <1>10 DEF r
  <2>4. InOrder(more)
    <3>1. ASSUME NEW i \in DOMAIN log, log[i].event.of = c.event.of, log[i].handler = c.handler
          PROVE  log[i].event.number < c.event.number
      <4>1. Reaches(p, log[i].event.number, p.handler)
        BY <1>2, <1>4, <1>10, <3>1 DEF HomeInv
      <4> QED BY <1>1, <1>3, <1>4, <1>10, <1>11, <4>1, SMT DEF Reaches
    <3> QED BY <1>7, <2>2, <3>1, CallKeepsOrder DEF more, ReplicaInv, LogInv
  <2>5. LogInv(publisher', r, more)
    BY <1>9, <2>2, <2>3, <2>4 DEF ReplicaInv, LogInv
  <2>6. BufferInv(publisher', r, more, buffer[r])
    BY <1>9, <2>2, <2>3 DEF ReplicaInv, BufferInv
  <2>7. ConsumerInv(publisher', r, more, buffer[r], consumer[r])
    BY <1>9, <2>2, <2>3 DEF ReplicaInv, ConsumerInv
  <2> QED BY <2>5, <2>6, <2>7 DEF ReplicaInv
<1>17. ASSUME NEW x \in Publishers PROVE HomeInv(x, publisher'[x], handled'[Home(x)])
  BY <1>7, <1>13, <1>14 DEF r, to
<1>18. ASSUME NEW s \in Replicas PROVE ReplicaInv(publisher', s, handled'[s], buffer[s], consumer[s])
  BY <1>7, <1>15, <1>16
<1> QED BY <1>1, <1>8, <1>17, <1>18 DEF FanoutInv

(* A request that has called its handlers mirrors, or fails to.            *)
LEMMA ReturnedInv ==
    ASSUME FanoutInv, NEW q \in Publishers, publisher[q].at = "mirror", Fanout!Returned(q)
    PROVE  /\ publisher' \in [Publishers -> Publishing]
           /\ \A x \in Publishers : x # q => publisher'[x] = publisher[x]
           /\ publisher'[q].at = "away" /\ publisher'[q].number = publisher[q].number
           /\ Fanout!Event(q, publisher[q].number) \in Published
           /\ \A e \in Published : Mirrored(publisher, e) => Mirrored(publisher', e)
           /\ Mirrored(publisher', Fanout!Event(q, publisher[q].number))
           /\ \A e \in Published : Mirrored(publisher, e) /\ e.of = q => e.number < publisher[q].number
           /\ \A x \in Publishers : HomeInv(x, publisher'[x], handled[Home(x)])
<1> DEFINE p == publisher[q]
           to == publisher'[q]
           e == Fanout!Event(q, p.number)
           log == handled[Home(q)]
<1>1. publisher \in [Publishers -> Publishing] /\ HomeInv(q, p, log)
  BY DEF FanoutInv, FanoutTypeOK
<1>2. publisher' = [publisher EXCEPT ![q].at = "away"]
  BY DEF Fanout!Returned
<1>3. /\ publisher' \in [Publishers -> Publishing]
      /\ \A x \in Publishers : x # q => publisher'[x] = publisher[x]
      /\ to.at = "away" /\ to.number = p.number /\ p.number \in Nat
  BY <1>1, <1>2, SMT DEF Publishing
<1>4. p.number > 0
  BY <1>1 DEF HomeInv
<1>5. e \in Published /\ e.of = q /\ e.number = p.number
  BY <1>3, <1>4, SMT DEF Published, Fanout!Event
<1>6. ASSUME NEW x \in Published PROVE Mirrored(publisher, x) => Mirrored(publisher', x)
  BY <1>3, EventsAre, SMT DEF Mirrored
<1>7. Mirrored(publisher', e)
  BY <1>3, <1>5 DEF Mirrored
<1>8. ASSUME NEW x \in Published, Mirrored(publisher, x), x.of = q PROVE x.number < p.number
  BY <1>8 DEF Mirrored
<1>9. HomeInv(q, to, log)
  BY <1>1, <1>3, <1>4 DEF HomeInv, Reaches
<1>10. ASSUME NEW x \in Publishers PROVE HomeInv(x, publisher'[x], handled[Home(x)])
  BY <1>3, <1>9 DEF FanoutInv
<1> QED BY <1>3, <1>5, <1>6, <1>7, <1>8, <1>10

LEMMA MirrorFailsInv ==
    ASSUME FanoutInv, NEW q \in Publishers, Fanout!MirrorFails(q) PROVE FanoutInv'
<1>1. /\ publisher[q].at = "mirror" /\ Fanout!Returned(q)
      /\ UNCHANGED <<listening, buffer, consumer, handled>>
  BY DEF Fanout!MirrorFails
<1>2. /\ publisher' \in [Publishers -> Publishing]
      /\ \A e \in Published : Mirrored(publisher, e) => Mirrored(publisher', e)
      /\ \A x \in Publishers : HomeInv(x, publisher'[x], handled[Home(x)])
  BY <1>1, ReturnedInv
<1>3. ASSUME NEW r \in Replicas PROVE ReplicaInv(publisher', r, handled[r], buffer[r], consumer[r])
  BY <1>2, StaysMirrored DEF FanoutInv, FanoutTypeOK
<1> QED BY <1>1, <1>2, <1>3 DEF FanoutInv, FanoutTypeOK

LEMMA MirrorInv ==
    ASSUME FanoutInv, NEW q \in Publishers, Fanout!Mirror(q) PROVE FanoutInv'
<1> DEFINE e == Fanout!Event(q, publisher[q].number)
<1>1. /\ publisher[q].at = "mirror" /\ Fanout!Returned(q) /\ UNCHANGED <<listening, consumer, handled>>
      /\ buffer' = [r \in Replicas |-> IF r \in listening THEN Append(buffer[r], e) ELSE buffer[r]]
  BY DEF Fanout!Mirror
<1>2. /\ publisher' \in [Publishers -> Publishing]
      /\ e \in Published
      /\ \A x \in Published : Mirrored(publisher, x) => Mirrored(publisher', x)
      /\ Mirrored(publisher', e)
      /\ \A x \in Published : Mirrored(publisher, x) /\ x.of = q => x.number < publisher[q].number
      /\ \A x \in Publishers : HomeInv(x, publisher'[x], handled[Home(x)])
  BY <1>1, ReturnedInv
<1>3. e.of = q /\ e.number = publisher[q].number
  BY DEF Fanout!Event
<1> HIDE DEF e
<1>4. ASSUME NEW r \in Replicas
      PROVE  /\ buffer'[r] \in Seq(Published)
             /\ ReplicaInv(publisher', r, handled[r], buffer'[r], consumer[r])
  <2> DEFINE held == buffer[r]
             more == Append(held, e)
             log == handled[r]
             c == consumer[r]
  <2>1. held \in Seq(Published) /\ log \in Seq(Call) /\ c \in Consuming
    BY DEF FanoutInv, FanoutTypeOK
  <2>2. ReplicaInv(publisher, r, log, held, c)
    BY DEF FanoutInv
  <2>3. ReplicaInv(publisher', r, log, held, c)
    BY <1>2, <2>1, <2>2, StaysMirrored
  <2>4. CASE r \notin listening
    BY <1>1, <2>1, <2>3, <2>4
  <2>5. CASE r \in listening
    <3>1. buffer'[r] = more
      BY <1>1, <2>5
    <3>2. /\ more \in Seq(Published) /\ Len(held) \in Nat /\ DOMAIN held = 1..Len(held)
          /\ DOMAIN more = 1..(Len(held) + 1) /\ more[Len(held) + 1] = e
          /\ \A j \in DOMAIN held : more[j] = held[j]
      BY <1>2, <2>1, Appended
    <3> HIDE DEF more
    <3>3. /\ \A j \in DOMAIN more : j \in DOMAIN held \/ j = Len(held) + 1
          /\ \A j, k \in DOMAIN more : j < k => j \in DOMAIN held
      BY <3>2, SMT
    <3>4. /\ \A i \in DOMAIN log : log[i].event \in Published
          /\ \A j \in DOMAIN held : held[j] \in Published
          /\ c.event = <<>> \/ c.event \in Published
      BY <2>1, CallsAre, Elements DEF Consuming
    <3>5. BufferInv(publisher', r, log, more)
      <4>1. ASSUME NEW j \in DOMAIN more PROVE Mirrored(publisher', more[j])
        BY <1>2, <2>3, <3>2, <3>3 DEF ReplicaInv, BufferInv
      <4>2. ASSUME NEW j \in DOMAIN more, NEW k \in DOMAIN more, j < k, more[j].of = more[k].of
            PROVE  more[j].number < more[k].number
        <5>1. j \in DOMAIN held /\ more[j] = held[j] /\ Mirrored(publisher, held[j]) /\ held[j] \in Published
          BY <2>2, <3>2, <3>3, <3>4, <4>2 DEF ReplicaInv, BufferInv
        <5>2. CASE k \in DOMAIN held
          BY <2>2, <3>2, <4>2, <5>1, <5>2 DEF ReplicaInv, BufferInv
        <5>3. CASE k = Len(held) + 1
          BY <1>2, <1>3, <3>2, <4>2, <5>1, <5>3
        <5> QED BY <3>3, <5>2, <5>3
      <4>3. ASSUME NEW i \in DOMAIN log, NEW j \in DOMAIN more,
                   Home(more[j].of) # r, log[i].event.of = more[j].of
            PROVE  log[i].event.number < more[j].number
        <5>1. CASE j \in DOMAIN held
          BY <2>2, <3>2, <4>3, <5>1 DEF ReplicaInv, BufferInv
        <5>2. CASE j = Len(held) + 1
          BY <1>2, <1>3, <2>2, <3>2, <3>4, <4>3, <5>2 DEF ReplicaInv, LogInv
        <5> QED BY <3>3, <5>1, <5>2
      <4> QED BY <4>1, <4>2, <4>3 DEF BufferInv
    <3>6. ConsumerInv(publisher', r, log, more, c)
      <4>1. ASSUME c.event # <<>>, NEW j \in DOMAIN more, more[j].of = c.event.of
            PROVE  c.event.number < more[j].number
        <5>1. CASE j \in DOMAIN held
          BY <2>2, <3>2, <4>1, <5>1 DEF ReplicaInv, ConsumerInv
        <5>2. CASE j = Len(held) + 1
          BY <1>2, <1>3, <2>2, <3>2, <3>4, <4>1, <5>2 DEF ReplicaInv, ConsumerInv
        <5> QED BY <3>3, <5>1, <5>2
      <4> QED BY <2>3, <4>1 DEF ReplicaInv, ConsumerInv
    <3> QED BY <2>3, <3>1, <3>2, <3>5, <3>6 DEF ReplicaInv
  <2> QED BY <2>4, <2>5
<1>5. FanoutTypeOK'
  <2>1. buffer' \in [Replicas -> Seq(Published)]
    BY <1>1, <1>4
  <2> QED BY <1>1, <1>2, <2>1 DEF FanoutInv, FanoutTypeOK
<1> QED BY <1>1, <1>2, <1>4, <1>5 DEF FanoutInv

(* What a replica keeps of a shorter or empty buffer.                      *)
LEMMA TailInv ==
    ASSUME NEW ps, NEW r, NEW log, NEW held \in Seq(Published), held # <<>>, NEW c,
           BufferInv(ps, r, log, held)
    PROVE  /\ BufferInv(ps, r, log, Tail(held))
           /\ ConsumerInv(ps, r, log, held, c) => ConsumerInv(ps, r, log, Tail(held), c)
           /\ \A j \in DOMAIN Tail(held) : Tail(held)[j].of = Head(held).of => Head(held).number < Tail(held)[j].number
<1> DEFINE rest == Tail(held)
<1>1. /\ 1 \in DOMAIN held /\ Head(held) = held[1]
      /\ \A j \in DOMAIN rest : j \in Nat /\ j > 0 /\ j + 1 \in DOMAIN held /\ rest[j] = held[j + 1]
  BY Taken
<1> HIDE DEF rest
<1>2. \A j \in DOMAIN rest : 1 < j + 1 /\ \A k \in DOMAIN rest : j < k => j + 1 < k + 1
  BY <1>1, SMT
<1>3. BufferInv(ps, r, log, rest)
  BY <1>1, <1>2 DEF BufferInv
<1>4. ConsumerInv(ps, r, log, held, c) => ConsumerInv(ps, r, log, rest, c)
  BY <1>1 DEF ConsumerInv
<1>5. ASSUME NEW j \in DOMAIN rest, rest[j].of = Head(held).of PROVE Head(held).number < rest[j].number
  BY <1>1, <1>2, <1>5 DEF BufferInv
<1> QED BY <1>3, <1>4, <1>5 DEF rest

LEMMA ReceiveInv ==
    ASSUME FanoutInv, NEW r \in Replicas, NEW decodes \in BOOLEAN, Fanout!Receive(r, decodes)
    PROVE  FanoutInv'
<1> DEFINE held == buffer[r]
           first == Head(held)
           log == handled[r]
<1>1. /\ consumer[r].event = <<>> /\ held # <<>>
      /\ buffer' = [buffer EXCEPT ![r] = Tail(held)]
      /\ \/ /\ Home(first.of) # r
            /\ consumer' = [consumer EXCEPT ![r].event = first, ![r].handler = 1]
         \/ consumer' = consumer
      /\ UNCHANGED <<publisher, listening, handled>>
  BY DEF Fanout!Receive, Fanout!Nothing, Fanout!Origin
<1>2. /\ FanoutTypeOK /\ held \in Seq(Published) /\ ReplicaInv(publisher, r, log, held, consumer[r])
  BY DEF FanoutInv, FanoutTypeOK
<1>3. /\ 1 \in DOMAIN held /\ first = held[1] /\ first \in Published /\ Tail(held) \in Seq(Published)
  BY <1>1, <1>2, Taken
<1>4. /\ buffer' \in [Replicas -> Seq(Published)] /\ buffer'[r] = Tail(held)
      /\ \A s \in Replicas : s # r => buffer'[s] = buffer[s]
  BY <1>1, <1>2, <1>3 DEF FanoutTypeOK
<1> HIDE DEF held, first
<1>5. /\ consumer' \in [Replicas -> Consuming]
      /\ \A s \in Replicas : s # r => consumer'[s] = consumer[s]
      /\ \/ Home(first.of) # r /\ consumer'[r].event = first
         \/ consumer'[r].event = <<>>
  <2>1. consumer \in [Replicas -> Consuming]
    BY <1>2 DEF FanoutTypeOK
  <2>2. CASE consumer' = [consumer EXCEPT ![r].event = first, ![r].handler = 1] /\ Home(first.of) # r
    BY <1>3, <2>1, <2>2 DEF Consuming
  <2>3. CASE consumer' = consumer
    BY <1>1, <2>1, <2>3
  <2> QED BY <1>1, <2>2, <2>3
<1>6. /\ BufferInv(publisher, r, log, Tail(held))
      /\ \A j \in DOMAIN Tail(held) : Tail(held)[j].of = first.of => first.number < Tail(held)[j].number
  BY <1>1, <1>2, TailInv DEF ReplicaInv, first
<1>7. ConsumerInv(publisher, r, log, Tail(held), consumer'[r])
  <2>1. CASE consumer'[r].event = <<>>
    BY <2>1 DEF ConsumerInv
  <2>2. CASE Home(first.of) # r /\ consumer'[r].event = first
    BY <1>2, <1>3, <1>6, <2>2 DEF ReplicaInv, BufferInv, ConsumerInv
  <2> QED BY <1>5, <2>1, <2>2
<1>8. ASSUME NEW s \in Replicas PROVE ReplicaInv(publisher, s, handled[s], buffer'[s], consumer'[s])
  <2>1. CASE s # r
    BY <1>4, <1>5, <2>1 DEF FanoutInv
  <2>2. CASE s = r
    BY <1>2, <1>4, <1>6, <1>7, <2>2 DEF ReplicaInv
  <2> QED BY <2>1, <2>2
<1> QED BY <1>1, <1>2, <1>4, <1>5, <1>8 DEF FanoutInv, FanoutTypeOK

(* A handler of another replica is called.                                 *)
LEMMA DeliverInv ==
    ASSUME FanoutInv, NEW r \in Replicas, Fanout!Deliver(r) PROVE FanoutInv'
<1> DEFINE old == consumer[r]
           new == consumer'[r]
           e == old.event
           c == [handler |-> old.handler, event |-> e]
           log == handled[r]
           more == Append(log, c)
           held == buffer[r]
<1>1. /\ e # <<>> /\ Fanout!Call(r, old.handler, e) /\ UNCHANGED <<publisher, listening, buffer>>
      /\ consumer' = IF old.handler = HANDLERS
                     THEN [consumer EXCEPT ![r].event = <<>>, ![r].handler = 0]
                     ELSE [consumer EXCEPT ![r].handler = old.handler + 1]
  BY DEF Fanout!Deliver, Fanout!Nothing
<1>2. /\ FanoutTypeOK /\ old \in Consuming /\ held \in Seq(Published)
      /\ ReplicaInv(publisher, r, log, held, old)
  BY DEF FanoutInv, FanoutTypeOK
<1>3. e \in Published /\ old.handler \in Nat
  BY <1>1, <1>2 DEF Consuming
<1>4. /\ handled' \in [Replicas -> Seq(Call)] /\ log \in Seq(Call) /\ c \in Call
      /\ handled'[r] = more /\ \A s \in Replicas : s # r => handled'[s] = handled[s]
  BY <1>1, <1>2, <1>3, Called
<1>5. c.handler = old.handler /\ c.event = e
  OBVIOUS
<1>6. /\ consumer' \in [Replicas -> Consuming]
      /\ \A s \in Replicas : s # r => consumer'[s] = consumer[s]
      /\ new.event = <<>> \/ (new.event = e /\ new.handler = old.handler + 1)
  <2>1. consumer \in [Replicas -> Consuming]
    BY <1>2 DEF FanoutTypeOK
  <2>2. CASE old.handler = HANDLERS
    BY <1>1, <2>1, <2>2 DEF Consuming
  <2>3. CASE old.handler # HANDLERS
    <3>1. old.handler + 1 \in Nat
      BY <1>3
    <3> QED BY <1>1, <2>1, <2>3, <3>1 DEF Consuming
  <2> QED BY <2>2, <2>3
<1>7. /\ Home(e.of) # r /\ Mirrored(publisher, e)
      /\ \A i \in DOMAIN log : log[i].event.of = e.of =>
            \/ log[i].event.number < e.number
            \/ log[i].event.number = e.number /\ log[i].handler < old.handler
      /\ \A j \in DOMAIN held : held[j].of = e.of => e.number < held[j].number
  BY <1>1, <1>2 DEF ReplicaInv, ConsumerInv
<1>8. /\ Len(log) \in Nat /\ DOMAIN log = 1..Len(log) /\ DOMAIN more = 1..(Len(log) + 1)
      /\ more[Len(log) + 1] = c /\ \A i \in DOMAIN log : more[i] = log[i]
      /\ \A i \in DOMAIN more : i \in DOMAIN log \/ i = Len(log) + 1
      /\ \A i \in DOMAIN log : i \in DOMAIN more
  <2>1. /\ Len(log) \in Nat /\ DOMAIN log = 1..Len(log) /\ DOMAIN more = 1..(Len(log) + 1)
        /\ more[Len(log) + 1] = c /\ \A i \in DOMAIN log : more[i] = log[i]
    BY <1>4, Appended
  <2> QED BY <2>1, SMT
<1>9. \A i \in DOMAIN log : log[i].handler \in Nat /\ log[i].event.number \in Nat
  BY <1>4, CallsAre, EventsAre
<1> HIDE DEF old, new, e, c, log, more, held
<1>10. InOrder(more)
  <2>1. ASSUME NEW i \in DOMAIN log, log[i].event.of = c.event.of, log[i].handler = c.handler
        PROVE  log[i].event.number < c.event.number
    BY <1>3, <1>5, <1>7, <1>9, <2>1, SMT
  <2> QED BY <1>2, <1>4, <2>1, CallKeepsOrder DEF more, ReplicaInv, LogInv
<1>11. LogInv(publisher, r, more)
  BY <1>2, <1>5, <1>7, <1>8, <1>10 DEF ReplicaInv, LogInv
<1>12. BufferInv(publisher, r, more, held)
  BY <1>2, <1>5, <1>7, <1>8 DEF ReplicaInv, BufferInv
<1>13. ConsumerInv(publisher, r, more, held, new)
  <2>1. CASE new.event = <<>>
    BY <2>1 DEF ConsumerInv
  <2>2. CASE new.event = e /\ new.handler = old.handler + 1
    <3>1. ASSUME NEW i \in DOMAIN more, more[i].event.of = e.of
          PROVE  \/ more[i].event.number < e.number
                 \/ more[i].event.number = e.number /\ more[i].handler < old.handler + 1
      <4>1. CASE i \in DOMAIN log
        BY <1>3, <1>7, <1>8, <1>9, <3>1, <4>1, SMT
      <4>2. CASE i = Len(log) + 1
        BY <1>3, <1>5, <1>8, <4>2, SMT
      <4> QED BY <1>8, <4>1, <4>2
    <3> QED BY <1>7, <2>2, <3>1 DEF ConsumerInv
  <2> QED BY <1>6, <2>1, <2>2
<1>14. ASSUME NEW s \in Replicas PROVE ReplicaInv(publisher, s, handled'[s], buffer[s], consumer'[s])
  <2>1. CASE s # r
    BY <1>4, <1>6, <2>1 DEF FanoutInv
  <2>2. CASE s = r
    BY <1>4, <1>11, <1>12, <1>13, <2>2 DEF ReplicaInv, held, new
  <2> QED BY <2>1, <2>2
<1>15. ASSUME NEW q \in Publishers PROVE HomeInv(q, publisher[q], handled'[Home(q)])
  <2>1. HomeInv(q, publisher[q], handled[Home(q)]) /\ Home(q) \in Replicas
    BY HomeIsReplica DEF FanoutInv
  <2>2. CASE Home(q) # r
    BY <1>4, <2>1, <2>2
  <2>3. CASE Home(q) = r
    <3>1. \A i \in DOMAIN more : more[i].event.of = q => i \in DOMAIN log
      BY <1>5, <1>7, <1>8, <2>3
    <3>2. HomeInv(q, publisher[q], log)
      BY <2>1, <2>3 DEF log
    <3> QED BY <1>4, <1>8, <2>3, <3>1, <3>2 DEF HomeInv
  <2> QED BY <2>2, <2>3
<1>16. FanoutTypeOK'
  BY <1>1, <1>2, <1>4, <1>6 DEF FanoutTypeOK
<1> QED BY <1>1, <1>14, <1>15, <1>16 DEF FanoutInv

LEMMA DisconnectInv ==
    ASSUME FanoutInv, NEW r \in Replicas, Fanout!Disconnect(r) PROVE FanoutInv'
<1>1. /\ UNCHANGED <<publisher, consumer, handled>> /\ listening' \subseteq listening
      /\ buffer' = [buffer EXCEPT ![r] = <<>>]
  BY DEF Fanout!Disconnect
<1>2. <<>> \in Seq(Published) /\ DOMAIN <<>> = {}
  BY SMT
<1>3. /\ buffer' \in [Replicas -> Seq(Published)] /\ DOMAIN buffer'[r] = {}
      /\ \A s \in Replicas : s # r => buffer'[s] = buffer[s]
  BY <1>1, <1>2 DEF FanoutInv, FanoutTypeOK
<1>4. ReplicaInv(publisher, r, handled[r], buffer'[r], consumer[r])
  BY <1>3 DEF FanoutInv, ReplicaInv, BufferInv, ConsumerInv
<1>5. ASSUME NEW s \in Replicas PROVE ReplicaInv(publisher, s, handled[s], buffer'[s], consumer[s])
  BY <1>3, <1>4 DEF FanoutInv
<1> QED BY <1>1, <1>3, <1>5 DEF FanoutInv, FanoutTypeOK

LEMMA FanoutStep == FanoutInv /\ [ServicesNext]_serviceVars => FanoutInv'
<1> SUFFICES ASSUME FanoutInv, [ServicesNext]_serviceVars
             PROVE  FanoutInv'
  OBVIOUS
<1>1. CASE UNCHANGED fanoutVars
  BY <1>1 DEF fanoutVars, FanoutInv, FanoutTypeOK
<1>2. CASE Fanout!Next
  <2>1. ASSUME NEW q \in Publishers, Fanout!Publish(q) PROVE FanoutInv'
    BY <2>1, PublishInv
  <2>2. ASSUME NEW q \in Publishers, NEW raises \in BOOLEAN, Fanout!Dispatch(q, raises) PROVE FanoutInv'
    BY <2>2, DispatchInv
  <2>3. ASSUME NEW q \in Publishers, Fanout!Mirror(q) \/ Fanout!MirrorFails(q) PROVE FanoutInv'
    BY <2>3, MirrorInv, MirrorFailsInv
  <2>4. ASSUME NEW r \in Replicas, NEW decodes \in BOOLEAN, Fanout!Receive(r, decodes) PROVE FanoutInv'
    BY <2>4, ReceiveInv
  <2>5. ASSUME NEW r \in Replicas, Fanout!Deliver(r) PROVE FanoutInv'
    BY <2>5, DeliverInv
  <2>6. ASSUME NEW r \in Replicas, Fanout!Disconnect(r) PROVE FanoutInv'
    BY <2>6, DisconnectInv
  <2>7. ASSUME NEW r \in Replicas, Fanout!Reconnect(r) PROVE FanoutInv'
    BY <2>7 DEF Fanout!Reconnect, FanoutInv, FanoutTypeOK
  <2> QED BY <1>2, <2>1, <2>2, <2>3, <2>4, <2>5, <2>6, <2>7 DEF Fanout!Next
<1>3. UNCHANGED fanoutVars \/ Fanout!Next
  BY DEF ServicesNext, serviceVars
<1> QED BY <1>1, <1>2, <1>3

(* On every replica a handler sees the events of a request in order and    *)
(* none twice, and not before every handler of the publisher's own replica *)
(* has run (EventBus.publish, RedisEventBus._mirror and _consume).         *)
THEOREM EventsComeInOrder == ServicesSpec => []LocalFirstInOrder
<1>1. FanoutInv => LocalFirstInOrder
  <2> SUFFICES ASSUME FanoutInv PROVE Fanout!LocalFirstInOrder
    BY DEF LocalFirstInOrder
  <2>1. ASSUME NEW r \in Replicas PROVE InOrder(handled[r])
    BY DEF FanoutInv, ReplicaInv, LogInv
  <2>2. ASSUME NEW q \in Publishers, NEW n \in 1..MaxPublished,
               Fanout!Returns(q, n) \/ \E r \in Replicas \ {Home(q)} : Fanout!Reached(r, Fanout!Event(q, n)),
               NEW h \in 1..HANDLERS
        PROVE  \E i \in DOMAIN handled[Home(q)] :
                   handled[Home(q)][i] = [handler |-> h, event |-> Fanout!Event(q, n)]
    <3>1. Fanout!Returns(q, n)
      <4>1. ASSUME NEW r \in Replicas \ {Home(q)}, Fanout!Reached(r, Fanout!Event(q, n))
            PROVE  Fanout!Returns(q, n)
        <5>1. PICK i \in DOMAIN handled[r] : handled[r][i].event = Fanout!Event(q, n)
          BY <4>1 DEF Fanout!Reached
        <5>2. Fanout!Event(q, n).of = q /\ Fanout!Event(q, n).number = n
          BY DEF Fanout!Event
        <5>3. Mirrored(publisher, Fanout!Event(q, n))
          BY <4>1, <5>1, <5>2 DEF FanoutInv, ReplicaInv, LogInv
        <5> QED BY <5>2, <5>3 DEF Mirrored, Fanout!Returns
      <4> QED BY <2>2, <4>1
    <3>2. publisher[q].number \in Nat /\ HomeInv(q, publisher[q], handled[Home(q)])
      BY DEF FanoutInv, FanoutTypeOK, Publishing
    <3>3. n \in 1..publisher[q].number /\ Reaches(publisher[q], n, h)
      BY <3>1, <3>2, SMT DEF Fanout!Returns, Reaches
    <3> QED BY <3>2, <3>3 DEF HomeInv
  <2> QED BY <2>1, <2>2 DEF Fanout!LocalFirstInOrder, InOrder
<1> QED BY <1>1, FanoutInitial, FanoutStep, PTL DEF ServicesSpec, serviceVars

----------------------------------------------------------------------------
(* Long-term memory. *)

(* Memory is an instance of LongTermMemory, and so is what LongTermMemoryProofs is about. *)
Mem == INSTANCE LongTermMemoryProofs WITH Requests <- Callers, TopK <- Matches

LEMMA SameInit == Memory!Init => Mem!Init
  BY DEF Memory!Init, Mem!Init, Memory!Idle, Mem!Idle

LEMMA SameNext == Memory!Next => Mem!Next
  BY DEF Memory!Next, Mem!Next, Memory!Idle, Mem!Idle, Memory!Remember, Mem!Remember, Memory!StartForget, Mem!StartForget, Memory!Index, Mem!Index, Memory!Commit, Mem!Commit,
 Memory!Match, Mem!Match, Memory!Hydrate, Mem!Hydrate, Memory!Answered, Mem!Answered, Memory!DeleteRow, Mem!DeleteRow, Memory!DeleteVector, Mem!DeleteVector, Memory!Lose, Mem!Lose,
 Memory!Forgotten, Mem!Forgotten, Memory!Remembering, Mem!Remembering, Memory!Cardinality, Mem!Cardinality, Memory!IsFiniteSet, Mem!IsFiniteSet

LEMMA SameVars == memoryVars = Mem!vars
  BY DEF memoryVars, Mem!vars

LEMMA MemoryStep == Mem!IInv /\ [ServicesNext]_serviceVars => Mem!IInv'
<1>1. [ServicesNext]_serviceVars => [Mem!Next]_(Mem!vars)
  BY SameNext, SameVars DEF ServicesNext, serviceVars, memoryVars, Mem!vars
<1> QED BY <1>1, Mem!StepIInv

(* A row that names a vector has it, and no recall answers with what was   *)
(* forgotten before it began (MemoryService.remember, recall, forget).     *)
THEOREM MemoriesGoByRows == ServicesSpec => []RowsDecideRecall
<1>1. ServicesInit => Mem!IInv
  BY SameInit, Mem!InitIInv DEF ServicesInit
<1>2. Mem!IInv => RowsDecideRecall
  BY DEF Mem!IInv, Mem!Named, Mem!Knows, Memory!RowsDecideRecall, RowsDecideRecall
<1> QED BY <1>1, <1>2, MemoryStep, PTL DEF ServicesSpec, serviceVars

----------------------------------------------------------------------------
(* A streamed question: its frames and records. *)

Retrieving == {"vector", "keyword", "fuse", "rerank", "compress", "refused"}
Calling == {"stream", "chat", "finish", "left"}
FrameTypes == {"sources", "delta", "done", "error"}
Sent(sources) == [type : FrameTypes, chunks : {<<>>, sources}]

(* The sources first, which are what the model saw, then its words.        *)
Begun(sent, sources) ==
    /\ sent # <<>>
    /\ sent[1].type = "sources" /\ sent[1].chunks = sources
    /\ \A i \in DOMAIN sent : i > 1 => sent[i].type = "delta"

Closed(sent, sources, how) ==
    /\ Len(sent) > 1
    /\ sent[1].type = "sources" /\ sent[1].chunks = sources
    /\ \A i \in DOMAIN sent : 1 < i /\ i < Len(sent) => sent[i].type = "delta"
    /\ sent[Len(sent)].type = how

(* The one record of a call, unless it could not be written.               *)
Recorded(error) == unsaved \/ records = <<[error |-> error]>>
Unrecorded == records = <<>> /\ ~unsaved

AnswerInv ==
    /\ frames \in Seq(Sent(kept))
    /\ unsaved \in BOOLEAN
    /\ at \in Retrieving \cup {"generate"} \cup Calling \cup {"done", "error"}
    /\ at \in Retrieving => frames = <<>> /\ calls = 0 /\ Unrecorded
    /\ at = "generate" => Begun(frames, kept) /\ kept # <<>> /\ calls = 0 /\ Unrecorded
    /\ at \in Calling => Begun(frames, kept) /\ kept # <<>> /\ calls = 1
    /\ at \in {"stream", "chat"} => Unrecorded
    /\ at = "finish" => Recorded(FALSE)
    /\ at = "done" =>
          \/ Closed(frames, <<>>, "done") /\ calls = 0 /\ Unrecorded
          \/ Closed(frames, kept, "done") /\ kept # <<>> /\ calls = 1 /\ Recorded(FALSE)
    /\ at = "error" => Closed(frames, kept, "error") /\ kept # <<>> /\ calls = 1 /\ Recorded(TRUE)

LEMMA AnswerInitial == ServicesInit => AnswerInv
<1> SUFFICES ASSUME ServicesInit PROVE AnswerInv
  OBVIOUS
<1>1. at = "vector" /\ frames = <<>> /\ calls = 0 /\ records = <<>> /\ unsaved = FALSE
  BY DEF ServicesInit, Answer!Init
<1>2. frames \in Seq(Sent(kept))
  BY <1>1, SMT
<1> QED BY <1>1, <1>2 DEF AnswerInv, Retrieving, Calling, Unrecorded

(* Nothing to answer from: three frames, and no call of the model.         *)
LEMMA NoContextCloses ==
    ASSUME Answer!NoContext
    PROVE  at' = "done" /\ frames' \in Seq(Sent(kept')) /\ Closed(frames', <<>>, "done")
<1>1. /\ frames' = <<[type |-> "sources", chunks |-> <<>>], [type |-> "delta", chunks |-> <<>>],
                    [type |-> "done", chunks |-> <<>>]>>
      /\ at' = "done"
  BY DEF Answer!NoContext, Answer!Frame
<1>2. frames' \in Seq(Sent(kept'))
  <2>1. \A t \in FrameTypes : [type |-> t, chunks |-> <<>>] \in Sent(kept')
    BY DEF Sent
  <2> QED BY <1>1, <2>1, SMT DEF FrameTypes
<1>3. Closed(frames', <<>>, "done")
  BY <1>1, SMT DEF Closed
<1> QED BY <1>1, <1>2, <1>3

(* One more word, or the last frame.                                       *)
LEMMA SendGoesOn ==
    ASSUME NEW sources, NEW sent \in Seq(Sent(sources)), Begun(sent, sources),
           NEW type \in FrameTypes, NEW more, more = Append(sent, [type |-> type, chunks |-> <<>>])
    PROVE  /\ more \in Seq(Sent(sources))
           /\ type = "delta" => Begun(more, sources)
           /\ Closed(more, sources, type)
<1>1. [type |-> type, chunks |-> <<>>] \in Sent(sources)
  BY DEF Sent
<1>2. /\ more \in Seq(Sent(sources))
      /\ Len(sent) \in Nat /\ DOMAIN sent = 1..Len(sent)
      /\ Len(more) = Len(sent) + 1 /\ DOMAIN more = 1..(Len(sent) + 1)
      /\ more[Len(sent) + 1].type = type
      /\ \A i \in DOMAIN sent : more[i] = sent[i]
  BY <1>1, Appended
<1>3. Len(sent) > 0
  BY SMT DEF Begun
<1>4. 1 \in DOMAIN sent /\ more # <<>>
  BY <1>2, <1>3, SMT
<1>5. \A i \in DOMAIN more : i < Len(more) => i \in DOMAIN sent
  BY <1>2, SMT
<1>6. \A i \in DOMAIN more : 1 < i /\ i < Len(more) => more[i].type = "delta"
  BY <1>2, <1>5 DEF Begun
<1>7. \A i \in DOMAIN more : i < Len(more) \/ i = Len(sent) + 1
  BY <1>2, SMT
<1>8. Closed(more, sources, type)
  BY <1>2, <1>3, <1>4, <1>6, SMT DEF Begun, Closed
<1>9. type = "delta" => Begun(more, sources)
  BY <1>2, <1>4, <1>6, <1>7 DEF Begun
<1> QED BY <1>2, <1>8, <1>9

(* A record is written, or it is known that it was not.                    *)
LEMMA RecordRecords ==
    ASSUME Unrecorded, unsaved \in BOOLEAN, NEW error \in BOOLEAN, Answer!Record(error)
    PROVE  Recorded(error)' /\ unsaved' \in BOOLEAN
<1>1. CASE records' = Append(records, [error |-> error]) /\ UNCHANGED unsaved
  BY <1>1, SMT DEF Unrecorded, Recorded
<1>2. CASE unsaved' = TRUE
  BY <1>2 DEF Recorded
<1> QED BY <1>1, <1>2 DEF Answer!Record

LEMMA AnswerNext == AnswerInv /\ Answer!Next => AnswerInv'
<1> SUFFICES ASSUME AnswerInv, Answer!Next PROVE AnswerInv'
  OBVIOUS
<1> USE DEF Retrieving, Calling
<1>1. ASSUME NEW ranking, Answer!VectorSearch(ranking) PROVE AnswerInv'
  BY <1>1 DEF Answer!VectorSearch, AnswerInv, Unrecorded
<1>2. ASSUME NEW ranking, Answer!KeywordSearch(ranking) PROVE AnswerInv'
  BY <1>2 DEF Answer!KeywordSearch, AnswerInv, Unrecorded
<1>3. CASE Answer!VectorFails
  BY <1>3 DEF Answer!VectorFails, AnswerInv, Unrecorded
<1>4. CASE Answer!Fuse
  <2>1. /\ at = "fuse" /\ UNCHANGED <<kept, calls, records, unsaved>>
        /\ Answer!NoContext \/ (at' = "rerank" /\ UNCHANGED frames)
    BY <1>4 DEF Answer!Fuse
  <2>2. CASE Answer!NoContext
    BY <2>1, <2>2, NoContextCloses DEF AnswerInv, Unrecorded
  <2>3. CASE at' = "rerank" /\ UNCHANGED frames
    BY <2>1, <2>3 DEF AnswerInv, Unrecorded
  <2> QED BY <2>1, <2>2, <2>3
<1>5. ASSUME NEW ranking, Answer!Rerank(ranking) PROVE AnswerInv'
  <2>1. /\ at = "rerank" /\ UNCHANGED <<kept, calls, records, unsaved>>
        /\ Answer!NoContext \/ (at' = "compress" /\ UNCHANGED frames)
    BY <1>5 DEF Answer!Rerank
  <2>2. CASE Answer!NoContext
    BY <2>1, <2>2, NoContextCloses DEF AnswerInv, Unrecorded
  <2>3. CASE at' = "compress" /\ UNCHANGED frames
    BY <2>1, <2>3 DEF AnswerInv, Unrecorded
  <2> QED BY <2>1, <2>2, <2>3
<1>6. ASSUME NEW selected, Answer!Compress(selected) PROVE AnswerInv'
  <2>1. /\ at = "compress" /\ UNCHANGED <<calls, records, unsaved>>
        /\ \/ Answer!NoContext
           \/ /\ kept' # <<>> /\ at' = "generate"
              /\ frames' = <<[type |-> "sources", chunks |-> kept']>>
    BY <1>6 DEF Answer!Compress, Answer!Frame
  <2>2. CASE Answer!NoContext
    BY <2>1, <2>2, NoContextCloses DEF AnswerInv, Unrecorded
  <2>3. CASE kept' # <<>> /\ at' = "generate" /\ frames' = <<[type |-> "sources", chunks |-> kept']>>
    <3>1. [type |-> "sources", chunks |-> kept'] \in Sent(kept')
      BY DEF Sent, FrameTypes
    <3>2. frames' \in Seq(Sent(kept')) /\ Begun(frames', kept')
      BY <2>3, <3>1, SMT DEF Begun
    <3> QED BY <2>1, <2>3, <3>2 DEF AnswerInv, Unrecorded
  <2> QED BY <2>1, <2>2, <2>3
<1>7. CASE Answer!Generate
  <2>1. /\ at = "generate" /\ at' \in {"stream", "chat"} /\ calls' = calls + 1 /\ calls = 0
        /\ UNCHANGED <<kept, frames, records, unsaved>>
    BY <1>7 DEF Answer!Generate, AnswerInv
  <2>2. calls' = 1
    BY <2>1
  <2> QED BY <2>1, <2>2 DEF AnswerInv, Unrecorded
<1>8. CASE Answer!ChatAnswers
  <2>1. /\ at = "chat" /\ at' = "finish" /\ Answer!Record(FALSE) /\ UNCHANGED <<kept, calls>>
        /\ UNCHANGED frames \/ frames' = Append(frames, [type |-> "delta", chunks |-> <<>>])
    BY <1>8 DEF Answer!ChatAnswers, Answer!Send, Answer!Frame
  <2>2. Recorded(FALSE)' /\ unsaved' \in BOOLEAN
    BY <2>1, RecordRecords DEF AnswerInv
  <2>3. Begun(frames', kept) /\ frames' \in Seq(Sent(kept))
    BY <2>1, SendGoesOn DEF AnswerInv, FrameTypes
  <2> QED BY <2>1, <2>2, <2>3 DEF AnswerInv
<1>9. CASE Answer!Delta
  <2>1. /\ at = "stream" /\ UNCHANGED <<at, kept, calls, records, unsaved>>
        /\ frames' = Append(frames, [type |-> "delta", chunks |-> <<>>])
    BY <1>9 DEF Answer!Delta, Answer!Send, Answer!Frame
  <2>2. Begun(frames', kept) /\ frames' \in Seq(Sent(kept))
    BY <2>1, SendGoesOn DEF AnswerInv, FrameTypes
  <2> QED BY <2>1, <2>2 DEF AnswerInv, Unrecorded
<1>10. CASE Answer!StreamEnds
  <2>1. at = "stream" /\ at' = "finish" /\ Answer!Record(FALSE) /\ UNCHANGED <<kept, calls, frames>>
    BY <1>10 DEF Answer!StreamEnds
  <2>2. Recorded(FALSE)' /\ unsaved' \in BOOLEAN
    BY <2>1, RecordRecords DEF AnswerInv
  <2> QED BY <2>1, <2>2 DEF AnswerInv
<1>11. CASE Answer!Finish
  <2>1. /\ at = "finish" /\ at' = "done" /\ UNCHANGED <<kept, calls, records, unsaved>>
        /\ frames' = Append(frames, [type |-> "done", chunks |-> <<>>])
    BY <1>11 DEF Answer!Finish, Answer!Send, Answer!Frame
  <2>2. Closed(frames', kept, "done") /\ frames' \in Seq(Sent(kept))
    BY <2>1, SendGoesOn DEF AnswerInv, FrameTypes
  <2> QED BY <2>1, <2>2 DEF AnswerInv, Recorded
<1>12. CASE Answer!ModelFails
  <2>1. /\ at \in {"stream", "chat"} /\ at' = "error" /\ Answer!Record(TRUE) /\ UNCHANGED <<kept, calls>>
        /\ frames' = Append(frames, [type |-> "error", chunks |-> <<>>])
    BY <1>12 DEF Answer!ModelFails, Answer!Send, Answer!Frame
  <2>2. Recorded(TRUE)' /\ unsaved' \in BOOLEAN
    BY <2>1, RecordRecords DEF AnswerInv
  <2>3. Closed(frames', kept, "error") /\ frames' \in Seq(Sent(kept))
    BY <2>1, SendGoesOn DEF AnswerInv, FrameTypes
  <2> QED BY <2>1, <2>2, <2>3 DEF AnswerInv
<1>13. CASE Answer!Leave
  <2>1. /\ at \in {"stream", "chat", "finish"} /\ at' = "left" /\ UNCHANGED <<kept, calls, frames>>
        /\ (at = "stream" /\ Answer!Record(FALSE)) \/ UNCHANGED unsaved
    BY <1>13 DEF Answer!Leave
  <2>2. unsaved' \in BOOLEAN
    BY <2>1, RecordRecords DEF AnswerInv
  <2> QED BY <2>1, <2>2 DEF AnswerInv
<1> QED
  BY <1>1, <1>2, <1>3, <1>4, <1>5, <1>6, <1>7, <1>8, <1>9, <1>10, <1>11, <1>12, <1>13 DEF Answer!Next

LEMMA AnswerStep == AnswerInv /\ [ServicesNext]_serviceVars => AnswerInv'
<1>1. AnswerInv /\ UNCHANGED answerVars => AnswerInv'
  BY DEF answerVars, AnswerInv, Unrecorded, Recorded
<1>2. [ServicesNext]_serviceVars => UNCHANGED answerVars \/ Answer!Next
  BY DEF ServicesNext, serviceVars
<1> QED BY <1>1, <1>2, AnswerNext

LEMMA AccountedFor == AnswerInv => AnswerAccounted
<1> SUFFICES ASSUME AnswerInv PROVE Answer!AnswerAccounted
  BY DEF AnswerAccounted
<1>1. /\ Len(frames) \in Nat /\ DOMAIN frames = 1..Len(frames)
      /\ \A i \in DOMAIN frames : frames[i].type \in FrameTypes
  <2>1. frames \in Seq(Sent(kept))
    BY DEF AnswerInv
  <2>2. \A i \in DOMAIN frames : frames[i] \in Sent(kept)
    BY <2>1, SMT
  <2> QED BY <2>1, <2>2, SMT DEF Sent
<1>2. CASE frames = <<>>
  BY <1>1, <1>2, SMT DEF AnswerInv, Answer!AnswerAccounted, Begun, Closed, Calling, Retrieving
<1>3. CASE Begun(frames, kept) /\ kept # <<>> /\ at \notin {"done", "error"}
  BY <1>1, <1>3, SMT DEF Answer!AnswerAccounted, Begun
<1>4. ASSUME NEW sources, NEW how \in {"done", "error"}, Closed(frames, sources, how), at = how,
             calls \in {0, 1}, calls = 1 => sources = kept /\ kept # <<>>,
             unsaved \/ records = (IF calls = 0 THEN <<>> ELSE <<[error |-> how = "error"]>>)
      PROVE  Answer!AnswerAccounted
  <2>1. \A i \in DOMAIN frames : i = 1 \/ (1 < i /\ i < Len(frames)) \/ i = Len(frames)
    BY <1>1, SMT
  <2>2. ASSUME NEW i \in DOMAIN frames
        PROVE  /\ frames[i].type = "sources" <=> i = 1
               /\ frames[i].type \in {"done", "error"} => i = Len(frames) /\ at = frames[i].type
    BY <1>1, <1>4, <2>1, SMT DEF Closed
  <2>3. Answer!Last(frames).type = at
    BY <1>4 DEF Closed, Answer!Last
  <2>4. calls > 0 => kept # <<>> /\ frames[1].chunks = kept
    BY <1>4 DEF Closed
  <2>5. ~unsaved => records = [n \in 1..calls |-> [error |-> at = "error"]]
    <3>1. CASE calls = 0
      BY <1>4, <3>1, SMT
    <3>2. CASE calls = 1
      BY <1>4, <3>2, SMT
    <3> QED BY <1>4, <3>1, <3>2
  <2> QED BY <2>2, <2>3, <2>4, <2>5 DEF Answer!AnswerAccounted
<1>5. CASE at = "done"
  <2>1. CASE Closed(frames, <<>>, "done") /\ calls = 0 /\ Unrecorded
    <3>1. unsaved \/ records = (IF calls = 0 THEN <<>> ELSE <<[error |-> FALSE]>>)
      BY <2>1 DEF Unrecorded
    <3>2. calls \in {0, 1} /\ calls # 1 /\ ("done" = "error") = FALSE
      BY <2>1
    <3> QED BY <1>4, <1>5, <2>1, <3>1, <3>2
  <2>2. CASE Closed(frames, kept, "done") /\ kept # <<>> /\ calls = 1 /\ Recorded(FALSE)
    <3>1. unsaved \/ records = (IF calls = 0 THEN <<>> ELSE <<[error |-> FALSE]>>)
      BY <2>2 DEF Recorded
    <3>2. calls \in {0, 1} /\ ("done" = "error") = FALSE
      BY <2>2
    <3> QED BY <1>4, <1>5, <2>2, <3>1, <3>2
  <2> QED BY <1>5, <2>1, <2>2 DEF AnswerInv
<1>6. CASE at = "error"
  <2>1. Closed(frames, kept, "error") /\ kept # <<>> /\ calls = 1 /\ Recorded(TRUE)
    BY <1>6 DEF AnswerInv
  <2>2. unsaved \/ records = (IF calls = 0 THEN <<>> ELSE <<[error |-> TRUE]>>)
    BY <2>1 DEF Recorded
  <2>3. calls \in {0, 1} /\ ("error" = "error") = TRUE
    BY <2>1
  <2> QED BY <1>4, <1>6, <2>1, <2>2, <2>3
<1> QED BY <1>2, <1>3, <1>5, <1>6 DEF AnswerInv

(* Frames come in order, the sources are what the model saw, and each call *)
(* of the model has its record (RagService.ask_stream, recorder._record).  *)
THEOREM AnswersAreAccountedFor == ServicesSpec => []AnswerAccounted
  BY AccountedFor, AnswerInitial, AnswerStep, PTL DEF ServicesSpec, serviceVars

----------------------------------------------------------------------------
(* A streamed question: the fusion of two rankings. *)

FusionInv ==
    /\ vector \in Answer!Rankings(Depth)
    /\ keyword \in Answer!Rankings(Depth)
    /\ at = "rerank" => candidates \in Answer!Fused

LEMMA FusionInitial == ServicesInit => FusionInv
<1> SUFFICES ASSUME ServicesInit PROVE FusionInv
  OBVIOUS
<1>1. at = "vector" /\ vector = <<>> /\ keyword = <<>>
  BY DEF ServicesInit, Answer!Init
<1>2. <<>> \in Answer!Rankings(Depth)
  <2>1. <<>> \in [1..0 -> Chunks]
    BY SMT
  <2>2. 0 \in 0..Depth
    BY ScaleAssumption, SMT
  <2>3. <<>> \in Answer!SeqOf(Chunks, Depth)
    BY <2>1, <2>2 DEF Answer!SeqOf
  <2>4. Answer!IsInjective(<<>>)
    BY SMT DEF Answer!IsInjective
  <2> QED BY <2>3, <2>4 DEF Answer!Rankings
<1> QED BY <1>1, <1>2 DEF FusionInv

LEMMA FusionNext == FusionInv /\ Answer!Next => FusionInv'
<1> SUFFICES ASSUME FusionInv, Answer!Next PROVE FusionInv'
  OBVIOUS
<1>1. ASSUME NEW ranking \in Answer!Rankings(Depth), Answer!VectorSearch(ranking) \/ Answer!KeywordSearch(ranking)
      PROVE  FusionInv'
  <2>1. vector' \in Answer!Rankings(Depth) /\ keyword' \in Answer!Rankings(Depth) /\ at' # "rerank"
    BY <1>1 DEF FusionInv, Answer!VectorSearch, Answer!KeywordSearch
  <2> QED BY <2>1 DEF FusionInv, Answer!Rankings
<1>2. CASE Answer!Fuse
  <2>1. UNCHANGED <<vector, keyword>> /\ candidates' \in Answer!Fused
    BY <1>2 DEF Answer!Fuse
  <2> QED BY <2>1 DEF FusionInv, Answer!Rankings, Answer!Fused, Answer!Better, Answer!Score, Answer!Weight
<1>3. CASE UNCHANGED <<vector, keyword>> /\ at' # "rerank"
  BY <1>3 DEF FusionInv, Answer!Rankings
<1>4. ASSUME NEW order, Answer!Rerank(order) PROVE UNCHANGED <<vector, keyword>> /\ at' # "rerank"
  BY <1>4 DEF Answer!Rerank, Answer!NoContext
<1>5. ASSUME NEW selected, Answer!Compress(selected) PROVE UNCHANGED <<vector, keyword>> /\ at' # "rerank"
  BY <1>5 DEF Answer!Compress, Answer!NoContext
<1>6. ASSUME \/ Answer!VectorFails \/ Answer!Generate \/ Answer!ChatAnswers \/ Answer!Delta
             \/ Answer!StreamEnds \/ Answer!Finish \/ Answer!ModelFails \/ Answer!Leave
      PROVE  UNCHANGED <<vector, keyword>> /\ at' # "rerank"
  BY <1>6 DEF Answer!VectorFails, Answer!Generate, Answer!ChatAnswers, Answer!Delta,
              Answer!StreamEnds, Answer!Finish, Answer!ModelFails, Answer!Leave
<1> QED BY <1>1, <1>2, <1>3, <1>4, <1>5, <1>6 DEF Answer!Next

LEMMA FusionStep == FusionInv /\ [ServicesNext]_serviceVars => FusionInv'
<1>1. FusionInv /\ UNCHANGED answerVars => FusionInv'
  BY DEF answerVars, FusionInv, Answer!Rankings, Answer!Fused, Answer!Better, Answer!Score, Answer!Weight
<1>2. [ServicesNext]_serviceVars => UNCHANGED answerVars \/ Answer!Next
  BY DEF ServicesNext, serviceVars
<1> QED BY <1>1, <1>2, FusionNext

(* In a sequence without repetitions an element has one place. *)
LEMMA RankIsThere ==
    ASSUME NEW S, NEW s \in Seq(S), NEW c \in Answer!ToSet(s)
    PROVE  Answer!Rank(s, c) \in 1..Len(s) /\ s[Answer!Rank(s, c)] = c
<1>1. \E i \in DOMAIN s : s[i] = c
  BY DEF Answer!ToSet
<1>2. DOMAIN s = 1..Len(s)
  BY SMT
<1> QED BY <1>1, <1>2 DEF Answer!Rank

LEMMA RankingsAre ==
    ASSUME NEW s \in Answer!Rankings(Depth)
    PROVE  s \in Seq(Chunks) /\ Len(s) \in 0..Depth
<1>1. PICK n \in 0..Depth : s \in [1..n -> Chunks]
  BY DEF Answer!Rankings, Answer!SeqOf
<1>2. n \in Nat
  BY <1>1, ScaleAssumption, SMT
<1> QED BY <1>1, <1>2, SMT

(* The weight of rank r is Scale / (60 + r), exactly. *)
LEMMA WeightOfRank ==
    ASSUME NEW s \in Answer!Rankings(Depth), NEW c
    PROVE  \/ c \notin Answer!ToSet(s) /\ Answer!Weight(s, c) = 0
           \/ /\ c \in Answer!ToSet(s)
              /\ \E r \in 1..Depth : /\ Answer!Weight(s, c) \in Nat
                                     /\ Answer!Weight(s, c) * (60 + r) = Scale
<1>1. s \in Seq(Chunks) /\ Len(s) \in 0..Depth
  BY RankingsAre
<1>2. Answer!Contains(s, c) <=> c \in Answer!ToSet(s)
  BY DEF Answer!Contains, Answer!ToSet
<1>3. CASE c \notin Answer!ToSet(s)
  BY <1>2, <1>3 DEF Answer!Weight
<1>4. CASE c \in Answer!ToSet(s)
  <2> DEFINE r == Answer!Rank(s, c)
  <2>1. r \in 1..Len(s)
    BY <1>1, <1>4, RankIsThere
  <2>2. r \in 1..Depth
    BY <1>1, <2>1, ScaleAssumption, SMT
  <2>3. Answer!Weight(s, c) = Scale \div (60 + r)
    BY <1>2, <1>4 DEF Answer!Weight
  <2> HIDE DEF r
  <2>4. Scale % (60 + r) = 0 /\ Scale \in Nat /\ 60 + r \in Nat \ {0}
    BY <2>2, ScaleAssumption, SMT
  <2>5. ASSUME NEW m \in Nat, NEW n \in Nat \ {0}, m % n = 0 PROVE (m \div n) * n = m /\ m \div n \in Nat
    BY <2>5, SMT
  <2>6. (Scale \div (60 + r)) * (60 + r) = Scale /\ Scale \div (60 + r) \in Nat
    BY <2>4, <2>5
  <2> QED BY <1>4, <2>2, <2>3, <2>6
<1> QED BY <1>3, <1>4

(* 2 / (60 + r) is more than 1 / 61 as long as r is at most 61. *)
LEMMA TwoBeatOne ==
    ASSUME NEW x \in Nat, NEW y \in Nat, NEW z \in Nat, NEW scale \in Nat \ {0},
           NEW i \in 1..61, NEW j \in 1..61, NEW k \in Nat \ {0},
           x * (60 + i) = scale, y * (60 + j) = scale, z * (60 + k) = scale
    PROVE  x + y > z
<1>1. ASSUME NEW m \in Nat, NEW n \in Nat, NEW l \in Nat, n <= l PROVE m * n <= m * l
  BY <1>1, SMT
<1>2. x * 121 >= scale
  <2>1. 60 + i \in Nat /\ 60 + i <= 121 /\ 121 \in Nat
    BY SMT
  <2> QED BY <1>1, <2>1
<1>3. y * 121 >= scale
  <2>1. 60 + j \in Nat /\ 60 + j <= 121 /\ 121 \in Nat
    BY SMT
  <2> QED BY <1>1, <2>1
<1>4. z * 61 <= scale
  <2>1. 60 + k \in Nat /\ 61 <= 60 + k /\ 61 \in Nat
    BY SMT
  <2> QED BY <1>1, <2>1
<1> QED BY <1>2, <1>3, <1>4, SMT

(* What scores more is ahead in any order by score. *)
LEMMA MoreIsAhead ==
    ASSUME FusionInv, at = "rerank",
           NEW c \in Answer!ToSet(candidates), NEW d \in Answer!ToSet(candidates),
           Answer!Score(c) \in Int, Answer!Score(d) \in Int, Answer!Score(c) > Answer!Score(d)
    PROVE  Answer!Ahead(c, d)
<1> DEFINE S == Answer!ToSet(vector) \cup Answer!ToSet(keyword)
           i == Answer!Rank(candidates, c)
           j == Answer!Rank(candidates, d)
<1>1. /\ candidates \in [1..Answer!Cardinality(S) -> S]
      /\ \A x, y \in DOMAIN candidates : x < y => Answer!Better(candidates[x], candidates[y])
  BY DEF FusionInv, Answer!Fused, Answer!SetToSeqs
<1>2. candidates[i] = c /\ candidates[j] = d /\ i \in DOMAIN candidates /\ j \in DOMAIN candidates
  BY DEF Answer!ToSet, Answer!Rank
<1> HIDE DEF i, j
<1>3. i \in Int /\ j \in Int /\ i # j
  BY <1>1, <1>2, SMT
<1>4. ~(j < i)
  <2> SUFFICES ASSUME j < i PROVE FALSE
    OBVIOUS
  <2>1. Answer!Better(d, c)
    BY <1>1, <1>2
  <2>2. Answer!Score(d) > Answer!Score(c) \/ Answer!Score(d) = Answer!Score(c)
    BY <2>1 DEF Answer!Better
  <2> QED BY <2>2, SMT
<1> QED BY <1>3, <1>4, SMT DEF Answer!Ahead, i, j

(* A retriever is asked for at most 61 candidates: the larger of the       *)
(* question's top_k, at most 20, and the setting rerank_candidates, 20     *)
(* unless somebody sets it (rag/schemas.py, core/config.py).               *)
Shallow == Depth <= 61

(* What both retrievers found is ahead of what only one did, and what both *)
(* prefer of what they prefer it to (reciprocal_rank_fusion, _fuse), as    *)
(* long as no ranking is so deep that two late places weigh less than one  *)
(* first place.                                                            *)
THEOREM AgreementIsAhead ==
    ASSUME Shallow PROVE ServicesSpec => []AgreementWins
<1>1. FusionInv => AgreementWins
  <2> SUFFICES ASSUME FusionInv, at = "rerank", NEW c \in Answer!ToSet(candidates), NEW d \in Answer!ToSet(candidates),
                      \/ Answer!Preferred(c, d)
                      \/ /\ c \in Answer!ToSet(vector) \cap Answer!ToSet(keyword)
                         /\ d \notin Answer!ToSet(vector) \cap Answer!ToSet(keyword)
               PROVE  Answer!Ahead(c, d)
    BY DEF AgreementWins, Answer!AgreementWins
  <2> DEFINE v(x) == Answer!Weight(vector, x)
             k(x) == Answer!Weight(keyword, x)
  <2>1. \A x : /\ \/ x \notin Answer!ToSet(vector) /\ v(x) = 0
                  \/ x \in Answer!ToSet(vector) /\ \E r \in 1..Depth : v(x) \in Nat /\ v(x) * (60 + r) = Scale
               /\ \/ x \notin Answer!ToSet(keyword) /\ k(x) = 0
                  \/ x \in Answer!ToSet(keyword) /\ \E r \in 1..Depth : k(x) \in Nat /\ k(x) * (60 + r) = Scale
    BY WeightOfRank DEF FusionInv
  <2>2. \A x : Answer!Score(x) = v(x) + k(x)
    BY DEF Answer!Score
  <2> HIDE DEF v, k
  <2>3. \A x : v(x) \in Nat /\ k(x) \in Nat
    BY <2>1
  <2>4. v(c) + k(c) > v(d) + k(d)
    <3>1. CASE Answer!Preferred(c, d)
      <4>1. v(c) >= v(d) /\ k(c) >= k(d) /\ (v(c) > v(d) \/ k(c) > k(d))
        BY <3>1 DEF Answer!Preferred, v, k
      <4> QED BY <2>3, <4>1, SMT
    <3>2. CASE /\ c \in Answer!ToSet(vector) \cap Answer!ToSet(keyword)
               /\ d \notin Answer!ToSet(vector) \cap Answer!ToSet(keyword)
      <4>1. PICK i \in 1..Depth, j \in 1..Depth : v(c) * (60 + i) = Scale /\ k(c) * (60 + j) = Scale
        BY <2>1, <3>2
      <4>2. i \in 1..61 /\ j \in 1..61 /\ Scale \in Nat \ {0}
        BY <4>1, ScaleAssumption, SMT DEF Shallow
      <4>3. ASSUME NEW z \in Nat, NEW r \in 1..Depth, z * (60 + r) = Scale PROVE v(c) + k(c) > z
        <5>1. r \in Nat \ {0}
          BY <4>3, SMT
        <5> QED BY <2>3, <4>1, <4>2, <4>3, <5>1, TwoBeatOne
      <4>4. v(c) + k(c) > 0
        <5>1. v(c) # 0
          BY <4>1, <4>2, SMT
        <5> QED BY <2>3, <5>1, SMT
      <4>5. CASE v(d) = 0 /\ k(d) = 0
        BY <4>4, <4>5
      <4>6. CASE v(d) = 0 /\ \E r \in 1..Depth : k(d) * (60 + r) = Scale
        <5>1. v(c) + k(c) > k(d)
          BY <2>3, <4>3, <4>6
        <5> QED BY <2>3, <4>6, <5>1, SMT
      <4>7. CASE k(d) = 0 /\ \E r \in 1..Depth : v(d) * (60 + r) = Scale
        <5>1. v(c) + k(c) > v(d)
          BY <2>3, <4>3, <4>7
        <5> QED BY <2>3, <4>7, <5>1, SMT
      <4> QED BY <2>1, <3>2, <4>5, <4>6, <4>7
    <3> QED BY <3>1, <3>2
  <2>5. Answer!Score(c) \in Int /\ Answer!Score(d) \in Int /\ Answer!Score(c) > Answer!Score(d)
    BY <2>2, <2>3, <2>4, SMT
  <2> QED BY <2>5, MoreIsAhead
<1> QED BY <1>1, FusionInitial, FusionStep, PTL DEF ServicesSpec, serviceVars
====
