---- MODULE ContextBudget ----
(***************************************************************************)
(* Context compression (platform/rag/compression.py): ranked chunks are    *)
(* fitted into a token budget, near duplicates left out and one chunk cut  *)
(* short if that is worth a citation.                                      *)
(*                                                                         *)
(* A chunk is its number of characters and its set of words.  The loop of  *)
(* compress takes one chunk per step; cutting a text, whose white space is *)
(* not modelled, chooses among the lengths and words the cut may leave.    *)
(***************************************************************************)
EXTENDS Integers, Sequences, FiniteSets, SequencesExt

CONSTANTS Texts,      \* chunks: records [chars, words]
          Budgets,    \* budget_tokens
          MaxChunks   \* bound: chunks retrieved

VARIABLES chunks, budget, next, kept, used, duplicates, over_budget, truncated

given == <<chunks, budget>>
vars == <<given, next, kept, used, duplicates, over_budget, truncated>>

(* A chunk that was kept: which one, and what is left of it. *)
Init == /\ chunks \in SeqOf(Texts, MaxChunks)
        /\ budget \in Budgets
        /\ next = 1
        /\ kept = <<>>
        /\ used = 0
        /\ duplicates = 0
        /\ over_budget = 0
        /\ truncated = FALSE

----------------------------------------------------------------------------
MIN_USEFUL_TAIL == 40

(* estimate_tokens, at 3.5 characters per token. *)
Tokens(chars) == IF chars = 0 THEN 0 ELSE (2 * chars) \div 7 + 1

(* _similarity reaches 0.8: the smaller set is four fifths in the other. *)
NearDuplicates(left, right) ==
    LET both == 5 * Cardinality(left \cap right)
    IN  /\ left # {} /\ right # {}
        /\ both >= 4 * Cardinality(left) \/ both >= 4 * Cardinality(right)

Covered(words) == \E k \in DOMAIN kept : NearDuplicates(words, kept[k].words)

Chunk == chunks[next]
Remaining == budget - used

(* _truncate_to_tokens: the text as it is if the limit does not cut it,    *)
(* else its beginning, up to the limit or to a blank in the back half of   *)
(* it, without blanks at the end, and the two characters that mark a cut.  *)
CutLengths(chars, limit) ==
    IF limit >= chars THEN {chars}
    ELSE {n + 2 : n \in {1, limit \div 2 + 1, limit}}

Keep(chars, words) ==
    /\ kept' = Append(kept, [of |-> next, chars |-> chars, words |-> words])
    /\ used' = used + Tokens(chars)

(* No usable budget: every chunk is dropped. *)
Refuse ==
    /\ budget <= 0
    /\ next = 1
    /\ next' = Len(chunks) + 1
    /\ over_budget' = Len(chunks)
    /\ UNCHANGED <<given, kept, used, duplicates, truncated>>

Turn == budget > 0 /\ next <= Len(chunks) /\ next' = next + 1 /\ UNCHANGED given

SkipDuplicate ==
    /\ Turn
    /\ Covered(Chunk.words)
    /\ duplicates' = duplicates + 1
    /\ UNCHANGED <<kept, used, over_budget, truncated>>

(* Mutant: a chunk is held against the whole budget. *)
TakeWholeAnyway ==
    /\ Turn
    /\ ~Covered(Chunk.words)
    /\ Tokens(Chunk.chars) <= budget
    /\ Keep(Chunk.chars, Chunk.words)
    /\ UNCHANGED <<duplicates, over_budget, truncated>>

TakeWhole ==
    /\ Turn
    /\ ~Covered(Chunk.words)
    /\ Tokens(Chunk.chars) <= Remaining
    /\ Keep(Chunk.chars, Chunk.words)
    /\ UNCHANGED <<duplicates, over_budget, truncated>>

Overflows ==
    /\ Turn
    /\ ~Covered(Chunk.words)
    /\ Tokens(Chunk.chars) > Remaining

TakeShortened ==
    /\ Overflows
    /\ Remaining >= MIN_USEFUL_TAIL
    /\ ~truncated
    /\ \E chars \in CutLengths(Chunk.chars, (7 * Remaining) \div 2), words \in SUBSET Chunk.words :
          Keep(chars, words)
    /\ truncated' = TRUE
    /\ UNCHANGED <<duplicates, over_budget>>

(* "a later chunk may be small enough to fit" *)
Drop ==
    /\ Overflows
    /\ Remaining < MIN_USEFUL_TAIL \/ truncated
    /\ over_budget' = over_budget + 1
    /\ UNCHANGED <<kept, used, duplicates, truncated>>

Next == Refuse \/ SkipDuplicate \/ TakeWhole \/ TakeShortened \/ Drop

Spec == Init /\ [][Next]_vars

----------------------------------------------------------------------------
(* Properties. *)

Kept(i) == \E k \in DOMAIN kept : kept[k].of = i

(* The tokens of the kept chunks, from the first on. *)
Cost ==
    LET upto[k \in 0..Len(kept)] == IF k = 0 THEN 0 ELSE upto[k - 1] + Tokens(kept[k].chars)
    IN  upto[Len(kept)]

(* The budget is used up and not overrun: what is used is what the kept    *)
(* chunks cost, at most one token over the budget (the mark of a cut, or a *)
(* text of exactly the limit, is not counted when the cut is made), and a  *)
(* chunk that was passed over repeats a kept one or would not fit in what  *)
(* is left.  The counts of what was dropped account for the rest.          *)
FilledToBudget ==
    /\ used = Cost
    /\ used <= (IF budget > 0 THEN budget ELSE -1) + 1
    /\ \A i \in 1..(next - 1) :
          Kept(i) \/ Covered(chunks[i].words) \/ Tokens(chunks[i].chars) > Remaining
    /\ Len(kept) + duplicates + over_budget = next - 1
====
