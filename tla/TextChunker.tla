---- MODULE TextChunker ----
(***************************************************************************)
(* The sliding-window chunker (platform/rag/chunking.py): what of a text   *)
(* can be found again depends on it.                                       *)
(*                                                                         *)
(* Of a character only whether it is white space (a blank, a tab, a new    *)
(* line) matters, so a stripped text is its length and the set of          *)
(* positions that are visible.  The loop of split is one action; leaving   *)
(* the loop is start = length.                                             *)
(***************************************************************************)
EXTENDS Integers, Sequences

CONSTANTS MaxLength,    \* bound: characters of a text
          MaxSize       \* bound: chunk_size

VARIABLES length, visible, chunk_size, chunk_overlap, start, chunks

given == <<length, visible, chunk_size, chunk_overlap>>
vars == <<given, start, chunks>>

(* The constructor refuses any other size and overlap; strip leaves no     *)
(* white space at either end.                                              *)
Init == /\ chunk_size \in 1..MaxSize
        /\ chunk_overlap \in 0..(chunk_size - 1)
        /\ length \in 0..MaxLength
        /\ visible \in SUBSET (0..(length - 1))
        /\ length > 0 => {0, length - 1} \subseteq visible
        /\ start = 0
        /\ chunks = <<>>

----------------------------------------------------------------------------
Larger(a, b) == IF a > b THEN a ELSE b

(* The white space in the back half of the window up to "limit". *)
Breaks(limit) == {i \in (start + chunk_size \div 2 + 1)..(limit - 1) : i \notin visible}

(* A window ends at the end of the text, or else at the last white space   *)
(* of its back half, or else where it is full.                             *)
EndsAt(end) ==
    IF start + chunk_size >= length
    THEN end = length
    ELSE LET breaks == Breaks(start + chunk_size)
         IN  IF breaks = {} THEN end = start + chunk_size
                            ELSE end \in breaks /\ \A i \in breaks : i <= end

(* What strip leaves of a window: its positions between visible ones. *)
Piece(end) ==
    LET window == start..(end - 1)
    IN  {i \in window : \E j, k \in visible \cap window : j <= i /\ i <= k}

(* Mutant: the next window starts where this one ended. *)
SplitWithoutOverlap ==
    /\ start < length
    /\ \E end \in 1..length :
          /\ EndsAt(end)
          /\ chunks' = IF Piece(end) = {} THEN chunks ELSE Append(chunks, Piece(end))
          /\ start' = end
    /\ UNCHANGED given

(* One round of the loop. *)
Split ==
    /\ start < length
    /\ \E end \in 1..length :
          /\ EndsAt(end)
          /\ chunks' = IF Piece(end) = {} THEN chunks ELSE Append(chunks, Piece(end))
          /\ start' = IF end = length THEN length
                                      ELSE Larger(end - chunk_overlap, start + 1)
    /\ UNCHANGED given

Next == Split

Spec == Init /\ [][Next]_vars

----------------------------------------------------------------------------
(* Properties. *)

(* Chunks are pieces of the text no longer than chunk_size. *)
TypeOK ==
    /\ chunk_size \in 1..MaxSize /\ chunk_overlap \in 0..(chunk_size - 1)
    /\ length \in 0..MaxLength /\ visible \subseteq 0..(length - 1)
    /\ start \in 0..length
    /\ chunks \in Seq(SUBSET (0..(length - 1)))

(* A word, or any stretch of visible text, that is not longer than the     *)
(* overlap (or is one character).                                          *)
Stretch(a, b) ==
    /\ a <= b
    /\ a..b \subseteq visible
    /\ b - a < Larger(1, chunk_overlap)

Whole(a, b) == \E c \in DOMAIN chunks : a..b \subseteq chunks[c]

(* Nothing of the text is lost, and what the overlap is for: a stretch not *)
(* longer than it is whole in some chunk, wherever windows are cut.        *)
NothingLost ==
    start = length => \A a, b \in 0..(length - 1) : Stretch(a, b) => Whole(a, b)

(* The induction: only what starts at or after the next window may still   *)
(* be missing.                                                             *)
CoveredSoFar ==
    \A a, b \in 0..(length - 1) : Stretch(a, b) => start <= a \/ Whole(a, b)
====
