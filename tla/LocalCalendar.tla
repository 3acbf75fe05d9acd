---- MODULE LocalCalendar ----
(***************************************************************************)
(* The platform's own calendar (infrastructure/calendar/local.py): events  *)
(* are created and deleted, and free_slots finds the gaps between them in  *)
(* each day's working hours.                                               *)
(*                                                                         *)
(* Time is counted in hours.  Rows with equal times are one event here:    *)
(* nothing that is computed from them tells them apart.                    *)
(***************************************************************************)
EXTENDS Integers, Sequences, FiniteSets, SequencesExt

CONSTANTS Horizon,      \* bound: the last hour
          DAY,          \* hours of a day
          MaxEvents     \* bound: events at a time

VARIABLE events         \* pairs <<starts_at, ends_at>>

vars == <<events>>

Times == 0..Horizon

Init == events = {}

----------------------------------------------------------------------------
(* create_event: "An event must end after it starts". *)
CreateEvent(starts_at, ends_at) ==
    /\ starts_at < ends_at
    /\ Cardinality(events) < MaxEvents
    /\ events' = events \cup {<<starts_at, ends_at>>}

(* delete_event is idempotent. *)
DeleteEvent(starts_at, ends_at) == events' = events \ {<<starts_at, ends_at>>}

Next == \E starts_at, ends_at \in Times :
            \/ CreateEvent(starts_at, ends_at)
            \/ DeleteEvent(starts_at, ends_at)

Spec == Init /\ [][Next]_vars

----------------------------------------------------------------------------
(* The search. *)

Later(a, b) == IF a > b THEN a ELSE b
Earlier(a, b) == IF a < b THEN a ELSE b

(* list_events: overlap, not containment. *)
Overlapping(start, end) == {e \in events : e[1] < end /\ e[2] > start}

(* sorted: by start, then by end. *)
Before(a, b) == a[1] < b[1] \/ (a[1] = b[1] /\ a[2] < b[2])
Ordered(intervals) ==
    CHOOSE s \in [1..Cardinality(intervals) -> intervals] :
        \A i, j \in DOMAIN s : i < j => Before(s[i], s[j])

(* Mutant: the end of the last interval is the end of the merged one. *)
JoinedToLast(merged, interval) ==
    IF merged # <<>> /\ interval[1] <= Last(merged)[2]
    THEN [merged EXCEPT ![Len(merged)] = <<@[1], interval[2]>>]
    ELSE Append(merged, interval)

(* One round of _merge: overlapping and touching intervals become one. *)
Joined(merged, interval) ==
    IF merged # <<>> /\ interval[1] <= Last(merged)[2]
    THEN [merged EXCEPT ![Len(merged)] = <<@[1], Later(@[2], interval[2])>>]
    ELSE Append(merged, interval)

Merge(intervals) ==
    LET ordered == Ordered(intervals)
        merged[k \in 0..Len(ordered)] == IF k = 0 THEN <<>> ELSE Joined(merged[k - 1], ordered[k])
    IN  merged[Len(ordered)]

(* _working_windows: a day's opening hours, clipped to the search. *)
WorkingWindow(day, start, end, open, close) ==
    <<Later(day * DAY + open, start), Earlier(day * DAY + close, end)>>

(* One round of the search of a window: a cursor moves past each busy      *)
(* interval in it.                                                         *)
Passed(search, interval, window, duration) ==
    IF interval[2] <= search.cursor \/ interval[1] >= window[2] THEN search
    ELSE [slots |-> IF interval[1] - search.cursor >= duration
                    THEN Append(search.slots, <<search.cursor, interval[1]>>)
                    ELSE search.slots,
          cursor |-> Later(search.cursor, interval[2])]

(* The gaps of one window. *)
WindowSlots(window, busy, duration) ==
    LET search[k \in 0..Len(busy)] ==
            IF k = 0 THEN [slots |-> <<>>, cursor |-> window[1]]
            ELSE Passed(search[k - 1], busy[k], window, duration)
        passed == search[Len(busy)]
    IN  IF window[2] - passed.cursor >= duration
        THEN Append(passed.slots, <<passed.cursor, window[2]>>)
        ELSE passed.slots

(* Day by day, where its window is not empty. *)
FreeSlots(start, end, duration, open, close) ==
    LET busy == Merge(Overlapping(start, end))
        first == start \div DAY
        days == end \div DAY - first + 1
        window(n) == WorkingWindow(first + n - 1, start, end, open, close)
        slots[n \in 0..days] ==
            IF n = 0 THEN <<>>
            ELSE slots[n - 1] \o (IF window(n)[1] < window(n)[2]
                                  THEN WindowSlots(window(n), busy, duration) ELSE <<>>)
    IN  slots[days]

----------------------------------------------------------------------------
(* Properties. *)

(* What a slot is, without the search: a run of free hours of one working  *)
(* day that cannot be extended and is long enough.                         *)
FreeHour(h) == ~\E e \in events : e[1] <= h /\ h < e[2]
WorkingHour(h, start, end, open, close) ==
    start <= h /\ h < end /\ open <= h % DAY /\ h % DAY < close

IsSlot(a, b, start, end, duration, open, close) ==
    LET Usable(h) == FreeHour(h) /\ WorkingHour(h, start, end, open, close)
        midnight(h) == h % DAY = 0
    IN  /\ b - a >= duration
        /\ \A h \in a..(b - 1) : Usable(h) /\ (h > a => ~midnight(h))
        /\ Usable(a - 1) => midnight(a)
        /\ Usable(b) => midnight(b)

(* Whatever the calendar holds, overlapping, nested, touching or straddling*)
(* a day's end, a search returns exactly the slots there are, in order.    *)
SlotsAreTheGaps ==
    \A start, end \in Times, duration \in 1..DAY, open, close \in 0..DAY :
        start < end /\ open < close =>
            LET slots == FreeSlots(start, end, duration, open, close)
            IN  /\ \A i \in 1..(Len(slots) - 1) : slots[i][2] <= slots[i + 1][1]
                /\ ToSet(slots) = {s \in Times \X Times :
                        IsSlot(s[1], s[2], start, end, duration, open, close)}
====
