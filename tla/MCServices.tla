---- MODULE MCServices ----
(***************************************************************************)
(* Small instances of the components that share nothing: "focus" is the    *)
(* one that runs, the others stay as they are, so the state space is the   *)
(* sum of theirs.  The chunker is extended, the others are instances.      *)
(***************************************************************************)
EXTENDS TextChunker

CONSTANTS Texts, Budgets,                    \* of ContextBudget
          Horizon, DAY,                     \* of LocalCalendar
          Entries, Callers, Matches,        \* of LongTermMemory
          Replicas, Publishers, HANDLERS,   \* of EventFanout
          Placement,                        \* pairs {request, the replica it runs on}
          Chunks, Depth, TopK, Scale,       \* of GroundedAnswer
          MaxRetrieved, MaxEvents, MaxPublished, MaxDeltas   \* bounds: chunks, events of the
                                            \* calendar and of a request, pieces of an answer

(* A chunk has text. *)
ASSUME TextsAssumption == \A t \in Texts : t.chars \in Nat \ {0}
ASSUME BudgetsAssumption == Budgets \subseteq Int

(* A day has hours. *)
ASSUME DayAssumption == DAY \in Nat \ {0} /\ Horizon \in Nat

(* Every request that publishes runs somewhere, and what it publishes has  *)
(* handlers.                                                               *)
ASSUME PlacementAssumption == \A q \in Publishers : \E r \in Replicas : {q, r} \in Placement
ASSUME HandlersAssumption == HANDLERS \in Nat \ {0}

(* A common multiple of the denominators.                                  *)
ASSUME ScaleAssumption ==
    /\ Chunks \subseteq Int /\ Depth \in Nat /\ Scale \in Nat \ {0}
    /\ \A rank \in 1..Depth : Scale % (60 + rank) = 0

VARIABLES focus,
          retrieved, budget, next, packed, used, duplicates, over_budget, truncated,
          events,
          row, vectors, born, request,
          publisher, listening, buffer, consumer, handled,
          at, vector, keyword, candidates, kept, frames, calls, records, unsaved

Text(chars, words) == [chars |-> chars, words |-> words]
Home(q) == CHOOSE r \in Replicas : {q, r} \in Placement

(* Texts on both sides of the limits of a budget of 40 tokens, alike by    *)
(* less than four fifths, by four fifths and entirely.                     *)
Passages == {Text(3, {6}), Text(100, {1, 2, 3, 4}), Text(140, {1, 2, 3, 4, 5}),
             Text(141, {5, 6}), Text(300, {1, 2, 3, 4, 5, 6})}
Limits == {0, 1, 40, 41, 80}
Budget == INSTANCE ContextBudget WITH
            MaxChunks <- MaxRetrieved, chunks <- retrieved, kept <- packed
Calendar == INSTANCE LocalCalendar
Memory == INSTANCE LongTermMemory WITH
            Requests <- Callers, TopK <- Matches
Fanout == INSTANCE EventFanout WITH
            Requests <- Publishers, HomeOf <- Home, MaxEvents <- MaxPublished
Answer == INSTANCE GroundedAnswer

(* The variables of each. *)
budgetVars == <<retrieved, budget, next, packed, used, duplicates, over_budget, truncated>>
calendarVars == <<events>>
memoryVars == <<row, vectors, born, request>>
fanoutVars == <<publisher, listening, buffer, consumer, handled>>
answerVars == <<at, vector, keyword, candidates, kept, frames, calls, records, unsaved>>

ChunkerIdle == /\ length = 0 /\ visible = {} /\ chunk_size = 1 /\ chunk_overlap = 0
               /\ start = 0 /\ chunks = <<>>
BudgetIdle == /\ retrieved = <<>> /\ budget = 0 /\ next = 1 /\ packed = <<>> /\ used = 0
              /\ duplicates = 0 /\ over_budget = 0 /\ truncated = FALSE

ServicesInit ==
    /\ focus \in {"chunker", "budget", "calendar", "memory", "fanout", "answer"}
    /\ IF focus = "chunker" THEN Init ELSE ChunkerIdle
    /\ IF focus = "budget" THEN Budget!Init ELSE BudgetIdle
    /\ Calendar!Init
    /\ Memory!Init
    /\ Fanout!Init
    /\ focus # "fanout" => listening = {}
    /\ Answer!Init

ServicesNext ==
    /\ UNCHANGED focus
    /\ \/ /\ focus = "chunker"
          /\ Next
          /\ UNCHANGED <<budgetVars, calendarVars, memoryVars, fanoutVars, answerVars>>
       \/ /\ focus = "budget"
          /\ Budget!Next
          /\ UNCHANGED <<vars, calendarVars, memoryVars, fanoutVars, answerVars>>
       \/ /\ focus = "calendar"
          /\ Calendar!Next
          /\ UNCHANGED <<vars, budgetVars, memoryVars, fanoutVars, answerVars>>
       \/ /\ focus = "memory"
          /\ Memory!Next
          /\ UNCHANGED <<vars, budgetVars, calendarVars, fanoutVars, answerVars>>
       \/ /\ focus = "fanout"
          /\ Fanout!Next
          /\ UNCHANGED <<vars, budgetVars, calendarVars, memoryVars, answerVars>>
       \/ /\ focus = "answer"
          /\ Answer!Next
          /\ UNCHANGED <<vars, budgetVars, calendarVars, memoryVars, fanoutVars>>

ServicesSpec ==
    ServicesInit /\ [][ServicesNext]_<<focus, vars, budgetVars, calendarVars, memoryVars,
                                       fanoutVars, answerVars>>

(* compress fills its budget, overruns it by one token at most, and passes *)
(* over only what repeats or does not fit.                                 *)
FilledToBudget == focus = "budget" => Budget!FilledToBudget
(* free_slots finds exactly the gaps of the working hours. *)
SlotsAreTheGaps == focus = "calendar" => Calendar!SlotsAreTheGaps
(* A row that names a vector has it, and no orphan vector brings back what *)
(* was forgotten.                                                          *)
RowsDecideRecall == focus = "memory" => Memory!RowsDecideRecall
(* The publisher's own handlers run first, and each handler sees a         *)
(* request's events in order and none twice.                               *)
LocalFirstInOrder == focus = "fanout" => Fanout!LocalFirstInOrder
(* Fusion puts what both retrievers found first. *)
AgreementWins == focus = "answer" => Answer!AgreementWins
(* Frames come in order, sources are what the model saw, and each model    *)
(* call has its record.                                                    *)
AnswerAccounted == focus = "answer" => Answer!AnswerAccounted
====
