---- MODULE Conversations ----
(***************************************************************************)
(* A chat thread that several asks read and append to                      *)
(* (features/conversations, called by features/agents/router.py and        *)
(* features/approvals/service.py).                                         *)
(*                                                                         *)
(* An ask reads the recent turns, is answered much later, and only then    *)
(* appends its question and the reply.  It takes the next position in one  *)
(* statement and inserts at it in others; no constraint makes positions of *)
(* a thread unique, and messages of one position are read in any order.    *)
(***************************************************************************)
EXTENDS Integers, Sequences, SequencesExt, FiniteSets, FiniteSetsExt

CONSTANTS Asks,           \* asks in the thread
          HISTORY_LIMIT

VARIABLES created,        \* the thread's own row is committed
          thread,         \* committed messages: [ask, role, position]
          ask,            \* each ask: its place, the history it read, its position
          overlapped      \* history: two asks have appended at the same time

vars == <<created, thread, ask, overlapped>>

Idle == [at |-> "idle", history |-> <<>>, position |-> 0]

Init == /\ created = FALSE
        /\ thread = {}
        /\ ask = [a \in Asks |-> Idle]
        /\ overlapped = FALSE

Question(a, p) == [ask |-> a, role |-> "user", position |-> p]
Reply(a, p) == [ask |-> a, role |-> "assistant", position |-> p]

----------------------------------------------------------------------------
(* Every order the database may return the thread in. *)
Orders == {s \in SetToSeqs(thread) :
              \A i, j \in DOMAIN s : i < j => s[i].position <= s[j].position}

(* recent_messages: the newest first, a limited number, turned around.     *)
Recent(order) == LET n == Len(order) IN
                 SubSeq(order, (IF n > HISTORY_LIMIT THEN n - HISTORY_LIMIT ELSE 0) + 1, n)

(* resolve without an id: a new thread, committed before anything is asked. *)
CreateThread(a) ==
    /\ ask[a].at = "idle" /\ ~created
    /\ created' = TRUE
    /\ ask' = [ask EXCEPT ![a].at = "resolved"]
    /\ UNCHANGED <<thread, overlapped>>

(* resolve with the thread's id, which only its creation gave out. *)
FindThread(a) ==
    /\ ask[a].at = "idle" /\ created
    /\ ask' = [ask EXCEPT ![a].at = "resolved"]
    /\ UNCHANGED <<created, thread, overlapped>>

(* History is read before the run. *)
ReadHistory(a) ==
    /\ ask[a].at = "resolved"
    /\ \E order \in Orders :
          ask' = [ask EXCEPT ![a] = [Idle EXCEPT !.at = "answering", !.history = Recent(order)]]
    /\ UNCHANGED <<created, thread, overlapped>>

(* Mutant: the position of the last message. *)
LastPosition == Max({m.position : m \in thread} \cup {0})

(* next_position: one more than the largest, 0 for an empty thread. *)
NextPosition == Max({m.position : m \in thread} \cup {-1}) + 1

Appending == {a \in Asks : ask[a].at = "append"}

(* record_exchange, once there is an answer to record: by the ask itself,  *)
(* or by the reviewer's decision.  Once per ask: two overlapping decisions *)
(* record its exchange twice, which is AgentRuns' to show.                 *)
TakePosition(a) ==
    /\ ask[a].at = "answering"
    /\ ask' = [ask EXCEPT ![a].at = "append", ![a].position = NextPosition]
    /\ overlapped' = (overlapped \/ Appending # {})
    /\ UNCHANGED <<created, thread>>

(* Both messages are in one transaction. *)
AppendExchange(a) ==
    /\ ask[a].at = "append"
    /\ thread' = thread \cup {Question(a, ask[a].position), Reply(a, ask[a].position + 1)}
    /\ ask' = [ask EXCEPT ![a].at = "recorded"]
    /\ UNCHANGED <<created, overlapped>>

(* The run fails, or the request or the process is lost. *)
Lose(a) ==
    /\ ask[a].at \in {"resolved", "answering", "append"}
    /\ ask' = [ask EXCEPT ![a].at = "lost"]
    /\ UNCHANGED <<created, thread, overlapped>>

Next == \E a \in Asks : \/ CreateThread(a) \/ FindThread(a) \/ ReadHistory(a)
                        \/ TakePosition(a) \/ AppendExchange(a) \/ Lose(a)

Spec == Init /\ [][Next]_vars

----------------------------------------------------------------------------
(* Properties. *)

(* What an ask is given as history is a conversation: a reply never before *)
(* its question, whatever overlaps; and while asks append one at a time,   *)
(* whole exchanges only, each question directly followed by its reply and  *)
(* no position used twice, although the answers arrive in any order.       *)
(* Nothing recorded is missing from the thread.                            *)
HistoryIsAConversation ==
    /\ \A a \in Asks :
          LET h == ask[a].history IN
          /\ \A i, j \in DOMAIN h :
                h[i].ask = h[j].ask /\ h[i].role = "user" /\ h[j].role = "assistant" => i < j
          /\ ~overlapped =>
                \A i \in DOMAIN h : IF i % 2 = 1 THEN /\ h[i].role = "user"
                                                      /\ i < Len(h)
                                                      /\ h[i + 1] = Reply(h[i].ask, h[i].position + 1)
                                    ELSE h[i].role = "assistant"
    /\ ~overlapped => \A m, n \in thread : m.position = n.position => m = n
    /\ \A a \in Asks : Cardinality({m \in thread : m.ask = a}) = (IF ask[a].at = "recorded" THEN 2 ELSE 0)
====
