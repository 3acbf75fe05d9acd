---- MODULE Notifications ----
(***************************************************************************)
(* What users are told, by events and by the daily digest                  *)
(* (features/notifications, infrastructure/notifications,                  *)
(* features/scheduler).                                                    *)
(*                                                                         *)
(* A task is a handler of one event or one run of the digest job.  It asks *)
(* for each recipient whether notifications are wanted and where to, and   *)
(* then tries every channel in turn.  Events, the schedule and "run now"   *)
(* start tasks independently, and users read and change preferences        *)
(* between any two steps.                                                  *)
(***************************************************************************)
EXTENDS Naturals, Sequences, FiniteSets

CONSTANTS Tasks,          \* handlers and job runs
          Active,         \* how many users are active; a user is a place in their list
          Channels        \* the in-app channel first, then those configured

VARIABLES enabled,        \* the preference notifications_enabled
          paused,         \* the job has no next run
          task,           \* each task: its place and what it has done
          inbox           \* inbox[user]: the user's unread notification rows

vars == <<enabled, paused, task, inbox>>

Users == 1..Active
All == [user \in Users |-> user]

(* "log" is a history field: what became of each attempt to tell somebody. *)
Idle == [at |-> "idle", kind |-> "event", todo |-> <<>>, channel |-> 1, sent |-> 0, log |-> <<>>]

Init == /\ enabled = TRUE
        /\ paused = FALSE
        /\ task = [t \in Tasks |-> Idle]
        /\ inbox = [user \in Users |-> 0]

----------------------------------------------------------------------------
(* Tasks start. *)

Start(t, kind, recipients) ==
    /\ task[t].at = "idle"
    /\ task' = [task EXCEPT ![t] = [Idle EXCEPT !.at = "next", !.kind = kind, !.todo = recipients]]
    /\ UNCHANGED <<enabled, paused, inbox>>

(* on_approval_required, on_workflow_failed, on_document_indexed: the owner *)
(* of the run or document, if it still exists.                             *)
OnEvent(t) == \E owner \in {<<>>} \cup {<<user>> : user \in Users} : Start(t, "event", owner)

(* The schedule starts the job unless it is paused, and skips a run while  *)
(* one it started goes on.                                                 *)
Scheduled == {t \in Tasks : task[t].kind = "digest" /\ task[t].at \notin {"idle", "done", "raised"}}
RunOnSchedule(t) == ~paused /\ Scheduled = {} /\ Start(t, "digest", All)

(* run_job runs it whatever the schedule does. *)
RunNow(t) == Start(t, "digest by hand", All)

PauseJob == ~paused /\ paused' = TRUE /\ UNCHANGED <<enabled, task, inbox>>
ResumeJob == paused /\ paused' = FALSE /\ UNCHANGED <<enabled, task, inbox>>

----------------------------------------------------------------------------
(* Dispatch. *)

Goto(t, at) == task' = [task EXCEPT ![t].at = at]
Tried(t, channel) == [user |-> Head(task[t].todo), channel |-> channel]

(* dispatch has returned: the digest counts it, whatever became of it. *)
Told(t, entry) ==
    task' = [task EXCEPT ![t].at = "next", ![t].todo = Tail(@), ![t].channel = 1,
                         ![t].sent = @ + 1, ![t].log = Append(@, entry)]

(* DigestService.run: a user without activity is passed over. *)
SkipInactive(t) ==
    /\ task[t].at = "next"
    /\ task[t].todo # <<>>
    /\ task[t].kind # "event"
    /\ task' = [task EXCEPT ![t].todo = Tail(@)]
    /\ UNCHANGED <<enabled, paused, inbox>>

Dispatch(t) ==
    /\ task[t].at = "next"
    /\ task[t].todo # <<>>
    /\ Goto(t, "preference")
    /\ UNCHANGED <<enabled, paused, inbox>>

Finish(t) ==
    /\ task[t].at = "next"
    /\ task[t].todo = <<>>
    /\ Goto(t, "done")
    /\ UNCHANGED <<enabled, paused, inbox>>

(* A preference that cannot be read must not lose the alert. *)
ReadPreference(t) ==
    /\ task[t].at = "preference"
    /\ \E readable \in BOOLEAN :
          IF readable /\ ~enabled THEN Told(t, Tried(t, "none")) ELSE Goto(t, "recipient")
    /\ UNCHANGED <<enabled, paused, inbox>>

(* The address is read without a guard: an error ends the whole task, and  *)
(* the bus or the scheduler logs it.                                       *)
ResolveEmail(t) ==
    /\ task[t].at = "recipient"
    /\ \/ Goto(t, "send")
       \/ Told(t, Tried(t, "none"))
       \/ Goto(t, "raised")
    /\ UNCHANGED <<enabled, paused, inbox>>

(* Mutant: the first channel that fails ends the dispatch. *)
AttemptUntilError(t, channel, how) ==
    LET entry == Tried(t, channel)
    IN  /\ task[t].at = "send"
        /\ Channels[task[t].channel] = channel
        /\ IF task[t].channel = Len(Channels) \/ how = "failed" THEN Told(t, entry)
           ELSE task' = [task EXCEPT ![t].channel = @ + 1, ![t].log = Append(@, entry)]
        /\ UNCHANGED <<enabled, paused>>

(* One channel after another; one that raises is logged and passed.        *)
Attempt(t, channel, how) ==
    LET entry == Tried(t, channel)
    IN  /\ task[t].at = "send"
        /\ Channels[task[t].channel] = channel
        /\ IF task[t].channel = Len(Channels) THEN Told(t, entry)
           ELSE task' = [task EXCEPT ![t].channel = @ + 1, ![t].log = Append(@, entry)]
        /\ UNCHANGED <<enabled, paused>>

SendInApp(t, how) ==
    /\ Attempt(t, "in_app", how)
    /\ inbox' = IF how = "sent" THEN [inbox EXCEPT ![Head(task[t].todo)] = @ + 1] ELSE inbox

(* The server cannot be reached, wants a login or refuses the message; the *)
(* Bot API answers with an error status.                                   *)
SendBySmtp(t, how) == Attempt(t, "smtp", how) /\ UNCHANGED inbox
SendByTelegram(t, how) == Attempt(t, "telegram", how) /\ UNCHANGED inbox

----------------------------------------------------------------------------
(* Users. *)

SetPreference == enabled' = ~enabled /\ UNCHANGED <<paused, task, inbox>>

(* mark_read, by the row's owner. *)
MarkRead(user) ==
    /\ inbox[user] > 0
    /\ inbox' = [inbox EXCEPT ![user] = @ - 1]
    /\ UNCHANGED <<enabled, paused, task>>

(* mark_all_read: one UPDATE of the rows that are there. *)
MarkAllRead(user) ==
    /\ inbox' = [inbox EXCEPT ![user] = 0]
    /\ UNCHANGED <<enabled, paused, task>>

Next == \/ \E t \in Tasks : \/ OnEvent(t) \/ RunOnSchedule(t) \/ RunNow(t)
                            \/ SkipInactive(t) \/ Dispatch(t) \/ Finish(t)
                            \/ ReadPreference(t) \/ ResolveEmail(t)
                            \/ \E how \in {"sent", "failed"} :
                                  SendInApp(t, how) \/ SendBySmtp(t, how) \/ SendByTelegram(t, how)
        \/ PauseJob \/ ResumeJob \/ SetPreference
        \/ \E user \in Users : MarkRead(user) \/ MarkAllRead(user)

Spec == Init /\ [][Next]_vars

----------------------------------------------------------------------------
(* Properties. *)

Entries(t, user) == {k \in DOMAIN task[t].log : task[t].log[k].user = user}
Finished(t, user) == \A k \in DOMAIN task[t].todo : task[t].todo[k] # user

(* One alert, once per channel: whatever other tasks, preferences and      *)
(* failing channels do meanwhile, a user a task is done with was either    *)
(* not to be told at all, or was tried on every channel exactly once       *)
(* ("Provider failures are isolated per channel", dispatcher.py), the      *)
(* digest counts one dispatch for it, and the schedule never runs the job  *)
(* twice at a time.                                                        *)
EachChannelOnce ==
    /\ Cardinality(Scheduled) <= 1
    /\ \A t \in Tasks : \A user \in Users :
          LET mine == Entries(t, user)
              tried == {task[t].log[e].channel : e \in mine}
          IN  Finished(t, user) =>
                 /\ tried \in {{}, {"none"}, {Channels[c] : c \in DOMAIN Channels}}
                 /\ Cardinality(mine) = Cardinality(tried)
    /\ \A t \in Tasks : task[t].sent = Cardinality({task[t].log[e].user : e \in DOMAIN task[t].log})
                                       - (IF task[t].at = "send" /\ task[t].channel > 1 THEN 1 ELSE 0)
====
