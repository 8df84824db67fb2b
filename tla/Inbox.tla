------------------------------- MODULE Inbox -------------------------------
(***************************************************************************)
(* The notifications of one user: rows written with what they tell of      *)
(* (packages/core/src/notifications/notify.ts), marked read in any of his  *)
(* tabs, and one tab that shows them and is told by an event stream when   *)
(* to ask again (apps/web/src/app/api/notifications/stream/route.ts,       *)
(* lib/query/use-notification-stream.ts).                                  *)
(*                                                                         *)
(* What is abstracted.  Notifications are numbered as they are created;    *)
(* the transactions they are part of commit in any order.  Of the stream   *)
(* there is the cursor it compares, read by two queries at once.           *)
(***************************************************************************)
EXTENDS Naturals, Integers, FiniteSets, FiniteSetsExt

CONSTANTS
    MaxItems,       \* bound: notifications
    MaxStreams      \* bound: connections of the stream

ASSUME InboxAssumption == MaxItems \in Nat /\ MaxStreams \in Nat

VARIABLES
    item,       \* per notification: how far it is
    created,    \* how many were created
    stream,     \* "down", "asking" (its first cursor), "open"
    probe,      \* what a tick has read so far
    last,       \* the cursor that was sent last; its unread count is the badge
    list,       \* the notifications the tab shows
    due,        \* has the tab been told to ask again?
    fresh,      \* history: has a tick read the rows as they are?
    late,       \* history: a notification came after a newer one, during this stream
    torn,       \* history: the last cursor sent never was the cursor of the rows
    streams     \* connections so far

inboxRows == <<item, created>>
streamVars == <<stream, probe, last, torn, streams>>
tabVars == <<list, due>>
inboxVars == <<inboxRows, streamVars, tabVars, fresh, late>>

-----------------------------------------------------------------------------
Items == 1..MaxItems
Visible(rows) == {n \in Items : rows[n] \in {"unread", "read"}}
LatestItem(rows) == Max({0} \cup Visible(rows))
Unread(rows) == Cardinality({n \in Items : rows[n] = "unread"})

\* What listNotifications answers.
Listed(rows) == [n \in Items |-> IF n \in Visible(rows) THEN rows[n] ELSE "none"]

NotRead == -1
NothingSent == [latest |-> 0, unread |-> NotRead]
NoProbe == [latest |-> NotRead, unread |-> NotRead, torn |-> FALSE, old |-> FALSE]

InboxTypeOK ==
    /\ item \in [Items -> {"none", "writing", "undone", "unread", "read"}]
    /\ created \in 0..MaxItems /\ \A n \in Items : item[n] = "none" <=> n > created
    /\ stream \in {"down", "asking", "open"} /\ streams \in 0..MaxStreams
    /\ probe \in [latest : {NotRead} \cup 0..MaxItems, unread : {NotRead} \cup 0..MaxItems,
                  torn : BOOLEAN, old : BOOLEAN]
    /\ stream = "down" => probe = NoProbe
    /\ last \in [latest : 0..MaxItems, unread : {NotRead} \cup 0..MaxItems]
    /\ list \in [Items -> {"none", "unread", "read"}]
    /\ due \in BOOLEAN /\ fresh \in BOOLEAN /\ late \in BOOLEAN /\ torn \in BOOLEAN

\* A tab loads its list, and opens its stream.
InboxInit ==
    /\ item = [n \in Items |-> "none"] /\ created = 0
    /\ stream = "down" /\ probe = NoProbe /\ last = NothingSent /\ torn = FALSE /\ streams = 0
    /\ list = [n \in Items |-> "none"] /\ due = TRUE
    /\ fresh = FALSE /\ late = FALSE

-----------------------------------------------------------------------------
\* The rows change: what a tick has read of them is old, and one that has read one
\* half of its cursor reads the other from different rows.
Halfway == (probe.latest = NotRead) # (probe.unread = NotRead)
Begun == probe.latest # NotRead \/ probe.unread # NotRead
Disturbed ==
    /\ probe' = [probe EXCEPT !.torn = @ \/ Halfway, !.old = @ \/ Begun]
    /\ fresh' = FALSE

\* createNotification, in the transaction of a mention, a review or a decision.
CreateNotification ==
    /\ created < MaxItems
    /\ created' = created + 1
    /\ item' = [item EXCEPT ![created + 1] = "writing"]
    /\ UNCHANGED <<streamVars, tabVars, fresh, late>>

Commit(n) ==
    /\ item[n] = "writing"
    /\ item' = [item EXCEPT ![n] = "unread"]
    /\ late' = (late \/ n < LatestItem(item))
    /\ Disturbed
    /\ UNCHANGED <<created, stream, last, torn, streams, tabVars>>

Rollback(n) ==
    /\ item[n] = "writing"
    /\ item' = [item EXCEPT ![n] = "undone"]
    /\ UNCHANGED <<created, streamVars, tabVars, fresh, late>>

\* markNotificationRead, markAllNotificationsRead: this tab then asks again, another
\* one of the user's leaves it to the stream.
MarkRead(S) ==
    /\ S # {} /\ \A n \in S : item[n] = "unread"
    /\ item' = [n \in Items |-> IF n \in S THEN "read" ELSE item[n]]
    /\ due' \in {due, TRUE}
    /\ Disturbed
    /\ UNCHANGED <<created, stream, last, torn, streams, list, late>>

-----------------------------------------------------------------------------
\* A stream knows of nothing it has sent.
Connect ==
    /\ stream = "down"
    /\ streams < MaxStreams /\ streams' = streams + 1
    /\ stream' = "asking" /\ last' = NothingSent
    /\ late' = FALSE /\ torn' = FALSE /\ fresh' = FALSE
    /\ UNCHANGED <<inboxRows, probe, tabVars>>

\* The browser connects again.
Disconnect ==
    /\ stream # "down"
    /\ stream' = "down" /\ probe' = NoProbe
    /\ UNCHANGED <<inboxRows, last, torn, streams, tabVars, fresh, late>>

ReadLatest ==
    /\ stream # "down" /\ probe.latest = NotRead
    /\ probe' = [probe EXCEPT !.latest = LatestItem(item)]
    /\ UNCHANGED <<inboxRows, stream, last, torn, streams, tabVars, fresh, late>>

ReadUnread ==
    /\ stream # "down" /\ probe.unread = NotRead
    /\ probe' = [probe EXCEPT !.unread = Unread(item)]
    /\ UNCHANGED <<inboxRows, stream, last, torn, streams, tabVars, fresh, late>>

ProbeDone == stream # "down" /\ NotRead \notin {probe.latest, probe.unread}

\* Fault: only a new notification is an event.
TickLatest ==
    /\ ProbeDone
    /\ IF probe.latest # last.latest
       THEN /\ last' = [latest |-> probe.latest, unread |-> probe.unread]
            /\ torn' = probe.torn /\ due' = TRUE
       ELSE UNCHANGED <<last, torn, due>>
    /\ probe' = NoProbe /\ stream' = "open"
    /\ fresh' = ~probe.old
    /\ UNCHANGED <<inboxRows, streams, list, late>>

\* The cursor differs from the last one: an event, on which the tab asks again.
Tick ==
    /\ ProbeDone
    /\ IF <<probe.latest, probe.unread>> # <<last.latest, last.unread>>
       THEN /\ last' = [latest |-> probe.latest, unread |-> probe.unread]
            /\ torn' = probe.torn /\ due' = TRUE
       ELSE UNCHANGED <<last, torn, due>>
    /\ probe' = NoProbe /\ stream' = "open"
    /\ fresh' = ~probe.old
    /\ UNCHANGED <<inboxRows, streams, list, late>>

\* A query fails: the next tick tries again.
ProbeFails ==
    /\ stream # "down"
    /\ probe' = NoProbe /\ stream' = "open"
    /\ UNCHANGED <<inboxRows, last, torn, streams, tabVars, fresh, late>>

Refetch ==
    /\ due
    /\ list' = Listed(item) /\ due' = FALSE
    /\ UNCHANGED <<inboxRows, streamVars, fresh, late>>

InboxNext ==
    \/ CreateNotification \/ \E n \in Items : Commit(n) \/ Rollback(n)
    \/ \E S \in SUBSET Items : MarkRead(S)
    \/ Connect \/ Disconnect \/ ReadLatest \/ ReadUnread \/ Tick
    \/ ProbeFails \/ Refetch

InboxSpec == InboxInit /\ [][InboxNext]_inboxVars

-----------------------------------------------------------------------------
(***************************************************************************)
(* Properties.                                                             *)
(***************************************************************************)

\* A tab that has asked since the last event shows every notification as it is, once
\* a tick has read the rows as they are; unless one was committed after a newer
\* one, which a mark can hide from the count, or the cursor was read while the rows
\* changed (route.ts:11-18, notify.ts:92-96).
ListIsCurrent ==
    fresh /\ ~due /\ ~late /\ ~torn => list = Listed(item)

\* An inbox and what its page shows of it.
InboxIsCurrent ==
    /\ InboxTypeOK
    /\ ListIsCurrent
=============================================================================
