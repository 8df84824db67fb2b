------------------------------ MODULE Comments ------------------------------
(***************************************************************************)
(* The comments on a document (apps/web/src/lib/actions/comments.ts): a    *)
(* thread is a root and the replies to it, all there is of it is rows, and *)
(* deleting a row takes the rows below it along.  A comment that mentions  *)
(* an agent has a job queued for it after it was committed                 *)
(* (apps/web/src/lib/generation/agent-trigger.ts).                         *)
(***************************************************************************)
EXTENDS Naturals, FiniteSets

CONSTANTS
    Writers,        \* members who comment
    MaxComments,    \* bound: comments whose identifiers are in use
    NoComment

ASSUME MaxCommentsAssumption == MaxComments \in Nat

VARIABLES
    comment,    \* the Comment rows
    asked,      \* per member: the call he makes
    after       \* comments whose agents the process still has to call

commentVars == <<comment, asked, after>>

-----------------------------------------------------------------------------
Ids == 1..MaxComments

Row == [author : Writers, parent : Ids \cup {NoComment}, resolved : BOOLEAN]

ASSUME CommentsAssumption == NoComment \notin Row /\ NoComment \notin Ids

NotAsked == [kind |-> "nothing", id |-> NoComment, root |-> NoComment]

There == {c \in Ids : comment[c] # NoComment}
Roots(rows) == {c \in Ids : rows[c] # NoComment /\ rows[c].parent = NoComment}

RootOf(c) == IF comment[c].parent = NoComment THEN c ELSE comment[c].parent

\* listCommentThreads: roots, and replies by the root they are to.
Threads(rows) ==
    [c \in Roots(rows) |-> {d \in Ids : rows[d] # NoComment /\ rows[d].parent = c}]

CommentsTypeOK ==
    /\ comment \in [Ids -> Row \cup {NoComment}]
    /\ asked \in [Writers -> [kind : {"nothing", "reply", "resolve", "delete"},
                              id : Ids \cup {NoComment}, root : Ids \cup {NoComment}]]
    /\ \A u \in Writers : asked[u].kind # "nothing" => asked[u].root # NoComment
    /\ after \subseteq Ids

CommentsInit ==
    /\ comment = [c \in Ids |-> NoComment]
    /\ asked = [u \in Writers |-> NotAsked]
    /\ after = {}

-----------------------------------------------------------------------------
\* An identifier is used again once nothing knows of it any more.
Unused == {c \in Ids : /\ comment[c] = NoComment /\ c \notin after
                       /\ \A u \in Writers : c \notin {asked[u].id, asked[u].root}}
Fresh == {c \in Unused : \A d \in Unused : c <= d}

Insert(u, c, parent, agent) ==
    /\ comment' = [comment EXCEPT ![c] =
          [author |-> u, parent |-> parent, resolved |-> FALSE]]
    /\ after' = IF agent THEN after \cup {c} ELSE after

\* createComment for a new thread.
CreateComment(u) ==
    /\ asked[u] = NotAsked
    /\ \E c \in Fresh, agent \in BOOLEAN : Insert(u, c, NoComment, agent)
    /\ UNCHANGED asked

\* A reply is to the root of a thread; the other calls find the row first.  A call
\* for what the sidebar still shows and is gone is an error.
AskComment(u, kind, c) ==
    /\ asked[u] = NotAsked
    /\ c \in There
    /\ kind = "reply" => c \in Roots(comment)
    /\ kind = "delete" => comment[c].author = u
    /\ asked' = [asked EXCEPT ![u] = [kind |-> kind, id |-> c, root |-> RootOf(c)]]
    /\ UNCHANGED <<comment, after>>

Answered(u) == asked' = [asked EXCEPT ![u] = NotAsked]

\* A foreign key: there is no reply to what has gone.
Reply(u) ==
    /\ asked[u].kind = "reply"
    /\ \/ /\ asked[u].root \in There
          /\ \E c \in Fresh, agent \in BOOLEAN : Insert(u, c, asked[u].root, agent)
       \/ asked[u].root \notin There /\ UNCHANGED <<comment, after>>
    /\ Answered(u)

\* The root is marked, whatever row it was called for.
ResolveComment(u) ==
    /\ asked[u].kind = "resolve"
    /\ comment' = IF asked[u].root \in There
                  THEN [comment EXCEPT ![asked[u].root].resolved = ~@] ELSE comment
    /\ Answered(u)
    /\ UNCHANGED after

\* Fault: replies stay.
DeleteRowOnly(u) ==
    /\ asked[u].kind = "delete"
    /\ comment' = [comment EXCEPT ![asked[u].id] = NoComment]
    /\ Answered(u)
    /\ UNCHANGED after

\* The replies to a row go with it, whoever wrote them.
DeleteComment(u) ==
    /\ asked[u].kind = "delete"
    /\ comment' = [c \in Ids |->
          IF c = asked[u].id \/ (c \in There /\ comment[c].parent = asked[u].id)
          THEN NoComment ELSE comment[c]]
    /\ Answered(u)
    /\ UNCHANGED after

\* triggerAgentRun, after the response: the agent gets a job of its own, or an error
\* is swallowed.
TriggerAgentRun(c) ==
    /\ c \in after
    /\ after' = after \ {c}
    /\ UNCHANGED <<comment, asked>>

\* The process dies: calls fail, and what it was to do after them is forgotten.
RestartWeb ==
    /\ after' = {} /\ asked' = [u \in Writers |-> NotAsked]
    /\ UNCHANGED comment

CommentsNext ==
    \/ \E u \in Writers :
          \/ CreateComment(u)
          \/ \E c \in Ids : \E kind \in {"reply", "resolve", "delete"} : AskComment(u, kind, c)
          \/ Reply(u) \/ ResolveComment(u) \/ DeleteComment(u)
    \/ \E c \in Ids : TriggerAgentRun(c)
    \/ RestartWeb

CommentsSpec == CommentsInit /\ [][CommentsNext]_commentVars

-----------------------------------------------------------------------------
(***************************************************************************)
(* Properties.                                                             *)
(***************************************************************************)

\* Every comment is in a thread of the sidebar, and no reply is a thread or marked
\* resolved, while threads are deleted under those who reply to them (comments.ts
\* of core, 86-124; actions/comments.ts:190-206).
ThreadsShowAll ==
    /\ There = Roots(comment) \cup UNION {Threads(comment)[c] : c \in Roots(comment)}
    /\ \A c \in There \ Roots(comment) : ~comment[c].resolved

\* Threads through replies, answers and deletions.
ThreadsStayWhole ==
    /\ CommentsTypeOK
    /\ ThreadsShowAll
=============================================================================
