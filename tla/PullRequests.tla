---------------------------- MODULE PullRequests ----------------------------
(***************************************************************************)
(* The links of documents to one pull request on GitHub, and the webhook   *)
(* that keeps their state (apps/web/src/app/api/webhooks/github/route.ts,  *)
(* apps/web/src/lib/actions/pr-links.ts,                                   *)
(* packages/core/src/github/pr-status.ts).  GitHub sends what has become   *)
(* of the pull request at each of its changes; deliveries overtake each    *)
(* other, get lost, and can be sent again.                                 *)
(***************************************************************************)
EXTENDS Naturals, FiniteSets

CONSTANTS
    Linkers,        \* documents that may be linked to the pull request
    MaxChangesOfPR, \* bound: what happens to the pull request
    MaxDeliveries,  \* bound: deliveries handled
    NoLink

\* A PullRequestLink row: what it says, and (history) the version of the pull request
\* it says it of, and the one there was when it was made.
Link == [state : {"OPEN", "CLOSED", "MERGED", "DRAFT"}, seen : Nat, since : Nat]

ASSUME PullRequestsAssumption ==
    MaxChangesOfPR \in Nat /\ MaxDeliveries \in Nat /\ NoLink \notin Link

VARIABLES
    pull,       \* the pull request on GitHub, and how often it has changed
    sent,       \* deliveries on their way
    handlers,   \* requests being handled: the event, and the links still to write
    link,       \* per document: the PullRequestLink row
    astray,     \* history: was a delivery lost, overtaken or sent again, or did one fail?
    handled     \* requests so far

prVars == <<pull, sent, handlers, link, astray, handled>>

-----------------------------------------------------------------------------
PullRequest == [open : BOOLEAN, draft : BOOLEAN, merged : BOOLEAN, version : Nat]

\* Fault: closed comes first.
ClosedFirst(pr) ==
    IF ~pr.open THEN "CLOSED"
    ELSE IF pr.merged THEN "MERGED" ELSE IF pr.draft THEN "DRAFT" ELSE "OPEN"

\* prStateFromPayload: a draft stays one when it is closed.
PrState(pr) ==
    IF pr.merged THEN "MERGED"
    ELSE IF pr.draft THEN "DRAFT" ELSE IF ~pr.open THEN "CLOSED" ELSE "OPEN"

\* A handler has links to write, of the documents that had one.
PullRequestsTypeOK ==
    /\ pull \in PullRequest /\ (pull.merged => ~pull.open)
    /\ sent \subseteq PullRequest
    /\ handlers \subseteq [pr : PullRequest, todo : SUBSET Linkers, gone : SUBSET Linkers]
    /\ \A h \in handlers : h.todo # {} /\ h.gone \subseteq h.todo
    /\ link \in [Linkers -> {NoLink} \cup Link]
    /\ \A d \in Linkers : link[d] # NoLink => link[d].seen <= pull.version
    /\ astray \in BOOLEAN /\ handled \in Nat

PullRequestsInit ==
    /\ pull \in [open : {TRUE}, draft : BOOLEAN, merged : {FALSE}, version : {0}]
    /\ sent = {} /\ handlers = {}
    /\ link = [d \in Linkers |-> NoLink]
    /\ astray = FALSE /\ handled = 0

-----------------------------------------------------------------------------
\* GitHub: closed, reopened, merged, made a draft or ready; a delivery each.
PullRequestChanges ==
    /\ pull.version < MaxChangesOfPR /\ ~pull.merged
    /\ \E pr \in [open : BOOLEAN, draft : BOOLEAN, merged : BOOLEAN,
                  version : {pull.version + 1}] :
          /\ pr.merged => ~pr.open /\ ~pr.draft /\ pull.open
          /\ [pr EXCEPT !.version = pull.version] # pull
          /\ pull' = pr
          /\ sent' = sent \cup {pr}
    /\ UNCHANGED <<handlers, link, astray, handled>>

LoseDelivery(e) ==
    /\ e \in sent
    /\ sent' = sent \ {e} /\ astray' = TRUE
    /\ UNCHANGED <<pull, handlers, link, handled>>

\* linkPullRequest: an upsert, which of a row there is changes the URL only; a new one
\* is open, whatever the pull request is.
LinkPullRequest(d) ==
    /\ link[d] = NoLink
    /\ link' = [link EXCEPT ![d] = [state |-> "OPEN", seen |-> 0, since |-> pull.version]]
    /\ UNCHANGED <<pull, sent, handlers, astray, handled>>

\* unlinkPullRequest, or the document is deleted: a handler may have read the row.
UnlinkPullRequest(d) ==
    /\ link[d] # NoLink
    /\ link' = [link EXCEPT ![d] = NoLink]
    /\ handlers' = {[h EXCEPT !.gone = @ \cup ({d} \cap h.todo)] : h \in handlers}
    /\ UNCHANGED <<pull, sent, astray, handled>>

\* A delivery arrives, perhaps not for the last time: the links it is about are read.
Receive(e) ==
    /\ e \in sent
    /\ handled < MaxDeliveries /\ handled' = handled + 1
    /\ LET links == {d \in Linkers : link[d] # NoLink} IN
       handlers' = IF links = {} THEN handlers ELSE handlers \cup {[pr |-> e, todo |-> links, gone |-> {}]}
    /\ \/ sent' = sent \ {e} /\ astray' = (astray \/ \E f \in sent : f.version < e.version)
       \/ sent' = sent /\ astray' = TRUE
    /\ UNCHANGED <<pull, link>>

\* One transaction for each.  An update of a row that has gone fails the request,
\* and leaves the links after it as they are.
Reflect(h, d) ==
    /\ d \in h.todo
    /\ \/ /\ d \notin h.gone
          /\ link' = [link EXCEPT ![d].state = PrState(h.pr), ![d].seen = h.pr.version]
          /\ handlers' = (handlers \ {h}) \cup
                IF h.todo = {d} THEN {} ELSE {[h EXCEPT !.todo = @ \ {d}]}
          /\ astray' = (astray \/ \E g \in handlers : g.pr.version < h.pr.version)
       \/ /\ d \in h.gone
          /\ handlers' = handlers \ {h} /\ astray' = TRUE
          /\ UNCHANGED link
    /\ UNCHANGED <<pull, sent, handled>>

PullRequestsNext ==
    \/ PullRequestChanges
    \/ \E e \in sent : LoseDelivery(e) \/ Receive(e)
    \/ \E d \in Linkers : LinkPullRequest(d) \/ UnlinkPullRequest(d)
    \/ \E h \in handlers, d \in Linkers : Reflect(h, d)

PullRequestsSpec == PullRequestsInit /\ [][PullRequestsNext]_prVars

-----------------------------------------------------------------------------
(***************************************************************************)
(* Properties.                                                             *)
(***************************************************************************)

\* Once every delivery was handled, each link that was there before the last change
\* of the pull request shows it, whether other links come and go meanwhile; unless a
\* delivery was lost, overtaken or repeated, or met a link that was being removed
\* (route.ts:12-17).
LinksFollow ==
    sent = {} /\ handlers = {} /\ ~astray =>
        \A d \in Linkers : link[d] # NoLink /\ link[d].since < pull.version =>
            /\ link[d].seen = pull.version
            /\ (link[d].state = "MERGED") = pull.merged

\* Links and the pull requests they stand for.
LinksFollowPulls ==
    /\ PullRequestsTypeOK
    /\ LinksFollow
=============================================================================
