---------------------------- MODULE MCGovernance -----------------------------
(***************************************************************************)
(* A document under governance and what people do around it, each part     *)
(* with model values of its own, one of them moving in a behaviour as in   *)
(* MCWorkspace.                                                            *)
(***************************************************************************)
EXTENDS DocumentGovernance, Membership, Suggestions, Comments, Inbox,
        PullRequests, RateLimiter

AllArchitects == [a \in Actors |-> "ARCHITECT"]
CONSTANT ahead      \* the replica whose clock is ahead
OneAhead == [r \in Replicas |-> IF r = ahead THEN 1 ELSE 0]

VARIABLE scene      \* the component that moves

GovernedInit ==
    /\ scene \in {"document", "members", "suggestions", "comments", "inbox",
                  "pulls", "limit"}
    /\ Init /\ MembershipInit /\ SuggestionsInit /\ CommentsInit
    /\ InboxInit /\ PullRequestsInit
    /\ scene # "pulls" => pull.draft = FALSE
    /\ scene # "limit" => store = CHOOSE st \in Stores : TRUE
    /\ RateInit

GovernedNext ==
    \/ /\ scene = "document" /\ Next
       /\ UNCHANGED <<scene, memberVars, suggestionVars, commentVars,
                      inboxVars, prVars, rateVars>>
    \/ /\ scene = "members" /\ MembershipNext
       /\ UNCHANGED <<scene, vars, suggestionVars, commentVars, inboxVars,
                      prVars, rateVars>>
    \/ /\ scene = "suggestions" /\ SuggestionsNext
       /\ UNCHANGED <<scene, vars, memberVars, commentVars, inboxVars,
                      prVars, rateVars>>
    \/ /\ scene = "comments" /\ CommentsNext
       /\ UNCHANGED <<scene, vars, memberVars, suggestionVars, inboxVars,
                      prVars, rateVars>>
    \/ /\ scene = "inbox" /\ InboxNext
       /\ UNCHANGED <<scene, vars, memberVars, suggestionVars, commentVars,
                      prVars, rateVars>>
    \/ /\ scene = "pulls" /\ PullRequestsNext
       /\ UNCHANGED <<scene, vars, memberVars, suggestionVars, commentVars,
                      inboxVars, rateVars>>
    \/ /\ scene = "limit" /\ RateNext
       /\ UNCHANGED <<scene, vars, memberVars, suggestionVars, commentVars,
                      inboxVars, prVars>>

governedVars == <<scene, vars, memberVars, suggestionVars, commentVars,
    inboxVars, prVars, rateVars>>

Symmetry == Permutations(Actors) \cup Permutations(Texts)

GovernedSpec == GovernedInit /\ [][GovernedNext]_governedVars
=============================================================================
