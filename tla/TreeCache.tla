----------------------------- MODULE TreeCache -----------------------------
(***************************************************************************)
(* The documents' tree in one tab (apps/web/src/lib/query/use-documents.ts,*)
(* components/document/spec-tree.tsx): a cached list, which a mutation     *)
(* changes at once, puts back when its call fails, and has fetched again   *)
(* when it ends.  Several mutations overlap; others change the documents,  *)
(* too.  Cancellation and refetching are the query library's.              *)
(*                                                                         *)
(* What is abstracted.  Of a document there is one value, which stands for *)
(* its title, status and place.                                            *)
(***************************************************************************)
EXTENDS Naturals, FiniteSets

CONSTANTS
    Entries,        \* documents, there or not
    Values,         \* what may be said of one
    Tickets,        \* mutations of this tab at a time
    MaxMutations,   \* bound: mutations, and changes by others
    NoEntry

ASSUME TreeCacheAssumption == MaxMutations \in Nat /\ NoEntry \notin Values

VARIABLES
    truth,      \* the documents at the server
    cache,      \* the list of this tab
    mutation,   \* per ticket: the mutation, what it found in the cache, and its outcome
    fetch,      \* "none", "asked", or the answer on its way
    unseen,     \* history: what others changed since the cached answer was read
    coming,     \* history: and since the answer on its way was read
    mutations   \* so far

cacheVars == <<truth, cache, mutation, fetch, unseen, coming, mutations>>

-----------------------------------------------------------------------------
Tree == [Entries -> Values \cup {NoEntry}]
NoMutation == [stage |-> "free"]
NotFetching == [stage |-> "none"]

\* Every mutation has a list to put back.
TreeCacheTypeOK ==
    /\ truth \in Tree /\ cache \in Tree
    /\ \A t \in Tickets :
          \/ mutation[t] = NoMutation
          \/ mutation[t] \in [stage : {"sent", "done", "failed"}, of : Entries,
                              to : Values \cup {NoEntry}, prev : Tree]
    /\ \/ fetch \in {NotFetching, [stage |-> "asked"]}
       \/ fetch \in [stage : {"answered"}, tree : Tree]
    /\ unseen \subseteq Entries /\ coming \subseteq unseen
    /\ mutations \in 0..MaxMutations

TreeCacheInit ==
    /\ truth = [e \in Entries |-> NoEntry] /\ cache = truth
    /\ mutation = [t \in Tickets |-> NoMutation]
    /\ fetch = NotFetching /\ unseen = {} /\ coming = {} /\ mutations = 0

-----------------------------------------------------------------------------
Count == mutations < MaxMutations /\ mutations' = mutations + 1

\* onMutate: cancel what is being fetched, remember the list, and change it.
OnMutate(t, e, v) ==
    /\ mutation[t] = NoMutation /\ Count
    /\ cache[e] # v
    /\ mutation' = [mutation EXCEPT ![t] =
          [stage |-> "sent", of |-> e, to |-> v, prev |-> cache]]
    /\ cache' = [cache EXCEPT ![e] = v]
    /\ fetch' = NotFetching /\ coming' = {}
    /\ UNCHANGED <<truth, unseen>>

\* The call is carried out, or fails: a document that has gone, a slug, a right.
Serve(t) ==
    /\ mutation[t].stage = "sent"
    /\ LET m == mutation[t] IN
       \/ /\ truth' = [truth EXCEPT ![m.of] = m.to]
          /\ mutation' = [mutation EXCEPT ![t].stage = "done"]
       \/ /\ mutation' = [mutation EXCEPT ![t].stage = "failed"]
          /\ UNCHANGED truth
    /\ UNCHANGED <<cache, fetch, unseen, coming, mutations>>

\* onError puts the remembered list back, with all others did to it since undone;
\* onSettled has it fetched again, in place of what is being fetched.
Settle(t) ==
    /\ mutation[t].stage \in {"done", "failed"}
    /\ cache' = IF mutation[t].stage = "failed" THEN mutation[t].prev ELSE cache
    /\ mutation' = [mutation EXCEPT ![t] = NoMutation]
    /\ fetch' = [stage |-> "asked"] /\ coming' = {}
    /\ UNCHANGED <<truth, unseen, mutations>>

\* The tab is shown again, or the page entered.
Revisit ==
    /\ fetch = NotFetching
    /\ fetch' = [stage |-> "asked"] /\ coming' = {}
    /\ UNCHANGED <<truth, cache, mutation, unseen, mutations>>

\* fetchDocumentTree.
AnswerFetch ==
    /\ fetch.stage = "asked"
    /\ fetch' = [stage |-> "answered", tree |-> truth] /\ coming' = {}
    /\ UNCHANGED <<truth, cache, mutation, unseen, mutations>>

ShowTree ==
    /\ fetch.stage = "answered"
    /\ cache' = fetch.tree /\ unseen' = coming
    /\ fetch' = NotFetching /\ coming' = {}
    /\ UNCHANGED <<truth, mutation, mutations>>

\* Someone else's call, of which the tab does not hear.
Elsewhere(e, v) ==
    /\ Count
    /\ truth[e] # v
    /\ truth' = [truth EXCEPT ![e] = v]
    /\ unseen' = unseen \cup {e}
    /\ coming' = IF fetch.stage = "answered" THEN coming \cup {e} ELSE coming
    /\ UNCHANGED <<cache, mutation, fetch>>

TreeCacheNext ==
    \/ \E t \in Tickets :
          \/ \E e \in Entries, v \in Values \cup {NoEntry} : OnMutate(t, e, v)
          \/ Serve(t) \/ Settle(t)
    \/ \E e \in Entries, v \in Values \cup {NoEntry} : Elsewhere(e, v)
    \/ Revisit \/ AnswerFetch \/ ShowTree

TreeCacheSpec == TreeCacheInit /\ [][TreeCacheNext]_cacheVars

-----------------------------------------------------------------------------
(***************************************************************************)
(* Properties.                                                             *)
(***************************************************************************)

\* A tab at rest shows what the server has of every document, however its own
\* mutations overlapped, failed, and were undone; but for what others changed since
\* it last asked (use-documents.ts:39-62, cf. 101-125).
TabAtRestIsCurrent ==
    fetch = NotFetching /\ (\A t \in Tickets : mutation[t] = NoMutation) =>
        \A e \in Entries \ unseen : cache[e] = truth[e]
=============================================================================
