---------------------------- MODULE AgentExport ----------------------------
(***************************************************************************)
(* What a coding agent is given to work on: an export of the documents     *)
(* that mention it, or of one document, with all they depend on            *)
(* (app/api/agents/[agentName]/export, app/api/documents/[documentId]/     *)
(* export, lib/data/export.ts and agents.ts, packages/core/src/export).    *)
(* An export is several queries, and documents change in between.          *)
(*                                                                         *)
(* What is abstracted.  There is one workspace.  Of a document there is    *)
(* its status, and the key "status" of the frontmatter stored with it, for *)
(* updateFrontmatter takes any key; bodies, acceptance criteria and        *)
(* schemas are left out, and of the formats there is Markdown.  The        *)
(* closures that the agent's page reads for itself are left out.           *)
(***************************************************************************)
EXTENDS DependencyGraph

CONSTANTS
    Sheets,         \* documents
    Couplings,      \* the dependencies there may be, no document on itself
    Statuses, NoStatus,
    MaxUpsets,      \* bound: changes of any kind
    MaxExports      \* bound: exports

ASSUME ExportAssumption ==
    /\ IsFiniteSet(Sheets) /\ Couplings \subseteq {e \in Sheets \X Sheets : e[1] # e[2]}
    /\ NoStatus \notin Statuses /\ MaxUpsets \in Nat /\ MaxExports \in Nat

VARIABLES
    binder,     \* the documents: those there are, those the user may read, those that
                \* mention the agent, the dependencies, the status and the stored status
    order,      \* the export under way
    upsets, exports

exportVars == <<binder, order, upsets, exports>>

NoOrder == [kind |-> "none", stage |-> "none", allowed |-> {}, roots |-> <<>>, left |-> {},
            depths |-> [d \in Sheets |-> 0], answer |-> <<>>, rows |-> {},
            printed |-> [d \in Sheets |-> NoStatus], live |-> [d \in Sheets |-> NoStatus],
            seen |-> [d \in Sheets |-> {}]]

\* The documents of an export are there to be read when it begins; rows are read last.
ExportTypeOK ==
    /\ binder.there \subseteq Sheets /\ binder.read \subseteq Sheets
    /\ binder.deps \subseteq Couplings /\ binder.named \subseteq binder.there
    /\ \A e \in binder.deps : {e[1], e[2]} \subseteq binder.there
    /\ order.stage \in {"none", "mentions", "listed", "closures", "answered", "refused"}
    /\ order.left \subseteq Elems(order.roots)
    /\ order.stage = "mentions" => order.kind = "agent" /\ order.roots = <<>>
    /\ order.stage = "answered" => order.left = {} /\ Elems(order.answer) = order.rows

ExportInit ==
    /\ binder \in [there : {Sheets}, read : SUBSET Sheets, named : SUBSET Sheets,
                   deps : SUBSET Couplings, status : [Sheets -> {CHOOSE s \in Statuses : TRUE}],
                   stored : [Sheets -> {NoStatus}]]
    /\ order = NoOrder /\ upsets = 0 /\ exports = 0

Readable == binder.read \cap binder.there

-----------------------------------------------------------------------------
\* GET of agents/[agentName]/export, getAgentView: the documents the user may read.
AskForAgent ==
    /\ order.stage \in {"none", "answered", "refused"}
    /\ exports < MaxExports /\ exports' = exports + 1
    /\ order' = [NoOrder EXCEPT !.kind = "agent", !.allowed = Readable,
                                !.stage = IF Readable = {} THEN "refused" ELSE "mentions"]
    /\ UNCHANGED <<binder, upsets>>

\* getAgentView: those that mention the agent, in the order the rows come.
ReadMentions ==
    /\ order.stage = "mentions"
    /\ \E s \in Orderings(binder.named \cap order.allowed) :
          order' = [order EXCEPT !.roots = s,
                                 !.stage = IF s = <<>> THEN "refused" ELSE "listed"]
    /\ UNCHANGED <<binder, upsets, exports>>

\* GET of documents/[documentId]/export: the document must be one of those.
AskForDocument(d) ==
    /\ order.stage \in {"none", "answered", "refused"}
    /\ exports < MaxExports /\ exports' = exports + 1
    /\ order' = [NoOrder EXCEPT !.kind = "document", !.allowed = Readable, !.roots = <<d>>,
                                !.stage = IF d \in Readable THEN "listed" ELSE "refused"]
    /\ UNCHANGED <<binder, upsets>>

\* getBundleExportData, getDocumentExportData: what may be read is read again.  An agent
\* that has nothing left gets an empty bundle, a document that may not be read is refused.
ListAgain ==
    /\ order.stage = "listed"
    /\ LET kept == Only(order.roots, Readable) IN
       order' = [order EXCEPT
             !.allowed = Readable, !.roots = kept, !.left = Elems(kept),
             !.stage = IF kept # <<>> THEN "closures"
                       ELSE IF order.kind = "agent" THEN "answered" ELSE "refused"]
    /\ UNCHANGED <<binder, upsets, exports>>

-----------------------------------------------------------------------------
\* depthById: the least depth, over the roots too.
LeastDepth(known, found) == IF known = 0 \/ found < known THEN found ELSE known

\* The closure of one of the roots; they are asked for at once, and come in any order.
ReadClosure(r) ==
    /\ order.stage = "closures" /\ r \in order.left
    /\ LET rows == Closure(binder.deps, r, "outgoing", HopLimit)
           met == ReachableDocIds(rows) \cap order.allowed
       IN order' = [order EXCEPT
             !.left = @ \ {r}, !.seen[r] = binder.deps,
             !.depths = [d \in Sheets |-> IF d \in met THEN LeastDepth(@[d], Shallowest(rows, d))
                                          ELSE @[d]]]
    /\ UNCHANGED <<binder, upsets, exports>>

\* frontmatterFor: what is stored is spread over the status of the row.
FrontmatterFor(d) == IF binder.stored[d] # NoStatus THEN binder.stored[d] ELSE binder.status[d]

\* Fault: the documents that were asked for are met again.
AllMet(roots, depths) == {d \in Sheets : depths[d] # 0}

\* closureIds: what is not one of the roots.
RestOf(roots, depths) == {d \in Sheets : depths[d] # 0} \ Elems(roots)

\* The rows, the roots in their order and the rest by depth, equal depths in any order; a
\* document that is gone is missed, or refused if it is the one that was asked for.
ReadRows ==
    /\ order.stage = "closures" /\ order.left = {}
    /\ LET roots == Only(order.roots, binder.there)
           rest == RestOf(order.roots, order.depths) \cap binder.there
           rows == Elems(roots) \cup rest
       IN IF order.kind = "document" /\ roots = <<>>
          THEN order' = [order EXCEPT !.stage = "refused"]
          ELSE \E s \in Orderings(rest) :
             /\ \A i \in 1..(Len(s) - 1) : order.depths[s[i]] <= order.depths[s[i + 1]]
             /\ order' = [order EXCEPT
                   !.stage = "answered", !.answer = roots \o s, !.rows = rows,
                   !.live = [d \in Sheets |-> IF d \in rows THEN binder.status[d] ELSE @[d]],
                   !.printed = [d \in Sheets |-> IF d \in rows THEN FrontmatterFor(d) ELSE @[d]]]
    /\ UNCHANGED <<binder, upsets, exports>>

-----------------------------------------------------------------------------
Upset == upsets < MaxUpsets /\ upsets' = upsets + 1

\* changeDocumentStatus: only the row's status.
ChangeStatus(d, st) ==
    /\ Upset /\ d \in binder.there /\ st # binder.status[d]
    /\ binder' = [binder EXCEPT !.status[d] = st] /\ UNCHANGED <<order, exports>>

\* updateFrontmatter: any key is merged into what is stored.
StoreStatus(d, st) ==
    /\ Upset /\ d \in binder.there /\ st # binder.stored[d]
    /\ binder' = [binder EXCEPT !.stored[d] = st] /\ UNCHANGED <<order, exports>>

\* createDependency
AddDependency(e) ==
    /\ Upset /\ e \notin binder.deps /\ {e[1], e[2]} \subseteq binder.there
    /\ binder' = [binder EXCEPT !.deps = @ \cup {e}] /\ UNCHANGED <<order, exports>>

\* deleteDocument takes the dependencies and the mentions with it.
RemoveSheet(d) ==
    /\ Upset /\ d \in binder.there
    /\ binder' = [binder EXCEPT !.there = @ \ {d}, !.named = @ \ {d},
                                !.deps = {e \in @ : d \notin {e[1], e[2]}}]
    /\ UNCHANGED <<order, exports>>

\* The user's membership of a project goes, or is there again.
TurnReader(d) ==
    /\ Upset
    /\ binder' = [binder EXCEPT !.read = IF d \in @ THEN @ \ {d} ELSE @ \cup {d}]
    /\ UNCHANGED <<order, exports>>

ExportNext ==
    \/ AskForAgent \/ ReadMentions \/ ListAgain \/ ReadRows
    \/ \E d \in Sheets : \/ AskForDocument(d) \/ ReadClosure(d)
                         \/ RemoveSheet(d) \/ TurnReader(d)
                         \/ \E st \in Statuses : ChangeStatus(d, st) \/ StoreStatus(d, st)
    \/ \E e \in Couplings : AddDependency(e)

ExportSpec == ExportInit /\ [][ExportNext]_exportVars

-----------------------------------------------------------------------------
\* The answer misses nothing in between: of a document it has, what that depends on is in
\* it too, unless the user may not read it, it is gone, or it is too far, whatever was
\* added to the dependencies while the closures were read.
BundleIsClosed ==
    order.stage = "answered" =>
        \A r \in Elems(order.roots), d \in order.rows :
            LET near == Within(order.seen[r], r, HopLimit - 1) IN
            d \in near => {e[2] : e \in {f \in order.seen[r] : f[1] = d}}
                             \cap order.allowed \cap binder.there \subseteq order.rows

\* A reader who goes from the top meets a document after something that needs it: each
\* one is there once and, but for those asked for, something that depends on it came
\* before it, or may not be read, or is gone.
BundleReadsDown ==
    order.stage = "answered" =>
        \A i \in 1..Len(order.answer) :
            LET before == {order.answer[j] : j \in 1..(i - 1)}
                d == order.answer[i]
            IN /\ d \notin before
               /\ \/ d \in Elems(order.roots)
                  \/ \E r \in Elems(order.roots) : \E e \in order.seen[r] :
                        /\ e[2] = d
                        /\ e[1] \in before \/ e[1] \notin order.rows

\* The lists of cross-references and the neighbourhood of a document have what is within
\* reach, each at its least distance, however many ways lead there and whatever lies on
\* cycles.
GraphsShowDistances ==
    order.stage = "none" =>
        \A seed \in Readable :
            LET Near(direction, hops) ==
                    Within(Along(binder.deps, direction), seed, hops)
                Far(direction, d) == Distance(Along(binder.deps, direction), seed, d)
                around == Neighborhood(binder.deps, seed, Readable, 2)
            IN /\ \A direction \in {"outgoing", "incoming"} :
                     CrossReferences(binder.deps, seed, direction, Readable) =
                     [d \in (Near(direction, HopLimit) \cap Readable) \ {seed} |->
                            Far(direction, d)]
               /\ DOMAIN around.depth =
                     (Near("outgoing", 2) \cup Near("incoming", 2)) \cap Readable
               /\ \A d \in DOMAIN around.depth :
                     /\ d \in Near("outgoing", around.depth[d])
                              \cup Near("incoming", around.depth[d])
                     /\ around.depth[d] > 0 => d \notin Near("outgoing", around.depth[d] - 1)
                                                     \cup Near("incoming", around.depth[d] - 1)

\* Claim of packages/core/src/export/serialize.ts:291: "Status on the document row is
\* authoritative; merge it over stored frontmatter so the export always reflects the live
\* status".
ExportShowsLiveStatus ==
    order.stage = "answered" => \A d \in order.rows : order.printed[d] = order.live[d]
=============================================================================
