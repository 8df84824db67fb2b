---------------------------- MODULE DocumentTree ----------------------------
(***************************************************************************)
(* The documents of one type in a project, as the Server Actions create,   *)
(* copy, annotate, reorder, ingest and delete them                         *)
(* (apps/web/src/lib/actions/documents.ts) and make a template's           *)
(* (apps/web/src/lib/actions/templates.ts): their slugs, which are unique  *)
(* in the project and never change; their frontmatter, which has their     *)
(* order beside what users write in it; and the dependencies between them. *)
(* An action reads what it needs and then writes, and nothing holds off    *)
(* another action between the two.                                         *)
(*                                                                         *)
(* What is abstracted.  A slug is a base, made of the title, and a number; *)
(* of what users write in frontmatter there is one key, the owner.  The    *)
(* documents of one template are created one after the other.              *)
(***************************************************************************)
EXTENDS Naturals, Sequences, FiniteSets, FiniteSetsExt

CONSTANTS
    Callers,        \* users, and the ingest
    Bases,          \* what titles are slugified to
    OwnerNames,     \* values of the key
    TemplateSize,   \* documents of a bundled template
    MaxDocs,        \* bound: documents ever created
    MaxTreeCalls,       \* bound: calls
    NoDoc           \* no such document

ASSUME TreeAssumption == TemplateSize \in Nat /\ MaxDocs \in Nat /\ MaxTreeCalls \in Nat

VARIABLES
    doc,        \* the rows, by number in the order they were created
    depends,    \* the Dependency rows
    treeCall,       \* per caller: the action he is in and what it has read
    born,       \* documents created so far
    treeCalls,      \* calls so far
    wanted,     \* history: the frontmatter, had every action written its own keys only
    overwritten,    \* history: documents that were written over what had not been read
    raced,      \* history: was a document created between a count of the order and its use?
    moved,      \* history: was there a reorder, or a document that is not put last?
    refused     \* history: did an insert fail on a slug that nobody took after it looked?

treeRows == <<doc, depends, born>>
treeHistories == <<wanted, overwritten, raced, moved, refused>>
treeVars == <<treeRows, treeCall, treeCalls, treeHistories>>

-----------------------------------------------------------------------------
DocNumbers == 1..MaxDocs
Slug == [base : Bases, n : Nat \ {0}]
Frontmatter == [order : Nat, owner : OwnerNames \cup {NoDoc}]
DocRow == [slug : Slug, fm : Frontmatter]

ASSUME NoDocAssumption == NoDoc \notin DocRow /\ NoDoc \notin Slug

Rows == {d \in DocNumbers : doc[d] # NoDoc}
Taken == {doc[d].slug : d \in Rows}

\* Fault: the first number after the base is not tried.
CountedSlug(base, taken) ==
    [base |-> base, n |-> 1 + Cardinality({s \in taken : s.base = base})]

\* uniqueSlug: the base, or the base with the least number from 2 that is free.
UniqueSlug(base, taken) ==
    [base |-> base,
     n |-> Min({n \in 1..(1 + Cardinality(taken)) : [base |-> base, n |-> n] \notin taken})]

Idle == [kind |-> "idle", slugs |-> <<>>, order |-> 0, at |-> 0, counted |-> 0, onto |-> 0,
         fms |-> <<>>]

\* Calls that are to insert documents, and the others.
Inserting == {"insert", "copy", "template", "insertIngested"}
TreeKinds == Inserting \cup {"idle", "order", "annotate", "reorder", "ingest", "depend"}
TreeCall(D) == [kind : TreeKinds, slugs : Seq(Slug), order : Nat, at : 0..MaxDocs,
                counted : 0..MaxDocs, onto : 0..MaxDocs, fms : [D -> Frontmatter]]

\* A call that is to write a row has read it.
TreeTypeOK ==
    /\ doc \in [DocNumbers -> DocRow \cup {NoDoc}]
    /\ born \in 0..MaxDocs /\ \A d \in Rows : d <= born
    /\ depends \subseteq Rows \X Rows
    /\ DOMAIN treeCall = Callers
    /\ \A c \in Callers :
          /\ \E D \in SUBSET DocNumbers : treeCall[c] \in TreeCall(D)
          /\ treeCall[c].kind \in {"order", "insert", "copy", "ingest", "insertIngested"} =>
                 Len(treeCall[c].slugs) = 1
          /\ treeCall[c].kind = "annotate" => DOMAIN treeCall[c].fms = {treeCall[c].at}
    /\ treeCalls \in 0..MaxTreeCalls
    /\ wanted \in [DocNumbers -> Frontmatter \cup {NoDoc}]
    /\ overwritten \subseteq DocNumbers
    /\ raced \in BOOLEAN /\ moved \in BOOLEAN /\ refused \in BOOLEAN

TreeInit ==
    /\ doc = [d \in DocNumbers |-> NoDoc] /\ depends = {} /\ born = 0
    /\ treeCall = [c \in Callers |-> Idle] /\ treeCalls = 0
    /\ wanted = [d \in DocNumbers |-> NoDoc]
    /\ overwritten = {} /\ raced = FALSE /\ moved = FALSE /\ refused = FALSE

-----------------------------------------------------------------------------
Begin(c, r) ==
    /\ treeCall[c] = Idle /\ treeCalls < MaxTreeCalls
    /\ treeCalls' = treeCalls + 1
    /\ treeCall' = [treeCall EXCEPT ![c] = r]
    /\ UNCHANGED <<treeRows, treeHistories>>

Advance(c, r) ==
    /\ treeCall' = [treeCall EXCEPT ![c] = r]
    /\ UNCHANGED <<treeRows, treeCalls, treeHistories>>

Return(c) == treeCall' = [treeCall EXCEPT ![c] = Idle] /\ UNCHANGED treeCalls

\* The documents a call is to insert get the next numbers.
NewDocs(c) == (born + 1)..(born + Len(treeCall[c].slugs))
NewFrontmatter(n) == [order |-> n, owner |-> NoDoc]
NewRow(c, orders, d) ==
    [slug |-> treeCall[c].slugs[d - born], fm |-> NewFrontmatter(orders[d - born])]

\* The slug is a unique key, which the database holds to.
Free(slugs) ==
    \A i \in DOMAIN slugs : /\ slugs[i] \notin Taken
                            /\ \A j \in DOMAIN slugs : slugs[i] = slugs[j] => i = j

AddRows(c, orders) ==
    /\ Free(treeCall[c].slugs)
    /\ born' = born + Len(treeCall[c].slugs) /\ born' <= MaxDocs
    /\ doc' = [d \in DocNumbers |-> IF d \in NewDocs(c) THEN NewRow(c, orders, d) ELSE doc[d]]
    /\ wanted' = [d \in DocNumbers |->
          IF d \in NewDocs(c) THEN NewFrontmatter(orders[d - born]) ELSE wanted[d]]
    /\ Return(c)
    /\ UNCHANGED <<overwritten, refused>>

\* All the documents of the call are refused with the one whose slug is there.
RefuseRows(c) ==
    /\ treeCall[c].kind \in Inserting /\ ~Free(treeCall[c].slugs)
    /\ refused' = (refused \/ \A d \in Rows : \A i \in DOMAIN treeCall[c].slugs :
                      d > treeCall[c].at => doc[d].slug # treeCall[c].slugs[i])
    /\ Return(c)
    /\ UNCHANGED <<treeRows, wanted, overwritten, raced, moved>>

\* createDocument: slugs of the siblings, then the order of the newest, then the row.
\* duplicateFromTemplate looks at the slugs only.
ReadSlugs(c) ==
    \E base \in Bases, kind \in {"order", "copy"} :
        Begin(c, [Idle EXCEPT !.kind = kind, !.slugs = <<UniqueSlug(base, Taken)>>,
                              !.at = born])

ReadNewest(c) ==
    /\ treeCall[c].kind = "order"
    /\ Advance(c, [treeCall[c] EXCEPT !.kind = "insert", !.counted = born,
          !.order = 1 + IF Rows = {} THEN 0 ELSE doc[Max(Rows)].fm.order])

CreateRow(c) ==
    /\ treeCall[c].kind = "insert"
    /\ AddRows(c, <<treeCall[c].order>>)
    /\ raced' = (raced \/ treeCall[c].counted # born)
    /\ UNCHANGED <<depends, moved>>

\* duplicateFromTemplate: the copy has the order 1, whatever there is.
CopyTemplate(c) ==
    /\ treeCall[c].kind = "copy"
    /\ AddRows(c, <<1>>)
    /\ moved' = TRUE
    /\ UNCHANGED <<depends, raced>>

\* applyTemplate: slugs for all its documents, each unique among those there are and those
\* before it; then in one transaction the documents, their orders counted from 0 over all
\* types, and the edges among them.
SlugLists == UNION {[1..n -> [base : Bases, n : 1..(Cardinality(Taken) + n)]] :
                        n \in 1..TemplateSize}

ReserveSlugs(c) ==
    \E slugs \in SlugLists :
        /\ \A i \in DOMAIN slugs :
              slugs[i] = UniqueSlug(slugs[i].base, Taken \cup {slugs[j] : j \in 1..(i - 1)})
        /\ Begin(c, [Idle EXCEPT !.kind = "template", !.slugs = slugs, !.at = born])

InsertTemplate(c) ==
    /\ treeCall[c].kind = "template"
    /\ \E orders \in [DOMAIN treeCall[c].slugs -> 0..(TemplateSize - 1)] :
          /\ \A i, j \in DOMAIN orders : i < j => orders[i] < orders[j]
          /\ AddRows(c, orders)
    /\ \E edges \in SUBSET {e \in NewDocs(c) \X NewDocs(c) : e[1] # e[2]} :
          depends' = depends \cup edges
    /\ moved' = TRUE
    /\ UNCHANGED raced

\* Versions, comments, links, dependencies go with the row.
DeleteRow(d) ==
    /\ doc[d] # NoDoc
    /\ doc' = [doc EXCEPT ![d] = NoDoc] /\ wanted' = [wanted EXCEPT ![d] = NoDoc]
    /\ depends' = {e \in depends : d \notin {e[1], e[2]}}
    /\ UNCHANGED <<born, treeCall, treeCalls, overwritten, raced, moved, refused>>

\* Frontmatter with an owner, or with an order; and a row with other frontmatter.
Owned(fm, o) == [fm EXCEPT !.owner = o]
Placed(fm, n) == [fm EXCEPT !.order = n]
Rewritten(row, fm) == [row EXCEPT !.fm = fm]

\* What an action has read of frontmatter, and the documents of which that no longer stands.
ReadOf(D) == [d \in D |-> doc[d].fm]
Stale(c) == {d \in DOMAIN treeCall[c].fms : doc[d] # NoDoc /\ doc[d].fm # treeCall[c].fms[d]}

WriteFrontmatter(c, fms) ==
    /\ doc' = [d \in DocNumbers |->
          IF d \in DOMAIN fms THEN Rewritten(doc[d], fms[d]) ELSE doc[d]]
    /\ overwritten' = overwritten \cup Stale(c)
    /\ UNCHANGED <<depends, born, raced, refused>>

\* updateFrontmatter.
ReadFrontmatter(c, d) ==
    /\ doc[d] # NoDoc
    /\ Begin(c, [Idle EXCEPT !.kind = "annotate", !.at = d, !.fms = ReadOf({d})])

UpdateFrontmatter(c) ==
    /\ treeCall[c].kind = "annotate"
    /\ LET d == treeCall[c].at IN
       \/ /\ doc[d] # NoDoc
          /\ \E o \in OwnerNames :
                /\ WriteFrontmatter(c, [treeCall[c].fms EXCEPT ![d] = Owned(@, o)])
                /\ wanted' = [wanted EXCEPT ![d] = Owned(@, o)]
       \/ doc[d] = NoDoc /\ UNCHANGED <<treeRows, wanted, overwritten, raced, refused>>
    /\ Return(c)
    /\ UNCHANGED moved

\* reorderDocuments: the list is the caller's, with what was deleted meanwhile.
ReadForReorder(c, D) ==
    /\ Cardinality(D) > 1 /\ D \subseteq Rows
    /\ Begin(c, [Idle EXCEPT !.kind = "reorder", !.fms = ReadOf(D)])

Reordered(c, order) ==
    [d \in DOMAIN treeCall[c].fms |-> Placed(treeCall[c].fms[d], order[d])]

Reorder(c) ==
    /\ treeCall[c].kind = "reorder"
    /\ LET D == DOMAIN treeCall[c].fms IN
       \/ /\ D \subseteq Rows
          /\ \E order \in [D -> 0..(Cardinality(D) - 1)] :
                /\ \A d, e \in D : d # e => order[d] # order[e]
                /\ WriteFrontmatter(c, Reordered(c, order))
                /\ wanted' = [d \in DocNumbers |->
                      IF d \in D THEN Placed(wanted[d], order[d]) ELSE wanted[d]]
          /\ moved' = TRUE
       \/ ~(D \subseteq Rows) /\ UNCHANGED <<treeRows, treeHistories>>
    /\ Return(c)

\* upsertIngestDocument, by a slug that its source has for good.
FindIngested(c) ==
    \E base \in Bases :
        Begin(c, [Idle EXCEPT !.kind = "ingest", !.slugs = <<[base |-> base, n |-> 1]>>])

UpsertIngested(c) ==
    /\ treeCall[c].kind = "ingest"
    /\ IF treeCall[c].slugs[1] \in Taken THEN Advance(c, Idle)
       ELSE Advance(c, [treeCall[c] EXCEPT !.kind = "insertIngested", !.at = born])

CreateIngested(c) ==
    /\ treeCall[c].kind = "insertIngested"
    /\ AddRows(c, <<0>>)
    /\ moved' = TRUE
    /\ UNCHANGED <<depends, raced>>

\* createDependency: an edge there is is left alone.
FindDependency(c, d, e) ==
    /\ d # e /\ d \in Rows /\ e \in Rows /\ <<d, e>> \notin depends
    /\ Begin(c, [Idle EXCEPT !.kind = "depend", !.at = d, !.onto = e])

CreateDependency(c) ==
    /\ treeCall[c].kind = "depend"
    /\ depends' = IF {treeCall[c].at, treeCall[c].onto} \subseteq Rows
                  THEN depends \cup {<<treeCall[c].at, treeCall[c].onto>>} ELSE depends
    /\ Return(c)
    /\ UNCHANGED <<doc, born, treeHistories>>

TreeNext ==
    \/ \E c \in Callers :
          \/ ReadSlugs(c) \/ ReadNewest(c) \/ CreateRow(c) \/ CopyTemplate(c)
          \/ ReserveSlugs(c) \/ InsertTemplate(c) \/ RefuseRows(c)
          \/ \E d \in DocNumbers : ReadFrontmatter(c, d)
          \/ UpdateFrontmatter(c)
          \/ \E D \in SUBSET DocNumbers : ReadForReorder(c, D)
          \/ Reorder(c)
          \/ FindIngested(c) \/ UpsertIngested(c) \/ CreateIngested(c)
          \/ \E d, e \in DocNumbers : FindDependency(c, d, e)
          \/ CreateDependency(c)
    \/ \E d \in DocNumbers : DeleteRow(d)

TreeSpec == TreeInit /\ [][TreeNext]_treeVars

-----------------------------------------------------------------------------
(***************************************************************************)
(* Properties.                                                             *)
(***************************************************************************)

\* What a user wrote in the frontmatter of a document, and where it was put, stays
\* through everything that is done to it and to others, whatever overlaps; apart from a
\* document that was itself written over frontmatter nobody had read
\* (documents.ts:245-262, 481-507).
FrontmatterKept == \A d \in Rows \ overwritten : doc[d].fm = wanted[d]

\* A document is refused for its slug only where a document with that slug was created
\* after the call had looked, also after deletions have left gaps in the numbers, and
\* among the documents of a template (slug.ts:22-28, templates.ts:57-78).
RefusedByRaceOnly == ~refused

\* Documents follow each other in the order they were created, through deletions and
\* whatever else overlaps, as long as all were made by createDocument, none of them
\* between another's count and its insert, and nothing was reordered
\* (documents.ts:79-85).  No more than that holds: createDocument counts on from the
\* newest document, and an ingested one has the order 0 (documents.ts:710), a copy of a
\* template the order 1 (documents.ts:374) and the documents of an applied one 0, 1, ...
\* (templates.ts:90), so that the next document created comes before older ones, where
\* the comment has it "append to the end of their type group" (documents.ts:82).
OrderFollowsCreation ==
    ~moved /\ ~raced => \A d, e \in Rows : d < e => doc[d].fm.order < doc[e].fm.order

\* The tree of documents, through calls that overlap.
TreeHolds ==
    /\ TreeTypeOK
    /\ FrontmatterKept
    /\ RefusedByRaceOnly
    /\ OrderFollowsCreation
=============================================================================
