---------------------------- MODULE MCGeneration -----------------------------
(***************************************************************************)
(* What asks a model or a queue for something, each part with model values *)
(* of its own, one of them moving in a behaviour as in MCWorkspace. The    *)
(* plan of a generation is two nodes that depend on one another, and a     *)
(* second thought leaves one of them out; the repository has two documents *)
(* of the same slug and a file of code.                                    *)
(***************************************************************************)
EXTENDS GenerationJob, RepoIngest, AssistantChat, SelectionRefine, Drafting

CONSTANTS p, q      \* nodes of a plan
OneLink == {<<p, q>>}
TwoPlans == {{p, q}, {q}}
SameSlug == [f \in {1, 2} |-> 1]

VARIABLE scene      \* the component that moves

GenerationInit ==
    /\ scene \in {"generate", "ingest", "chat", "refine", "draft"}
    /\ scene # "generate" => redis = FALSE
    /\ Init /\ IngestInit /\ ChatInit /\ RefineInit /\ DraftInit

GenerationNext ==
    \/ /\ scene = "generate" /\ Next
       /\ UNCHANGED <<scene, ingestVars, chatVars, refineVars, draftVars>>
    \/ /\ scene = "ingest" /\ IngestNext
       /\ UNCHANGED <<scene, vars, chatVars, refineVars, draftVars>>
    \/ /\ scene = "chat" /\ ChatNext
       /\ UNCHANGED <<scene, vars, ingestVars, refineVars, draftVars>>
    \/ /\ scene = "refine" /\ RefineNext
       /\ UNCHANGED <<scene, vars, ingestVars, chatVars, draftVars>>
    \/ /\ scene = "draft" /\ DraftNext
       /\ UNCHANGED <<scene, vars, ingestVars, chatVars, refineVars>>

generationVars == <<scene, vars, ingestVars, chatVars, refineVars, draftVars>>

GenerationSpec == GenerationInit /\ [][GenerationNext]_generationVars
=============================================================================
