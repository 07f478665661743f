------------------------------ MODULE Analysis ------------------------------
(***************************************************************************)
(* An analysis from the files to the chosen main versions: the inventory,  *)
(* version, evidence and recommendation stages one after the other, each   *)
(* with the nodes and the data of its own module, and what the whole       *)
(* promises.  src/app/graphs/file_governance.py.                           *)
(***************************************************************************)
EXTENDS Recommendation

analysisVars == <<input, pc, errors, retried, inventoryVars, versionVars, evidenceVars, recommendationVars>>

Init == InventoryInit /\ VersionInit /\ EvidenceInit /\ RecommendationInit

Ended == pc \in {"reported", "stopped"} /\ UNCHANGED analysisVars

Next ==
    \/ InventoryNext /\ UNCHANGED <<versionVars, evidenceVars, recommendationVars>>
    \/ VersionNext /\ UNCHANGED <<evidenceVars, recommendationVars>>
    \/ EvidenceNext /\ UNCHANGED recommendationVars
    \/ RecommendationNext
    \/ Ended

Spec == Init /\ [][Next]_analysisVars

(***************************************************************************)
(* What an analysis promises.                                              *)
(***************************************************************************)
Place(order, f) == CHOOSE i \in DOMAIN order : order[i] = f

\* Once the version stage is over every group has one chain, which lists each
\* of its files exactly once, a copy after its original, whatever cycles the
\* relations form; in a chain that is called complete every file stands after
\* the files it derives from (build_version_chains).
ChainListsItsGroup ==
    At("collect_pdf_candidates") =>
        /\ DOMAIN chains = groups
        /\ \A g \in groups :
            LET order == chains[g].order
            IN  /\ ToSet(order) = g /\ Len(order) = Cardinality(g)
                /\ \A f \in g : duplicate[f] \in g => Place(order, duplicate[f]) < Place(order, f)
                /\ chains[g].complete =>
                    \A e \in Within(g, edges) : Place(order, e.parent) < Place(order, e.child)

\* A main version that nobody looked at was chosen in a group whose versions
\* are in order, about whose changes and relations no doubt is on record, and
\* that no mail rejects or wants revised; nothing excludes the file itself
\* (calculate_decision_confidence, the two review rules and the Judge).
AutomaticChoiceIsSafe ==
    At("reported") =>
        \A g \in groups : decisions[g].by = "rule" =>
            /\ chains[g].complete /\ BranchesOf(g) = {} /\ ~SemanticReview(g)
            /\ \A b \in business : b.file \in g => b.type \notin Reviewed
            /\ decisions[g].recommended \in candidates[g] \ ExcludedFrom(g)

\* What a stage has kept from an earlier pass and from steps that failed agrees
\* with what it wrote last, so the validation at its end finds nothing - but for
\* one case: a repeated version stage that could read other texts than before
\* has grouped the files in two ways.  validate_evidence_confidence reports that
\* and nothing else, and no run that nobody looks after gets beyond the evidence
\* stage with it.  What validate_recommendation_results demands still holds when
\* the Judge has had its say: an excluded file is not recommended, an open group
\* is unresolved and on the review list (dispatch_recommendation_judge_task).
ResultsPassValidation ==
    /\ At("validate_inventory_results") => InventoryIsValid
    /\ At("validate_version_results") => DOMAIN chains = groups
    /\ At("validate_evidence_confidence") => (EvidenceIsValid <=> Disjoint)
    /\ At("validate_evidence_confidence") /\ ~Disjoint => "version_analysis" \in retried
    /\ pc \in {"dispatch_evidence_subagent_task", "find_editable_leaf_versions", "reported"} =>
            Disjoint /\ EvidenceIsValid
    /\ pc \in {"validate_recommendation_results", "judge_dispatched", "prepare_human_review",
                "request_human_review"} => ResultsAreValid

\* Once a group has been left to a human, neither a later rule nor the Judge
\* nor a second run of the Judge decides it (fuse_recommendation_judgment).
ReviewOnlyClearedByHuman ==
    [][\A g \in DOMAIN decisions :
          g \in DOMAIN decisions' /\ decisions[g].review /\ ~decisions'[g].review =>
              pc \in {"calculate_decision_confidence", "apply_human_selection"}]_analysisVars
=============================================================================
