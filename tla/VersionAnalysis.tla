-------------------------- MODULE VersionAnalysis --------------------------
(***************************************************************************)
(* The version stage: the parsed files are grouped, the pairs of a group   *)
(* compared one by one - each comparison may ask the Version sub-agent     *)
(* for an assessment - and the relations become edges, branches and        *)
(* chains.  src/app/graphs/version_analysis.py,                            *)
(* src/app/nodes/version_analysis.py, src/app/state/converters.py.         *)
(*                                                                         *)
(* A stage that is run again starts from the groups, diffs, edges,         *)
(* branches and chains of the earlier pass: its results are merged with    *)
(* them by identifier, and nothing is ever taken out.  The identifier of a *)
(* group is that of its files, so a pass that can read other texts than    *)
(* the first puts its groups beside those it did not find again.           *)
(***************************************************************************)
EXTENDS VersionGraph

VARIABLES
    groups,       \* version_groups: sets of files
    comparisons,  \* comparison_queue: two files of a group, and the group
    pair,         \* the pair being compared
    diff,         \* current_diff
    answer,       \* what the Version sub-agent said of it
    silenced,     \* an error of the Version sub-agent is on record
    diffs,        \* pair -> its record
    edges, branches,
    chains        \* group -> its chain

versionVars == <<groups, comparisons, pair, diff, answer, silenced, diffs, edges, branches, chains>>
versionWork == <<comparisons, pair, diff, answer, silenced>>
versionResults == <<groups, diffs, edges, branches, chains>>

NoPair == <<NoFile, NoFile, {}>>
NoDiff == [older |-> NoFile, newer |-> NoFile, content |-> 0, confidence |-> 0,
           relation |-> "none", constraints |-> {}, resolved |-> "none",
           review |-> FALSE, high |-> FALSE]

Analysed == {f \in File : files[f] = "parsed"
                \/ (files[f] = "duplicate" /\ files[duplicate[f]] = "parsed")}

\* Every file has its text read, a copy that of its original; a text that
\* cannot be read is lost for this pass.
GroupRelatedFiles ==
    /\ At("group_related_documents")
    /\ \E lost \in SUBSET {f \in Analysed : Original(f) \in input.unreadable} :
        groups' = groups \cup GroupRelatedDocuments(Analysed, lost)
    /\ pc' = "add_duplicate_version_edges"
    /\ UNCHANGED <<input, errors, retried, inventoryVars, versionWork, diffs, edges, branches, chains>>

AddDuplicateVersionEdges ==
    /\ At("add_duplicate_version_edges")
    /\ edges' = edges \cup UNION {BuildEdges(g, <<>>) : g \in groups}
    /\ pc' = "build_comparison_queue"
    /\ UNCHANGED <<input, errors, retried, inventoryVars, versionWork, groups, diffs, branches, chains>>

\* has_pending_comparisons.
NextComparison(jobs) == IF jobs = <<>> THEN "build_version_edges" ELSE "load_next_comparison"

\* generate_candidate_pairs and build_comparison_queue, group after group, in
\* the order of their labels and of the passes that found them: any order.
BuildComparisonQueue ==
    /\ At("build_comparison_queue")
    /\ \E line \in SetToSeqs(groups) :
        comparisons' = FlattenSeq([i \in DOMAIN line |-> CandidatePairs(line[i])])
    /\ pc' = NextComparison(comparisons')
    /\ UNCHANGED <<input, errors, retried, inventoryVars, pair, diff, answer, silenced, versionResults>>

LoadNextComparison ==
    /\ At("load_next_comparison")
    /\ pair' = Head(comparisons) /\ comparisons' = Tail(comparisons)
    /\ diff' = NoDiff /\ answer' = NoAnswer
    /\ pc' = "compare_document_pair"
    /\ UNCHANGED <<input, errors, retried, inventoryVars, silenced, versionResults>>

\* compare_document_pair of the service; summarize_key_changes_deterministically
\* only words the summary.
Compared(l, r) ==
    LET d == Direction(l, r)
        content == input.content[{l, r}]
        constraints == Constraints(l, r, d)
        relation == DeterministicRelation(constraints, d, content)
    IN  [older |-> d.older, newer |-> d.newer, content |-> content,
         confidence |-> 50 * d.sure + 30 * content + 20 * input.structure[{l, r}],
         relation |-> relation, constraints |-> constraints, resolved |-> relation,
         review |-> FALSE, high |-> FALSE]

\* The normalised text of a file of the pair may not be readable now.
CompareDocumentPair ==
    /\ At("compare_document_pair")
    /\ \/ /\ diff' = Compared(pair[1], pair[2])
          /\ pc' = "infer_version_direction"
       \/ /\ {pair[1], pair[2]} \cap input.unreadable # {}
          /\ diff' = NoDiff
          /\ pc' = "record_comparison_error"
    /\ UNCHANGED <<input, errors, retried, inventoryVars, comparisons, pair, answer, silenced, versionResults>>

InferVersionDirection ==
    /\ At("infer_version_direction")
    /\ LET d == Direction(pair[1], pair[2])
       IN  diff' = [diff EXCEPT !.older = d.older, !.newer = d.newer,
                                !.confidence = (100 * d.sure + @) \div 2]
    /\ pc' = "prepare_version_subagent_input"
    /\ UNCHANGED <<input, errors, retried, inventoryVars, comparisons, pair, answer, silenced, versionResults>>

\* _context_supports_parallel_branch: both files derive from a third one, as
\* far as this group is on record.
SiblingsOnRecord(l, r, group) ==
    \E root \in File \ {l, r} : \A f \in {l, r} :
        \E p \in {q \in DOMAIN diffs : q[3] = group} :
            /\ diffs[p].resolved \in {"direct_revision", "derived_export"}
            /\ diffs[p].older = root /\ diffs[p].newer = f

PrepareVersionSubagentInput ==
    /\ At("prepare_version_subagent_input")
    /\ IF input.use_llm
       THEN /\ diff' = IF SiblingsOnRecord(pair[1], pair[2], pair[3])
                       THEN [diff EXCEPT !.constraints = @ \cup {"parallel_branch_supported"}]
                       ELSE diff
            /\ pc' = "summarize_key_changes_with_subagent"
       ELSE diff' = diff /\ pc' = "record_diff_result"
    /\ UNCHANGED <<input, errors, retried, inventoryVars, comparisons, pair, answer, silenced, versionResults>>

\* One request to the Version sub-agent (TeamDispatch).  Every error on the
\* record of its task makes the later answers be discarded.
SummarizeKeyChangesWithSubagent ==
    /\ At("summarize_key_changes_with_subagent")
    /\ \/ /\ ~silenced
          /\ answer' \in input.answers
          /\ pc' = "apply_subagent_summary"
          /\ UNCHANGED <<errors, silenced>>
       \/ /\ answer' = NoAnswer
          /\ pc' = "retain_deterministic_summary"
          /\ silenced' = TRUE
          /\ IF silenced THEN errors' = errors ELSE Record("llm")
    /\ UNCHANGED <<input, retried, inventoryVars, comparisons, pair, diff, versionResults>>

ApplySubagentSummary ==
    /\ At("apply_subagent_summary")
    /\ LET fused == Fused(diff.relation, diff.constraints, answer)
       IN  diff' = [diff EXCEPT !.resolved = fused.resolved, !.review = fused.review,
                                !.high = answer.high]
    /\ pc' = "record_diff_result"
    /\ UNCHANGED <<input, errors, retried, inventoryVars, comparisons, pair, answer, silenced, versionResults>>

RetainDeterministicSummary ==
    /\ At("retain_deterministic_summary")
    /\ pc' = "record_diff_result"
    /\ UNCHANGED <<input, errors, retried, inventoryVars, versionVars>>

ComparisonEnds ==
    /\ pair' = NoPair /\ diff' = NoDiff /\ answer' = NoAnswer
    /\ pc' = NextComparison(comparisons)
    /\ UNCHANGED <<input, retried, inventoryVars, comparisons, silenced, groups, edges, branches, chains>>

RecordDiffResult ==
    /\ At("record_diff_result")
    /\ diffs' = With(diffs, pair, diff)
    /\ errors' = errors
    /\ ComparisonEnds

RecordComparisonError ==
    At("record_comparison_error") /\ Record("comparison") /\ ComparisonEnds /\ UNCHANGED diffs

BuildVersionEdges ==
    /\ At("build_version_edges")
    /\ edges' = edges \cup UNION {BuildEdges(g, diffs) : g \in groups}
    /\ pc' = "detect_version_branches"
    /\ UNCHANGED <<input, errors, retried, inventoryVars, versionWork, groups, diffs, branches, chains>>

DetectVersionBranches ==
    /\ At("detect_version_branches")
    /\ branches' = branches \cup UNION {DetectBranches(g, Within(g, edges)) : g \in groups}
    /\ pc' = "build_version_chains"
    /\ UNCHANGED <<input, errors, retried, inventoryVars, versionWork, groups, diffs, edges, chains>>

BuildVersionChains ==
    /\ At("build_version_chains")
    /\ chains' = [g \in groups \cup DOMAIN chains |->
                    IF g \in groups THEN BuildChain(g, Within(g, edges)) ELSE chains[g]]
    /\ pc' = "validate_version_results"
    /\ UNCHANGED <<input, errors, retried, inventoryVars, versionWork, groups, diffs, edges, branches>>

ValidateVersionResults ==
    /\ At("validate_version_results")
    /\ IF DOMAIN chains = groups THEN errors' = errors ELSE Record("validation")
    /\ pc' = "version_ended"
    /\ UNCHANGED <<input, retried, inventoryVars, versionVars>>

EndVersion ==
    /\ At("version_ended")
    /\ EndStage("version_analysis", "group_related_documents", "collect_pdf_candidates")
    /\ UNCHANGED <<input, inventoryVars, versionVars>>

VersionInit ==
    /\ groups = {} /\ comparisons = <<>> /\ pair = NoPair /\ diff = NoDiff
    /\ answer = NoAnswer /\ silenced = FALSE
    /\ diffs = <<>> /\ edges = {} /\ branches = {} /\ chains = <<>>

VersionNext ==
    \/ GroupRelatedFiles \/ AddDuplicateVersionEdges \/ BuildComparisonQueue \/ LoadNextComparison
    \/ CompareDocumentPair \/ InferVersionDirection \/ PrepareVersionSubagentInput
    \/ SummarizeKeyChangesWithSubagent \/ ApplySubagentSummary \/ RetainDeterministicSummary
    \/ RecordDiffResult \/ RecordComparisonError \/ BuildVersionEdges \/ DetectVersionBranches
    \/ BuildVersionChains \/ ValidateVersionResults \/ EndVersion
=============================================================================
