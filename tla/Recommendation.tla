--------------------------- MODULE Recommendation ---------------------------
(***************************************************************************)
(* The recommendation stage: the files of a group are scored, the best     *)
(* becomes its main version, and the group is left to a human unless the   *)
(* choice is clear; then a Judge sub-agent gives a second opinion and      *)
(* humans decide what is open.                                             *)
(* src/app/graphs/recommendation.py, src/app/nodes/recommendation.py,      *)
(* src/app/services/recommendation.py,                                     *)
(* src/app/services/recommendation_judge.py, src/app/nodes/review.py.      *)
(*                                                                         *)
(* Scores and confidences of decisions are in 1/10000, other confidences   *)
(* in 1/100.  Reasons and the order of the review list are left out.       *)
(***************************************************************************)
EXTENDS Evidence

VARIABLES
    candidates,   \* candidate_sets: group -> its files that are no copies
    decisions,    \* group -> its decision
    pending,      \* human_review.pending_group_ids
    selections    \* human_review.selections: group -> file

recommendationVars == <<candidates, decisions, pending, selections>>

\* The confidences of the Judge are percentages.
ASSUME OpinionsAssumption == \A i \in Inputs : i.opinions \in SUBSET (0..100)

Threshold == 8200
Whole == 10000

Capped(score) == IF score > Whole THEN Whole ELSE IF score < 0 THEN 0 ELSE score
BranchesOf(group) == Within(group, branches)
ExcludedFrom(group) == {b.file : b \in {c \in business : c.file \in group /\ c.type \in Excluding}}
DiffsOf(group) == {diffs[p] : p \in {q \in DOMAIN diffs : q[3] = group}}

Step(from, to) ==
    /\ At(from)
    /\ pc' = to
    /\ UNCHANGED <<input, retried, inventoryVars, versionVars, evidenceVars>>

Revise(New(_)) ==
    /\ decisions' = [g \in DOMAIN decisions |-> New(g)]
    /\ UNCHANGED <<errors, candidates, pending, selections>>

FindEditableLeafVersions ==
    /\ Step("find_editable_leaf_versions", "score_version_candidates")
    /\ candidates' = [g \in groups |-> {f \in g : duplicate[f] = NoFile}]
    /\ UNCHANGED <<errors, decisions, pending, selections>>

\* score_version_candidates of the service.
BaseScore(group, f) ==
    LET rivals == candidates[group]
        m == input.meta[f]
        when(condition, points) == IF condition THEN points ELSE 0
    IN  IF rivals = {f} THEN Whole
        ELSE Capped(1500
            + when(f \in chains[group].leaves, 3500)
            + when(m.ext \in Editable, 1800)
            + when(\A g \in rivals : input.meta[g].modified <= m.modified, 1800)
            + when(m.phase = 3, 1400) + when(m.phase = 2, 800)
            + when(chains[group].complete, 500)
            - when(m.ext = "pdf" /\ \E g \in rivals : Ext(g) \in Editable, 1000))

ScoreVersionCandidates ==
    /\ Step("score_version_candidates", "apply_delivery_rules")
    /\ decisions' = [g \in groups |->
            [scores |-> [f \in candidates[g] |-> BaseScore(g, f)], recommended |-> NoFile,
             confidence |-> 0, review |-> TRUE, by |-> "unresolved", preserve |-> {}]]
    /\ UNCHANGED <<errors, candidates, pending, selections>>

Rescored(group, New(_)) ==
    [decisions[group] EXCEPT !.scores = [f \in DOMAIN @ |-> Capped(New(f))]]

\* Every delivery counts, whichever source it came from.
ApplyDeliveryRules ==
    /\ Step("apply_delivery_rules", "apply_pdf_source_rules")
    /\ Revise(LAMBDA g : Rescored(g, LAMBDA f :
            decisions[g].scores[f]
            + SumFunction([d \in {e \in deliveries : e.file = f} |->
                                (IF d.confirmed THEN 18 ELSE 10) * d.confidence])))

ApplyPdfSourceRules ==
    /\ Step("apply_pdf_source_rules", "apply_business_evidence_rules")
    /\ Revise(LAMBDA g : Rescored(g, LAMBDA f :
            decisions[g].scores[f]
            + SumFunction([p \in {q \in DOMAIN exports : exports[q].source = f} |->
                                10 * exports[p].confidence])
            - (IF f \in DOMAIN exports /\ exports[f].source # NoFile THEN 6 * exports[f].confidence ELSE 0)))

\* apply_business_evidence_scoring: an approval that the mail itself confirms
\* is not counted twice; an excluded file competes no more.
BusinessScore(group, f) ==
    LET counted == {b \in business : b.file = f /\ b.type \in Positive
                        /\ ~(b.type = "approved" /\ \E d \in deliveries :
                                d.file = f /\ d.confirmed /\ d.mail = b.mail)}
    IN  IF f \in ExcludedFrom(group) THEN 0
        ELSE decisions[group].scores[f]
             + SumFunction([b \in counted |-> (IF b.type = "approved" THEN 18 ELSE 14) * b.confidence])

ApplyBusinessEvidenceRules ==
    /\ Step("apply_business_evidence_rules", "select_main_versions")
    /\ Revise(LAMBDA g : Rescored(g, LAMBDA f : BusinessScore(g, f)))

\* select_recommended_file.
SelectRecommendedFile(group) ==
    LET eligible == candidates[group] \ ExcludedFrom(group)
        score(f) == decisions[group].scores[f]
        beats(f, g) == \/ score(f) > score(g)
                       \/ score(f) = score(g) /\ (f = g \/ ~Older(f, g))
    IN  IF eligible = {} THEN NoFile ELSE CHOOSE f \in eligible : \A g \in eligible : beats(f, g)

SelectMainVersions ==
    /\ Step("select_main_versions", "calculate_decision_confidence")
    /\ Revise(LAMBDA g : [decisions[g] EXCEPT !.recommended = SelectRecommendedFile(g)])

\* How far the recommended file is ahead of the best of the others.
Margin(d) ==
    LET rest == DOMAIN d.scores \ {d.recommended}
    IN  IF rest = {} THEN Whole
        ELSE d.scores[d.recommended] - Max({d.scores[f] : f \in rest})

Clarity(group, d) ==
    LET alone == Cardinality(DOMAIN d.scores) = 1
        lead == IF Margin(d) > 0 THEN Least(4 * Margin(d), Whole) ELSE 0
    IN  Capped((IF alone THEN Whole ELSE (65 * d.scores[d.recommended] + 35 * lead) \div 100)
               - (IF chains[group].complete THEN 0 ELSE 1500)
               - (IF BranchesOf(group) = {} THEN 0 ELSE 2500))

\* Mutation of DecisionConfidence: an incomplete chain leaves nothing to a human.
DecisionOfAnyChain(group, d) ==
    LET clarity == Clarity(group, d)
        review == BranchesOf(group) # {} \/ Margin(d) < 800 \/ clarity < Threshold
    IN  IF d.recommended = NoFile
        THEN [d EXCEPT !.confidence = 0, !.review = TRUE, !.by = "unresolved"]
        ELSE [d EXCEPT !.confidence = clarity, !.review = review,
                       !.by = IF review THEN "unresolved" ELSE "rule"]

\* Left to a human unless the versions are in order and the choice is clear.
DecisionConfidence(group, d) ==
    LET clarity == Clarity(group, d)
        review == \/ BranchesOf(group) # {} \/ ~chains[group].complete
                  \/ Margin(d) < 800 \/ clarity < Threshold
    IN  IF d.recommended = NoFile
        THEN [d EXCEPT !.confidence = 0, !.review = TRUE, !.by = "unresolved"]
        ELSE [d EXCEPT !.confidence = clarity, !.review = review,
                       !.by = IF review THEN "unresolved" ELSE "rule"]

CalculateDecisionConfidence ==
    /\ Step("calculate_decision_confidence", "apply_semantic_review_rules")
    /\ Revise(LAMBDA g : DecisionConfidence(g, decisions[g]))

\* Mutation of Open: what decided the group before stays on record.
OpenUndecided(d) == [d EXCEPT !.review = TRUE]

Open(d) == [d EXCEPT !.review = TRUE, !.by = "unresolved"]

SemanticReview(group) == \E d \in DiffsOf(group) : d.high \/ d.review

ApplySemanticReviewRules ==
    /\ Step("apply_semantic_review_rules", "apply_business_evidence_review_rules")
    /\ Revise(LAMBDA g : IF SemanticReview(g) THEN Open(decisions[g]) ELSE decisions[g])

\* apply_business_evidence_review.
BusinessReview(group) ==
    LET types(f) == {b.type : b \in {c \in business : c.file = f}}
    IN  \/ \E f \in group : types(f) \cap Reviewed # {}
        \/ \E f \in group : types(f) \cap Positive # {} /\ types(f) \cap Negative # {}
        \/ candidates[group] # {} /\ candidates[group] \subseteq ExcludedFrom(group)

ApplyBusinessEvidenceReviewRules ==
    /\ Step("apply_business_evidence_review_rules", "preserve_complete_version_chains")
    /\ Revise(LAMBDA g : IF BusinessReview(g) THEN Open(decisions[g]) ELSE decisions[g])

PreserveCompleteVersionChains ==
    /\ Step("preserve_complete_version_chains", "mark_human_review_items")
    /\ Revise(LAMBDA g : [decisions[g] EXCEPT !.preserve = g])

UnderReview(some) == {g \in DOMAIN some : some[g].review}

MarkHumanReviewItems ==
    /\ Step("mark_human_review_items", "validate_recommendation_results")
    /\ pending' = UnderReview(decisions) /\ selections' = <<>>
    /\ UNCHANGED <<errors, candidates, decisions>>

\* What validate_recommendation_results asks of the decisions.
ResultsAreValid ==
    /\ DOMAIN candidates = groups /\ DOMAIN decisions = groups
    /\ \A g \in groups :
        LET d == decisions[g]
            eligible == DOMAIN d.scores \ ExcludedFrom(g)
        IN  /\ candidates[g] \subseteq g /\ DOMAIN d.scores = candidates[g]
            /\ \A f \in DOMAIN d.scores : d.scores[f] \in 0..Whole
            /\ d.confidence \in 0..Whole
            /\ IF eligible = {} THEN d.recommended = NoFile ELSE d.recommended \in eligible
            /\ d.preserve = g
            /\ d.by = IF d.review THEN "unresolved" ELSE "rule"
    /\ pending = UnderReview(decisions)

ValidateRecommendationResults ==
    /\ Step("validate_recommendation_results", "dispatch_recommendation_judge_task")
    /\ IF ResultsAreValid /\ selections = <<>> THEN errors' = errors ELSE Record("validation")
    /\ UNCHANGED recommendationVars

(***************************************************************************)
(* The second opinion.                                                     *)
(***************************************************************************)
\* A file that still competes, or NoFile: the Judge abstains, as the
\* deterministic fallback does.
Opinions(group) ==
    [file : {NoFile} \cup (candidates[group] \ ExcludedFrom(group)), confidence : input.opinions]

\* Mutation of FuseJudgment: an opinion that agrees settles the group.
FuseConsensus(d, opinion) ==
    IF opinion.file # NoFile /\ opinion.file = d.recommended /\ opinion.confidence >= 80
    THEN [d EXCEPT !.review = FALSE, !.by = "rule"] ELSE d

\* fuse_recommendation_judgment.
FuseJudgment(d, opinion) ==
    LET sure == d.recommended # NoFile /\ ~d.review
        firm == opinion.confidence >= 80
        boosted == [d.scores EXCEPT ![opinion.file] = Capped(@ + 4 * opinion.confidence)]
        first == CHOOSE f \in DOMAIN boosted : \A g \in DOMAIN boosted :
                    boosted[f] > boosted[g] \/ (boosted[f] = boosted[g] /\ f <= g)
    IN  IF opinion.file = NoFile THEN d
        ELSE IF opinion.file = d.recommended
        THEN IF ~sure /\ firm THEN [d EXCEPT !.scores = boosted] ELSE d
        ELSE IF sure \/ ~firm THEN Open(d)
        ELSE [Open(d) EXCEPT !.scores = boosted, !.recommended = first]

\* dispatch_recommendation_judge_task: a request per group; when the task is
\* dispatched again no answer is accepted.
DispatchRecommendationJudgeTask ==
    /\ Step("dispatch_recommendation_judge_task", "judge_dispatched")
    /\ \E told \in [groups -> UNION {Opinions(g) : g \in groups}] :
        /\ \A g \in groups : told[g] \in Opinions(g)
        /\ "recommendation_judge" \in retried => \A g \in groups : told[g].file = NoFile
        /\ decisions' = [g \in groups |-> FuseJudgment(decisions[g], told[g])]
        /\ \/ errors' = errors
           \/ /\ input.flaky /\ "recommendation_judge" \notin retried
              /\ \E g \in groups : told[g].file = NoFile
              /\ Record("llm")
    /\ pending' = UnderReview(decisions')
    /\ UNCHANGED <<candidates, selections>>

\* has_pending_human_review.
EndJudge ==
    /\ At("judge_dispatched")
    /\ EndStage("recommendation_judge", "dispatch_recommendation_judge_task",
                IF UnderReview(decisions) = {} THEN "reported" ELSE "prepare_human_review")
    /\ UNCHANGED <<input, inventoryVars, versionVars, evidenceVars, recommendationVars>>

(***************************************************************************)
(* The human review.                                                       *)
(***************************************************************************)
PrepareHumanReview ==
    /\ Step("prepare_human_review", "request_human_review")
    /\ pending' = UnderReview(decisions)
    /\ UNCHANGED <<errors, candidates, decisions, selections>>

\* Exactly the open groups are answered, each with one of its files.
RequestHumanReview ==
    /\ Step("request_human_review", "apply_human_selection")
    /\ \E answer_ \in [pending -> File] :
        (\A g \in pending : answer_[g] \in g) /\ selections' = answer_
    /\ UNCHANGED <<errors, candidates, decisions, pending>>

ApplyHumanSelection ==
    /\ Step("apply_human_selection", "reported")
    /\ decisions' = [g \in DOMAIN decisions |->
            IF g \in DOMAIN selections
            THEN [decisions[g] EXCEPT !.recommended = selections[g], !.confidence = Whole,
                                      !.review = FALSE, !.by = "human"]
            ELSE decisions[g]]
    /\ pending' = {}
    /\ UNCHANGED <<errors, candidates, selections>>

RecommendationInit == candidates = <<>> /\ decisions = <<>> /\ pending = {} /\ selections = <<>>

RecommendationNext ==
    \/ FindEditableLeafVersions \/ ScoreVersionCandidates \/ ApplyDeliveryRules \/ ApplyPdfSourceRules
    \/ ApplyBusinessEvidenceRules \/ SelectMainVersions \/ CalculateDecisionConfidence
    \/ ApplySemanticReviewRules \/ ApplyBusinessEvidenceReviewRules \/ PreserveCompleteVersionChains
    \/ MarkHumanReviewItems \/ ValidateRecommendationResults
    \/ DispatchRecommendationJudgeTask \/ EndJudge
    \/ PrepareHumanReview \/ RequestHumanReview \/ ApplyHumanSelection
=============================================================================
