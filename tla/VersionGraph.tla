---------------------------- MODULE VersionGraph ----------------------------
(***************************************************************************)
(* From two compared files to a relation, and from the relations of a      *)
(* group to its version graph: edges, branches and the chain.              *)
(* src/app/services/version_graph.py,                                      *)
(* src/app/services/version_relation_fusion.py,                            *)
(* src/app/services/document_grouping.py.                                  *)
(* Similarities and confidences are percentages.                           *)
(***************************************************************************)
EXTENDS Inventory

Relation == {"direct_revision", "derived_export", "semantic_duplicate", "parallel_branch",
             "unrelated", "uncertain"}

\* What the deterministic facts allow a relation to be.
Constraint == {"exact_hash_match", "parent_child_supported", "export_supported",
               "semantic_duplicate_supported", "parallel_branch_supported",
               "unrelated_supported"}

NoAnswer == [relation |-> "none", confidence |-> 0, high |-> FALSE]

(***************************************************************************)
(* Groups: the components of the files that are similar enough.            *)
(***************************************************************************)

\* The nodes that can be reached from `some` over the (unordered) links.
Reachable(some, nodes, links) ==
    LET Reached[k \in 0..Cardinality(nodes)] ==
            IF k = 0 THEN some
            ELSE Reached[k - 1] \cup {n \in nodes : \E m \in Reached[k - 1] : {m, n} \in links}
    IN  Reached[Cardinality(nodes)]

\* The canonical file of a copy is its original.
Original(f) == IF duplicate[f] = NoFile THEN f ELSE duplicate[f]

\* Equal files score 1, whatever the threshold.  A preview stands in for the
\* text of the lost files, so the others may be alike with them or not.
GroupRelatedDocuments(analysed, lost) ==
    LET same == {{p[1], p[2]} : p \in {q \in analysed \X analysed : Sha(q[1]) = Sha(q[2])}}
    IN  {Reachable({f}, analysed, input.alike[lost] \cup same) : f \in analysed}

\* _file_sort_key.
Sorted(some) == SortedBy(some, {p \in some \X some : p[1] # p[2] /\ Older(p[1], p[2])})

(***************************************************************************)
(* Pairs.  Neighbours in time come first, then all the others.  A pair      *)
(* carries the group it is compared for.                                   *)
(***************************************************************************)
CandidatePairs(group) ==
    LET s == Sorted({f \in group : duplicate[f] = NoFile})
        Pairs(far) == [i \in 1..(Len(s) - far) |-> <<s[i], s[i + far], group>>]
        rest == {p \in (DOMAIN s) \X (DOMAIN s) : p[2] > p[1] + 1}
        earlier == {t \in rest \X rest :
                        t[1][1] < t[2][1] \/ (t[1][1] = t[2][1] /\ t[1][2] < t[2][2])}
        order == SortedBy(rest, earlier)
    IN  IF Len(s) < 2 THEN <<>>
        ELSE Pairs(1) \o [i \in DOMAIN order |-> <<s[order[i][1]], s[order[i][2]], group>>]

\* infer_version_direction: an explicit version number, then a mark in the
\* name, then the time, which overrules a mark but not a number.
Direction(l, r) ==
    LET a == input.meta[l]
        b == input.meta[r]
        From(left, sure) == [older |-> IF left THEN l ELSE r, newer |-> IF left THEN r ELSE l, sure |-> sure]
        timed == a.modified # b.modified
        agrees(left) == left = (a.modified < b.modified)
    IN  IF a.version # b.version /\ a.version # 0 /\ b.version # 0
        THEN From(a.version < b.version,
                  IF ~timed THEN 95 ELSE IF agrees(a.version < b.version) THEN 99 ELSE 77)
        ELSE IF a.phase # b.phase /\ (~timed \/ agrees(a.phase < b.phase))
        THEN From(a.phase < b.phase, IF timed THEN 72 ELSE 68)
        ELSE IF timed THEN From(a.modified < b.modified, IF a.phase # b.phase THEN 55 ELSE 60)
        ELSE [older |-> NoFile, newer |-> NoFile, sure |-> 0]

\* infer_deterministic_relation: its constraints, and the relation.
Constraints(l, r, d) ==
    LET known == d.older # NoFile
        stem == input.meta[l].stem = input.meta[r].stem
        content == input.content[{l, r}]
        structure == input.structure[{l, r}]
        parent == known /\ structure >= 35 /\ (content >= 55 \/ stem)
    IN  {c \in Constraint :
            CASE c = "exact_hash_match"             -> Sha(l) = Sha(r)
              [] c = "parent_child_supported"       -> parent
              [] c = "export_supported"             ->
                    parent /\ Ext(d.older) \in Editable /\ Ext(d.newer) = "pdf" /\ content >= 75
              [] c = "semantic_duplicate_supported" -> content >= 97 /\ structure >= 90
              [] c = "parallel_branch_supported"    ->
                    Sha(l) # Sha(r) /\ stem /\ content >= 55 /\ structure >= 35
              [] c = "unrelated_supported"          -> content < 45 /\ structure < 50}

DeterministicRelation(constraints, d, content) ==
    LET directed == d.older # NoFile /\ d.sure >= 68
    IN  IF "exact_hash_match" \in constraints THEN "semantic_duplicate"
        ELSE IF "export_supported" \in constraints /\ directed THEN "derived_export"
        ELSE IF "semantic_duplicate_supported" \in constraints /\ content = 100 THEN "semantic_duplicate"
        ELSE IF "parent_child_supported" \in constraints /\ directed THEN "direct_revision"
        ELSE IF "semantic_duplicate_supported" \in constraints THEN "semantic_duplicate"
        ELSE IF "unrelated_supported" \in constraints THEN "unrelated" ELSE "uncertain"

\* _candidate_supported.
Supported(relation, constraints) ==
    CASE relation = "direct_revision"    -> "parent_child_supported" \in constraints
      [] relation = "derived_export"     -> "export_supported" \in constraints
      [] relation = "semantic_duplicate" -> "semantic_duplicate_supported" \in constraints
      [] relation = "parallel_branch"    -> "parallel_branch_supported" \in constraints
      [] relation = "unrelated"          -> "unrelated_supported" \in constraints
      [] OTHER                           -> TRUE

\* fuse_version_relations: the resolved relation, and whether a human has to
\* look at it.
Fused(relation, constraints, answer) ==
    LET to(resolved, review) == [resolved |-> resolved, review |-> review]
    IN  IF "exact_hash_match" \in constraints THEN to("semantic_duplicate", FALSE)
        ELSE IF answer.relation \in {"none", "uncertain"} THEN to(relation, FALSE)
        ELSE IF ~Supported(answer.relation, constraints) THEN to("uncertain", TRUE)
        ELSE IF relation = answer.relation THEN to(relation, FALSE)
        ELSE IF relation = "uncertain"
             THEN to(IF answer.confidence >= 70 THEN answer.relation ELSE "uncertain", FALSE)
        ELSE to("uncertain", TRUE)

(***************************************************************************)
(* Edges, branches, chains, each the record of one group.                  *)
(***************************************************************************)
Edge(group, parent, child, relation) ==
    [group |-> group, parent |-> parent, child |-> child, relation |-> relation]

\* The edges, or branches, of a group.
Within(group, some) == {e \in some : e.group = group}

DuplicateEdges(group) ==
    {Edge(group, duplicate[f], f, "duplicate_of") : f \in {g \in group : duplicate[g] # NoFile}}

Directed(d) == d.resolved \in {"direct_revision", "derived_export"} /\ d.older # NoFile

\* Relations without a direction, from the smaller file to the larger.
UndirectedEdge(pair, d) ==
    Edge(pair[3],
         IF pair[1] < pair[2] THEN pair[1] ELSE pair[2], IF pair[1] < pair[2] THEN pair[2] ELSE pair[1],
         IF d.resolved \in {"semantic_duplicate", "parallel_branch"} THEN d.resolved ELSE "uncertain")

\* A child derives from the candidate parent that is most like it.
Better(d, e) ==
    LET weight(x) == 700 * x.content + 3 * x.confidence
        m(x) == input.meta[x.older].modified
    IN  \/ weight(d) > weight(e)
        \/ weight(d) = weight(e) /\ (m(d) > m(e) \/ (m(d) = m(e) /\ d.older >= e.older))

DerivedEdges(group, some) ==
    {Edge(group, d.older, d.newer, IF d.resolved = "derived_export" THEN "derived_export" ELSE "derived_from") :
        d \in {e \in some : Directed(e) /\ \A o \in some : Directed(o) /\ o.newer = e.newer => Better(e, o)}}

BuildEdges(group, compared) ==
    LET pairs == {p \in DOMAIN compared : p[3] = group}
        plain == {p \in pairs : ~Directed(compared[p]) /\ compared[p].resolved # "unrelated"}
    IN  DuplicateEdges(group)
        \cup {UndirectedEdge(p, compared[p]) : p \in plain}
        \cup DerivedEdges(group, {compared[p] : p \in pairs})

\* A branch: a file from which several others derive directly.
DetectBranches(group, some) ==
    LET children(f) == {e.child : e \in {d \in some : d.parent = f /\ d.relation = "derived_from"}}
    IN  {[group |-> group, root |-> f, children |-> children(f)] :
            f \in {e.parent : e \in {d \in some : Cardinality(children(d.parent)) > 1}}}

\* Mutation of Topological: the files are in the order of their versions and times.
TopologicalByTime(nodes, derived) == Sorted(nodes)

Parents(f, derived) == {e.parent : e \in {d \in derived : d.child = f}}
Children(f, derived) == {e.child : e \in {d \in derived : d.parent = f}}

\* One round of Kahn's algorithm: the first file that is ready is done, and
\* frees those of its children whose parents are then all done.
Visit(s, derived) ==
    LET done == Append(s.done, Head(s.ready))
        freed == {f \in Children(Head(s.ready), derived) : Parents(f, derived) \subseteq ToSet(done)}
    IN  IF s.ready = <<>> THEN s ELSE [done |-> done, ready |-> Tail(s.ready) \o Sorted(freed)]

\* Kahn's algorithm: the files in an order in which parents come first; what
\* is on a cycle never becomes ready.
Topological(nodes, derived) ==
    LET Rounds[k \in 0..Cardinality(nodes)] ==
            IF k = 0
            THEN [done |-> <<>>, ready |-> Sorted({f \in nodes : Parents(f, derived) = {}})]
            ELSE Visit(Rounds[k - 1], derived)
    IN  Rounds[Cardinality(nodes)].done

BuildChain(group, some) ==
    LET canonical == {f \in group : duplicate[f] = NoFile}
        derived == {e \in some : e.relation \in {"derived_from", "derived_export"}
                                 /\ e.parent \in canonical /\ e.child \in canonical}
        doubtful == {e \in some : e.relation \in {"uncertain", "parallel_branch", "semantic_duplicate"}}
        sorted == Topological(canonical, derived)
        ring == canonical \ ToSet(sorted)
        line == sorted \o Sorted(ring)
        links == {{e.parent, e.child} : e \in derived \cup doubtful}
        copies(f) == Sorted({g \in group : duplicate[g] = f})
        listed == FlattenSeq([i \in DOMAIN line |-> <<line[i]>> \o copies(line[i])])
        connected == \A f \in canonical : Reachable({f}, canonical, links) = canonical
    IN  [order    |-> listed \o InOrder(group \ ToSet(listed)),
         leaves   |-> {f \in canonical : \A e \in derived : e.parent # f},
         complete |-> ring = {} /\ connected /\ doubtful = {}]
=============================================================================
