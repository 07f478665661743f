------------------------ MODULE NodeExecutionProofs ------------------------
(***************************************************************************)
(* NodeExecution for any policy, failures, restarts and human retries: its *)
(* types, on what the run goes on behind the node, that the database leads *)
(* the checkpoint, and that a stored success is never computed again nor   *)
(* replaced.                                                               *)
(***************************************************************************)
EXTENDS NodeExecution, TLAPS

Path == {"given", "replaced"}
Data == {"none", "some", "more"}
Choice == {"none", "retry", "provide_path", "skip_file", "abort"}

\* The digest of an error that has no execution is <<"error">>.
Digest == {<<"error">>} \cup (Path \X Data)

Entry == [status : {"running", "failed", "succeeded", "reused"}, attempts : Nat \ {0},
          input : Digest, result : Result]

ErrorEntry == [status : {"pending", "retrying", "waiting_human", "fallback_applied", "recovered",
                         "failed"},
               fatal : BOOLEAN, retries : Nat, max : Nat]

Errors == [Kind -> {None} \cup ErrorEntry]

Types ==
    /\ policy \in [Kind -> [retries : Nat, fallback : Fallback \cup {"none"}, human : BOOLEAN]]
    /\ path \in Path /\ data \in Data
    /\ record \in {None} \cup Entry
    /\ row \in {None} \cup Entry
    /\ errors \in Errors /\ errorRows \in Errors
    /\ recovery \in [current : Kind \cup {"none"},
                     action : {"none", "retry", "fallback", "wait_human", "reuse_result", "abort"},
                     human : Choice]
    /\ resume \in [answer : Choice, given : BOOLEAN]
    /\ saved \in [data : Data, record : {None} \cup Entry, errors : Errors]
    /\ artifact \in Result

\* A success keeps the result that was computed from its input, and what the
\* run or its checkpoint knows as a success is one in the database.
OfItsInput(e) == e.status \in Reusable => e.result.input = e.input
Follows(e) == e.status \in Reusable => row.status \in Reusable /\ row.result = e.result

\* What the state, the checkpoint, the row and the stored result tell of each
\* other.
Agree ==
    /\ OfItsInput(row) /\ OfItsInput(record) /\ OfItsInput(saved.record)
    /\ Follows(record) /\ Follows(saved.record)
    /\ row.status \in Reusable => row.result = artifact
    /\ errors["inside"] # None \/ saved.errors["inside"] # None => row.status \in Reusable

\* The run is at the wrapped node, neither in its recovery nor behind it.
AtNode == pc \notin {"select", "inspect", "decide", "retry", "fallback", "wait_human", "ask",
                     "abort", "load", "done", "given_up"}

Handling == {"inspect", "decide", "retry", "fallback", "wait_human", "ask", "abort"}
Writing == {"select", "inspect", "apply", "retry", "fallback", "wait_human", "abort"}

Live(e) == e.status \in {"pending", "retrying", "waiting_human"}

\* The recovery does not go on with a success of another input directory.
OfThisPath == row.status \in Reusable => row.input[1] = path
Settleable == row.status \in Reusable \cup {"failed"} /\ OfThisPath

\* Where the run is tells what the row is.
Phases ==
    /\ pc \in {"invoke", "persist"} => row.status = "running"
    /\ pc \in {"start", "invoke", "persist"} => written = {}
    /\ pc = "persist" => artifact.input = Input
    /\ pc = "apply" => row.status \in Reusable /\ row.input = Input
    /\ pc = "select" =>
        /\ \E k \in Kind : Open(errors[k])
        /\ OfThisPath \/ (recovery.current \in AtBoundary /\ Open(errors[recovery.current]))
    /\ pc \in {"inspect", "load"} => row.status \in Reusable /\ record.status \in Reusable
    /\ pc \in {"decide", "fallback", "wait_human", "ask"} => Settleable
    /\ pc = "done" => DoneOrDegraded

\* Recovery, and the retry that it has scheduled, are about an error that is
\* there and was not given up for a fallback before.
Handled ==
    pc \in Handling \/ (recovery.action = "retry" /\ AtNode) =>
        /\ recovery.current \in Kind
        /\ Live(errors[recovery.current])
        /\ saved.errors[recovery.current].status # "fallback_applied"

\* What the graph node in progress makes of an error.
Target(k) ==
    CASE pc = "select"               -> Taken(k)
      [] pc \in {"inspect", "apply"} -> Settled(errors[k], "recovered")
      [] pc = "retry"                -> Retried(k)
      [] pc = "fallback"             -> Settled(errors[k], "fallback_applied")
      [] pc = "wait_human"           -> Asked(k)
      [] OTHER                       -> Settled(errors[k], "failed")

\* What a graph node has committed is in the rows until it ends.
Rows ==
    /\ pc \in Writing => \A k \in Kind : <<"error", k>> \in written => errorRows[k] = Target(k)
    /\ pc = "select" /\ (<<"execution", Selected>> \in written \/ <<"error", Selected>> \in written)
            => Settleable

\* An error's row knows the retries and the end that e tells.
Leads(k, e) ==
    /\ e # None /\ e.retries > 0 => errorRows[k] # None /\ e.retries <= errorRows[k].retries
    /\ e.status \in {"recovered", "fallback_applied", "failed"} => errorRows[k].status = e.status

Leading ==
    /\ \A k \in Kind : Leads(k, errors[k]) /\ Leads(k, saved.errors[k])
    /\ Leads("inside", artifact.error)

NodeInvariant == Types /\ Agree /\ Phases /\ Handled /\ Rows /\ Leading

\* What a step may do to the row once it is a success.
RowStays == row.status \in Reusable => row' = row \/ (row'.status \in Reusable /\ row'.result = row.result)

(***************************************************************************)
(* The operators.                                                          *)
(***************************************************************************)
LEMMA EntryIsNotNone ==
    ASSUME NEW e \in {None} \cup Entry
    PROVE  /\ e.status \in {"none", "running", "failed", "succeeded", "reused"}
           /\ e.status = "none" <=> e = None
BY DEF None, Entry

LEMMA ErrorIsNotNone ==
    ASSUME NEW e \in {None} \cup ErrorEntry
    PROVE  /\ e.status \in {"none", "pending", "retrying", "waiting_human", "fallback_applied",
                            "recovered", "failed"}
           /\ e.status = "none" <=> e = None
BY DEF None, ErrorEntry

LEMMA LargerIsPositive ==
    ASSUME NEW a \in Nat, NEW b \in Nat \ {0}
    PROVE  Larger(a, b) \in Nat \ {0} /\ Larger(b, a) \in Nat \ {0}
BY DEF Larger

LEMMA PolicyAllows ==
    ASSUME NEW p \in [Kind -> Policies]
    PROVE  p \in [Kind -> [retries : Nat, fallback : Fallback \cup {"none"}, human : BOOLEAN]]
BY NodeAssumption

LEMMA NewErrorTyped ==
    ASSUME Types, NEW k \in Kind
    PROVE  /\ NewError(k) \in ErrorEntry /\ Open(NewError(k))
           /\ NewError(k).retries = 0 /\ NewError(k).status = "pending"
<1>1. policy[k].retries \in Nat
  BY DEF Types
<1>. QED  BY <1>1 DEF NewError, ErrorEntry, Open, None

LEMMA SettledTyped ==
    ASSUME NEW e \in ErrorEntry, NEW s \in {"recovered", "fallback_applied", "failed"}
    PROVE  /\ Settled(e, s) \in ErrorEntry
           /\ Settled(e, s).status = s /\ Settled(e, s).retries = e.retries
<1>1. Settled(e, s) = [e EXCEPT !.status = s, !.fatal = (s = "failed")]
  BY DEF Settled
<1>2. (s = "failed") \in BOOLEAN
  OBVIOUS
<1>3. PICK b \in BOOLEAN : b = (s = "failed")
  BY <1>2
<1>4. [e EXCEPT !.status = s, !.fatal = b] \in ErrorEntry
      /\ [e EXCEPT !.status = s, !.fatal = b].status = s
      /\ [e EXCEPT !.status = s, !.fatal = b].retries = e.retries
  BY DEF ErrorEntry
<1>5. Settled(e, s) = [e EXCEPT !.status = s, !.fatal = b]
  BY <1>1, <1>3
<1>. QED  BY <1>4, <1>5

LEMMA TakenTyped ==
    ASSUME Types, NEW k \in Kind, errors[k] \in ErrorEntry, Open(errors[k])
    PROVE  Taken(k) \in ErrorEntry /\ Live(Taken(k)) /\ Taken(k).retries = errors[k].retries
<1>1. policy[k].retries \in Nat
  BY DEF Types
<1>2. PICK n \in Nat : n = policy[k].retries
  BY <1>1
<1>3. PICK s \in {"pending", "retrying", "waiting_human"} :
        s = IF errors[k].status = "failed" THEN "pending" ELSE errors[k].status
  BY DEF Open, ErrorEntry
<1>4. PICK e \in ErrorEntry : e = errors[k]
  OBVIOUS
<1>5. Taken(k) = [e EXCEPT !.max = n, !.status = s]
  BY <1>2, <1>3, <1>4 DEF Taken
<1>6. [e EXCEPT !.max = n, !.status = s] \in ErrorEntry
      /\ [e EXCEPT !.max = n, !.status = s].status = s
      /\ [e EXCEPT !.max = n, !.status = s].retries = e.retries
  BY <1>2, <1>3, <1>4 DEF ErrorEntry
<1>. QED  BY <1>3, <1>4, <1>5, <1>6 DEF Live

LEMMA AskedTyped ==
    ASSUME NEW k \in Kind, errors[k] \in ErrorEntry
    PROVE  Asked(k) \in ErrorEntry /\ Live(Asked(k)) /\ Asked(k).retries = errors[k].retries
<1>1. PICK e \in ErrorEntry : e = errors[k]
  OBVIOUS
<1>2. Asked(k) = [e EXCEPT !.status = "waiting_human", !.fatal = FALSE]
  BY <1>1 DEF Asked
<1>. QED  BY <1>1, <1>2 DEF ErrorEntry, Live

LEMMA RetriedTyped ==
    ASSUME NEW k \in Kind, errors[k] \in ErrorEntry
    PROVE  Retried(k) \in ErrorEntry /\ Live(Retried(k))
<1>1. PICK e \in ErrorEntry : e = errors[k]
  OBVIOUS
<1>2. PICK n \in Nat : n = e.retries + 1
  BY DEF ErrorEntry
<1>3. Larger(e.max, n) \in Nat
  BY <1>2 DEF ErrorEntry, Larger
<1>4. PICK m \in Nat : m = Larger(e.max, n)
  BY <1>3
<1>5. Retried(k) = [e EXCEPT !.status = "retrying", !.fatal = FALSE, !.retries = n, !.max = m]
  BY <1>1, <1>2, <1>4 DEF Retried
<1>. DEFINE f == [e EXCEPT !.status = "retrying", !.fatal = FALSE]
            g == [f EXCEPT !.retries = n, !.max = m]
<1>6. f \in ErrorEntry /\ f.status = "retrying"
  BY DEF ErrorEntry
<1>7. g \in ErrorEntry /\ g.status = "retrying"
  <2>. HIDE DEF f
  <2>. QED  BY <1>2, <1>4, <1>6 DEF ErrorEntry
<1>8. g = [e EXCEPT !.status = "retrying", !.fatal = FALSE, !.retries = n, !.max = m]
  OBVIOUS
<1>. HIDE DEF f, g
<1>. QED  BY <1>5, <1>7, <1>8 DEF Live

\* What the newest execution is.
LEMMA ExistingTyped ==
    ASSUME Types, Agree
    PROVE  /\ Existing \in {None} \cup Entry
           /\ OfItsInput(Existing) /\ Follows(Existing)
BY DEF Types, Agree, Existing, Follows

LEMMA ExecutionTyped ==
    ASSUME Types, NEW s \in {"running", "failed", "succeeded", "reused"}, NEW n \in Nat \ {0},
           NEW r \in Result
    PROVE  /\ Execution(s, n, r) \in Entry
           /\ Execution(s, n, r).status = s
           /\ Execution(s, n, r).input = Input
           /\ Execution(s, n, r).result = r
BY DEF Types, Execution, Entry, Digest, Input, Reads

\* No row that holds a success takes a failure, another attempt or another
\* input.
LEMMA SuccessRefuses ==
    ASSUME Types, NEW e \in Entry, row.status \in Reusable, RowTakes(e)
    PROVE  e.status \in Reusable /\ e.result = row.result /\ e.input = row.input
<1>1. row # None
  BY EntryIsNotNone DEF Types, None, Reusable
<1>2. e.attempts = row.attempts /\ e.result = row.result /\ e.input = row.input
      /\ e.status \in RowFollows(row.status)
  BY <1>1 DEF RowTakes
<1>. QED  BY <1>2 DEF RowFollows, Reusable

LEMMA NoResultTyped == NoResult \in Result
BY DEF NoResult, Result

\* The error of a stored result is one the run's channel can hold.
LEMMA ResultError ==
    ASSUME NEW r \in Result, r.error # None
    PROVE  r.error \in ErrorEntry /\ r.error.status = "pending"
BY DEF Result, ErrorEntry, None

\* The router says "done" or finds an open error.
LEMMA RoutedCases ==
    ASSUME NEW errs
    PROVE  \/ Routed(errs) = "done"
           \/ Routed(errs) = "select" /\ \E k \in Kind : Open(errs[k])
BY DEF Routed, Unresolved

LEMMA KindsApart == AtBoundary \subseteq Kind /\ Kind = AtBoundary \cup {"inside"}
BY DEF Kind, AtBoundary

\* A failed execution is one the database and the state can hold.
LEMMA FailedTyped ==
    ASSUME Types, Agree
    PROVE  Failed \in Entry /\ Failed.status = "failed"
<1>. DEFINE n == IF Existing = None THEN 1 ELSE Larger(Existing.attempts, 1)
<1>1. n \in Nat \ {0}
  BY ExistingTyped, LargerIsPositive DEF Entry
<1>. HIDE DEF n
<1>2. Failed = Execution("failed", n, NoResult)
  BY DEF Failed, n
<1>. QED  BY <1>1, <1>2, ExecutionTyped, NoResultTyped

\* What recovery writes of an execution is the success it has found, or a
\* failure.
LEMMA MaterializedTyped ==
    ASSUME NEW x \in {None} \cup Entry, NEW e \in ErrorEntry
    PROVE  /\ Materialized(x, e) \in Entry
           /\ Materialized(x, e).status \in Reusable \cup {"failed"}
           /\ Materialized(x, e).status \in Reusable => Materialized(x, e) = x /\ x \in Entry
<1>1. e.retries + 1 \in Nat \ {0}
  BY DEF ErrorEntry
<1>2. CASE x = None
  BY <1>1, <1>2, NoResultTyped DEF Materialized, Entry, Digest, Reusable
<1>3. CASE x # None /\ x.status \in Reusable
  BY <1>3 DEF Materialized
<1>4. CASE x # None /\ x.status \notin Reusable
  <2>1. x \in Entry /\ Larger(x.attempts, e.retries + 1) \in Nat \ {0}
    BY <1>1, <1>4, LargerIsPositive DEF Entry
  <2>2. Materialized(x, e) = [x EXCEPT !.status = "failed",
                                       !.attempts = Larger(@, e.retries + 1)]
    BY <1>4 DEF Materialized
  <2>3. Materialized(x, e) \in Entry /\ Materialized(x, e).status = "failed"
    BY <2>1, <2>2 DEF Entry
  <2>. QED  BY <2>3 DEF Reusable
<1>. QED  BY <1>2, <1>3, <1>4

(***************************************************************************)
(* Transactions.                                                           *)
(***************************************************************************)

\* Nothing that the invariant speaks of changes.
LEMMA StandingKeeps ==
    ASSUME NodeInvariant, resume' \in [answer : Choice, given : BOOLEAN],
           UNCHANGED <<policy, pc, written, path, data, record, errors, recovery, saved, row,
                       errorRows, artifact>>
    PROVE  NodeInvariant' /\ RowStays
<1>1. Types' /\ Agree' /\ RowStays
  BY DEF NodeInvariant, Types, Agree, OfItsInput, Follows, RowStays
<1>2. Phases'
  BY DEF NodeInvariant, Phases, Input, Reads, OfThisPath, Settleable, DoneOrDegraded
<1>3. Handled' /\ Leading'
  BY DEF NodeInvariant, Handled, AtNode, Leading, Leads
<1>4. Rows'
  <2>1. \A k \in Kind : Target(k)' = Target(k)
    BY DEF Target, Taken, Retried, Asked
  <2>2. Selected' = Selected /\ (Settleable' <=> Settleable)
    BY DEF Selected, Settleable, OfThisPath
  <2>. QED  BY <2>1, <2>2 DEF NodeInvariant, Rows
<1>. QED  BY <1>1, <1>2, <1>3, <1>4 DEF NodeInvariant

\* What a row knows of another error it still knows when it takes e.
LEMMA RowLeadsOn ==
    ASSUME Types, NEW k \in Kind, NEW e \in ErrorEntry, NEW x \in {None} \cup ErrorEntry,
           ErrorRowTakes(k, e), Leads(k, x),
           e.status \in {"recovered", "failed"} => x.status # "fallback_applied",
           errorRows' = [errorRows EXCEPT ![k] = e]
    PROVE  Leads(k, x)'
<1>1. errorRows'[k] = e /\ e # None
  BY DEF Types, Errors, ErrorEntry, None
<1>2. PICK r \in {None} \cup ErrorEntry : r = errorRows[k]
  BY DEF Types, Errors
<1>3. x # None /\ x.retries > 0 => x.retries <= e.retries
  <2>. SUFFICES ASSUME x # None, x.retries > 0
                PROVE  x.retries <= e.retries
    OBVIOUS
  <2>1. r # None /\ x.retries <= r.retries
    BY <1>2 DEF Leads
  <2>2. e.retries >= r.retries
    BY <1>2, <2>1 DEF ErrorRowTakes
  <2>. QED  BY <2>1, <2>2 DEF ErrorEntry
<1>4. x.status \in {"recovered", "fallback_applied", "failed"} => e.status = x.status
  <2>. SUFFICES ASSUME x.status \in {"recovered", "fallback_applied", "failed"}
                PROVE  e.status = x.status
    OBVIOUS
  <2>1. r.status = x.status /\ r # None
    BY <1>2, ErrorIsNotNone DEF Leads
  <2>2. e.status \in ErrorFollows(x.status)
    BY <1>2, <2>1 DEF ErrorRowTakes
  <2>3. x.status \in {"recovered", "failed"} => e.status = x.status
    BY <2>2 DEF ErrorFollows
  <2>4. x.status = "fallback_applied" => e.status \in {"fallback_applied", "recovered", "failed"}
    BY <2>2 DEF ErrorFollows
  <2>. QED  BY <2>3, <2>4
<1>. QED  BY <1>1, <1>3, <1>4 DEF Leads

LEMMA LeadingOn ==
    ASSUME Types, Leading, NEW k \in Kind, NEW e \in ErrorEntry, ErrorRowTakes(k, e),
           e.status \in {"recovered", "failed"} =>
               errors[k].status # "fallback_applied" /\ saved.errors[k].status # "fallback_applied",
           errorRows' = [errorRows EXCEPT ![k] = e], UNCHANGED <<errors, saved, artifact>>
    PROVE  Leading'
<1>1. \A j \in Kind : j # k => errorRows'[j] = errorRows[j]
  BY DEF Types, Errors
<1>2. ASSUME NEW j \in Kind
      PROVE  (Leads(j, errors[j]) /\ Leads(j, saved.errors[j]))'
  <2>1. CASE j # k
    BY <1>1, <2>1 DEF Leading, Leads
  <2>2. CASE j = k
    <3>1. PICK x \in {None} \cup ErrorEntry : x = errors[k]
      BY DEF Types, Errors
    <3>2. PICK y \in {None} \cup ErrorEntry : y = saved.errors[k]
      BY DEF Types, Errors
    <3>3. Leads(k, x) /\ Leads(k, y)
      BY <3>1, <3>2 DEF Leading
    <3>4. e.status \in {"recovered", "failed"} =>
            x.status # "fallback_applied" /\ y.status # "fallback_applied"
      BY <3>1, <3>2
    <3>5. Leads(k, x)' /\ Leads(k, y)'
      BY <3>3, <3>4, RowLeadsOn
    <3>6. x = errors'[k] /\ y = saved'.errors[k]
      BY <3>1, <3>2
    <3>. QED  BY <2>2, <3>5, <3>6 DEF Leads
  <2>. QED  BY <2>1, <2>2
<1>3. Leads("inside", artifact.error)'
  <2>1. CASE k # "inside"
    BY <1>1, <2>1 DEF Leading, Leads, Kind
  <2>2. CASE k = "inside"
    <3>1. PICK x \in {None} \cup ErrorEntry : x = artifact.error /\ x.status # "fallback_applied"
      BY ResultError DEF Types, None
    <3>2. Leads(k, x)
      BY <2>2, <3>1 DEF Leading
    <3>3. Leads(k, x)'
      BY <3>1, <3>2, RowLeadsOn
    <3>. QED  BY <2>2, <3>1, <3>3 DEF Leads
  <2>. QED  BY <2>1, <2>2
<1>. QED  BY <1>2, <1>3 DEF Leading

\* An error of the graph node in progress is committed.
LEMMA CommittedErrorKeeps ==
    ASSUME NodeInvariant, NEW k \in Kind, NEW e \in ErrorEntry, ErrorRowTakes(k, e),
           errorRows' = [errorRows EXCEPT ![k] = e], written' = written \cup {<<"error", k>>},
           UNCHANGED <<policy, pc, path, data, record, errors, recovery, resume, saved, row,
                       artifact>>,
           pc \in Writing, e = Target(k), pc = "select" => Settleable,
           e.status \in {"recovered", "failed"} =>
               errors[k].status # "fallback_applied" /\ saved.errors[k].status # "fallback_applied"
    PROVE  NodeInvariant' /\ RowStays
<1>1. Types' /\ Agree' /\ RowStays
  BY DEF NodeInvariant, Types, Errors, Agree, OfItsInput, Follows, RowStays
<1>2. Phases' /\ Handled'
  BY DEF NodeInvariant, Phases, Handled, AtNode, Writing, OfThisPath, Settleable, Input, Reads
<1>3. Leading'
  BY LeadingOn DEF NodeInvariant
<1>4. Rows'
  <2>1. \A j \in Kind : Target(j)' = Target(j)
    BY DEF Target, Taken, Retried, Asked
  <2>2. errorRows'[k] = e /\ \A j \in Kind : j # k => errorRows'[j] = errorRows[j]
    BY DEF NodeInvariant, Types, Errors
  <2>3. \A j \in Kind : <<"error", j>> \in written' => errorRows'[j] = Target(j)'
    BY <2>1, <2>2 DEF NodeInvariant, Rows
  <2>4. Selected' = Selected /\ (Settleable' <=> Settleable)
    BY DEF Selected, Settleable, OfThisPath
  <2>. QED  BY <2>3, <2>4 DEF Rows
<1>. QED  BY <1>1, <1>2, <1>3, <1>4 DEF NodeInvariant

\* It is, or the run has raised.
LEMMA PersistErrorKeeps ==
    ASSUME NodeInvariant, NEW k \in Kind, NEW e \in ErrorEntry, PersistError(k, e, Raises),
           pc \in Writing, e = Target(k), pc = "select" => Settleable,
           e.status \in {"recovered", "failed"} =>
               errors[k].status # "fallback_applied" /\ saved.errors[k].status # "fallback_applied",
           policy' = policy
    PROVE  NodeInvariant' /\ RowStays
<1>1. CASE ~ErrorRowTakes(k, e)
  BY <1>1, StandingKeeps DEF PersistError, Raises, channels, files, NodeInvariant, Types
<1>2. CASE ErrorRowTakes(k, e)
  <2>1. /\ errorRows' = [errorRows EXCEPT ![k] = e] /\ written' = written \cup {<<"error", k>>}
        /\ UNCHANGED <<policy, pc, path, data, record, errors, recovery, resume, saved, row, artifact>>
    BY <1>2 DEF PersistError, channels, files
  <2>. QED  BY <1>2, <2>1, CommittedErrorKeeps
<1>. QED  BY <1>1, <1>2

\* So is an execution, which keeps the success that is there.
LEMMA PersistExecutionKeeps ==
    ASSUME NodeInvariant, NEW k \in Kind, NEW m \in Entry, PersistExecution(k, m, Raises),
           pc \in {"select", "fallback"}, m.status \in Reusable \cup {"failed"}, Follows(m),
           RowTakes(m) => (row.status \in Reusable => row.input[1] = path),
           policy' = policy
    PROVE  NodeInvariant' /\ RowStays
<1>1. CASE ~RowTakes(m)
  BY <1>1, StandingKeeps DEF PersistExecution, Raises, channels, files, NodeInvariant, Types
<1>2. CASE RowTakes(m)
  <2>1. /\ row' = m /\ written' = written \cup {<<"execution", k>>}
        /\ UNCHANGED <<policy, pc, path, data, record, errors, recovery, resume, saved, errorRows,
                       artifact>>
    BY <1>2 DEF PersistExecution, channels, files
  <2>2. row.status \in Reusable =>
            m.status \in Reusable /\ m.result = row.result /\ m.input = row.input
    BY <1>2, SuccessRefuses DEF NodeInvariant
  <2>3. m.status \in Reusable => row.status \in Reusable
    BY DEF Follows
  <2>4. Types' /\ RowStays
    BY <2>1, <2>2 DEF NodeInvariant, Types, RowStays
  <2>5. Agree'
    BY <2>1, <2>2, <2>3 DEF NodeInvariant, Agree, OfItsInput, Follows
  <2>6. Settleable'
    BY <1>2, <2>1, <2>2, <2>3 DEF Settleable, OfThisPath
  <2>7. Phases'
    BY <2>1, <2>6 DEF NodeInvariant, Phases, Settleable
  <2>8. Handled' /\ Leading'
    BY <2>1 DEF NodeInvariant, Handled, AtNode, Leading, Leads
  <2>9. Rows'
    <3>1. \A j \in Kind : Target(j)' = Target(j)
      BY <2>1 DEF Target, Taken, Retried, Asked
    <3>. QED  BY <2>1, <2>6, <3>1 DEF NodeInvariant, Rows
  <2>. QED  BY <2>4, <2>5, <2>7, <2>8, <2>9 DEF NodeInvariant
<1>. QED  BY <1>1, <1>2

\* An error that a graph node hands on is one that its row leads.
LEMMA LeadingAtEnd ==
    ASSUME Types, Leading, UNCHANGED <<errorRows, artifact>>, saved' = saved \/ saved'.errors = errors',
           \A k \in Kind : errors'[k] = errors[k] \/ errors'[k] = errorRows[k]
                           \/ Leads(k, errors'[k])
    PROVE  Leading'
<1>1. ASSUME NEW k \in Kind
      PROVE  Leads(k, errors'[k])
  <2>1. CASE errors'[k] = errors[k] \/ Leads(k, errors'[k])
    BY <2>1 DEF Leading
  <2>2. CASE errors'[k] = errorRows[k]
    <3>1. PICK e \in {None} \cup ErrorEntry : e = errorRows[k]
      BY DEF Types, Errors
    <3>2. e # None => e.retries <= e.retries
      BY DEF ErrorEntry
    <3>. QED  BY <2>2, <3>1, <3>2 DEF Leads
  <2>. QED  BY <2>1, <2>2
<1>2. ASSUME NEW k \in Kind
      PROVE  (Leads(k, errors[k]) /\ Leads(k, saved.errors[k]))'
  BY <1>1 DEF Leading, Leads
<1>. QED  BY <1>2 DEF Leading, Leads

(***************************************************************************)
(* The steps at the node.                                                  *)
(***************************************************************************)

\* A graph node of the top graph that ends has its lists in the checkpoint.
LEMMA CheckpointTyped ==
    ASSUME NEW next, Checkpointed(next), data' \in Data, record' \in {None} \cup Entry,
           errors' \in Errors, Types
    PROVE  /\ pc' = next /\ written' = {}
           /\ saved'.errors = errors' /\ saved'.record = record'
           /\ saved' \in [data : Data, record : {None} \cup Entry, errors : Errors]
           /\ resume' \in [answer : Choice, given : BOOLEAN]
           /\ UNCHANGED <<row, errorRows, artifact>>
<1>1. saved' = [data |-> data', record |-> record', errors |-> errors']
  BY DEF Checkpointed
<1>2. resume' = [resume EXCEPT !.given = FALSE]
  BY DEF Checkpointed
<1>3. resume' \in [answer : Choice, given : BOOLEAN]
  BY <1>2 DEF Types
<1>. QED  BY <1>1, <1>3 DEF Checkpointed, database, files

LEMMA CaptureExceptionKeeps ==
    ASSUME NodeInvariant, NEW k \in AtBoundary, CaptureException(k), policy' = policy
    PROVE  NodeInvariant' /\ RowStays
<1>1. k \in Kind /\ pc = k /\ pc \notin Writing /\ k \in {"raised", "refused"}
  BY KindsApart DEF CaptureException, Doing, AtBoundary, Writing
<1>2. Failed \in Entry /\ Failed.status = "failed"
  BY FailedTyped DEF NodeInvariant
<1>3. NewError(k) \in ErrorEntry /\ Open(NewError(k)) /\ NewError(k).retries = 0
      /\ NewError(k).status = "pending"
  BY <1>1, NewErrorTyped DEF NodeInvariant
<1>4. CASE PersistExecution(k, Failed, PassedOver(k))
  <2>1. /\ row' = row \/ (RowTakes(Failed) /\ row' = Failed)
        /\ UNCHANGED <<policy, pc, path, data, record, errors, recovery, resume, saved, errorRows,
                       artifact>>
    BY <1>4 DEF PersistExecution, PassedOver, channels, files
  <2>2. row' = row \/ (row' = Failed /\ row.status \notin Reusable)
    BY <1>2, <2>1, SuccessRefuses DEF NodeInvariant, Reusable
  <2>3. Types' /\ Agree' /\ RowStays
    BY <1>2, <2>1, <2>2 DEF NodeInvariant, Types, Agree, OfItsInput, Follows, Reusable, RowStays
  <2>4. Phases' /\ Handled' /\ Rows' /\ Leading'
    BY <1>1, <2>1 DEF NodeInvariant, Phases, Handled, AtNode, Rows, Leading, Leads, Writing
  <2>. QED  BY <2>3, <2>4 DEF NodeInvariant
<1>5. CASE PersistError(k, NewError(k), PassedOver(k))
  <2>1. UNCHANGED <<policy, pc, path, data, record, errors, recovery, resume, saved, row, artifact>>
    BY <1>5 DEF PersistError, PassedOver, channels, files
  <2>2. errorRows' = errorRows \/
            (ErrorRowTakes(k, NewError(k)) /\ errorRows' = [errorRows EXCEPT ![k] = NewError(k)])
    BY <1>5 DEF PersistError
  <2>3. Types' /\ Agree' /\ RowStays
    BY <1>1, <1>3, <2>1, <2>2 DEF NodeInvariant, Types, Errors, Agree, OfItsInput, Follows, RowStays
  <2>4. Phases' /\ Handled' /\ Rows'
    BY <1>1, <2>1 DEF NodeInvariant, Phases, Handled, AtNode, Rows, Writing
  <2>5. Leading'
    <3>1. CASE errorRows' = errorRows
      BY <2>1, <3>1 DEF NodeInvariant, Leading, Leads
    <3>2. CASE errorRows' # errorRows
      <4>1. PICK e \in ErrorEntry : e = NewError(k)
        BY <1>3
      <4>. QED  BY <1>1, <1>3, <2>1, <2>2, <3>2, <4>1, LeadingOn DEF NodeInvariant
    <3>. QED  BY <3>1, <3>2
  <2>. QED  BY <2>3, <2>4, <2>5 DEF NodeInvariant
<1>6. CASE /\ record' = Failed
           /\ errors' = [errors EXCEPT ![k] = NewError(k)]
           /\ recovery' = [recovery EXCEPT !.current = k, !.action = "none"]
           /\ UNCHANGED <<path, data, budget>>
           /\ Checkpointed("select")
  <2>1. errors' \in Errors /\ errors'[k] = NewError(k) /\ errors'["inside"] = errors["inside"]
    BY <1>1, <1>3, <1>6 DEF NodeInvariant, Types, Errors, Kind
  <2>2. /\ pc' = "select" /\ written' = {} /\ UNCHANGED <<row, errorRows, artifact>>
        /\ saved'.errors = errors' /\ saved'.record = record'
        /\ saved' \in [data : Data, record : {None} \cup Entry, errors : Errors]
        /\ resume' \in [answer : Choice, given : BOOLEAN]
    BY <1>2, <1>6, <2>1, CheckpointTyped DEF NodeInvariant, Types
  <2>3. /\ recovery' \in [current : Kind \cup {"none"},
                          action : {"none", "retry", "fallback", "wait_human", "reuse_result", "abort"},
                          human : Choice]
        /\ recovery'.current = k /\ recovery'.action = "none"
    BY <1>1, <1>6 DEF NodeInvariant, Types
  <2>4. Types'
    BY <1>2, <1>6, <2>1, <2>2, <2>3 DEF NodeInvariant, Types
  <2>5. Agree' /\ RowStays
    BY <1>2, <1>6, <2>1, <2>2 DEF NodeInvariant, Agree, OfItsInput, Follows, Reusable, RowStays
  <2>6. Phases' /\ Handled'
    BY <1>1, <1>3, <2>1, <2>2, <2>3 DEF Phases, Handled, Handling, AtNode
  <2>7. Rows'
    BY <2>2 DEF Rows
  <2>8. Leading'
    <3>1. ASSUME NEW j \in Kind
          PROVE  errors'[j] = errors[j] \/ Leads(j, errors'[j])
      BY <1>1, <1>3, <1>6, <2>1 DEF NodeInvariant, Types, Errors, Leads
    <3>. QED  BY <2>2, <3>1, LeadingAtEnd DEF NodeInvariant
  <2>. QED  BY <2>4, <2>5, <2>6, <2>7, <2>8 DEF NodeInvariant
<1>. QED  BY <1>4, <1>5, <1>6 DEF CaptureException

\* The wrapper has written its row, or found that it may not.
LEMMA WrapperKeeps ==
    ASSUME NodeInvariant, pc \in {"start", "invoke", "persist"},
           pc' \in {"invoke", "raised", "apply", "refused"},
           row' \in {None} \cup Entry, RowStays, OfItsInput(row)', Follows(row'),
           row'.status \in Reusable => row'.result = artifact,
           pc' = "invoke" => row'.status = "running",
           pc' = "apply" => row'.status \in Reusable /\ row'.input = Input,
           UNCHANGED <<policy, written, path, data, record, errors, recovery, resume, saved,
                       errorRows, artifact>>
    PROVE  NodeInvariant'
<1>1. Types'
  BY DEF NodeInvariant, Types
<1>2. row.status \in Reusable => row'.status \in Reusable /\ row'.result = row.result
  BY DEF RowStays
<1>3. Agree'
  BY <1>2 DEF NodeInvariant, Agree, OfItsInput, Follows
<1>4. written' = {}
  BY DEF NodeInvariant, Phases
<1>5. Phases'
  BY <1>4 DEF Phases, Input, Reads
<1>6. Handled'
  BY DEF NodeInvariant, Handled, Handling, AtNode
<1>7. Rows' /\ Leading'
  BY <1>4 DEF NodeInvariant, Rows, Leading, Leads
<1>. QED  BY <1>1, <1>3, <1>5, <1>6, <1>7 DEF NodeInvariant

LEMMA ReuseResultKeeps ==
    ASSUME NodeInvariant, ReuseResult, policy' = policy
    PROVE  NodeInvariant' /\ RowStays
<1>. DEFINE reused == [Existing EXCEPT !.status = "reused"]
            taken == Existing.result = artifact /\ RowTakes(reused)
<1>1. /\ pc = "start" /\ Existing.status \in Reusable /\ Existing.input = Input
      /\ row' = (IF taken THEN reused ELSE row) /\ pc' = (IF taken THEN "apply" ELSE "refused")
      /\ UNCHANGED <<policy, written, path, data, record, errors, recovery, resume, saved,
                     errorRows, artifact>>
  BY DEF ReuseResult, Reuses, Doing, channels, files
<1>2. Existing \in Entry /\ Existing.result.input = Input /\ row.status \in Reusable
      /\ row.result = Existing.result
  BY <1>1, ExistingTyped DEF NodeInvariant, OfItsInput, Follows, None, Reusable
<1>3. CASE taken
  <2>1. /\ reused \in Entry /\ reused.status \in Reusable /\ reused.input = Input
        /\ reused.result = artifact /\ reused.result.input = Input /\ reused.result = row.result
    BY <1>1, <1>2, <1>3 DEF Entry, Reusable
  <2>2. row' = reused /\ pc' = "apply"
    BY <1>1, <1>3
  <2>. HIDE DEF reused
  <2>3. RowStays /\ OfItsInput(row)' /\ Follows(row')
    BY <1>2, <2>1, <2>2 DEF RowStays, OfItsInput, Follows
  <2>. QED  BY <1>1, <2>1, <2>2, <2>3, WrapperKeeps
<1>4. CASE ~taken
  <2>1. row' = row /\ pc' = "refused"
    BY <1>1, <1>4
  <2>. QED  BY <1>1, <2>1, WrapperKeeps
            DEF NodeInvariant, Types, Agree, RowStays, OfItsInput, Follows
<1>. QED  BY <1>3, <1>4

LEMMA StartExecutionKeeps ==
    ASSUME NodeInvariant, StartExecution, policy' = policy
    PROVE  NodeInvariant' /\ RowStays
<1>. DEFINE n == IF Existing = None THEN 1 ELSE Existing.attempts + 1
            running == Execution("running", n, NoResult)
<1>1. n \in Nat \ {0}
  BY ExistingTyped DEF NodeInvariant, Entry
<1>. HIDE DEF n
<1>2. running \in Entry /\ running.status = "running"
  BY <1>1, ExecutionTyped, NoResultTyped DEF NodeInvariant
<1>3. /\ pc = "start"
      /\ row' = (IF RowTakes(running) THEN running ELSE row)
      /\ pc' = (IF RowTakes(running) THEN "invoke" ELSE "refused")
      /\ UNCHANGED <<policy, written, path, data, record, errors, recovery, resume, saved,
                     errorRows, artifact>>
  BY DEF StartExecution, Doing, channels, files, n
<1>. HIDE DEF running
<1>4. CASE RowTakes(running)
  <2>1. row.status \notin Reusable
    BY <1>2, <1>4, SuccessRefuses DEF NodeInvariant, Reusable
  <2>. QED  BY <1>2, <1>3, <1>4, <2>1, WrapperKeeps DEF RowStays, OfItsInput, Follows, Reusable
<1>5. CASE ~RowTakes(running)
  <2>1. row' = row /\ pc' = "refused"
    BY <1>3, <1>5
  <2>. QED  BY <1>3, <2>1, WrapperKeeps
            DEF NodeInvariant, Types, Agree, RowStays, OfItsInput, Follows
<1>. QED  BY <1>4, <1>5

LEMMA InvokeSubgraphKeeps ==
    ASSUME NodeInvariant, NEW full \in BOOLEAN, NEW bad \in BOOLEAN, InvokeSubgraph(full, bad),
           policy' = policy
    PROVE  NodeInvariant' /\ row.status \notin Reusable /\ row' = row
<1>. DEFINE n == IF Open(errors["inside"]) THEN errors["inside"].retries ELSE 0
            err == IF ~bad THEN None ELSE [NewError("inside") EXCEPT !.retries = n]
<1>1. /\ pc = "invoke" /\ pc' = "persist"
      /\ UNCHANGED <<policy, written, path, data, record, errors, recovery, resume, saved, row,
                     errorRows>>
  BY DEF InvokeSubgraph, Doing, channels, database
<1>2. row.status = "running"
  BY <1>1 DEF NodeInvariant, Phases
<1>3. artifact' = [input |-> Reads, full |-> full, error |-> err]
  BY DEF InvokeSubgraph, NewError
<1>4. PICK x \in {None} \cup ErrorEntry : x = errors["inside"]
  BY DEF NodeInvariant, Types, Errors, Kind
<1>5. n \in Nat /\ (n > 0 => x # None /\ n = x.retries)
  BY <1>4, ErrorIsNotNone DEF Open, ErrorEntry
<1>. HIDE DEF n
<1>6. PICK m \in Nat : m = policy["inside"].retries
  BY DEF NodeInvariant, Types, Kind
<1>7. err = None \/ err = [status |-> "pending", fatal |-> TRUE, retries |-> n, max |-> m]
  BY <1>6 DEF NewError
<1>8. err \in {None} \cup [status : {"pending"}, fatal : {TRUE}, retries : Nat, max : Nat]
  BY <1>5, <1>6, <1>7
<1>9. Leads("inside", err)
  <2>1. Leads("inside", x)
    BY <1>4 DEF NodeInvariant, Leading, Kind
  <2>. QED  BY <1>5, <1>7, <2>1 DEF Leads, None
<1>. HIDE DEF err
<1>10. artifact'.input = Input /\ artifact'.error = err /\ artifact' \in Result
  <2>1. Reads \in Path \X Data
    BY DEF Reads, NodeInvariant, Types
  <2>. QED  BY <1>3, <1>8, <2>1 DEF Result, Input, Path, Data
<1>11. Types'
  BY <1>1, <1>10 DEF NodeInvariant, Types
<1>12. Agree'
  BY <1>1, <1>2 DEF NodeInvariant, Agree, OfItsInput, Follows, Reusable
<1>13. Phases'
  BY <1>1, <1>2, <1>10 DEF NodeInvariant, Phases, Input, Reads
<1>14. Handled'
  BY <1>1 DEF NodeInvariant, Handled, Handling, AtNode
<1>15. Rows'
  BY <1>1 DEF Rows, Writing
<1>16. Leading'
  BY <1>1, <1>9, <1>10 DEF NodeInvariant, Leading, Leads
<1>. QED  BY <1>1, <1>2, <1>11, <1>12, <1>13, <1>14, <1>15, <1>16 DEF NodeInvariant, Reusable

LEMMA SubgraphRaisesKeeps ==
    ASSUME NodeInvariant, SubgraphRaises, policy' = policy
    PROVE  NodeInvariant' /\ RowStays
<1>1. /\ pc = "invoke" /\ pc' = "raised"
      /\ UNCHANGED <<policy, written, path, data, record, errors, recovery, resume, saved, row,
                     errorRows, artifact>>
  BY DEF SubgraphRaises, Doing, channels, database, files
<1>. QED  BY <1>1, WrapperKeeps DEF NodeInvariant, Types, Agree, RowStays, OfItsInput, Follows

LEMMA PersistSuccessKeeps ==
    ASSUME NodeInvariant, PersistSuccess, policy' = policy
    PROVE  NodeInvariant' /\ RowStays
<1>1. /\ pc = "persist" /\ pc' = "apply" /\ row' = Execution("succeeded", row.attempts, artifact)
      /\ UNCHANGED <<policy, written, path, data, record, errors, recovery, resume, saved,
                     errorRows, artifact>>
  BY DEF PersistSuccess, Doing, channels, files
<1>2. row.status = "running" /\ artifact.input = Input
  BY <1>1 DEF NodeInvariant, Phases
<1>3. row \in Entry /\ row.attempts \in Nat \ {0} /\ artifact \in Result
  BY <1>2, EntryIsNotNone DEF NodeInvariant, Types, None, Entry
<1>4. row' \in Entry /\ row'.status = "succeeded" /\ row'.input = Input /\ row'.result = artifact
  BY <1>1, <1>3, ExecutionTyped DEF NodeInvariant
<1>5. record.status \notin Reusable /\ saved.record.status \notin Reusable /\ errors["inside"] = None
      /\ saved.errors["inside"] = None
  BY <1>2 DEF NodeInvariant, Agree, Follows, Reusable
<1>6. Types'
  BY <1>1, <1>4 DEF NodeInvariant, Types
<1>7. Agree' /\ RowStays
  BY <1>1, <1>2, <1>4, <1>5 DEF NodeInvariant, Agree, OfItsInput, Follows, RowStays, Reusable
<1>8. written' = {}
  BY <1>1 DEF NodeInvariant, Phases
<1>9. Phases'
  BY <1>1, <1>4, <1>8 DEF Phases, Input, Reads, Reusable
<1>10. Handled' /\ Rows' /\ Leading'
  BY <1>1, <1>8 DEF NodeInvariant, Handled, Handling, AtNode, Rows, Leading, Leads
<1>. QED  BY <1>6, <1>7, <1>9, <1>10 DEF NodeInvariant

\* The error that a retry was scheduled for is there.
LEMMA RetriedError ==
    ASSUME NodeInvariant, AtNode, recovery.action = "retry"
    PROVE  /\ recovery.current \in Kind /\ errors[recovery.current] \in ErrorEntry
           /\ errors[recovery.current].status # "fallback_applied"
           /\ saved.errors[recovery.current].status # "fallback_applied"
<1>1. recovery.current \in Kind /\ Live(errors[recovery.current])
      /\ saved.errors[recovery.current].status # "fallback_applied"
  BY DEF NodeInvariant, Handled
<1>2. errors[recovery.current] \in {None} \cup ErrorEntry
  BY <1>1 DEF NodeInvariant, Types, Errors
<1>. QED  BY <1>1, <1>2, ErrorIsNotNone DEF Live, None

LEMMA ApplyResultKeeps ==
    ASSUME NodeInvariant, ApplyResult, policy' = policy
    PROVE  NodeInvariant' /\ RowStays
<1>. DEFINE k == recovery.current
            done == Settled(errors[k], "recovered")
            merged == IF row.result.error # None
                      THEN [errors EXCEPT !["inside"] = row.result.error] ELSE errors
<1>1. pc = "apply" /\ row.status \in Reusable /\ row.input = Input
  BY DEF ApplyResult, Doing, NodeInvariant, Phases
<1>2. row \in Entry /\ row.result \in Result /\ row.result = artifact /\ row.result.input = Input
  BY <1>1, EntryIsNotNone DEF NodeInvariant, Types, Agree, OfItsInput, Reusable, Entry, None
<1>3. Settles => /\ k \in Kind /\ errors[k] \in ErrorEntry /\ done \in ErrorEntry
                 /\ done.status = "recovered" /\ done = Target(k)
                 /\ errors[k].status # "fallback_applied"
                 /\ saved.errors[k].status # "fallback_applied"
  BY <1>1, RetriedError, SettledTyped DEF Settles, AtNode, Target
<1>4. CASE Settles /\ PersistError(k, done, Caught)
  <2>1. CASE ErrorRowTakes(k, done)
    <3>1. /\ errorRows' = [errorRows EXCEPT ![k] = done] /\ written' = written \cup {<<"error", k>>}
          /\ UNCHANGED <<policy, pc, path, data, record, errors, recovery, resume, saved, row,
                         artifact>>
      BY <1>4, <2>1 DEF PersistError, channels, files
    <3>2. PICK e \in ErrorEntry : e = done
      BY <1>3, <1>4
    <3>. HIDE DEF done
    <3>. QED  BY <1>1, <1>3, <1>4, <2>1, <3>1, <3>2, CommittedErrorKeeps DEF Writing
  <2>2. CASE ~ErrorRowTakes(k, done)
    <3>1. /\ pc' = "refused" /\ written' = {}
          /\ UNCHANGED <<policy, path, data, record, errors, recovery, resume, saved, row, errorRows,
                         artifact>>
      BY <1>4, <2>2 DEF PersistError, Caught, channels, files
    <3>2. Types' /\ Agree' /\ RowStays
      BY <3>1 DEF NodeInvariant, Types, Agree, OfItsInput, Follows, RowStays
    <3>3. Phases' /\ Handled'
      BY <1>1, <3>1 DEF NodeInvariant, Phases, Handled, Handling, AtNode
    <3>4. Rows' /\ Leading'
      BY <3>1 DEF NodeInvariant, Rows, Leading, Leads
    <3>. QED  BY <3>2, <3>3, <3>4 DEF NodeInvariant
  <2>. QED  BY <2>1, <2>2
<1>5. CASE /\ Settles => Persisted(k)
           /\ record' = row
           /\ data' = IF row.result.full THEN "some" ELSE data
           /\ errors' = IF Settles THEN [merged EXCEPT ![k] = done] ELSE merged
           /\ recovery' = IF Settles
                          THEN [recovery EXCEPT !.current = "none", !.action = "none"]
                          ELSE recovery
           /\ UNCHANGED <<path, budget>>
           /\ Checkpointed(Routed(errors'))
  <2>1. merged \in Errors /\ (\A j \in Kind : merged[j] = errors[j] \/ Leads(j, merged[j]))
    <3>1. CASE row.result.error # None
      <4>1. row.result.error \in ErrorEntry /\ Leads("inside", row.result.error)
        BY <1>2, <3>1, ResultError DEF NodeInvariant, Leading
      <4>2. PICK x \in ErrorEntry : x = row.result.error
        BY <4>1
      <4>3. merged = [errors EXCEPT !["inside"] = x]
        BY <3>1, <4>2
      <4>. QED  BY <4>1, <4>2, <4>3 DEF NodeInvariant, Types, Errors, Kind
    <3>2. CASE row.result.error = None
      BY <3>2 DEF NodeInvariant, Types
    <3>. QED  BY <3>1, <3>2
  <2>2. Settles => done = errorRows[k]
    BY <1>1, <1>3, <1>5 DEF NodeInvariant, Rows, Persisted, Writing
  <2>. HIDE DEF merged, done
  <2>3. errors' \in Errors /\ \A j \in Kind : errors'[j] = errors[j] \/ errors'[j] = errorRows[j]
                                              \/ Leads(j, errors'[j])
    <3>1. CASE Settles
      <4>1. errors' = [merged EXCEPT ![k] = done]
        BY <1>5, <3>1
      <4>2. errors' \in Errors /\ errors'[k] = done /\ \A j \in Kind : j # k => errors'[j] = merged[j]
        BY <1>3, <2>1, <3>1, <4>1 DEF Errors
      <4>. QED  BY <2>1, <2>2, <3>1, <4>2
    <3>2. CASE ~Settles
      BY <1>5, <2>1, <3>2
    <3>. QED  BY <3>1, <3>2
  <2>4. data' \in Data /\ record' \in {None} \cup Entry
    BY <1>2, <1>5 DEF NodeInvariant, Types, Data
  <2>5. /\ pc' = Routed(errors') /\ written' = {} /\ UNCHANGED <<row, errorRows, artifact>>
        /\ saved'.errors = errors' /\ saved'.record = record'
        /\ saved' \in [data : Data, record : {None} \cup Entry, errors : Errors]
        /\ resume' \in [answer : Choice, given : BOOLEAN]
    <3>1. PICK next : next = Routed(errors')
      OBVIOUS
    <3>. QED  BY <1>5, <2>3, <2>4, <3>1, CheckpointTyped DEF NodeInvariant
  <2>6. Types'
    BY <1>5, <2>3, <2>4, <2>5 DEF NodeInvariant, Types
  <2>7. Agree' /\ RowStays
    BY <1>1, <1>2, <1>5, <2>5 DEF NodeInvariant, Agree, OfItsInput, Follows, RowStays
  <2>8. row'.status \in Reusable /\ row'.input[1] = path' /\ row'.result.input[1] = path'
    BY <1>1, <1>2, <1>5, <2>5 DEF Input, Reads
  <2>9. pc' = "done" \/ (pc' = "select" /\ \E j \in Kind : Open(errors'[j]))
    BY <2>5, RoutedCases
  <2>10. Phases'
    BY <2>8, <2>9 DEF Phases, OfThisPath, DoneOrDegraded
  <2>11. Handled' /\ Rows'
    BY <2>5, <2>9 DEF Handled, Handling, AtNode, Rows
  <2>12. Leading'
    BY <2>3, <2>5, LeadingAtEnd DEF NodeInvariant
  <2>. QED  BY <2>6, <2>7, <2>10, <2>11, <2>12 DEF NodeInvariant
<1>. QED  BY <1>4, <1>5 DEF ApplyResult

(***************************************************************************)
(* The steps of the recovery.                                              *)
(***************************************************************************)

\* The error in hand, and what the checkpoint knows of it.
LEMMA HandledError ==
    ASSUME NodeInvariant, pc \in Handling
    PROVE  /\ recovery.current \in Kind /\ errors[recovery.current] \in ErrorEntry
           /\ Live(errors[recovery.current])
           /\ errors[recovery.current].status # "fallback_applied"
           /\ saved.errors[recovery.current].status # "fallback_applied"
<1>1. recovery.current \in Kind /\ Live(errors[recovery.current])
      /\ saved.errors[recovery.current].status # "fallback_applied"
  BY DEF NodeInvariant, Handled
<1>2. errors[recovery.current] \in {None} \cup ErrorEntry
  BY <1>1 DEF NodeInvariant, Types, Errors
<1>. QED  BY <1>1, <1>2, ErrorIsNotNone DEF Live, None

\* Either the error in hand was selected from elsewhere, and then the row is
\* of this directory, or it belongs to the execution.
LEMMA SelectedIsOpen ==
    ASSUME NodeInvariant, pc = "select"
    PROVE  /\ Selected \in Kind /\ errors[Selected] \in ErrorEntry /\ Open(errors[Selected])
           /\ OfThisPath \/ (recovery.current \in AtBoundary /\ Selected = recovery.current)
<1>1. \E k \in Kind : Open(errors[k])
  BY DEF NodeInvariant, Phases
<1>2. Selected \in Kind /\ Open(errors[Selected])
  BY <1>1 DEF Selected, NodeInvariant, Types
<1>3. OfThisPath \/ (recovery.current \in AtBoundary /\ Open(errors[recovery.current]))
  BY DEF NodeInvariant, Phases
<1>4. recovery.current \in AtBoundary /\ Open(errors[recovery.current]) => Selected = recovery.current
  BY DEF Selected, AtBoundary
<1>. QED  BY <1>2, <1>3, <1>4 DEF Open, NodeInvariant, Types, Errors

LEMMA HydratedTyped ==
    ASSUME NodeInvariant
    PROVE  /\ Hydrated \in {None} \cup Entry
           /\ OfItsInput(Hydrated) /\ Follows(Hydrated)
           /\ Hydrated.status \in Reusable =>
                row.status \in Reusable
                /\ (recovery.current \in AtBoundary => row.input = Input)
<1>1. OfItsInput(None) /\ Follows(None) /\ Follows(row)
  BY DEF OfItsInput, Follows, None, Reusable
<1>2. Hydrated \in {None, row, record}
  BY DEF Hydrated
<1>3. Hydrated \in {None} \cup Entry /\ OfItsInput(Hydrated) /\ Follows(Hydrated)
  BY <1>1, <1>2 DEF NodeInvariant, Types, Agree
<1>4. ASSUME Hydrated.status \in Reusable, recovery.current \in AtBoundary
      PROVE  row.input = Input
  <2>1. row # None
    BY <1>3, <1>4 DEF Follows, None, Reusable
  <2>. QED  BY <1>4, <2>1 DEF Hydrated, None, Reusable
<1>. QED  BY <1>3, <1>4 DEF Follows

LEMMA SelectRecoveryErrorKeeps ==
    ASSUME NodeInvariant, SelectRecoveryError, policy' = policy
    PROVE  NodeInvariant' /\ RowStays
<1>. DEFINE k == Selected
            e == Taken(k)
            m == Materialized(Hydrated, e)
<1>1. pc = "select"
  BY DEF SelectRecoveryError, Doing
<1>2. k \in Kind /\ errors[k] \in ErrorEntry /\ Open(errors[k])
  BY <1>1, SelectedIsOpen
<1>3. e \in ErrorEntry /\ Live(e) /\ e.retries = errors[k].retries
  BY <1>2, TakenTyped DEF NodeInvariant
<1>4. /\ m \in Entry /\ m.status \in Reusable \cup {"failed"}
      /\ m.status \in Reusable => m = Hydrated
  BY <1>3, HydratedTyped, MaterializedTyped
<1>5. /\ Follows(m) /\ OfItsInput(m)
      /\ m.status \in Reusable =>
            row.status \in Reusable /\ (recovery.current \in AtBoundary => row.input = Input)
  <2>1. CASE m.status \in Reusable
    BY <1>4, <2>1, HydratedTyped
  <2>2. CASE m.status \notin Reusable
    BY <2>2 DEF Follows, OfItsInput
  <2>. QED  BY <2>1, <2>2
<1>. HIDE DEF m
<1>6. RowTakes(m) => (row.status \in Reusable => row.input[1] = path)
  <2>. SUFFICES ASSUME RowTakes(m), row.status \in Reusable
                PROVE  row.input[1] = path
    OBVIOUS
  <2>1. m.status \in Reusable
    BY <1>4, SuccessRefuses DEF NodeInvariant
  <2>2. CASE recovery.current \in AtBoundary
    BY <1>5, <2>1, <2>2 DEF Input, Reads
  <2>3. CASE recovery.current \notin AtBoundary
    BY <1>1, <2>3, SelectedIsOpen DEF OfThisPath
  <2>. QED  BY <2>2, <2>3
<1>7. CASE k \in AtBoundary /\ PersistExecution(k, m, Raises)
  <2>1. PICK x \in Entry : x = m
    BY <1>4
  <2>. QED  BY <1>1, <1>2, <1>4, <1>5, <1>6, <1>7, <2>1, PersistExecutionKeeps
\* With the execution committed, or an error inside a success, the row can be
\* handled.
<1>8. ExecutionPersisted(k) => Settleable
  <2>1. CASE k \in AtBoundary
    BY <1>1, <2>1 DEF ExecutionPersisted, NodeInvariant, Rows
  <2>2. CASE k \notin AtBoundary
    <3>1. k = "inside" /\ errors["inside"] # None
      BY <1>2, <2>2, KindsApart DEF ErrorEntry, None
    <3>2. row.status \in Reusable
      BY <3>1 DEF NodeInvariant, Agree
    <3>3. OfThisPath
      BY <1>1, <2>2, SelectedIsOpen
    <3>. QED  BY <3>2, <3>3 DEF Settleable
  <2>. QED  BY <2>1, <2>2
<1>9. CASE ExecutionPersisted(k) /\ PersistError(k, e, Raises)
  <2>1. PICK x \in ErrorEntry : x = e
    BY <1>3
  <2>2. e = Target(k) /\ e.status \notin {"recovered", "failed"}
    BY <1>1, <1>3 DEF Target, Live
  <2>. HIDE DEF e
  <2>. QED  BY <1>1, <1>2, <1>8, <1>9, <2>1, <2>2, PersistErrorKeeps DEF Writing
<1>10. CASE /\ Persisted(k)
            /\ errors' = [errors EXCEPT ![k] = e]
            /\ record' = IF k \in AtBoundary THEN m ELSE record
            /\ recovery' = [recovery EXCEPT !.current = k, !.action = "none"]
            /\ UNCHANGED <<path, data, resume>>
            /\ Returns(IF k \in AtBoundary /\ m.status \in Reusable THEN "inspect" ELSE "decide")
  <2>1. /\ written' = {}
        /\ UNCHANGED <<policy, path, data, resume, saved, row, errorRows, artifact>>
        /\ pc' = "decide" \/ (pc' = "inspect" /\ k \in AtBoundary /\ m.status \in Reusable)
    BY <1>10 DEF Returns, database, files
  <2>2. errorRows[k] = e /\ Settleable
    <3>1. errorRows[k] = Target(k)
      BY <1>1, <1>2, <1>10 DEF NodeInvariant, Rows, Persisted, Writing
    <3>. QED  BY <1>1, <1>10, <3>1 DEF Target, NodeInvariant, Rows, Persisted
  <2>3. saved.errors[k].status # "fallback_applied"
    BY <1>2, <1>3, <2>2 DEF NodeInvariant, Leading, Leads, Live
  <2>. HIDE DEF k, e
  <2>4. /\ errors' \in Errors /\ errors'[k] = e
        /\ errors'["inside"] # None => errors["inside"] # None
        /\ \A j \in Kind : errors'[j] = errors[j] \/ errors'[j] = errorRows[j]
    BY <1>2, <1>3, <1>10, <2>2 DEF NodeInvariant, Types, Errors, Kind, ErrorEntry, None
  <2>5. recovery' \in [current : Kind \cup {"none"},
                       action : {"none", "retry", "fallback", "wait_human", "reuse_result", "abort"},
                       human : Choice]
        /\ recovery'.current = k /\ recovery'.action = "none"
    BY <1>2, <1>10 DEF NodeInvariant, Types
  <2>6. Types'
    BY <1>4, <1>10, <2>1, <2>4, <2>5 DEF NodeInvariant, Types
  <2>7. Agree' /\ RowStays
    BY <1>5, <1>10, <2>1, <2>4 DEF NodeInvariant, Agree, OfItsInput, Follows, RowStays
  <2>8. Phases'
    BY <1>5, <1>10, <2>1, <2>2 DEF Phases, Settleable, OfThisPath
  <2>9. Handled' /\ Rows'
    BY <1>2, <1>3, <2>1, <2>3, <2>4, <2>5 DEF Handled, Handling, AtNode, Rows, Live
  <2>10. Leading'
    BY <2>1, <2>4, LeadingAtEnd DEF NodeInvariant
  <2>. QED  BY <2>6, <2>7, <2>8, <2>9, <2>10 DEF NodeInvariant
<1>. HIDE DEF k, e
<1>. QED  BY <1>7, <1>9, <1>10 DEF SelectRecoveryError, k, e, m

\* A node of the recovery that ends with the error as its row has it, or that
\* has not touched it.
LEMMA ReturnsKeeps ==
    ASSUME NodeInvariant, pc \in Handling,
           pc' \in {"load", "ask", "retry", "fallback", "wait_human", "abort"},
           written' = {},
           path' \in Path,
           NEW e \in ErrorEntry, e = errors[recovery.current] \/ e = errorRows[recovery.current],
           errors' = [errors EXCEPT ![recovery.current] = e],
           pc' # "load" => Live(e),
           recovery'.current = recovery.current,
           recovery' \in [current : Kind \cup {"none"},
                       action : {"none", "retry", "fallback", "wait_human", "reuse_result", "abort"},
                       human : Choice],
           resume' \in [answer : Choice, given : BOOLEAN],
           pc' = "load" => row.status \in Reusable /\ record.status \in Reusable,
           pc' \in {"fallback", "wait_human", "ask"} => Settleable /\ path' = path,
           UNCHANGED <<policy, data, record, saved, row, errorRows, artifact>>
    PROVE  NodeInvariant' /\ RowStays
<1>. DEFINE k == recovery.current
<1>1. k \in Kind /\ errors[k] \in ErrorEntry /\ saved.errors[k].status # "fallback_applied"
  BY HandledError
<1>. HIDE DEF k
<1>2. /\ errors' \in Errors /\ errors'[k] = e
      /\ errors'["inside"] # None => errors["inside"] # None
      /\ \A j \in Kind : errors'[j] = errors[j] \/ errors'[j] = errorRows[j]
  BY <1>1 DEF NodeInvariant, Types, Errors, Kind, ErrorEntry, None, k
<1>3. Types'
  BY <1>2 DEF NodeInvariant, Types
<1>4. Agree' /\ RowStays
  BY <1>2 DEF NodeInvariant, Agree, OfItsInput, Follows, RowStays
<1>5. Phases'
  BY DEF Phases, Settleable, OfThisPath
<1>6. Handled' /\ Rows'
  BY <1>1, <1>2 DEF Handled, Handling, AtNode, Rows, k
<1>7. Leading'
  BY <1>2, LeadingAtEnd DEF NodeInvariant
<1>. QED  BY <1>3, <1>4, <1>5, <1>6, <1>7 DEF NodeInvariant

\* The error in hand is committed as the node makes it.
LEMMA HandingKeeps ==
    ASSUME NodeInvariant, pc \in Handling \cap Writing, NEW e \in ErrorEntry,
           e = Target(recovery.current), PersistError(recovery.current, e, Raises),
           policy' = policy
    PROVE  NodeInvariant' /\ RowStays
<1>1. pc # "select" /\ recovery.current \in Kind
      /\ errors[recovery.current].status # "fallback_applied"
      /\ saved.errors[recovery.current].status # "fallback_applied"
  BY HandledError DEF Handling
<1>. QED  BY <1>1, PersistErrorKeeps

LEMMA CommittedTarget ==
    ASSUME NodeInvariant, pc \in Handling \cap Writing, Persisted(recovery.current)
    PROVE  errorRows[recovery.current] = Target(recovery.current)
BY HandledError DEF NodeInvariant, Rows, Persisted

LEMMA InspectReusableExecutionKeeps ==
    ASSUME NodeInvariant, InspectReusableExecution, policy' = policy
    PROVE  NodeInvariant' /\ RowStays
<1>. DEFINE k == recovery.current
<1>1. pc = "inspect" /\ pc \in Handling \cap Writing
  BY DEF InspectReusableExecution, Doing, Handling, Writing
<1>2. k \in Kind /\ errors[k] \in ErrorEntry
  BY <1>1, HandledError
<1>3. PICK e \in ErrorEntry : e = Settled(errors[k], "recovered")
  BY <1>2, SettledTyped
<1>4. e = Target(k)
  BY <1>1, <1>3 DEF Target
<1>5. CASE PersistError(k, e, Raises)
  BY <1>1, <1>4, <1>5, HandingKeeps
<1>6. CASE /\ Persisted(k)
           /\ errors' = [errors EXCEPT ![k] = e]
           /\ recovery' = [recovery EXCEPT !.action = "reuse_result"]
           /\ UNCHANGED <<path, data, record, resume>>
           /\ Returns("load")
  <2>1. e = errorRows[k]
    BY <1>1, <1>4, <1>6, CommittedTarget
  <2>2. row.status \in Reusable /\ record.status \in Reusable
    BY <1>1 DEF NodeInvariant, Phases
  <2>3. /\ pc' = "load" /\ written' = {} /\ path' \in Path
        /\ UNCHANGED <<policy, data, record, resume, saved, row, errorRows, artifact>>
    BY <1>6 DEF Returns, database, files, NodeInvariant, Types
  <2>4. /\ resume' \in [answer : Choice, given : BOOLEAN]
        /\ recovery'.current = k
        /\ recovery' \in [current : Kind \cup {"none"},
                       action : {"none", "retry", "fallback", "wait_human", "reuse_result", "abort"},
                       human : Choice]
    BY <1>6, <2>3 DEF NodeInvariant, Types
  <2>. QED  BY <1>1, <1>6, <2>1, <2>2, <2>3, <2>4, ReturnsKeeps
<1>. QED  BY <1>3, <1>5, <1>6 DEF InspectReusableExecution

LEMMA LoadReusedUpdateKeeps ==
    ASSUME NodeInvariant, LoadReusedUpdate, policy' = policy
    PROVE  NodeInvariant' /\ RowStays
<1>. DEFINE found == record.result = artifact /\ record.input = Input
            merged == IF artifact.error # None /\ errors["inside"] = None
                      THEN [errors EXCEPT !["inside"] = artifact.error] ELSE errors
<1>1. pc = "load" /\ row.status \in Reusable /\ record.status \in Reusable
  BY DEF LoadReusedUpdate, Doing, NodeInvariant, Phases
<1>2. CASE /\ found
           /\ data' = IF artifact.full THEN "some" ELSE data
           /\ errors' = merged
           /\ UNCHANGED <<path, record, recovery, budget>>
           /\ Checkpointed(Routed(errors'))
  <2>1. /\ merged \in Errors
        /\ \A j \in Kind : merged[j] = errors[j] \/ Leads(j, merged[j])
    <3>1. CASE artifact.error # None
      <4>1. artifact.error \in ErrorEntry /\ Leads("inside", artifact.error)
        BY <3>1, ResultError DEF NodeInvariant, Types, Leading
      <4>2. PICK x \in ErrorEntry : x = artifact.error
        BY <4>1
      <4>3. merged = errors \/ merged = [errors EXCEPT !["inside"] = x]
        BY <4>2
      <4>. QED  BY <4>1, <4>2, <4>3 DEF NodeInvariant, Types, Errors, Kind
    <3>2. CASE artifact.error = None
      BY <3>2 DEF NodeInvariant, Types
    <3>. QED  BY <3>1, <3>2
  <2>. HIDE DEF merged
  <2>2. errors' \in Errors /\ \A j \in Kind : errors'[j] = errors[j] \/ Leads(j, errors'[j])
    BY <1>2, <2>1
  <2>3. data' \in Data /\ record' \in {None} \cup Entry
    BY <1>2 DEF NodeInvariant, Types, Data
  <2>4. /\ pc' = Routed(errors') /\ written' = {} /\ UNCHANGED <<row, errorRows, artifact>>
        /\ saved'.errors = errors' /\ saved'.record = record'
        /\ saved' \in [data : Data, record : {None} \cup Entry, errors : Errors]
        /\ resume' \in [answer : Choice, given : BOOLEAN]
    <3>1. PICK next : next = Routed(errors')
      OBVIOUS
    <3>. QED  BY <1>2, <2>2, <2>3, <3>1, CheckpointTyped DEF NodeInvariant
  <2>5. Types'
    BY <1>2, <2>2, <2>3, <2>4 DEF NodeInvariant, Types
  <2>6. Agree' /\ RowStays
    BY <1>1, <1>2, <2>4 DEF NodeInvariant, Agree, OfItsInput, Follows, RowStays
  <2>7. row.result.input = Input /\ row.input = row.result.input
    BY <1>1, <1>2 DEF NodeInvariant, Agree, OfItsInput
  <2>8. row'.status \in Reusable /\ row'.input[1] = path' /\ row'.result.input[1] = path'
    BY <1>1, <1>2, <2>4, <2>7 DEF Input, Reads
  <2>9. pc' = "done" \/ (pc' = "select" /\ \E j \in Kind : Open(errors'[j]))
    BY <2>4, RoutedCases
  <2>10. Phases'
    BY <2>8, <2>9 DEF Phases, OfThisPath, DoneOrDegraded
  <2>11. Handled' /\ Rows'
    BY <2>4, <2>9 DEF Handled, Handling, AtNode, Rows
  <2>12. Leading'
    BY <2>2, <2>4, LeadingAtEnd DEF NodeInvariant
  <2>. QED  BY <2>5, <2>6, <2>10, <2>11, <2>12 DEF NodeInvariant
<1>3. CASE /\ ~found
           /\ Raises
           /\ UNCHANGED <<channels, resume, saved, database, files, budget>>
  BY <1>3, StandingKeeps DEF Raises, channels, database, files, NodeInvariant, Types
<1>. QED  BY <1>2, <1>3 DEF LoadReusedUpdate

LEMMA DecideRecoveryActionKeeps ==
    ASSUME NodeInvariant, DecideRecoveryAction, policy' = policy
    PROVE  NodeInvariant' /\ RowStays
<1>. DEFINE k == recovery.current
<1>1. pc = "decide" /\ pc \in Handling /\ Settleable
  BY DEF DecideRecoveryAction, Doing, Handling, NodeInvariant, Phases
<1>2. k \in Kind /\ errors[k] \in ErrorEntry /\ Live(errors[k])
  BY <1>1, HandledError
<1>3. PICK e \in ErrorEntry : e = errors[k]
  BY <1>2
<1>4. errors' = [errors EXCEPT ![k] = e]
  BY <1>2, <1>3 DEF DecideRecoveryAction, NodeInvariant, Types, Errors
<1>5. PICK next \in {"retry", "fallback", "wait_human", "abort"} : next = Recommended(k)
  BY DEF Recommended
<1>6. /\ pc' = next /\ written' = {} /\ path' = path /\ path' \in Path
      /\ recovery' = [recovery EXCEPT !.action = next]
      /\ UNCHANGED <<policy, data, record, resume, saved, row, errorRows, artifact>>
  BY <1>5 DEF DecideRecoveryAction, Returns, database, files, NodeInvariant, Types
<1>7. /\ resume' \in [answer : Choice, given : BOOLEAN]
      /\ recovery'.current = k
      /\ recovery' \in [current : Kind \cup {"none"},
                       action : {"none", "retry", "fallback", "wait_human", "reuse_result", "abort"},
                       human : Choice]
  BY <1>6 DEF NodeInvariant, Types
<1>. QED  BY <1>1, <1>2, <1>3, <1>4, <1>6, <1>7, ReturnsKeeps

\* A node of the recovery that ends the recovery: the node is retried, or
\* given up.
LEMMA LeavesKeeps ==
    ASSUME NodeInvariant, pc \in Handling, NEW next \in {"start", "given_up"},
           NEW act \in {"retry", "abort"}, Checkpointed(next),
           NEW e \in ErrorEntry, e = errorRows[recovery.current],
           act = "retry" => Live(e), next = "start" => act = "retry",
           errors' = [errors EXCEPT ![recovery.current] = e],
           recovery' = [recovery EXCEPT !.action = act],
           UNCHANGED <<policy, path, data, record>>
    PROVE  NodeInvariant' /\ RowStays
<1>. DEFINE k == recovery.current
<1>1. k \in Kind /\ errors[k] \in ErrorEntry /\ recovery'.current = k
  BY HandledError DEF NodeInvariant, Types
<1>2. recovery' \in [current : Kind \cup {"none"},
                     action : {"none", "retry", "fallback", "wait_human", "reuse_result", "abort"},
                     human : Choice]
  BY DEF NodeInvariant, Types
<1>. HIDE DEF k
<1>3. /\ errors' \in Errors /\ errors'[k] = e
      /\ errors'["inside"] # None => errors["inside"] # None
      /\ \A j \in Kind : errors'[j] = errors[j] \/ errors'[j] = errorRows[j]
  BY <1>1 DEF NodeInvariant, Types, Errors, Kind, ErrorEntry, None, k
<1>4. /\ pc' = next /\ written' = {} /\ UNCHANGED <<row, errorRows, artifact>>
      /\ saved'.errors = errors' /\ saved'.record = record'
      /\ saved' \in [data : Data, record : {None} \cup Entry, errors : Errors]
      /\ resume' \in [answer : Choice, given : BOOLEAN]
  BY <1>3, CheckpointTyped DEF NodeInvariant, Types
<1>5. Types'
  BY <1>2, <1>3, <1>4 DEF NodeInvariant, Types
<1>6. Agree' /\ RowStays
  BY <1>3, <1>4 DEF NodeInvariant, Agree, OfItsInput, Follows, RowStays
<1>7. Phases' /\ Rows'
  BY <1>4 DEF Phases, Rows, Writing
<1>8. Handled'
  BY <1>1, <1>3, <1>4 DEF Handled, Handling, AtNode, Live, k
<1>9. Leading'
  BY <1>3, <1>4, LeadingAtEnd DEF NodeInvariant
<1>. QED  BY <1>5, <1>6, <1>7, <1>8, <1>9 DEF NodeInvariant

LEMMA ScheduleRecoveryRetryKeeps ==
    ASSUME NodeInvariant, ScheduleRecoveryRetry, policy' = policy
    PROVE  NodeInvariant' /\ RowStays
<1>. DEFINE k == recovery.current
<1>1. pc = "retry" /\ pc \in Handling \cap Writing
  BY DEF ScheduleRecoveryRetry, Doing, Handling, Writing
<1>2. k \in Kind /\ errors[k] \in ErrorEntry
  BY <1>1, HandledError
<1>3. PICK e \in ErrorEntry : e = Retried(k) /\ Live(e)
  BY <1>2, RetriedTyped
<1>4. e = Target(k)
  BY <1>1, <1>3 DEF Target
<1>5. CASE PersistError(k, e, Raises)
  BY <1>1, <1>4, <1>5, HandingKeeps
<1>6. CASE /\ Persisted(k)
           /\ errors' = [errors EXCEPT ![k] = e]
           /\ recovery' = [recovery EXCEPT !.action = "retry"]
           /\ UNCHANGED <<path, data, record, budget>>
           /\ Checkpointed("start")
  BY <1>1, <1>3, <1>4, <1>6, CommittedTarget, LeavesKeeps
<1>. QED  BY <1>3, <1>5, <1>6 DEF ScheduleRecoveryRetry

LEMMA MarkRecoveryAbortedKeeps ==
    ASSUME NodeInvariant, MarkRecoveryAborted, policy' = policy
    PROVE  NodeInvariant' /\ RowStays
<1>. DEFINE k == recovery.current
<1>1. pc = "abort" /\ pc \in Handling \cap Writing
  BY DEF MarkRecoveryAborted, Doing, Handling, Writing
<1>2. k \in Kind /\ errors[k] \in ErrorEntry
  BY <1>1, HandledError
<1>3. PICK e \in ErrorEntry : e = Settled(errors[k], "failed")
  BY <1>2, SettledTyped
<1>4. e = Target(k)
  BY <1>1, <1>3 DEF Target
<1>5. CASE PersistError(k, e, Raises)
  BY <1>1, <1>4, <1>5, HandingKeeps
<1>6. CASE /\ Persisted(k)
           /\ errors' = [errors EXCEPT ![k] = e]
           /\ recovery' = [recovery EXCEPT !.action = "abort"]
           /\ UNCHANGED <<path, data, record, budget>>
           /\ Checkpointed("given_up")
  BY <1>1, <1>3, <1>4, <1>6, CommittedTarget, LeavesKeeps
<1>. QED  BY <1>3, <1>5, <1>6 DEF MarkRecoveryAborted

LEMMA CohortIsOpen ==
    ASSUME NodeInvariant, pc = "fallback"
    PROVE  /\ Cohort \subseteq Kind /\ recovery.current \in Cohort
           /\ \A k \in Cohort : errors[k] \in ErrorEntry
<1>1. recovery.current \in Kind /\ errors[recovery.current] \in ErrorEntry
  BY HandledError DEF Handling
<1>2. \A k \in Kind : Open(errors[k]) => errors[k] \in ErrorEntry
  BY DEF Open, NodeInvariant, Types, Errors
<1>. QED  BY <1>1, <1>2 DEF Cohort

LEMMA ApplyRecoveryFallbackKeeps ==
    ASSUME NodeInvariant, ApplyRecoveryFallback, policy' = policy
    PROVE  NodeInvariant' /\ RowStays
<1>. DEFINE latest == IF \E k \in Kind : <<"execution", k>> \in written THEN row ELSE record
            settled(k) == Settled(errors[k], "fallback_applied")
            c == recovery.current
<1>1. pc = "fallback" /\ pc \in Writing /\ Settleable
  BY DEF ApplyRecoveryFallback, Doing, Writing, NodeInvariant, Phases
<1>2. Cohort \subseteq Kind /\ c \in Cohort /\ \A k \in Cohort : errors[k] \in ErrorEntry
  BY <1>1, CohortIsOpen
<1>3. latest \in {None} \cup Entry /\ OfItsInput(latest) /\ Follows(latest)
  BY DEF NodeInvariant, Types, Agree, Follows
<1>. HIDE DEF latest
<1>4. \A k \in Cohort : /\ settled(k) \in ErrorEntry /\ settled(k).status = "fallback_applied"
                        /\ settled(k).retries = errors[k].retries /\ settled(k) = Target(k)
  BY <1>1, <1>2, SettledTyped DEF Target
<1>5. ASSUME NEW k \in Cohort, PersistExecution(k, Materialized(latest, errors[k]), Raises)
      PROVE  NodeInvariant' /\ RowStays
  <2>1. PICK m \in Entry : m = Materialized(latest, errors[k]) /\ m.status \in Reusable \cup {"failed"}
                           /\ (m.status \in Reusable => m = latest)
    BY <1>2, <1>3, MaterializedTyped
  <2>2. Follows(m)
    BY <1>3, <2>1 DEF Follows
  <2>3. row.status \in Reusable => row.input[1] = path
    BY <1>1 DEF Settleable, OfThisPath
  <2>4. PersistExecution(k, m, Raises)
    BY <1>5, <2>1
  <2>. QED  BY <1>1, <1>2, <2>1, <2>2, <2>3, <2>4, PersistExecutionKeeps
<1>6. ASSUME NEW k \in Cohort, PersistError(k, settled(k), Raises)
      PROVE  NodeInvariant' /\ RowStays
  <2>1. PICK e \in ErrorEntry : e = settled(k) /\ e = Target(k) /\ e.status = "fallback_applied"
    BY <1>4
  <2>2. PersistError(k, e, Raises) /\ k \in Kind
    BY <1>2, <1>6, <2>1
  <2>. QED  BY <1>1, <2>1, <2>2, PersistErrorKeeps
<1>7. CASE /\ \A k \in Cohort : Persisted(k)
           /\ errors' = [k \in Kind |-> IF k \in Cohort THEN settled(k) ELSE errors[k]]
           /\ record' = latest
           /\ recovery' = [recovery EXCEPT !.action = "fallback"]
           /\ UNCHANGED <<path, data, budget>>
           /\ Checkpointed(Routed(errors'))
  <2>1. \A k \in Cohort : errorRows[k] = settled(k)
    BY <1>1, <1>2, <1>4, <1>7 DEF NodeInvariant, Rows, Persisted
  <2>. HIDE DEF settled
  <2>2. \A k \in Kind : errors'[k] = errors[k] \/ (k \in Cohort /\ errors'[k] = errorRows[k])
    BY <1>7, <2>1
  <2>3. errors' \in Errors /\ (errors'["inside"] # None => errors["inside"] # None)
    <3>1. errors' \in Errors
      BY <1>4, <1>7 DEF NodeInvariant, Types, Errors
    <3>2. \A k \in Cohort : errors[k] # None
      BY <1>2 DEF ErrorEntry, None
    <3>. QED  BY <2>2, <3>1, <3>2 DEF Kind
  <2>4. /\ c \in Kind /\ errors'[c] = errorRows[c] /\ errors'[c].status = "fallback_applied"
        /\ errors[c] # None
    BY <1>2, <1>4, <1>7, <2>1 DEF ErrorEntry, None
  <2>5. /\ pc' = Routed(errors') /\ written' = {} /\ UNCHANGED <<row, errorRows, artifact>>
        /\ saved'.errors = errors' /\ saved'.record = record'
        /\ saved' \in [data : Data, record : {None} \cup Entry, errors : Errors]
        /\ resume' \in [answer : Choice, given : BOOLEAN]
    <3>1. PICK next : next = Routed(errors')
      OBVIOUS
    <3>2. data' \in Data /\ record' \in {None} \cup Entry
      BY <1>3, <1>7 DEF NodeInvariant, Types
    <3>. QED  BY <1>7, <2>3, <3>1, <3>2, CheckpointTyped DEF NodeInvariant
  <2>6. Types'
    BY <1>3, <1>7, <2>3, <2>5 DEF NodeInvariant, Types
  <2>7. Agree' /\ RowStays
    BY <1>3, <1>7, <2>3, <2>5 DEF NodeInvariant, Agree, OfItsInput, Follows, RowStays
  <2>8. pc' = "done" \/ (pc' = "select" /\ \E j \in Kind : Open(errors'[j]))
    BY <2>5, RoutedCases
  <2>9. row.status = "failed" => c \in AtBoundary
    BY <2>4, KindsApart DEF NodeInvariant, Agree, Reusable
  <2>10. row.status \in Reusable => row.result.input[1] = path
    BY <1>1 DEF NodeInvariant, Agree, OfItsInput, Settleable, OfThisPath
  <2>11. DoneOrDegraded' /\ OfThisPath'
    BY <1>1, <1>7, <2>4, <2>5, <2>9, <2>10 DEF DoneOrDegraded, Settleable, OfThisPath
  <2>12. Phases'
    BY <2>8, <2>11 DEF Phases
  <2>13. Handled' /\ Rows'
    BY <2>5, <2>8 DEF Handled, Handling, AtNode, Rows
  <2>14. Leading'
    BY <2>2, <2>5, LeadingAtEnd DEF NodeInvariant
  <2>. QED  BY <2>6, <2>7, <2>12, <2>13, <2>14 DEF NodeInvariant
<1>. HIDE DEF settled
<1>. QED  BY <1>5, <1>6, <1>7 DEF ApplyRecoveryFallback, latest, settled

LEMMA PrepareRecoveryHumanInputKeeps ==
    ASSUME NodeInvariant, PrepareRecoveryHumanInput, policy' = policy
    PROVE  NodeInvariant' /\ RowStays
<1>. DEFINE k == recovery.current
<1>1. pc = "wait_human" /\ pc \in Handling \cap Writing /\ Settleable
  BY DEF PrepareRecoveryHumanInput, Doing, Handling, Writing, NodeInvariant, Phases
<1>2. k \in Kind /\ errors[k] \in ErrorEntry
  BY <1>1, HandledError
<1>3. PICK e \in ErrorEntry : e = Asked(k) /\ Live(e)
  BY <1>2, AskedTyped
<1>4. e = Target(k)
  BY <1>1, <1>3 DEF Target
<1>5. CASE PersistError(k, e, Raises)
  BY <1>1, <1>4, <1>5, HandingKeeps
<1>6. CASE /\ Persisted(k)
           /\ errors' = [errors EXCEPT ![k] = e]
           /\ recovery' = [recovery EXCEPT !.human = "none"]
           /\ UNCHANGED <<path, data, record, resume>>
           /\ Returns("ask")
  <2>1. e = errorRows[k]
    BY <1>1, <1>4, <1>6, CommittedTarget
  <2>2. /\ pc' = "ask" /\ written' = {} /\ path' \in Path /\ path' = path
        /\ UNCHANGED <<policy, data, record, resume, saved, row, errorRows, artifact>>
    BY <1>6 DEF Returns, database, files, NodeInvariant, Types
  <2>3. /\ resume' \in [answer : Choice, given : BOOLEAN]
        /\ recovery'.current = k
        /\ recovery' \in [current : Kind \cup {"none"},
                       action : {"none", "retry", "fallback", "wait_human", "reuse_result", "abort"},
                       human : Choice]
    BY <1>6, <2>2 DEF NodeInvariant, Types, Choice
  <2>. QED  BY <1>1, <1>3, <1>6, <2>1, <2>2, <2>3, ReturnsKeeps
<1>. QED  BY <1>3, <1>5, <1>6 DEF PrepareRecoveryHumanInput

LEMMA InterruptKeeps ==
    ASSUME NodeInvariant, Interrupt, policy' = policy
    PROVE  NodeInvariant' /\ RowStays
BY StandingKeeps DEF Interrupt, channels, database, files, NodeInvariant, Types, Choice

LEMMA AnswerKeeps ==
    ASSUME NodeInvariant, NEW a \in {"retry", "provide_path", "skip_file", "abort"}, Answer(a),
           policy' = policy
    PROVE  NodeInvariant' /\ RowStays
BY StandingKeeps DEF Answer, channels, database, files, Choice

LEMMA RefuseAnswerKeeps ==
    ASSUME NodeInvariant, RefuseAnswer, policy' = policy
    PROVE  NodeInvariant' /\ RowStays
BY StandingKeeps DEF RefuseAnswer, Raises, channels, database, files, NodeInvariant, Types

LEMMA TakeAnswerKeeps ==
    ASSUME NodeInvariant, TakeAnswer, policy' = policy
    PROVE  NodeInvariant' /\ RowStays
<1>. DEFINE k == recovery.current
            a == resume.answer
<1>1. pc = "ask" /\ pc \in Handling /\ Settleable
  BY DEF TakeAnswer, Doing, Handling, NodeInvariant, Phases
<1>2. k \in Kind /\ errors[k] \in ErrorEntry /\ Live(errors[k])
  BY <1>1, HandledError
<1>3. PICK e \in ErrorEntry : e = errors[k]
  BY <1>2
<1>4. errors' = [errors EXCEPT ![k] = e]
  BY <1>2, <1>3 DEF TakeAnswer, NodeInvariant, Types, Errors
<1>5. PICK next \in {"retry", "fallback", "abort"} :
        /\ next = (CASE a \in {"retry", "provide_path"} -> "retry"
                     [] a = "skip_file"                  -> "fallback"
                     [] OTHER                            -> "abort")
        /\ next = "fallback" => a # "provide_path"
  OBVIOUS
<1>6. /\ pc' = next /\ written' = {} /\ path' \in Path /\ (next = "fallback" => path' = path)
      /\ recovery' = [recovery EXCEPT !.human = a]
      /\ resume' = [resume EXCEPT !.given = FALSE]
      /\ UNCHANGED <<policy, data, record, saved, row, errorRows, artifact>>
  BY <1>5 DEF TakeAnswer, Returns, database, files, NodeInvariant, Types, Path
<1>7. /\ resume' \in [answer : Choice, given : BOOLEAN]
      /\ recovery'.current = k
      /\ recovery' \in [current : Kind \cup {"none"},
                       action : {"none", "retry", "fallback", "wait_human", "reuse_result", "abort"},
                       human : Choice]
  BY <1>6 DEF NodeInvariant, Types
<1>. QED  BY <1>1, <1>2, <1>3, <1>4, <1>6, <1>7, ReturnsKeeps

LEMMA LaterNodesKeeps ==
    ASSUME NodeInvariant, LaterNodes, policy' = policy
    PROVE  NodeInvariant' /\ RowStays
<1>1. /\ pc = "done" /\ data' = "more" /\ UNCHANGED <<path, record, errors, recovery>>
      /\ Checkpointed("done")
  BY DEF LaterNodes, Doing
<1>2. data' \in Data /\ record' \in {None} \cup Entry /\ errors' \in Errors
  BY <1>1 DEF NodeInvariant, Types, Data
<1>3. /\ pc' = "done" /\ written' = {} /\ UNCHANGED <<row, errorRows, artifact>>
      /\ saved'.errors = errors' /\ saved'.record = record'
      /\ saved' \in [data : Data, record : {None} \cup Entry, errors : Errors]
      /\ resume' \in [answer : Choice, given : BOOLEAN]
  BY <1>1, <1>2, CheckpointTyped DEF NodeInvariant
<1>4. Types'
  BY <1>1, <1>2, <1>3 DEF NodeInvariant, Types
<1>5. Agree' /\ RowStays
  BY <1>1, <1>3 DEF NodeInvariant, Agree, OfItsInput, Follows, RowStays
<1>6. Phases'
  BY <1>1, <1>3 DEF NodeInvariant, Phases, DoneOrDegraded
<1>7. Handled' /\ Rows'
  BY <1>3 DEF Handled, Handling, AtNode, Rows
<1>8. Leading'
  BY <1>1, <1>3, LeadingAtEnd DEF NodeInvariant
<1>. QED  BY <1>4, <1>5, <1>6, <1>7, <1>8 DEF NodeInvariant

LEMMA StartOverKeeps ==
    ASSUME NodeInvariant, StartOver, written' = {}, UNCHANGED <<policy, saved, row, errorRows, artifact>>
    PROVE  NodeInvariant' /\ RowStays
<1>1. /\ pc' = "start" /\ path' = "given" /\ recovery' = NoRecovery /\ resume' = resume
      /\ data' = saved.data /\ record' = saved.record /\ errors' = saved.errors
  BY DEF StartOver
<1>2. Types'
  BY <1>1 DEF NodeInvariant, Types, NoRecovery, Path, Choice
<1>3. Agree' /\ RowStays
  BY <1>1 DEF NodeInvariant, Agree, OfItsInput, Follows, RowStays
<1>4. Phases' /\ Handled' /\ Rows'
  BY <1>1 DEF Phases, Handled, Handling, Rows, Writing, NoRecovery
<1>5. Leading'
  BY <1>1 DEF NodeInvariant, Leading, Leads
<1>. QED  BY <1>2, <1>3, <1>4, <1>5 DEF NodeInvariant

LEMMA ResumeKeeps ==
    ASSUME NodeInvariant, Resume, written' = {}, UNCHANGED <<policy, saved, row, errorRows, artifact>>
    PROVE  NodeInvariant' /\ RowStays
<1>1. /\ pc' = IF pc \in InRecovery \cup {"done", "given_up"} THEN pc ELSE "start"
      /\ resume' = [resume EXCEPT !.given = pc \in InRecovery]
      /\ UNCHANGED <<path, data, record, errors, recovery>>
  BY DEF Resume, channels
<1>2. (pc \in InRecovery) \in BOOLEAN
  OBVIOUS
<1>3. Types'
  BY <1>1, <1>2 DEF NodeInvariant, Types
<1>4. Agree' /\ Leading' /\ RowStays
  BY <1>1 DEF NodeInvariant, Agree, OfItsInput, Follows, Leading, Leads, RowStays
<1>5. Phases' /\ Handled' /\ Rows'
  <2>1. CASE pc \in InRecovery \cup {"done", "given_up"}
    <3>1. pc' = pc
      BY <1>1, <2>1
    <3>2. Phases'
      BY <1>1, <2>1, <3>1
         DEF NodeInvariant, Phases, InRecovery, OfThisPath, Settleable, DoneOrDegraded
    <3>3. Handled' /\ Rows'
      BY <1>1, <3>1 DEF NodeInvariant, Handled, AtNode, Rows
    <3>. QED  BY <3>2, <3>3
  <2>2. CASE pc \notin InRecovery \cup {"done", "given_up"}
    <3>1. pc' = "start"
      BY <1>1, <2>2
    <3>2. recovery.action = "retry" => Handled'
      BY <1>1, <2>2, <3>1 DEF NodeInvariant, Handled, AtNode, InRecovery
    <3>. QED  BY <1>1, <3>1, <3>2 DEF Phases, Handled, Handling, Rows, Writing
  <2>. QED  BY <2>1, <2>2
<1>. QED  BY <1>3, <1>4, <1>5 DEF NodeInvariant

(***************************************************************************)
(* Every step, and the theorems.                                           *)
(***************************************************************************)
LEMMA InitHolds ==
    ASSUME Init
    PROVE  NodeInvariant
<1>1. policy \in [Kind -> [retries : Nat, fallback : Fallback \cup {"none"}, human : BOOLEAN]]
  BY PolicyAllows DEF Init
<1>2. NoResult \in Result /\ errors \in Errors /\ errorRows \in Errors
  BY NoResultTyped DEF Init, Errors
<1>3. Types
  BY <1>1, <1>2 DEF Init, Types, Path, Data, Choice, NoRecovery
<1>4. Agree /\ Phases /\ Handled /\ Rows
  BY DEF Init, Agree, OfItsInput, Follows, None, Reusable, Phases, Handled, Handling, Rows, Writing,
         NoRecovery, Kind
<1>5. Leading
  BY DEF Init, Leading, Leads, None, NoResult
<1>. QED  BY <1>3, <1>4, <1>5 DEF NodeInvariant

LEMMA StepKeeps ==
    ASSUME NodeInvariant, Step, policy' = policy
    PROVE  NodeInvariant' /\ RowStays
<1>1. CASE \E k \in AtBoundary : CaptureException(k)
  BY <1>1, CaptureExceptionKeeps
<1>2. CASE ReuseResult
  BY <1>2, ReuseResultKeeps
<1>3. CASE StartExecution
  BY <1>3, StartExecutionKeeps
<1>4. CASE \E full, bad \in BOOLEAN : InvokeSubgraph(full, bad)
  BY <1>4, InvokeSubgraphKeeps DEF RowStays
<1>5. CASE SubgraphRaises
  BY <1>5, SubgraphRaisesKeeps
<1>6. CASE PersistSuccess
  BY <1>6, PersistSuccessKeeps
<1>7. CASE ApplyResult
  BY <1>7, ApplyResultKeeps
<1>8. CASE SelectRecoveryError
  BY <1>8, SelectRecoveryErrorKeeps
<1>9. CASE InspectReusableExecution
  BY <1>9, InspectReusableExecutionKeeps
<1>10. CASE LoadReusedUpdate
  BY <1>10, LoadReusedUpdateKeeps
<1>11. CASE DecideRecoveryAction
  BY <1>11, DecideRecoveryActionKeeps
<1>12. CASE ScheduleRecoveryRetry
  BY <1>12, ScheduleRecoveryRetryKeeps
<1>13. CASE ApplyRecoveryFallback
  BY <1>13, ApplyRecoveryFallbackKeeps
<1>14. CASE PrepareRecoveryHumanInput
  BY <1>14, PrepareRecoveryHumanInputKeeps
<1>15. CASE Interrupt
  BY <1>15, InterruptKeeps
<1>16. CASE \E a \in {"retry", "provide_path", "skip_file", "abort"} : Answer(a)
  BY <1>16, AnswerKeeps
<1>17. CASE TakeAnswer
  BY <1>17, TakeAnswerKeeps
<1>18. CASE RefuseAnswer
  BY <1>18, RefuseAnswerKeeps
<1>19. CASE MarkRecoveryAborted
  BY <1>19, MarkRecoveryAbortedKeeps
<1>20. CASE LaterNodes
  BY <1>20, LaterNodesKeeps
<1>. QED  BY <1>1, <1>2, <1>3, <1>4, <1>5, <1>6, <1>7, <1>8, <1>9, <1>10, <1>11, <1>12, <1>13,
             <1>14, <1>15, <1>16, <1>17, <1>18, <1>19, <1>20 DEF Step

LEMMA RestartKeeps ==
    ASSUME NodeInvariant, Restart, policy' = policy
    PROVE  NodeInvariant' /\ RowStays
<1>1. written' = {} /\ UNCHANGED <<saved, row, errorRows, artifact>> /\ (StartOver \/ Resume)
  BY DEF Restart, database, files
<1>. QED  BY <1>1, StartOverKeeps, ResumeKeeps

LEMMA NextKeeps ==
    ASSUME NodeInvariant, [Next]_vars
    PROVE  NodeInvariant' /\ RowStays
<1>1. CASE Step /\ policy' = policy
  BY <1>1, StepKeeps
<1>2. CASE Restart /\ policy' = policy
  BY <1>2, RestartKeeps
<1>3. CASE UNCHANGED vars
  BY <1>3, StandingKeeps DEF vars, channels, database, files, NodeInvariant, Types
<1>. QED  BY <1>1, <1>2, <1>3 DEF Next

\* Only the subgraph writes the stored result and is counted as run.
LEMMA SuccessIsNotComputedAgain ==
    ASSUME NodeInvariant, [Next]_vars, row.status \in Reusable
    PROVE  UNCHANGED <<artifact, invoked>>
<1>1. CASE Step /\ policy' = policy
  <2>1. CASE \E full, bad \in BOOLEAN : InvokeSubgraph(full, bad)
    BY <1>1, <2>1, InvokeSubgraphKeeps
  <2>2. CASE ~(\E full, bad \in BOOLEAN : InvokeSubgraph(full, bad))
    BY <1>1, <2>2
       DEF Step, CaptureException, PersistExecution, PersistError, Returns, Checkpointed, ReuseResult,
           StartExecution, SubgraphRaises, PersistSuccess, ApplyResult, SelectRecoveryError,
           InspectReusableExecution, LoadReusedUpdate, DecideRecoveryAction, ScheduleRecoveryRetry,
           ApplyRecoveryFallback, PrepareRecoveryHumanInput, Interrupt, Answer, TakeAnswer,
           RefuseAnswer, MarkRecoveryAborted, LaterNodes, files
  <2>. QED  BY <2>1, <2>2
<1>2. CASE Restart
  BY <1>2 DEF Restart, files
<1>3. CASE UNCHANGED vars
  BY <1>3 DEF vars, files
<1>. QED  BY <1>1, <1>2, <1>3 DEF Next

\* In every reachable state the run's record, its checkpoint, the rows and the
\* stored result agree, and the recovery handles an error that is there.
THEOREM NodeIsInvariant == Spec => []NodeInvariant
<1>1. Init => NodeInvariant
  BY InitHolds
<1>2. NodeInvariant /\ [Next]_vars => NodeInvariant'
  BY NextKeeps
<1>. QED  BY <1>1, <1>2, PTL DEF Spec

\* The node's record, row, errors and stored result hold what their state
\* types say, whatever fails, restarts and is retried.
THEOREM NodeTypesAreKept == Spec => []NodeTypeOK
<1>1. NodeInvariant => NodeTypeOK
  BY DEF NodeInvariant, Types, NodeTypeOK, Entry, Errors, ErrorEntry, Reusable
<1>. QED  BY <1>1, NodeIsInvariant, PTL

\* The run never goes on behind a node with a result that belongs to another
\* input directory than its own, nor without a result unless the database says
\* that it failed and that its error was passed over.
THEOREM DoneMeansResultOrFallback == Spec => []DoneOrDegraded
<1>1. NodeInvariant => DoneOrDegraded
  <2>1. pc # "done" => DoneOrDegraded
    BY DEF DoneOrDegraded
  <2>. QED  BY <2>1 DEF NodeInvariant, Phases
<1>. QED  BY <1>1, NodeIsInvariant, PTL

\* Wherever the process dies between a transaction and the checkpoint that
\* follows it, the error rows are ahead of the checkpoint and never behind.
THEOREM RowsAreAhead == Spec => []RowsLeadCheckpoint
<1>1. NodeInvariant => RowsLeadCheckpoint
  BY DEF NodeInvariant, Leading, Leads, RowsLeadCheckpoint
<1>. QED  BY <1>1, NodeIsInvariant, PTL

\* A success in node_execution_records is final: neither a retry, a recovery
\* nor a requeued run runs the subgraph to its end again or writes another
\* result over it.
THEOREM SuccessesStay == Spec => NoSecondSuccess
<1>1. NodeInvariant /\ [Next]_vars =>
        [row.status \in Reusable =>
            /\ row'.status \in Reusable /\ row'.result = row.result
            /\ row.result = artifact /\ UNCHANGED <<artifact, invoked>>]_vars
  <2>. SUFFICES ASSUME NodeInvariant, [Next]_vars, row.status \in Reusable
                PROVE  /\ row'.status \in Reusable /\ row'.result = row.result
                       /\ row.result = artifact /\ UNCHANGED <<artifact, invoked>>
    OBVIOUS
  <2>1. row'.status \in Reusable /\ row'.result = row.result
    BY NextKeeps DEF RowStays
  <2>2. row.result = artifact
    BY DEF NodeInvariant, Agree
  <2>. QED  BY <2>1, <2>2, SuccessIsNotComputedAgain
<1>. QED  BY <1>1, NodeIsInvariant, PTL DEF Spec, NoSecondSuccess
=============================================================================
