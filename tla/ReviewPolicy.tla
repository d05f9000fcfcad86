---------------------------- MODULE ReviewPolicy ----------------------------
(***************************************************************************)
(* What the review harness makes of a diff (src/review/harness.ts with     *)
(* riskTier.ts and coordinator.ts): the diff is put in a tier, the tier's  *)
(* finders answer in any order, their findings are merged, the doubtful    *)
(* ones verified, and one rubric decides.                                  *)
(***************************************************************************)
EXTENDS Naturals, Sequences, FiniteSets, SequencesExt

CONSTANTS
    Diffs,        \* what classifyRiskTier looks at in a diff, and the declared tier
    Finding,      \* what a finder may report: key, severity and confidence >= 0.6
    Verifiers,    \* verifyProducer, by key: keep, and the severity (4 if none is given)
    NoVerifier,
    MaxReports    \* bound on the finders that do not answer with an empty list

Tiers == {"trivial", "lite", "full"}

ASSUME ReviewPolicyAssumption ==
    /\ Diffs \subseteq [lines : Nat, files : Nat, security : BOOLEAN, declared : Tiers]
    /\ \A f \in Finding : f \in [key : {f.key}, severity : 0..4, sure : BOOLEAN]
    /\ \A v \in Verifiers, f \in Finding : v[f.key] \in [keep : BOOLEAN, severity : 0..4]
    /\ MaxReports \in Nat

VARIABLES
    reviewed,  \* the diff
    tier,      \* its tier
    answers,   \* of the finders that have answered
    outcome    \* the verdict, the findings that survived, and the verifier asked

reviewPolicyVars == <<reviewed, tier, answers, outcome>>

NoOutcome == [verdict |-> "none", findings |-> <<>>, verifier |-> NoVerifier]

ReviewPolicyInit ==
    /\ reviewed \in Diffs /\ tier = "none"
    /\ answers = <<>> /\ outcome = NoOutcome

TierRank(t) == CASE t = "trivial" -> 0 [] t = "lite" -> 1 [] t = "full" -> 2

\* The kept files decide on security and on "trivial"; every changed line counts,
\* those of lockfiles too; the declared tier is a floor.
RiskTier(d) ==
    LET size == IF d.security \/ d.lines > 200 THEN "full"
                ELSE IF d.lines <= 10 /\ d.files <= 2 THEN "trivial" ELSE "lite"
    IN IF TierRank(d.declared) > TierRank(size) THEN d.declared ELSE size

\* reviewersForTier, in the order the union is made in.
Roster(t) ==
    CASE t = "trivial" -> <<"correctness", "security">>
      [] t = "lite" -> <<"correctness", "security", "quality">>
      [] t = "full" -> <<"security", "correctness", "performance", "quality", "docs",
                         "agents_md">>

Classify ==
    /\ tier = "none" /\ tier' = RiskTier(reviewed)
    /\ UNCHANGED <<reviewed, answers, outcome>>

\* What a finder answers: nothing that parses, no finding, or one.
Failed == <<"failed">>
Report(fs) == <<"findings", fs>>
Clean == Report(<<>>)

Reports == {k \in DOMAIN answers : answers[k] # Clean}

FinderAnswers(k, answer) ==
    /\ tier # "none" /\ outcome = NoOutcome
    /\ k \in ToSet(Roster(tier)) \ DOMAIN answers
    /\ answer = Clean \/ Cardinality(Reports) < MaxReports
    /\ answers' = [j \in DOMAIN answers \cup {k} |-> IF j = k THEN answer ELSE answers[j]]
    /\ UNCHANGED <<reviewed, tier, outcome>>

----------------------------------------------------------------------------
(* coordinate *)

Union(as, t) ==
    FoldLeft(LAMBDA fs, k : IF as[k] = Failed THEN fs ELSE fs \o as[k][2], <<>>, Roster(t))

Harsher(m, n) == IF m >= n THEN m ELSE n
Milder(m, n) == IF m <= n THEN m ELSE n

\* mutant: the first report of an issue stands
MergeFirst(a, b) == a

\* The higher severity and, on its own, the higher confidence.
MergeFindings(a, b) ==
    [a EXCEPT !.severity = Harsher(@, b.severity), !.sure = @ \/ b.sure]

Dedup(fs) ==
    FoldLeft(LAMBDA out, f :
               IF \E i \in DOMAIN out : out[i].key = f.key
                 THEN [i \in DOMAIN out |->
                         IF out[i].key = f.key THEN MergeFindings(out[i], f) ELSE out[i]]
                 ELSE Append(out, f),
             <<>>, fs)

\* A doubtful finding may be dropped or softened, never raised.
VerifyLowConfidence(fs, verifier) ==
    FoldLeft(LAMBDA out, f :
               IF f.sure THEN Append(out, f)
               ELSE IF ~verifier[f.key].keep THEN out
               ELSE Append(out, [f EXCEPT !.severity = Milder(@, verifier[f.key].severity)]),
             <<>>, fs)

Blocking(f) == f.severity = 4 \/ (f.severity = 3 /\ f.sure)

DecideVerdict(fs) ==
    IF \E i \in DOMAIN fs : Blocking(fs[i]) THEN "block"
    ELSE IF fs # <<>> THEN "approve_with_comments" ELSE "approve"

AllFailed == \A k \in DOMAIN answers : answers[k] = Failed

\* The verifier is not asked for a trivial diff.
Coordinate(verifier) ==
    /\ tier # "none" /\ outcome = NoOutcome
    /\ DOMAIN answers = ToSet(Roster(tier))
    /\ LET merged == Dedup(Union(answers, tier))
           left == IF tier = "trivial" \/ verifier = NoVerifier
                     THEN merged ELSE VerifyLowConfidence(merged, verifier)
       IN outcome' = [verdict |-> IF AllFailed THEN "block" ELSE DecideVerdict(left),
                      findings |-> left, verifier |-> verifier]
    /\ UNCHANGED <<reviewed, tier, answers>>

ReviewPolicyNext ==
    \/ Classify
    \/ \E k \in ToSet(Roster("full")), a \in {Failed, Clean} \cup {Report(<<f>>) : f \in Finding} :
         FinderAnswers(k, a)
    \/ \E v \in Verifiers \cup {NoVerifier} : Coordinate(v)

ReviewPolicySpec == ReviewPolicyInit /\ [][ReviewPolicyNext]_reviewPolicyVars

----------------------------------------------------------------------------
(* Properties *)

\* The shapes; the survivors are issues of their own.
ReviewPolicyTypeOK ==
    /\ reviewed \in Diffs /\ tier \in Tiers \cup {"none"}
    /\ outcome.verdict \in {"none", "approve", "approve_with_comments", "block"}
    /\ \A i, j \in DOMAIN outcome.findings :
          outcome.findings[i].key = outcome.findings[j].key => i = j

Raised(key) == {answers[k][2][1] : k \in {j \in Reports : answers[j] # Failed
                                                            /\ answers[j][2][1].key = key}}

\* The verdict follows from which issues were raised how strongly and not from
\* the order the finders answer in: it blocks if none could be read, or if what
\* they know of some issue together makes it critical, or high with confidence,
\* and the verifier had no say in it or did not soften it.  So another report of
\* an issue never turns a block into an approval.  A security diff is seen by all
\* six finders, and no diff by fewer than its declared tier asks for.
VerdictIsTheRubric ==
    outcome # NoOutcome =>
      /\ reviewed.security => Cardinality(DOMAIN answers) = 6
      /\ TierRank(tier) >= TierRank(reviewed.declared)
      /\ outcome.verdict = "block" <=>
           \/ \A k \in DOMAIN answers : answers[k] = Failed
           \/ \E key \in {f.key : f \in Finding} :
                LET sure == \E f \in Raised(key) : f.sure
                    asked == tier # "trivial" /\ ~sure /\ outcome.verifier # NoVerifier
                IN \E f \in Raised(key) :
                     /\ f.severity = 4 \/ (f.severity = 3 /\ sure)
                     /\ asked => outcome.verifier[key] = [keep |-> TRUE, severity |-> 4]

=============================================================================
