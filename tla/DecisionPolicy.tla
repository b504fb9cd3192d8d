--------------------------- MODULE DecisionPolicy ---------------------------
(***************************************************************************)
(* What the triage service decides about a ticket, and by which rules:     *)
(* TriageService.triage and RiskScoringService.decide with the policy      *)
(* engine, the decision tree, the confidence matrix, the scorers and the   *)
(* routing they call.  Nothing but the threshold rows is carried over from *)
(* one ticket to the next, so the model follows one ticket.                *)
(*                                                                         *)
(* Two verdicts are reached about a ticket on different grounds: whether   *)
(* a person reviews it (ConfidencePolicy, thresholds in the code) and      *)
(* whether it is approved, reviewed or blocked (PolicyEngine and risk      *)
(* score, thresholds in the database, which operators change meanwhile).   *)
(*                                                                         *)
(* Confidences, scores and thresholds are in hundredths.  Of a text the    *)
(* model knows which keyword groups it matches; the groups are independent *)
(* of each other, as each has a keyword that matches no other group.       *)
(***************************************************************************)
EXTENDS Integers, Sequences

CONSTANTS
    Strict,        \* OperatingMode.STRICT_REVIEW
    TicketSignals, \* bound: Tier-0 signals that tickets carry
    Confidences,   \* bound: confidences the language model answers, in hundredths
    Levels,        \* bound: thresholds operators set
    MaxUpserts     \* bound: times they do

\* The Tier-0 rules in the order of PolicyEngine.evaluate_tier0.
Tier0Rules ==
    <<[signal |-> "sanctions_hit",      outcome |-> "BLOCK"],
      [signal |-> "impossible_travel",  outcome |-> "REVIEW"],
      [signal |-> "velocity_breach",    outcome |-> "REVIEW"],
      [signal |-> "auth_failure_burst", outcome |-> "REVIEW"],
      [signal |-> "device_compromised", outcome |-> "BLOCK"]>>

Signals == {Tier0Rules[i].signal : i \in DOMAIN Tier0Rules}

ASSUME PolicyConstants ==
    /\ Strict \in BOOLEAN
    /\ TicketSignals \subseteq Signals
    /\ Confidences \subseteq 0 .. 100
    /\ Levels \subseteq 0 .. 100
    /\ MaxUpserts \in Nat

\* NaN in an answer: json.loads and float() let it pass.
NaN == -1

Categories  == {"Billing", "Technical Support", "Account Access", "Bug Report",
                "General Query"}
Priorities  == {"Low", "Medium", "High", "Urgent"}
Escalations == {"Low", "Medium", "High"}
Tiers       == {"STANDARD", "PREMIUM", "VIP"}
Segments    == {"new_account", "tier:VIP", "tier:PREMIUM", "region:CROSS_BORDER",
                "default"}

\* FeatureVector, as far as a rule asks for it.  foreign: a region other than
\* DOMESTIC and UNKNOWN; hurried: has_urgency_keywords; short: a description of
\* fewer than 20 characters.
Features == [signals : SUBSET TicketSignals, newAccount : BOOLEAN, tier : Tiers,
             foreign : BOOLEAN, hurried : BOOLEAN, short : BOOLEAN]

\* The teams a leaf of the tree may name as the hint, and all teams there are.
TreeTeams == {"Billing Support", "Account Support", "Engineering L1",
              "Product & Success", "Customer Support"}
Teams     == TreeTeams \cup {"Escalations", "Technical Support"}

VARIABLES
    step,       \* the await triage() is at
    features,   \* of the ticket in hand
    prediction, \* what TriageResultRepository.create is given
    flagged,    \* requires_review
    decision,   \* the risk decision: its outcome and the policy rule behind it
    queued,     \* the reason in human_review_queue, "none" without a row
    rows,       \* threshold_config: the segments with a row, and their rows
    upserts

vars == <<step, features, prediction, flagged, decision, queued, rows, upserts>>

Rules == {"none", "R1", "R2", "R3", "R4"} \cup Signals

Prediction ==
    [by : {"rules", "model"}, category : Categories, priority : Priorities,
     escalation : Escalations, confidence : 0 .. 100, path : Seq(1 .. 6),
     team : Teams \cup {"none"}]

TypeOK ==
    /\ step \in {"next", "triage", "decide", "enqueue", "done"}
    /\ features \in Features
    /\ prediction \in Prediction
    /\ flagged \in BOOLEAN
    /\ decision \in [outcome : {"APPROVE", "REVIEW", "BLOCK"}, rule : Rules]
    /\ queued \in {"none", "LOW_CONFIDENCE", "ESCALATION_REVIEW"} \cup Signals
    /\ DOMAIN rows \subseteq Segments /\ "default" \in DOMAIN rows
    /\ \A s \in DOMAIN rows : rows[s].review <= rows[s].block
    /\ upserts \in 0 .. MaxUpserts

-----------------------------------------------------------------------------
\* evaluate_tier0: the first rule whose signal the ticket carries.
Tier0Hits(f) == {i \in DOMAIN Tier0Rules : Tier0Rules[i].signal \in f.signals}

Tier0(f) == Tier0Rules[CHOOSE i \in Tier0Hits(f) : \A j \in Tier0Hits(f) : i <= j]

\* Variant: the walk enters node 3 by itself.
WalkIntoDepth(nodes) ==
    IF 1 \in nodes THEN <<1>>
    ELSE IF 2 \in nodes THEN <<1, 3>>
    ELSE IF 4 \in nodes THEN <<1, 2, 4>>
    ELSE IF 5 \in nodes THEN <<1, 2, 4, 5>>
    ELSE <<1, 2, 4, 5, 6>>

\* evaluate_tree: the nodes visited by a text that matches the keywords of
\* the given nodes.  Those of 3 and 6 change the priority and the escalation
\* of the leaf, which triage() leaves to the other scorers, and not the path.
Walk(nodes) ==
    IF 1 \in nodes THEN <<1>>
    ELSE IF 2 \in nodes THEN <<1, 2, 3>>
    ELSE IF 4 \in nodes THEN <<1, 2, 4>>
    ELSE IF 5 \in nodes THEN <<1, 2, 4, 5>>
    ELSE <<1, 2, 4, 5, 6>>

\* The leaf a walk ends in.
LeafCategory(path) ==
    CASE path[Len(path)] = 1 -> "Account Access"
      [] path[Len(path)] = 3 -> "Billing"
      [] path[Len(path)] = 4 -> "Technical Support"
      [] OTHER -> "General Query"

LeafTeam(path) ==
    CASE path[Len(path)] = 1 -> "Account Support"
      [] path[Len(path)] = 3 -> "Billing Support"
      [] path[Len(path)] = 4 -> "Engineering L1"
      [] path[Len(path)] = 5 -> "Product & Success"
      [] OTHER -> "Customer Support"

\* validate_decision_path looks only at the first 3 in the path.
ValidPath(path) ==
    /\ path # <<>>
    /\ \A i \in DOMAIN path : path[i] \in 1 .. 6
    /\ \A i \in DOMAIN path :
         path[i] = 3 /\ (\A j \in 1 .. i - 1 : path[j] # 3) /\ i > 1 => path[i - 1] = 2

\* _path_confidence
PathConfidence(path) ==
    IF Len(path) < 5 THEN <<88, 82, 78, 72>>[Len(path)] ELSE 65

\* PriorityPredictor.predict
PriorityConfidence ==
    [Urgent |-> 90, High |-> 82, Medium |-> 74, Low |-> 68]

\* Variant: the scorer reads the text only.
EscalationByText(f, words) ==
    [risk |-> words, confidence |-> [High |-> 88, Medium |-> 76, Low |-> 78][words]]

\* EscalationScorer.score; words: the strongest term in the text.
Escalation(f, words) ==
    IF {"sanctions_hit", "device_compromised"} \cap f.signals # {}
    THEN [risk |-> "High", confidence |-> 100]
    ELSE IF f.signals # {} THEN [risk |-> "High", confidence |-> 95]
    ELSE [risk |-> words, confidence |-> [High |-> 88, Medium |-> 76, Low |-> 78][words]]

\* ConfidencePolicy.score: the hundredths nearest to the weighted sum.
Scores(category, priority, escalation) ==
    LET sum == 45 * category + 35 * priority + 20 * escalation
    IN  {s \in 0 .. 100 : 100 * s - 50 <= sum /\ sum <= 100 * s + 50}

\* RoutingEngine.route; hint is "none" without one, and counts if a leaf may name it.
Route(category, priority, escalation, hint) ==
    CASE escalation = "High" \/ priority = "Urgent" -> "Escalations"
      [] OTHER ->
         IF hint \in TreeTeams THEN hint
         ELSE CASE category = "Billing" -> "Billing Support"
                [] category = "Account Access" -> "Account Support"
                [] category \in {"Bug Report", "Technical Support"} -> "Technical Support"
                [] OTHER -> "Customer Support"

-----------------------------------------------------------------------------
\* The review matrix and the risk decision.

\* _thresholds_for and _derive_segment: the most specific segment.
Segment(f) ==
    CASE f.newAccount -> "new_account"
      [] ~f.newAccount /\ f.tier # "STANDARD" -> IF f.tier = "VIP" THEN "tier:VIP"
                                                ELSE "tier:PREMIUM"
      [] OTHER -> IF f.foreign THEN "region:CROSS_BORDER" ELSE "default"

\* _SEGMENT_DEFAULTS, of which ConfidencePolicy uses the review threshold only.
SegmentReview ==
    [s \in Segments |-> CASE s = "default" -> 50
                         [] s = "region:CROSS_BORDER" -> 45
                         [] s = "tier:PREMIUM" -> 40
                         [] OTHER -> 35]

\* Variant: the hard trigger wants both signs of trouble.
RequiresReviewOfBoth(p, f) ==
    \/ p.confidence < SegmentReview[Segment(f)]
    \/ p.priority = "Urgent" /\ p.escalation = "High"

\* ConfidencePolicy.requires_review
RequiresReview(p, f) ==
    \/ p.confidence < SegmentReview[Segment(f)]
    \/ p.priority = "Urgent" \/ p.escalation = "High"
    \/ /\ Strict
       /\ \/ f.signals # {}
          \/ /\ f.tier # "STANDARD" \/ f.foreign
             /\ p.priority = "High" \/ p.escalation = "Medium"
          \/ f.newAccount /\ p.priority # "Low"

\* Variant: a confident prediction raises the score.
RiskScoreOfConfidence(p, f) ==
    LET raw == p.confidence
               + [Low |-> 0, Medium |-> 5, High |-> 15, Urgent |-> 30][p.priority]
               + [Low |-> 0, Medium |-> 10, High |-> 25][p.escalation]
    IN  IF raw > 100 THEN 100 ELSE raw

\* _fuse_score
RiskScore(p, f) ==
    LET raw == 100 - p.confidence
               + [Low |-> 0, Medium |-> 5, High |-> 15, Urgent |-> 30][p.priority]
               + [Low |-> 0, Medium |-> 10, High |-> 25][p.escalation]
               + IF f.hurried THEN 10 ELSE 0
    IN  IF raw > 100 THEN 100 ELSE raw

\* score_to_decision
ScoreOutcome(score, row) ==
    CASE score >= row.block -> "BLOCK"
      [] score < row.block /\ score >= row.review -> "REVIEW"
      [] OTHER -> "APPROVE"

Verdict(outcome, rule) == [outcome |-> outcome, rule |-> rule]

\* get_for_segment: the row of the segment, or else the default row.
RowFor(f) == rows[IF Segment(f) \in DOMAIN rows THEN Segment(f) ELSE "default"]

\* The decision of RiskScoringService.decide: Tier-0 rules, then the rules of
\* PolicyEngine.evaluate in order, then the score.
RiskDecision(p, f, row) ==
    IF f.signals # {} THEN Verdict(Tier0(f).outcome, Tier0(f).signal)
    ELSE IF p.priority = "Urgent" /\ p.escalation = "High" THEN Verdict("BLOCK", "R1")
    ELSE IF p.category = "Billing" /\ f.hurried /\ f.tier = "PREMIUM"
         THEN Verdict("REVIEW", "R2")
    ELSE IF p.category = "Account Access" /\ p.priority = "Urgent"
         THEN Verdict("REVIEW", "R3")
    ELSE IF f.short /\ p.priority = "Low" THEN Verdict("APPROVE", "R4")
    ELSE Verdict(ScoreOutcome(RiskScore(p, f), row), "none")

-----------------------------------------------------------------------------
Blank == [by |-> "rules", category |-> "General Query", priority |-> "Low",
          escalation |-> "Low", confidence |-> 0, path |-> <<>>, team |-> "none"]

Init ==
    /\ step = "next"
    /\ features = [signals |-> {}, newAccount |-> FALSE, tier |-> "STANDARD",
                   foreign |-> FALSE, hurried |-> FALSE, short |-> FALSE]
    /\ prediction = Blank
    /\ flagged = FALSE
    /\ decision = Verdict("APPROVE", "none")
    /\ queued = "none"
    /\ rows = [s \in {"default"} |-> [block |-> 80, review |-> 50]]
    /\ upserts = 0

\* A ticket, with the features FeatureExtractor finds.
Receive(f) ==
    /\ step = "next"
    /\ step' = "triage"
    /\ features' = f
    /\ UNCHANGED <<prediction, flagged, decision, queued, rows, upserts>>

\* Steps 5 to 7 of triage(): routing, review matrix, the result.
Store(p) ==
    /\ prediction' = p
    /\ flagged' = RequiresReview(p, features)
    /\ step' = "decide"
    /\ UNCHANGED <<features, decision, queued, rows, upserts>>

\* Without a Tier-0 hit the model is asked.  An answer that passes
\* _parse_and_validate decides; NaN is clamped to a confidence of 1.0.
PredictByModel(category, priority, escalation, confidence) ==
    /\ step = "triage"
    /\ features.signals = {}
    /\ Store([by |-> "model", category |-> category, priority |-> priority,
              escalation |-> escalation,
              confidence |-> IF confidence = NaN THEN 100 ELSE confidence,
              path |-> <<>>,
              team |-> Route(category, priority, escalation, "none")])

\* Otherwise, or when the model gives no answer, the rules decide.
PredictByRules(nodes, priority, words) ==
    /\ step = "triage"
    /\ LET path == Walk(nodes)
           risk == Escalation(features, words)
       IN  \E c \in Scores(PathConfidence(path), PriorityConfidence[priority],
                           risk.confidence) :
             Store([by |-> "rules", category |-> LeafCategory(path),
                    priority |-> priority, escalation |-> risk.risk,
                    confidence |-> c, path |-> path,
                    team |-> Route(LeafCategory(path), priority, risk.risk,
                                   LeafTeam(path))])

Decide ==
    /\ step = "decide"
    /\ decision' = RiskDecision(prediction, features, RowFor(features))
    /\ step' = "enqueue"
    /\ UNCHANGED <<features, prediction, flagged, queued, rows, upserts>>

\* Step 9 of triage(), low_confidence_threshold being 0.70.
Enqueue ==
    /\ step = "enqueue"
    /\ queued' = CASE ~flagged -> "none"
                  [] flagged /\ features.signals # {} -> Tier0(features).signal
                  [] OTHER -> IF prediction.confidence < 70 THEN "LOW_CONFIDENCE"
                              ELSE "ESCALATION_REVIEW"
    /\ step' = "done"
    /\ UNCHANGED <<features, prediction, flagged, decision, rows, upserts>>

\* Variant: a table without threshold_order_check.
UpsertUnchecked(segment, block, review) ==
    /\ upserts < MaxUpserts
    /\ upserts' = upserts + 1
    /\ rows' = [s \in DOMAIN rows \cup {segment} |->
                  IF s = segment THEN [block |-> block, review |-> review] ELSE rows[s]]
    /\ UNCHANGED <<step, features, prediction, flagged, decision, queued>>

\* PUT /thresholds, at any time; threshold_order_check refuses other rows.
Upsert(segment, block, review) ==
    /\ upserts < MaxUpserts
    /\ review <= block
    /\ upserts' = upserts + 1
    /\ rows' = [s \in DOMAIN rows \cup {segment} |->
                  IF s = segment THEN [block |-> block, review |-> review] ELSE rows[s]]
    /\ UNCHANGED <<step, features, prediction, flagged, decision, queued>>

Next ==
    \/ \E f \in Features : Receive(f)
    \/ \E category \in Categories, priority \in Priorities, escalation \in Escalations,
          confidence \in Confidences \cup {NaN} :
         PredictByModel(category, priority, escalation, confidence)
    \/ \E nodes \in SUBSET {1, 2, 4, 5}, priority \in Priorities, words \in Escalations :
         PredictByRules(nodes, priority, words)
    \/ Decide
    \/ Enqueue
    \/ \E segment \in Segments, block, review \in Levels : Upsert(segment, block, review)

Spec == Init /\ [][Next]_vars

-----------------------------------------------------------------------------
\* Properties.

\* A Tier-0 signal reaches a person, whatever the text says and whatever
\* thresholds are set: no model is asked, the ticket is not approved, and it is
\* queued under the reason of the rule, in the hands of the Escalations team.
Tier0GoesToPeople ==
    step = "done" /\ features.signals # {} =>
        /\ prediction.by = "rules"
        /\ decision.outcome # "APPROVE"
        /\ queued = Tier0(features).signal
        /\ prediction.team = "Escalations"

\* A policy rule that reviews or blocks a ticket and the review matrix, which
\* never sees the rule, agree that a person looks at it.  R2 is the exception.
OverridesGoToPeople ==
    step = "done" /\ decision.rule \notin {"none", "R2", "R4"} => queued # "none"

Severity == [APPROVE |-> 0, REVIEW |-> 1, BLOCK |-> 2]

\* Doubt never reassures: had the same prediction come with less confidence, the
\* ticket would not be spared a review, nor get a milder decision.
DoubtNeverReassures ==
    step = "done" =>
        \A c \in Confidences : c <= prediction.confidence =>
            LET doubtful == [prediction EXCEPT !.confidence = c]
            IN  /\ flagged => RequiresReview(doubtful, features)
                /\ Severity[RiskDecision(prediction, features, RowFor(features)).outcome]
                     <= Severity[RiskDecision(doubtful, features, RowFor(features)).outcome]

\* The deterministic walk passes the check that model answers have to pass, and
\* the ticket goes to the team of the leaf it ends in, or to Escalations.
RulesFollowTheTree ==
    step \in {"decide", "enqueue", "done"} /\ prediction.by = "rules" =>
        /\ ValidPath(prediction.path)
        /\ prediction.team \in {LeafTeam(prediction.path), "Escalations"}
=============================================================================
