------------------------- MODULE DecisionPolicyProofs -------------------------
(***************************************************************************)
(* The verdicts about a ticket, for every ticket, every answer of the      *)
(* language model, every series of changes to the threshold rows and both  *)
(* operating modes.  The lemmas about the pure rules come first; the       *)
(* invariant says, per await, which of them the verdicts so far came from. *)
(***************************************************************************)
EXTENDS DecisionPolicy, TLAPS

-----------------------------------------------------------------------------
\* The rules.

\* A ticket with signals hits a Tier-0 rule, which reviews or blocks it.
LEMMA Tier0Type ==
    ASSUME NEW f \in Features, f.signals # {}
    PROVE  /\ Tier0(f).signal \in Signals
           /\ Tier0(f).outcome \in {"REVIEW", "BLOCK"}
<1>1. DOMAIN Tier0Rules = 1 .. 5
    BY DEF Tier0Rules
<1>2. \A i \in 1 .. 5 : Tier0Rules[i].outcome \in {"REVIEW", "BLOCK"}
    BY DEF Tier0Rules
<1>3. f.signals \subseteq Signals
    BY PolicyConstants DEF PolicyConstants, Features
<1>4. PICK s \in f.signals : TRUE
    OBVIOUS
<1>5. PICK k \in 1 .. 5 : k \in Tier0Hits(f)
    BY <1>1, <1>3, <1>4 DEF Signals, Tier0Hits
<1>6. Tier0Hits(f) \subseteq 1 .. 5
    BY <1>1 DEF Tier0Hits
<1> DEFINE First(i) == i \in Tier0Hits(f) /\ \A j \in Tier0Hits(f) : i <= j
<1>7. \E i \in 1 .. 5 : First(i)
  <2>1. CASE 1 \in Tier0Hits(f)
      BY <1>6, <2>1
  <2>2. CASE 1 \notin Tier0Hits(f) /\ 2 \in Tier0Hits(f)
      BY <1>6, <2>2
  <2>3. CASE {1, 2} \cap Tier0Hits(f) = {} /\ 3 \in Tier0Hits(f)
      BY <1>6, <2>3
  <2>4. CASE {1, 2, 3} \cap Tier0Hits(f) = {} /\ 4 \in Tier0Hits(f)
      BY <1>6, <2>4
  <2>5. CASE {1, 2, 3, 4} \cap Tier0Hits(f) = {}
      BY <1>5, <1>6, <2>5
  <2> QED
      BY <2>1, <2>2, <2>3, <2>4, <2>5
<1> DEFINE first == CHOOSE i \in Tier0Hits(f) : \A j \in Tier0Hits(f) : i <= j
<1>8. first \in Tier0Hits(f)
    BY <1>7
<1>9. Tier0(f) = Tier0Rules[first]
    BY DEF Tier0
<1> HIDE DEF first
<1> QED
    BY <1>1, <1>2, <1>6, <1>8, <1>9 DEF Signals

\* A ticket with signals escalates, whatever its text says.
LEMMA SignalsEscalate ==
    ASSUME NEW f \in Features, NEW words \in Escalations
    PROVE  /\ Escalation(f, words).risk \in Escalations
           /\ f.signals # {} => Escalation(f, words).risk = "High"
    BY DEF Escalation, Escalations

\* Every walk is a path the check accepts, and its leaf has a category and a team.
LEMMA WalkIsValid ==
    ASSUME NEW nodes
    PROVE  /\ Walk(nodes) \in Seq(1 .. 6) /\ ValidPath(Walk(nodes))
           /\ LeafCategory(Walk(nodes)) \in Categories
           /\ LeafTeam(Walk(nodes)) \in TreeTeams
<1>1. Walk(nodes) \in {<<1>>, <<1, 2, 3>>, <<1, 2, 4>>, <<1, 2, 4, 5>>, <<1, 2, 4, 5, 6>>}
    BY DEF Walk
<1>2. \A path \in {<<1>>, <<1, 2, 3>>, <<1, 2, 4>>, <<1, 2, 4, 5>>, <<1, 2, 4, 5, 6>>} :
        path \in Seq(1 .. 6) /\ ValidPath(path)
  <2>1. <<1>> \in Seq(1 .. 6) /\ ValidPath(<<1>>)
      BY DEF ValidPath
  <2>2. <<1, 2, 3>> \in Seq(1 .. 6) /\ ValidPath(<<1, 2, 3>>)
      BY DEF ValidPath
  <2>3. <<1, 2, 4>> \in Seq(1 .. 6) /\ ValidPath(<<1, 2, 4>>)
      BY DEF ValidPath
  <2>4. <<1, 2, 4, 5>> \in Seq(1 .. 6) /\ ValidPath(<<1, 2, 4, 5>>)
      BY DEF ValidPath
  <2>5. <<1, 2, 4, 5, 6>> \in Seq(1 .. 6) /\ ValidPath(<<1, 2, 4, 5, 6>>)
      BY DEF ValidPath
  <2> QED
      BY <2>1, <2>2, <2>3, <2>4, <2>5
<1>3. \A path : LeafCategory(path) \in Categories
    BY DEF LeafCategory, Categories
<1>4. \A path : LeafTeam(path) \in TreeTeams
    BY DEF LeafTeam, TreeTeams
<1> QED
    BY <1>1, <1>2, <1>3, <1>4

\* Routing follows the hint unless the ticket escalates.
LEMMA RouteType ==
    ASSUME NEW category, NEW priority, NEW escalation, NEW hint
    PROVE  /\ Route(category, priority, escalation, hint) \in Teams
           /\ escalation = "High" =>
                Route(category, priority, escalation, hint) = "Escalations"
           /\ hint \in TreeTeams =>
                Route(category, priority, escalation, hint) \in {hint, "Escalations"}
    BY DEF Route, Teams, TreeTeams

\* The risk decision by rule; only the last rule asks for score and thresholds.
LEMMA DecisionType ==
    ASSUME NEW p \in Prediction, NEW f \in Features, NEW row
    PROVE  LET d == RiskDecision(p, f, row)
           IN  /\ d \in [outcome : {"APPROVE", "REVIEW", "BLOCK"}, rule : Rules]
               /\ f.signals # {} => d.outcome # "APPROVE"
               /\ d.rule \notin {"none", "R2", "R4"} => f.signals # {} \/ p.priority = "Urgent"
<1>1. ScoreOutcome(RiskScore(p, f), row) \in {"APPROVE", "REVIEW", "BLOCK"}
    BY DEF ScoreOutcome
<1>2. CASE f.signals # {}
    BY <1>2, Tier0Type DEF RiskDecision, Verdict, Rules
<1>3. CASE f.signals = {}
    BY <1>1, <1>3 DEF RiskDecision, Verdict, Rules
<1> QED
    BY <1>2, <1>3

\* The segment of a ticket is one of the table's; its row is one the table holds.
LEMMA SegmentType ==
    ASSUME NEW f \in Features
    PROVE  Segment(f) \in Segments /\ SegmentReview[Segment(f)] \in Nat
<1>1. Segment(f) \in Segments
    BY DEF Segment, Segments
<1> QED
    BY <1>1 DEF SegmentReview, Segments

LEMMA ConfidenceType ==
    ASSUME NEW p \in Prediction
    PROVE  p.confidence \in Int /\ 0 <= p.confidence /\ p.confidence <= 100
<1>1. p.confidence \in 0 .. 100
    BY DEF Prediction
<1> QED
    BY <1>1

LEMMA ScoreType ==
    ASSUME NEW p \in Prediction, NEW f \in Features
    PROVE  RiskScore(p, f) \in Int
<1>1. p.priority \in {"Low", "Medium", "High", "Urgent"} /\ p.escalation \in {"Low", "Medium", "High"}
    BY DEF Prediction, Priorities, Escalations
<1>2. [Low |-> 0, Medium |-> 5, High |-> 15, Urgent |-> 30][p.priority] \in Int
    BY <1>1
<1>3. [Low |-> 0, Medium |-> 10, High |-> 25][p.escalation] \in Int
    BY <1>1
<1>4. p.confidence \in Int /\ (IF f.hurried THEN 10 ELSE 0) \in Int
    BY ConfidenceType
<1> QED
    BY <1>2, <1>3, <1>4 DEF RiskScore

\* The same prediction with less confidence.
Doubt(p, c) == [p EXCEPT !.confidence = c]

LEMMA DoubtType ==
    ASSUME NEW p \in Prediction, NEW c \in 0 .. 100
    PROVE  /\ Doubt(p, c) \in Prediction /\ Doubt(p, c).confidence = c
           /\ Doubt(p, c).priority = p.priority /\ Doubt(p, c).escalation = p.escalation
           /\ Doubt(p, c).category = p.category
    BY DEF Doubt, Prediction

\* Less confidence never takes a ticket out of the review matrix.
LEMMA DoubtIsReviewed ==
    ASSUME NEW p \in Prediction, NEW f \in Features, NEW c \in 0 .. 100, c <= p.confidence,
           RequiresReview(p, f)
    PROVE  RequiresReview(Doubt(p, c), f)
<1>1. p.confidence \in Int /\ c \in Int /\ SegmentReview[Segment(f)] \in Int
    BY SegmentType, ConfidenceType
<1>2. p.confidence < SegmentReview[Segment(f)] => c < SegmentReview[Segment(f)]
    BY <1>1
<1> QED
    BY <1>2, DoubtType DEF RequiresReview

\* Less confidence never lowers the risk score.
LEMMA DoubtRaisesScore ==
    ASSUME NEW p \in Prediction, NEW f \in Features, NEW c \in 0 .. 100, c <= p.confidence
    PROVE  RiskScore(p, f) <= RiskScore(Doubt(p, c), f)
<1> DEFINE rest == [Low |-> 0, Medium |-> 5, High |-> 15, Urgent |-> 30][p.priority]
                   + [Low |-> 0, Medium |-> 10, High |-> 25][p.escalation]
                   + IF f.hurried THEN 10 ELSE 0
<1>1. p.priority \in {"Low", "Medium", "High", "Urgent"} /\ p.escalation \in {"Low", "Medium", "High"}
    BY DEF Prediction, Priorities, Escalations
<1>2. [Low |-> 0, Medium |-> 5, High |-> 15, Urgent |-> 30][p.priority] \in Int
    BY <1>1
<1>3. [Low |-> 0, Medium |-> 10, High |-> 25][p.escalation] \in Int
    BY <1>1
<1>4. p.confidence \in Int /\ c \in Int
    BY ConfidenceType
<1>5. RiskScore(p, f) = IF 100 - p.confidence + rest > 100 THEN 100
                        ELSE 100 - p.confidence + rest
    BY <1>2, <1>3, <1>4 DEF RiskScore
<1>6. RiskScore(Doubt(p, c), f) = IF 100 - c + rest > 100 THEN 100 ELSE 100 - c + rest
  <2>1. /\ Doubt(p, c).confidence = c /\ Doubt(p, c).priority = p.priority
        /\ Doubt(p, c).escalation = p.escalation
      BY DoubtType
  <2> QED
      BY <1>2, <1>3, <1>4, <2>1 DEF RiskScore
<1>7. rest \in Int
    BY <1>2, <1>3
<1> HIDE DEF rest
<1> QED
    BY <1>4, <1>5, <1>6, <1>7

\* A higher score never gets a milder outcome from a row whose thresholds are in order.
LEMMA OutcomeIsMonotone ==
    ASSUME NEW a \in Int, NEW b \in Int, a <= b, NEW row,
           row.review \in Int, row.block \in Int, row.review <= row.block
    PROVE  Severity[ScoreOutcome(a, row)] <= Severity[ScoreOutcome(b, row)]
<1>1. CASE a >= row.block
    BY <1>1 DEF ScoreOutcome, Severity
<1>2. CASE a < row.block /\ a >= row.review
    BY <1>2 DEF ScoreOutcome, Severity
<1>3. CASE a < row.block /\ a < row.review
  <2>1. ScoreOutcome(a, row) = "APPROVE"
      BY <1>3 DEF ScoreOutcome
  <2>2. ScoreOutcome(b, row) \in {"APPROVE", "REVIEW", "BLOCK"}
      BY DEF ScoreOutcome
  <2> QED
      BY <2>1, <2>2 DEF Severity
<1> QED
    BY <1>1, <1>2, <1>3

LEMMA DoubtIsNotMilder ==
    ASSUME NEW p \in Prediction, NEW f \in Features, NEW c \in 0 .. 100, c <= p.confidence,
           NEW row, row.review \in Int, row.block \in Int, row.review <= row.block
    PROVE  Severity[RiskDecision(p, f, row).outcome]
             <= Severity[RiskDecision(Doubt(p, c), f, row).outcome]
<1> DEFINE d == Doubt(p, c)
           byScore == Verdict(ScoreOutcome(RiskScore(p, f), row), "none")
           dByScore == Verdict(ScoreOutcome(RiskScore(d, f), row), "none")
<1>1. \/ RiskDecision(p, f, row) = RiskDecision(d, f, row)
      \/ RiskDecision(p, f, row) = byScore /\ RiskDecision(d, f, row) = dByScore
    BY DoubtType DEF RiskDecision
<1>2. RiskScore(p, f) \in Int /\ RiskScore(d, f) \in Int /\ RiskScore(p, f) <= RiskScore(d, f)
    BY ScoreType, DoubtType, DoubtRaisesScore
<1>3. Severity[byScore.outcome] <= Severity[dByScore.outcome]
    BY <1>2, OutcomeIsMonotone DEF Verdict
<1>4. RiskDecision(d, f, row).outcome \in {"APPROVE", "REVIEW", "BLOCK"}
    BY DecisionType, DoubtType
<1>5. Severity[RiskDecision(d, f, row).outcome] \in Int
    BY <1>4 DEF Severity
<1> HIDE DEF d, byScore, dByScore
<1> QED
    BY <1>1, <1>3, <1>5 DEF d

-----------------------------------------------------------------------------
\* What the verdicts so far came from.

Predicted == step \in {"decide", "enqueue", "done"}
Decided   == step \in {"enqueue", "done"}

\* The rows of the table, numbers included.
RowsInv ==
    \A s \in DOMAIN rows :
        rows[s].review \in 0 .. 100 /\ rows[s].block \in 0 .. 100

PredictionInv ==
    Predicted =>
        /\ flagged = RequiresReview(prediction, features)
        /\ features.signals # {} => /\ prediction.by = "rules"
                                    /\ prediction.escalation = "High"
                                    /\ prediction.team = "Escalations"

DecisionInv ==
    Decided =>
        /\ features.signals # {} => decision.outcome # "APPROVE"
        /\ decision.rule \notin {"none", "R2", "R4"} =>
             features.signals # {} \/ prediction.priority = "Urgent"

QueueInv ==
    step = "done" /\ flagged =>
        /\ queued # "none"
        /\ features.signals # {} => queued = Tier0(features).signal

PolicyInv ==
    /\ TypeOK /\ RowsInv /\ PredictionInv /\ DecisionInv /\ QueueInv
    /\ RulesFollowTheTree

LEMMA InitPolicy == Init => PolicyInv
<1> SUFFICES ASSUME Init PROVE PolicyInv
    OBVIOUS
<1>1. prediction \in Prediction
  <2>1. <<>> \in Seq(1 .. 6) /\ 0 \in 0 .. 100
      OBVIOUS
  <2>2. "General Query" \in Categories /\ "Low" \in Priorities /\ "Low" \in Escalations
      BY DEF Categories, Priorities, Escalations
  <2> QED
      BY <2>1, <2>2 DEF Init, Blank, Prediction
<1>2. features \in Features
    BY DEF Init, Features, Tiers
<1>3. /\ DOMAIN rows = {"default"}
      /\ rows["default"].review = 50 /\ rows["default"].block = 80
    BY DEF Init
<1>4. decision \in [outcome : {"APPROVE", "REVIEW", "BLOCK"}, rule : Rules]
    BY DEF Init, Verdict, Rules
<1>5. step = "next" /\ flagged = FALSE /\ queued = "none"
    BY DEF Init
<1>7. upserts \in 0 .. MaxUpserts
    BY PolicyConstants DEF PolicyConstants, Init
<1>8. \A s \in DOMAIN rows : /\ rows[s].review <= rows[s].block
                             /\ rows[s].review \in 0 .. 100 /\ rows[s].block \in 0 .. 100
    BY <1>3
<1>6. DOMAIN rows \subseteq Segments /\ "default" \in DOMAIN rows
    BY <1>3 DEF Segments
<1> QED
    BY <1>1, <1>2, <1>4, <1>5, <1>6, <1>7, <1>8
       DEF PolicyInv, TypeOK, RowsInv, PredictionInv, DecisionInv, QueueInv,
           RulesFollowTheTree, Predicted, Decided

\* The two ways to a result, for the prediction each stores.
LEMMA PolicyOfStore ==
    ASSUME PolicyInv, step = "triage", NEW p \in Prediction, Store(p),
           features.signals # {} => /\ p.by = "rules" /\ p.escalation = "High"
                                    /\ p.team = "Escalations",
           p.by = "rules" => /\ ValidPath(p.path)
                             /\ p.team \in {LeafTeam(p.path), "Escalations"}
    PROVE  PolicyInv'
<1>1. RequiresReview(p, features) \in BOOLEAN
    BY DEF RequiresReview
<1> QED
    BY <1>1 DEF PolicyInv, Store, TypeOK, RowsInv, PredictionInv, DecisionInv, QueueInv,
                RulesFollowTheTree, Predicted, Decided

LEMMA PolicyOfModel ==
    ASSUME PolicyInv, NEW category \in Categories, NEW priority \in Priorities,
           NEW escalation \in Escalations, NEW confidence \in Confidences \cup {NaN},
           PredictByModel(category, priority, escalation, confidence)
    PROVE  PolicyInv'
<1> DEFINE c == IF confidence = NaN THEN 100 ELSE confidence
           p == [by |-> "model", category |-> category, priority |-> priority,
                 escalation |-> escalation, confidence |-> c, path |-> <<>>,
                 team |-> Route(category, priority, escalation, "none")]
<1>1. c \in 0 .. 100
    BY PolicyConstants DEF PolicyConstants
<1>2. Route(category, priority, escalation, "none") \in Teams /\ <<>> \in Seq(1 .. 6)
    BY RouteType
<1> HIDE DEF c
<1>3. p \in Prediction
    BY <1>1, <1>2 DEF Prediction
<1>4. Store(p) /\ step = "triage" /\ features.signals = {} /\ p.by = "model"
    BY DEF PredictByModel, c
<1> HIDE DEF p
<1> QED
    BY <1>3, <1>4, PolicyOfStore

LEMMA PolicyOfRules ==
    ASSUME PolicyInv, NEW nodes \in SUBSET {1, 2, 4, 5}, NEW priority \in Priorities,
           NEW words \in Escalations, PredictByRules(nodes, priority, words)
    PROVE  PolicyInv'
<1> DEFINE path == Walk(nodes)
           risk == Escalation(features, words)
           team == Route(LeafCategory(path), priority, risk.risk, LeafTeam(path))
           p(c) == [by |-> "rules", category |-> LeafCategory(path),
                    priority |-> priority, escalation |-> risk.risk,
                    confidence |-> c, path |-> path, team |-> team]
<1>1. PICK c \in Scores(PathConfidence(path), PriorityConfidence[priority],
                        risk.confidence) : Store(p(c))
    BY DEF PredictByRules
<1>2. c \in 0 .. 100
    BY DEF Scores
<1>3. /\ path \in Seq(1 .. 6) /\ ValidPath(path) /\ LeafCategory(path) \in Categories
      /\ LeafTeam(path) \in TreeTeams
    BY WalkIsValid
<1>4. features \in Features
    BY DEF PolicyInv, TypeOK
<1>5. risk.risk \in Escalations /\ (features.signals # {} => risk.risk = "High")
    BY <1>4, SignalsEscalate
<1>6. /\ team \in Teams /\ team \in {LeafTeam(path), "Escalations"}
      /\ features.signals # {} => team = "Escalations"
    BY <1>3, <1>5, RouteType
<1>7. step = "triage"
    BY DEF PredictByRules
<1> HIDE DEF path, risk, team
<1>8. p(c) \in Prediction
    BY <1>2, <1>3, <1>5, <1>6 DEF Prediction
<1>9. /\ p(c).by = "rules" /\ p(c).escalation = risk.risk /\ p(c).team = team
      /\ p(c).path = path
    OBVIOUS
<1> HIDE DEF p
<1> QED
    BY <1>1, <1>3, <1>5, <1>6, <1>7, <1>8, <1>9, PolicyOfStore

LEMMA PolicyStep == PolicyInv /\ [Next]_vars => PolicyInv'
<1> SUFFICES ASSUME PolicyInv, [Next]_vars PROVE PolicyInv'
    OBVIOUS
<1> USE DEF PolicyInv
<1>1. ASSUME NEW f \in Features, Receive(f) PROVE PolicyInv'
    BY <1>1 DEF Receive, TypeOK, RowsInv, PredictionInv, DecisionInv, QueueInv,
                RulesFollowTheTree, Predicted, Decided
<1>2. CASE Decide
  <2>1. /\ decision' \in [outcome : {"APPROVE", "REVIEW", "BLOCK"}, rule : Rules]
        /\ features.signals # {} => decision'.outcome # "APPROVE"
        /\ decision'.rule \notin {"none", "R2", "R4"} =>
             features.signals # {} \/ prediction.priority = "Urgent"
      BY <1>2, DecisionType DEF Decide, TypeOK
  <2> QED
      BY <1>2, <2>1 DEF Decide, TypeOK, RowsInv, PredictionInv, DecisionInv, QueueInv,
                        RulesFollowTheTree, Predicted, Decided
<1>3. CASE Enqueue
  <2>1. features.signals # {} => Tier0(features).signal \in Signals
      BY Tier0Type DEF TypeOK
  <2>2. "none" \notin Signals
      BY DEF Signals, Tier0Rules
  <2>3. /\ queued' \in {"none", "LOW_CONFIDENCE", "ESCALATION_REVIEW"} \cup Signals
        /\ flagged => queued' # "none"
        /\ flagged /\ features.signals # {} => queued' = Tier0(features).signal
      BY <1>3, <2>1, <2>2 DEF Enqueue
  <2> QED
      BY <1>3, <2>3 DEF Enqueue, TypeOK, RowsInv, PredictionInv, DecisionInv, QueueInv,
                        RulesFollowTheTree, Predicted, Decided
<1>4. ASSUME NEW segment \in Segments, NEW block \in Levels, NEW review \in Levels,
             Upsert(segment, block, review)
      PROVE  PolicyInv'
  <2>1. review \in 0 .. 100 /\ block \in 0 .. 100
      BY PolicyConstants DEF PolicyConstants
  <2>2. upserts' \in 0 .. MaxUpserts
      BY <1>4, PolicyConstants DEF PolicyConstants, Upsert, TypeOK
  <2>3. /\ DOMAIN rows' = DOMAIN rows \cup {segment}
        /\ \A s \in DOMAIN rows' :
             \/ rows'[s] = [block |-> block, review |-> review]
             \/ s \in DOMAIN rows /\ rows'[s] = rows[s]
      BY <1>4 DEF Upsert
  <2>4. \A s \in DOMAIN rows' : /\ rows'[s].review <= rows'[s].block
                                /\ rows'[s].review \in 0 .. 100
                                /\ rows'[s].block \in 0 .. 100
      BY <1>4, <2>1, <2>3 DEF Upsert, TypeOK, RowsInv
  <2>5. DOMAIN rows' \subseteq Segments /\ "default" \in DOMAIN rows'
      BY <2>3 DEF TypeOK
  <2>6. TypeOK' /\ RowsInv'
      BY <1>4, <2>2, <2>4, <2>5 DEF Upsert, TypeOK, RowsInv
  <2> QED
      BY <1>4, <2>6 DEF Upsert, PredictionInv, DecisionInv, QueueInv, RulesFollowTheTree,
                        Predicted, Decided
<1>5. CASE UNCHANGED vars
    BY <1>5 DEF vars, TypeOK, RowsInv, PredictionInv, DecisionInv, QueueInv,
                RulesFollowTheTree, Predicted, Decided
<1> QED
    BY <1>1, <1>2, <1>3, <1>4, <1>5, PolicyOfModel, PolicyOfRules DEF Next

LEMMA Policies == Spec => []PolicyInv
    BY InitPolicy, PolicyStep, PTL DEF Spec

\* Features, predictions, verdicts and threshold rows keep their types; a row's
\* thresholds stay in order.
THEOREM TypeCorrect == Spec => []TypeOK
<1>1. PolicyInv => TypeOK
    BY DEF PolicyInv
<1> QED
    BY <1>1, Policies, PTL

\* A Tier-0 signal reaches a person of the Escalations team under its own reason,
\* and is never approved: whatever the text, the model and the thresholds say.
THEOREM Tier0ReachesPeople == Spec => []Tier0GoesToPeople
<1>1. PolicyInv => Tier0GoesToPeople
    BY DEF PolicyInv, Tier0GoesToPeople, PredictionInv, DecisionInv, QueueInv, Predicted,
           Decided, RequiresReview
<1> QED
    BY <1>1, Policies, PTL

\* A rule other than R2 that reviews or blocks a ticket and the review matrix, which
\* never sees the rule, agree that a person looks at it.
THEOREM OverridesReachPeople == Spec => []OverridesGoToPeople
<1>1. PolicyInv => OverridesGoToPeople
    BY DEF PolicyInv, OverridesGoToPeople, PredictionInv, DecisionInv, QueueInv, Predicted,
           Decided, RequiresReview
<1> QED
    BY <1>1, Policies, PTL

\* The deterministic walk is a path that model answers would be let through with, and
\* its ticket goes to the team of the leaf, or to Escalations.
THEOREM RulesStayInTheTree == Spec => []RulesFollowTheTree
<1>1. PolicyInv => RulesFollowTheTree
    BY DEF PolicyInv
<1> QED
    BY <1>1, Policies, PTL

\* The same prediction with less confidence is neither spared a review nor decided
\* more mildly, under any threshold rows operators can set.
THEOREM DoubtIsSafe == Spec => []DoubtNeverReassures
<1>1. PolicyInv => DoubtNeverReassures
  <2> SUFFICES ASSUME PolicyInv, step = "done",
                      NEW c \in Confidences, c <= prediction.confidence
               PROVE  LET doubtful == [prediction EXCEPT !.confidence = c]
                          row == RowFor(features)
                      IN  /\ flagged => RequiresReview(doubtful, features)
                          /\ Severity[RiskDecision(prediction, features, row).outcome]
                               <= Severity[RiskDecision(doubtful, features, row).outcome]
      BY DEF DoubtNeverReassures
  <2>1. c \in 0 .. 100
      BY PolicyConstants DEF PolicyConstants
  <2>2. prediction \in Prediction /\ features \in Features
      BY DEF PolicyInv, TypeOK
  <2>3. flagged = RequiresReview(prediction, features)
      BY DEF PolicyInv, PredictionInv, Predicted
  <2>4. PICK s \in DOMAIN rows : RowFor(features) = rows[s]
      BY <2>2 DEF RowFor, PolicyInv, TypeOK
  <2>5. /\ RowFor(features).review \in Int /\ RowFor(features).block \in Int
        /\ RowFor(features).review <= RowFor(features).block
      BY <2>4 DEF PolicyInv, TypeOK, RowsInv
  <2> QED
      BY <2>1, <2>2, <2>3, <2>5, DoubtIsReviewed, DoubtIsNotMilder DEF Doubt
<1> QED
    BY <1>1, Policies, PTL
=============================================================================
