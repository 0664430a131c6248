---------------------------- MODULE RCAEngineProofs ----------------------------
(***************************************************************************)
(* Proofs about RCAEngine, for every bundle, every answer of the language  *)
(* model and every configured number of repairs.  The invariant ties the   *)
(* three counters of the loop together, and says of a report that it is    *)
(* what _report_from_qwen_payload makes of an acceptable answer.           *)
(***************************************************************************)
EXTENDS RCAEngine, TLAPS

\* The loop: the index is the number of repairs, and one request is sent for
\* every index.
Counted ==
    /\ repairs = attempt
    /\ attempt <= RepairLimit
    /\ pc = "ask" => posts = attempt
    /\ pc \notin {"ask", "refused"} => posts = attempt + 1
    /\ pc = "refused" => posts = 0

Checked ==
    Reported => /\ report \in Report
                /\ \A c \in Conclusions : /\ report.refs[c] # {}
                                          /\ report.refs[c] \subseteq Known
                /\ RespectsQuality(report)

\* A bundle without graph context names it as missing.
MissingNamed == bundle.graph \/ bundle.missing

Recorded ==
    metadata # NoMetadata =>
        /\ pc \notin {"ask", "check", "refused"}
        /\ metadata.attempts = attempt + 1
        /\ metadata.repairs = attempt
        /\ metadata.error <=> (attempt > 0 \/ pc = "failed")

Unsaved == pc # "saved" => incident = {}

IInv ==
    /\ Unsaved
    /\ TypeOK
    /\ MissingNamed
    /\ Counted
    /\ Checked
    /\ Recorded
    /\ EvidenceClosed

-----------------------------------------------------------------------------
(* The helpers.                                                             *)

\* The limit is between zero and three, whatever is configured.
LEMMA LimitBounded == RepairLimit \in 0..MaxRepairAttempts
  BY EngineAssumption DEF RepairLimit, MaxRepairAttempts

\* Whatever a conclusion names, the references it is given are the bundle's.
LEMMA RefsKnown ==
    ASSUME NEW i \in Item
    PROVE  Refs(i) \subseteq Known
  BY DEF Refs

\* An acceptable answer makes a well formed report, backed by the bundle.
LEMMA AcceptableReport ==
    ASSUME bundle \in Bundle, NEW r, Acceptable(r)
    PROVE  /\ ReportOf(r) \in Report
           /\ \A c \in Conclusions : /\ ReportOf(r).refs[c] # {}
                                     /\ ReportOf(r).refs[c] \subseteq Known
           /\ RespectsQuality(ReportOf(r))
<1>1. r \in Payload
  BY DEF Acceptable
<1>2. \A c \in Conclusions : r.items[c] \in Item
  BY <1>1 DEF Payload
<1>3. Known \subseteq Evidence
  BY DEF Known, Bundle
<1>4. \A c \in Conclusions : Refs(r.items[c]) \subseteq Known /\ Refs(r.items[c]) # {}
  BY <1>2, RefsKnown DEF Acceptable
<1>5. [c \in Conclusions |-> Refs(r.items[c])] \in [Conclusions -> SUBSET Evidence]
  BY <1>3, <1>4
<1>6. Capped(r.conf) \in 0..100 /\ r.rootConf \in 0..100
  BY <1>1, EngineAssumption DEF Payload, Capped
<1>7. r.open \in BOOLEAN /\ r.blames \in BOOLEAN
  BY <1>1 DEF Payload
<1>8. ReportOf(r) \in Report
  BY <1>5, <1>6, <1>7 DEF ReportOf, Report
<1>9. \A c \in Conclusions : ReportOf(r).refs[c] = Refs(r.items[c])
  BY DEF ReportOf
<1>. QED
  BY <1>4, <1>8, <1>9 DEF Acceptable

LEMMA InitIInv == Init => IInv
  BY LimitBounded
  DEF Init, IInv, Unsaved, TypeOK, MissingNamed, Counted, Checked, Recorded, EvidenceClosed, Reported, Bundle,
      MaxRepairAttempts, PostsCounted, NoMetadata, NoReply, NoReport

LEMMA StepIInv ==
    ASSUME IInv, [Next]_vars
    PROVE  IInv'
<1>. USE LimitBounded DEF IInv, TypeOK, MissingNamed, Counted, Unsaved, MaxRepairAttempts, PostsCounted
<1>0. bundle' = bundle
  BY DEF vars, Next, Generate, Refuse, Post, PostFails, Accept, Repair, GiveUp, ReviewRCA,
         SaveIncident
<1>1. CASE Refuse
  BY <1>1 DEF Refuse, Checked, Recorded, EvidenceClosed, Reported, Known
<1>2. CASE Post
  <2>1. TypeOK' /\ Counted' /\ Unsaved'
    BY <1>2 DEF Post, CountPost, RepairLimit
  <2>2. Checked' /\ Recorded' /\ EvidenceClosed'
    BY <1>2 DEF Post, CountPost, Checked, Recorded, EvidenceClosed, Reported
  <2>. QED BY <1>0, <2>1, <2>2
<1>3. CASE PostFails
  <2>1. TypeOK' /\ Counted' /\ Unsaved'
    BY <1>3 DEF PostFails, CountPost, RepairLimit
  <2>2. Checked' /\ Recorded' /\ EvidenceClosed'
    BY <1>3 DEF PostFails, CountPost, Checked, Recorded, EvidenceClosed, Reported
  <2>. QED BY <1>0, <2>1, <2>2
<1>4. CASE Accept
  <2>1. /\ report' \in Report
        /\ \A c \in Conclusions : report'.refs[c] # {} /\ report'.refs[c] \subseteq Known
        /\ RespectsQuality(report')
    BY <1>4, AcceptableReport DEF Accept
  <2>2. /\ metadata' = [attempts |-> attempt + 1, repairs |-> repairs, error |-> repairs > 0]
        /\ pc' = "reported"
        /\ reply' = NoReply
        /\ UNCHANGED <<bundle, attempt, repairs, posts, incident>>
    BY <1>4 DEF Accept, RecordMetadata
  <2>3. metadata' \in [attempts : Nat, repairs : Nat, error : BOOLEAN]
    BY <2>2
  <2>4. TypeOK'
    BY <2>1, <2>2, <2>3
  <2>5. Counted' /\ Unsaved'
    BY <1>4, <2>2 DEF Accept, RepairLimit
  <2>6. Checked'
    BY <2>1, <2>2 DEF Checked, Known, RespectsQuality, Constrained
  <2>7. Recorded'
    BY <2>2 DEF Recorded
  <2>8. EvidenceClosed'
    BY <2>1, <2>2 DEF EvidenceClosed, Known
  <2>. QED BY <1>0, <2>4, <2>5, <2>6, <2>7, <2>8
<1>5. CASE Repair
  <2>1. TypeOK' /\ Counted' /\ Unsaved'
    BY <1>5, EngineAssumption DEF Repair, RepairLimit
  <2>2. Checked' /\ Recorded' /\ EvidenceClosed'
    BY <1>5 DEF Repair, Checked, Recorded, EvidenceClosed, Reported
  <2>. QED BY <1>0, <2>1, <2>2
<1>6. CASE GiveUp
  <2>1. /\ metadata' = [attempts |-> attempt + 1, repairs |-> repairs, error |-> TRUE]
        /\ pc' = "failed"
        /\ reply' = NoReply
        /\ UNCHANGED <<bundle, attempt, repairs, posts, report, incident>>
    BY <1>6 DEF GiveUp, RecordMetadata
  <2>2. metadata' \in [attempts : Nat, repairs : Nat, error : BOOLEAN]
    BY <2>1
  <2>3. TypeOK' /\ Counted' /\ Unsaved'
    BY <1>6, <2>1, <2>2 DEF GiveUp, RepairLimit
  <2>4. Checked' /\ Recorded' /\ EvidenceClosed'
    BY <2>1 DEF Checked, Recorded, EvidenceClosed, Reported
  <2>. QED BY <1>0, <2>3, <2>4
<1>7. CASE ReviewRCA
  BY <1>7
  DEF ReviewRCA, Checked, Recorded, EvidenceClosed, Reported, Known, RespectsQuality,
      Constrained, RepairLimit
<1>8. CASE SaveIncident
  <2>1. /\ incident' = UNION {report.refs[c] : c \in Conclusions \ Hypotheses}
        /\ pc = "reviewed" /\ pc' = "saved"
        /\ UNCHANGED <<bundle, attempt, repairs, posts, reply, report, metadata>>
    BY <1>8 DEF SaveIncident, ApprovedEvidence
  <2>2. Root \in Conclusions \ Hypotheses
    BY EngineAssumption
  <2>3. \A c \in Conclusions : report.refs[c] \subseteq Known
    BY <2>1 DEF Checked, Reported
  <2>4. report.refs[Root] \subseteq incident' /\ incident' \subseteq Known
    BY <2>1, <2>2, <2>3
  <2>5. Known \subseteq Evidence
    BY DEF Known, Bundle
  <2>6. TypeOK'
    BY <2>1, <2>4, <2>5
  <2>7. Counted' /\ Unsaved' /\ Recorded'
    BY <2>1 DEF Recorded, RepairLimit
  <2>8. Checked' /\ EvidenceClosed'
    BY <2>1, <2>4 DEF Checked, EvidenceClosed, Reported, Known, RespectsQuality, Constrained
  <2>. QED BY <1>0, <2>6, <2>7, <2>8
<1>9. CASE UNCHANGED vars
  BY <1>9
  DEF vars, Checked, Recorded, EvidenceClosed, Reported, Known, RespectsQuality,
      Constrained, RepairLimit
<1>. QED
  BY <1>1, <1>2, <1>3, <1>4, <1>5, <1>6, <1>7, <1>8, <1>9 DEF Next, Generate

\* The loop and the report keep their shape in every reachable state.
THEOREM Invariance == Spec => []IInv
  BY InitIInv, StepIInv, PTL DEF Spec

\* Counters, answer, report and metadata keep their types; a report is one the
\* contract admits, whatever the language model sent.
THEOREM TypeCorrect == Spec => []TypeOK
<1>1. IInv => TypeOK
  BY DEF IInv
<1>. QED BY <1>1, Invariance, PTL

\* No report and no saved incident cites evidence from outside the bundle.
THEOREM ReportsAreBacked == Spec => []EvidenceClosed
<1>1. IInv => EvidenceClosed
  BY DEF IInv
<1>. QED BY <1>1, Invariance, PTL

\* However an answer came about, and after however many repairs, thin evidence
\* makes a hedged report.
THEOREM ThinEvidenceHedged == Spec => []ThinEvidenceIsHedged
<1>1. IInv => ThinEvidenceIsHedged
  <2>1. SUFFICES ASSUME IInv, Reported,
                        bundle.missing \/ Cardinality(Known) < LowRecallMinRefs
                 PROVE  Constrained
    BY DEF IInv, Checked, ThinEvidenceIsHedged, Hedged, RespectsQuality
  <2>. QED BY <2>1 DEF Constrained, IInv, MissingNamed
<1>. QED BY <1>1, Invariance, PTL

\* The repairs are bounded for every configured number.
THEOREM RequestsAreBounded == Spec => []RequestsBounded
<1>1. IInv => RequestsBounded
  BY LimitBounded DEF IInv, TypeOK, Counted, RequestsBounded, MaxRepairAttempts
<1>. QED BY <1>1, Invariance, PTL

\* Recorded metadata counts the requests that were sent.
THEOREM MetadataIsTruthful == Spec => []MetadataTruthful
<1>1. IInv => MetadataTruthful
  BY DEF IInv, TypeOK, Counted, Recorded, MetadataTruthful, MaxRepairAttempts
<1>. QED BY <1>1, Invariance, PTL

\* The requests and checks that a loop has left at most.
StepsLeft ==
    IF pc = "ask" THEN 2 * (RepairLimit - attempt) + 2
    ELSE IF pc = "check" THEN 2 * (RepairLimit - attempt) + 1
    ELSE 0

\* Every step of generate_rca brings it closer to its end, a repair too: what
\* remains is a number, and it gets smaller.
LoopAdvances == [][Generate => StepsLeft' \in 0..StepsLeft - 1]_vars

\* One step of the loop.
LEMMA LoopStep ==
    ASSUME IInv, Generate
    PROVE  StepsLeft' \in 0..StepsLeft - 1
<1>. USE LimitBounded DEF IInv, TypeOK, Counted, MaxRepairAttempts
<1>1. attempt \in Nat /\ RepairLimit \in Nat /\ attempt <= RepairLimit
  OBVIOUS
<1>2. RepairLimit' = RepairLimit
  BY DEF RepairLimit
<1>3. CASE pc = "ask" /\ attempt' = attempt /\ pc' # "ask"
  BY <1>1, <1>2, <1>3 DEF StepsLeft
<1>4. CASE pc = "check" /\ pc' \notin {"ask", "check"}
  BY <1>1, <1>2, <1>4 DEF StepsLeft
<1>5. CASE Repair
  <2>1. pc = "check" /\ pc' = "ask" /\ attempt' = attempt + 1 /\ attempt < RepairLimit
    BY <1>5 DEF Repair
  <2>. QED BY <1>1, <1>2, <2>1 DEF StepsLeft
<1>6. CASE Refuse \/ (Post \/ PostFails)
  BY <1>3, <1>6 DEF Refuse, Post, PostFails
<1>7. CASE Accept \/ GiveUp
  BY <1>4, <1>7 DEF Accept, GiveUp
<1>. QED BY <1>5, <1>6, <1>7 DEF Generate

\* The loop has a variant, whatever number of repairs is configured.
THEOREM LoopComesToItsEnd == Spec => LoopAdvances
<1>1. IInv /\ [Next]_vars => [Generate => StepsLeft' \in 0..StepsLeft - 1]_vars
  BY LoopStep
<1>. QED BY <1>1, Invariance, PTL DEF Spec, LoopAdvances

\* At most n steps are left, if any.
AtMost(n) == InHand => StepsLeft \in 0..n

\* There are eight at first.
LEMMA EightSteps == IInv => AtMost(8)
  BY LimitBounded DEF IInv, TypeOK, Counted, MaxRepairAttempts, AtMost, InHand, StepsLeft

\* None comes back, and each that is taken is one less.
LEMMA FewerSteps ==
    ASSUME NEW n \in 1..8, IInv, AtMost(n), [Next]_vars
    PROVE  AtMost(n)' /\ (Generate => AtMost(n - 1)')
<1>1. CASE Generate
  <2>1. StepsLeft' \in 0..StepsLeft - 1
    BY <1>1, LoopStep
  <2>2. InHand
    BY <1>1 DEF Generate, Refuse, Post, PostFails, Accept, Repair, GiveUp, InHand
  <2>3. StepsLeft \in 0..n
    BY <2>2 DEF AtMost
  <2>. QED BY <2>1, <2>3 DEF AtMost
<1>2. CASE ReviewRCA \/ SaveIncident
  <2>1. ~ InHand' /\ ~ Generate
    BY <1>2 DEF ReviewRCA, SaveIncident, InHand, Generate, Refuse, Post, PostFails, Accept, Repair, GiveUp
  <2>. QED BY <2>1 DEF AtMost
<1>3. CASE UNCHANGED vars /\ ~ Generate
  BY <1>3 DEF vars, AtMost, InHand, StepsLeft, RepairLimit
<1>. QED BY <1>1, <1>2, <1>3 DEF Next

\* The conditions under which generate_rca has a step to take: those of Refuse,
\* of Post and PostFails, and of Accept, Repair and GiveUp.  What these steps then
\* assign is given outright, or any of the answers there are.
MayGenerate ==
    \/ pc = "ask" /\ (posts = 0 \/ Known # {})
    \/ pc = "check" /\ (Acceptable(reply) \/ attempt < RepairLimit \/ attempt >= RepairLimit)

\* What was once asked about has evidence: the loop need not look again.
AskedWithEvidence == posts > 0 => Known # {}

\* The conditions of generate_rca leave out no state it can be in: a loop that has
\* sent a request holds evidence to send the next with, and there is no answer
\* that is neither accepted nor repaired nor given up on.
THEOREM GuardsCoverTheLoop == Spec => [](InHand => MayGenerate)
<1>. USE DEF AskedWithEvidence
<1>1. Init => AskedWithEvidence
  BY DEF Init
<1>2. IInv /\ AskedWithEvidence /\ [Next]_vars => AskedWithEvidence'
  <2>. SUFFICES ASSUME IInv, AskedWithEvidence, [Next]_vars PROVE AskedWithEvidence'
    OBVIOUS
  <2>1. Known' = Known
    BY DEF Known, vars, Next, Generate, Refuse, Post, PostFails, Accept, Repair, GiveUp,
           ReviewRCA, SaveIncident
  <2>2. CASE Post \/ PostFails
    BY <2>1, <2>2 DEF Post, PostFails
  <2>3. CASE UNCHANGED vars \/ (Refuse \/ Accept \/ Repair \/ GiveUp) \/ (ReviewRCA \/ SaveIncident)
    <3>1. posts' = posts
      BY <2>3 DEF vars, Refuse, Accept, Repair, GiveUp, ReviewRCA, SaveIncident
    <3>. QED BY <2>1, <3>1
  <2>. QED BY <2>2, <2>3 DEF Next, Generate
<1>3. IInv /\ AskedWithEvidence => (InHand => MayGenerate)
  BY LimitBounded DEF IInv, TypeOK, InHand, MayGenerate, MaxRepairAttempts, PostsCounted
<1>. QED BY <1>1, <1>2, <1>3, Invariance, PTL DEF Spec

\* generate_rca answers, whatever the language model does: the fairness of the
\* loop keeps it going as long as it can go on, and at most eight steps are left.
\* That it can go on follows from its conditions; that a step whose conditions
\* hold can be taken is the premise, as ENABLED is beyond the prover: it can be
\* read off the actions, and the run of NeverStuck checks it.
THEOREM RequestsAreAnswered ==
    Spec /\ [](MayGenerate => ENABLED <<Generate>>_vars) => Answered
<1>1. IInv => AtMost(8)
  BY EightSteps
<1>2. AtMost(0) /\ IInv => ~ InHand
  BY LimitBounded DEF AtMost, IInv, TypeOK, Counted, MaxRepairAttempts, InHand, StepsLeft
<1>3. IInv /\ [Next]_vars =>
          /\ (AtMost(8) => AtMost(8)') /\ (AtMost(7) => AtMost(7)') /\ (AtMost(6) => AtMost(6)')
          /\ (AtMost(5) => AtMost(5)') /\ (AtMost(4) => AtMost(4)') /\ (AtMost(3) => AtMost(3)')
          /\ (AtMost(2) => AtMost(2)') /\ (AtMost(1) => AtMost(1)')
  <2>1. ASSUME IInv, [Next]_vars PROVE \A n \in 1..8 : AtMost(n) => AtMost(n)'
    BY <2>1, FewerSteps
  <2>. QED BY <2>1
<1>4. IInv /\ <<Generate>>_vars =>
          /\ (AtMost(8) => AtMost(7)') /\ (AtMost(7) => AtMost(6)') /\ (AtMost(6) => AtMost(5)')
          /\ (AtMost(5) => AtMost(4)') /\ (AtMost(4) => AtMost(3)') /\ (AtMost(3) => AtMost(2)')
          /\ (AtMost(2) => AtMost(1)') /\ (AtMost(1) => AtMost(0)')
  <2>1. ASSUME IInv, Generate PROVE \A n \in 1..8 : AtMost(n) => AtMost(n - 1)'
    BY <2>1, FewerSteps DEF Next
  <2>2. /\ 8 - 1 = 7 /\ 7 - 1 = 6 /\ 6 - 1 = 5 /\ 5 - 1 = 4
        /\ 4 - 1 = 3 /\ 3 - 1 = 2 /\ 2 - 1 = 1 /\ 1 - 1 = 0
    OBVIOUS
  <2>. QED BY <2>1, <2>2
<1>5. ~ InHand => AtMost(0)
  BY DEF AtMost
<1>. QED BY <1>1, <1>2, <1>3, <1>4, <1>5, Invariance, GuardsCoverTheLoop, PTL DEF Spec, Answered

-----------------------------------------------------------------------------
(* The engine as an investigation.                                          *)

\* The report of a step that concludes is one the investigation admits.
LEMMA StepVerdict ==
    ASSUME IInv, [Next]_vars
    PROVE  [Verdict!Next]_(Verdict!investigationVars)
<1>. USE DEF IInv, Verdict!investigationVars
<1>0. bundle' = bundle
  BY DEF vars, Next, Generate, Refuse, Post, PostFails, Accept, Repair, GiveUp, ReviewRCA,
         SaveIncident
<1>1. Known' = Known /\ (Constrained <=> bundle.missing \/ Cardinality(Known) < LowRecallMinRefs)
  BY <1>0 DEF Known, MissingNamed, Constrained
<1>2. CASE Refuse \/ (PostFails \/ GiveUp)
  <2>1. pc \in {"ask", "check"} /\ pc' \in {"refused", "failed", "raised"} /\ incident' = incident
    BY <1>2 DEF Refuse, PostFails, GiveUp
  <2>2. Verdict!Decline
    BY <1>0, <1>1, <2>1 DEF Verdict!Decline, Verdict!Pending, Verdict!Declined, Reported
  <2>. QED BY <2>2 DEF Verdict!Next
<1>3. CASE Post \/ Repair
  <2>1. pc \in {"ask", "check"} /\ pc' \in {"ask", "check"} /\ incident' = incident
    BY <1>3 DEF Post, Repair
  <2>. QED BY <1>0, <1>1, <2>1 DEF Reported
<1>4. CASE Accept
  <2>1. pc = "check" /\ pc' = "reported" /\ incident' = incident /\ report' = ReportOf(reply)
    BY <1>4 DEF Accept
  <2>2. /\ report' \in Report
        /\ \A c \in Conclusions : report'.refs[c] # {} /\ report'.refs[c] \subseteq Known
        /\ RespectsQuality(report')
    BY <1>4, <2>1, AcceptableReport DEF Accept, TypeOK
  <2>3. report'.refs \in [Conclusions -> (SUBSET Known) \ {{}}]
    BY <2>2 DEF Report
  <2>4. Constrained => Hedged(report')
    BY <2>2 DEF RespectsQuality, Hedged
  <2>5. (~ Hedged(report')) \in BOOLEAN
    OBVIOUS
  <2>6. Verdict!Conclude
    BY <1>0, <1>1, <2>1, <2>3, <2>4, <2>5
    DEF Verdict!Conclude, Verdict!Pending, Verdict!Report, Reported
  <2>. QED BY <2>6 DEF Verdict!Next
<1>5. CASE ReviewRCA
  <2>1. Reported /\ Reported' /\ UNCHANGED <<report, incident>>
    BY <1>5 DEF ReviewRCA, Reported
  <2>2. Hedged(report)' <=> Hedged(report)
    BY <2>1 DEF Hedged
  <2>. QED BY <1>0, <1>1, <2>1, <2>2
<1>6. CASE SaveIncident
  <2>1. /\ Reported /\ Reported' /\ UNCHANGED report
        /\ incident = {} /\ incident' = ApprovedEvidence
    BY <1>6 DEF SaveIncident, Reported, Unsaved
  <2>2. Hedged(report)' <=> Hedged(report)
    BY <2>1 DEF Hedged
  <2>3. Verdict!Remember
    BY <1>0, <1>1, <2>1, <2>2 DEF Verdict!Remember, ApprovedEvidence
  <2>. QED BY <2>3 DEF Verdict!Next
<1>7. CASE UNCHANGED vars
  <2>1. UNCHANGED <<pc, report, incident>>
    BY <1>7 DEF vars
  <2>2. (Hedged(report)' <=> Hedged(report)) /\ (Reported' <=> Reported)
    BY <2>1 DEF Hedged, Reported
  <2>. QED BY <1>0, <1>1, <2>1, <2>2
<1>. QED
  BY <1>2, <1>3, <1>4, <1>5, <1>6, <1>7 DEF Next, Generate

\* For every bundle, setting and sequence of answers, the engine, the review
\* and the save are an investigation: it concludes at most once, from what is
\* known, hedged if that is thin, and remembers what was approved.
THEOREM Refinement == Spec => ImplementsInvestigation
<1>1. Init => Verdict!Init
  BY DEF Init, Verdict!Init, Verdict!Pending, Reported, Known, Bundle
<1>2. IInv /\ [Next]_vars => [Verdict!Next]_(Verdict!investigationVars)
  BY StepVerdict
<1>. QED
  BY <1>1, <1>2, Invariance, PTL DEF Spec, ImplementsInvestigation, Verdict!Spec
=============================================================================
