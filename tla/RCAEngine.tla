------------------------------- MODULE RCAEngine -------------------------------
(***************************************************************************)
(* One investigation in the RCA reasoning engine (Structure 3) and what    *)
(* the middleware makes of its report.  generate_rca asks a language model *)
(* for a report over an evidence bundle, repairs a bounded number of bad   *)
(* answers, and lets no report pass that cites evidence outside the bundle *)
(* or is too sure of thin evidence; review_rca and save_incident carry the *)
(* cited evidence into incident memory.                                    *)
(*                                                                         *)
(* The language model is the environment: its answer is any member of      *)
(* Replies.  An answer that is no JSON object, has a wrong shape or number *)
(* or lacks a conclusion is Garbled.  A conclusion is the evidence ids it  *)
(* names and the references its summary matches best; the confidences,     *)
(* the open questions and the wording of the root cause are those the gate *)
(* on evidence quality looks at.                                           *)
(***************************************************************************)
EXTENDS Integers, FiniteSets

CONSTANTS
    Evidence,       \* evidence ids a bundle may hold
    Unknown,        \* an id that is in no bundle
    Conclusions,    \* the conclusions of a report
    Root,           \* selected_root_cause
    Hypotheses,     \* the conclusions that a review does not approve
    Confidences,    \* confidence values, in percent
    ConfidenceCap,  \* LEGACY_PILOT_RCA_CONFIDENCE_CAP, in percent
    RepairSetting   \* LEGACY_PILOT_RCA_REPAIR_ATTEMPTS, any number

ASSUME EngineAssumption ==
    /\ Unknown \notin Evidence
    /\ Hypotheses \subseteq Conclusions
    /\ Root \in Conclusions \ Hypotheses
    /\ Confidences \subseteq 0..100
    /\ ConfidenceCap \in 0..100
    /\ RepairSetting \in Int

MaxRepairAttempts == 3
LowRecallCap == 50
LowRecallMinRefs == 2

\* Requests are counted up to here, one beyond what the engine may send.
PostsCounted == MaxRepairAttempts + 2

VARIABLES
    bundle,    \* the evidence bundle of the request
    pc,        \* where the investigation stands
    attempt,   \* index of the loop in generate_rca
    repairs,   \* repair_attempts
    posts,     \* requests sent to the language model (history)
    reply,     \* the answer in hand
    report,    \* the accepted report
    metadata,  \* what _record_metadata was given
    incident   \* evidence ids of the saved incident

vars == <<bundle, pc, attempt, repairs, posts, reply, report, metadata, incident>>

NoReply == [kind |-> "none"]
Garbled == [kind |-> "garbled"]
NoReport == [conf |-> -1]
NoMetadata == [attempts |-> 0]

Ids == Evidence \cup {Unknown}

\* matched: the references that share most words with the summary, if any do.
Item == [ids : SUBSET Ids, matched : SUBSET Evidence]

Payload == [kind : {"json"}, items : [Conclusions -> Item],
            conf : Confidences, rootConf : Confidences,
            open : BOOLEAN, blames : BOOLEAN]

\* known: the evidence of the graph query, and that of similar incidents, which
\* collect_bundle_evidence puts together and nothing tells apart afterwards;
\* graph: there are matched nodes and paths; missing: the bundle names a gap.
Bundle == [known : SUBSET Evidence, graph : BOOLEAN, missing : BOOLEAN]

Report == [refs : [Conclusions -> SUBSET Evidence], conf : 0..100,
           rootConf : 0..100, open : BOOLEAN, blames : BOOLEAN]

Known == bundle.known

TypeOK ==
    /\ bundle \in Bundle
    /\ pc \in {"ask", "check", "reported", "refused", "failed", "raised", "reviewed", "saved"}
    /\ attempt \in 0..MaxRepairAttempts
    /\ repairs \in 0..MaxRepairAttempts
    /\ posts \in 0..PostsCounted
    /\ reply \in Payload \cup {Garbled, NoReply}
    /\ report \in Report \cup {NoReport}
    /\ metadata \in [attempts : Nat, repairs : Nat, error : BOOLEAN] \cup {NoMetadata}
    /\ incident \in SUBSET Evidence

\* Without matched nodes and paths, both are named as missing.
Init ==
    /\ bundle \in {b \in Bundle : b.graph \/ b.missing}
    /\ pc = "ask"
    /\ attempt = 0 /\ repairs = 0 /\ posts = 0
    /\ reply = NoReply
    /\ report = NoReport
    /\ metadata = NoMetadata
    /\ incident = {}

-----------------------------------------------------------------------------
(* Helpers.  A definition that stands just before another one, and is used  *)
(* nowhere, is a seeded bug: the mutant of the other that PROJECT.json names. *)

\* The setting is clamped: a request repairs at most MaxRepairAttempts times.
UnboundedRepairLimit == RepairSetting
RepairLimit ==
    IF RepairSetting < 0 THEN 0
    ELSE IF RepairSetting > MaxRepairAttempts THEN MaxRepairAttempts
    ELSE RepairSetting

\* The references of a conclusion.  It keeps the ids it names when all are in
\* the bundle; else those its summary matches; else those that are known.
TrustedRefs(i) ==
    IF i.ids # {} THEN i.ids ELSE i.matched \cap Known
Refs(i) ==
    LET matched == i.matched \cap Known IN
    IF i.ids # {} /\ i.ids \subseteq Known THEN i.ids
    ELSE IF matched # {} THEN matched
    ELSE i.ids \cap Known

Capped(c) == IF c < ConfidenceCap THEN c ELSE ConfidenceCap

\* _report_from_qwen_payload
ReportOf(r) ==
    [refs |-> [c \in Conclusions |-> Refs(r.items[c])],
     conf |-> Capped(r.conf), rootConf |-> r.rootConf,
     open |-> r.open, blames |-> r.blames]

\* _evidence_quality: evidence is missing, or a graph gave few references.
\* The references of similar incidents count.
Constrained ==
    bundle.missing \/ (bundle.graph /\ Cardinality(Known) < LowRecallMinRefs)

\* _assert_report_respects_evidence_quality
ReportGateOnly(p) ==
    Constrained => p.conf <= LowRecallCap /\ p.open /\ ~ p.blames
RespectsQuality(p) ==
    Constrained =>
        p.conf <= LowRecallCap /\ p.rootConf <= LowRecallCap /\ p.open /\ ~ p.blames

Acceptable(r) ==
    /\ r \in Payload
    /\ \A c \in Conclusions : Refs(r.items[c]) # {}
    /\ RespectsQuality(ReportOf(r))

\* last_error is set once an answer was rejected.
RecordIndex(error) ==
    metadata' = [attempts |-> attempt, repairs |-> repairs, error |-> error]
RecordMetadata(error) ==
    metadata' = [attempts |-> attempt + 1, repairs |-> repairs, error |-> error]

-----------------------------------------------------------------------------
(* generate_rca                                                             *)

\* No evidence, no API key or an unsupported backend: nothing is sent.
Refuse ==
    /\ pc = "ask" /\ posts = 0
    /\ pc' = "refused"
    /\ UNCHANGED <<bundle, attempt, repairs, posts, reply, report, metadata, incident>>

CountPost == posts' = IF posts < PostsCounted THEN posts + 1 ELSE posts

\* The prompt is sent, and answered.
Post ==
    /\ pc = "ask"
    /\ Known # {}
    /\ reply' \in Payload \cup {Garbled}
    /\ pc' = "check"
    /\ CountPost
    /\ UNCHANGED <<bundle, attempt, repairs, report, metadata, incident>>

\* An HTTP error or an unreachable service is an RCAGenerationError; a read
\* that times out or a body that is no JSON is not.  The request is outside the
\* try statement: neither is repaired.
PostFails ==
    /\ pc = "ask"
    /\ Known # {}
    /\ pc' \in {"failed", "raised"}
    /\ CountPost
    /\ UNCHANGED <<bundle, attempt, repairs, reply, report, metadata, incident>>

Accept ==
    /\ pc = "check"
    /\ Acceptable(reply)
    /\ report' = ReportOf(reply)
    /\ RecordMetadata(repairs > 0)
    /\ reply' = NoReply
    /\ pc' = "reported"
    /\ UNCHANGED <<bundle, attempt, repairs, posts, incident>>

RepairUncounted ==
    /\ pc = "check"
    /\ ~ Acceptable(reply)
    /\ attempt < RepairLimit
    /\ reply' = NoReply
    /\ pc' = "ask"
    /\ UNCHANGED <<bundle, attempt, repairs, posts, report, metadata, incident>>

Repair ==
    /\ pc = "check"
    /\ ~ Acceptable(reply)
    /\ attempt < RepairLimit
    /\ repairs' = repairs + 1
    /\ attempt' = attempt + 1
    /\ reply' = NoReply
    /\ pc' = "ask"
    /\ UNCHANGED <<bundle, posts, report, metadata, incident>>

GiveUpLate ==
    /\ pc = "check"
    /\ ~ Acceptable(reply)
    /\ attempt > RepairLimit
    /\ RecordMetadata(TRUE)
    /\ reply' = NoReply
    /\ pc' = "failed"
    /\ UNCHANGED <<bundle, attempt, repairs, posts, report, incident>>

GiveUp ==
    /\ pc = "check"
    /\ ~ Acceptable(reply)
    /\ attempt >= RepairLimit
    /\ RecordMetadata(TRUE)
    /\ reply' = NoReply
    /\ pc' = "failed"
    /\ UNCHANGED <<bundle, attempt, repairs, posts, report, incident>>

-----------------------------------------------------------------------------
(* review_rca, and save_incident of the middleware                          *)

\* A report without evidence is refused; the review approves the root cause,
\* the fixes and the migration impact.
ReviewRCA ==
    /\ pc = "reported"
    /\ \A c \in Conclusions : report.refs[c] # {}
    /\ pc' = "reviewed"
    /\ UNCHANGED <<bundle, attempt, repairs, posts, reply, report, metadata, incident>>

\* The evidence of the approved findings becomes the incident's.
AllEvidence == UNION {report.refs[c] : c \in Conclusions}
ApprovedEvidence == UNION {report.refs[c] : c \in Conclusions \ Hypotheses}

SaveIncident ==
    /\ pc = "reviewed"
    /\ ApprovedEvidence # {}
    /\ incident' = ApprovedEvidence
    /\ pc' = "saved"
    /\ UNCHANGED <<bundle, attempt, repairs, posts, reply, report, metadata>>

-----------------------------------------------------------------------------
Generate == Refuse \/ Post \/ PostFails \/ Accept \/ Repair \/ GiveUp

Next == Generate \/ ReviewRCA \/ SaveIncident

\* A request in hand is worked on: every socket operation has a timeout.
Spec == Init /\ [][Next]_vars /\ WF_vars(Generate)

-----------------------------------------------------------------------------
(* Properties                                                               *)

Reported == pc \in {"reported", "reviewed", "saved"}

\* Every conclusion of a report is backed by evidence of the bundle, whatever
\* ids the language model named; incident memory receives the evidence of the
\* root cause, and none from outside the bundle.
EvidenceClosed ==
    /\ Reported => \A c \in Conclusions : /\ report.refs[c] # {}
                                          /\ report.refs[c] \subseteq Known
    /\ pc = "saved" => report.refs[Root] \subseteq incident /\ incident \subseteq Known

\* A report that takes thin evidence for what it is.
Hedged(p) ==
    p.conf <= LowRecallCap /\ p.rootConf <= LowRecallCap /\ p.open /\ ~ p.blames

\* With evidence missing or scarce, no report that leaves the engine is sure of
\* its root cause, lacks open questions or argues from the missing evidence.
ThinEvidenceIsHedged ==
    Reported /\ (bundle.missing \/ Cardinality(Known) < LowRecallMinRefs) =>
        Hedged(report)

\* Whatever number is configured, a request asks the language model at most
\* once more than it may be repaired.
RequestsBounded ==
    /\ posts <= MaxRepairAttempts + 1
    /\ posts <= repairs + 1

\* The metadata of a request that got to the end of the loop is that of its
\* requests: how many were sent, and whether an answer was ever rejected.
MetadataTruthful ==
    metadata # NoMetadata =>
        /\ metadata.attempts = posts
        /\ metadata.repairs = posts - 1
        /\ metadata.error <=> (posts > 1 \/ pc = "failed")

InHand == pc \in {"ask", "check"}

\* Whatever the language model answers, generate_rca can go on: the conditions
\* of accepting, repairing and giving up leave no answer out.
NeverStuck == InHand => ENABLED <<Generate>>_vars

\* A request is answered: the repairs come to an end.
Answered == InHand ~> ~ InHand

\* What the loop, the review and the save come to for those who wait.
Verdict == INSTANCE Investigation WITH
    Approved <- Conclusions \ Hypotheses,
    known <- Known,
    thin <- bundle.missing \/ Cardinality(Known) < LowRecallMinRefs,
    answer <- IF Reported THEN [kind |-> "report", cites |-> report.refs,
                                sure |-> ~ Hedged(report)]
              ELSE IF pc \in {"ask", "check"} THEN [kind |-> "pending"]
              ELSE [kind |-> "declined"]

\* However many answers are rejected and repaired, the engine is one that
\* concludes once, from its bundle, or declines; and the middleware remembers
\* the evidence of what the review approved, without that of the hypotheses.
ImplementsInvestigation == Verdict!Spec

\* A report comes from an answer that names no unknown evidence id.
UnknownIdsRejected ==
    [][pc = "check" /\ pc' = "reported" =>
          \A c \in Conclusions : reply.items[c].ids \subseteq Known]_vars

\* A failure of the engine is an error the middleware can put in an envelope.
FailuresEnveloped == pc # "raised"
=============================================================================
