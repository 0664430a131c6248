---------------------------- MODULE Investigation ----------------------------
(***************************************************************************)
(* What an investigation promises, however often a language model is asked *)
(* and whatever it answers: at most one report, every conclusion of which  *)
(* cites evidence that is known, that is not sure of itself when the       *)
(* evidence is thin; and an incident that holds the evidence of the        *)
(* approved conclusions of that report, and nothing else.                  *)
(***************************************************************************)
CONSTANTS Evidence, Conclusions, Approved

VARIABLES
    known,    \* the evidence of the request
    thin,     \* some is missing, or there is too little of it
    answer,   \* what the request comes to
    incident  \* the evidence that is remembered

investigationVars == <<known, thin, answer, incident>>

Pending == [kind |-> "pending"]
Declined == [kind |-> "declined"]
Report(cites, sure) == [kind |-> "report", cites |-> cites, sure |-> sure]

Init ==
    /\ known \in SUBSET Evidence /\ thin \in BOOLEAN
    /\ answer = Pending
    /\ incident = {}

Conclude ==
    /\ answer = Pending
    /\ \E cites \in [Conclusions -> (SUBSET known) \ {{}}], sure \in BOOLEAN :
          /\ thin => ~ sure
          /\ answer' = Report(cites, sure)
    /\ UNCHANGED <<known, thin, incident>>

Decline ==
    /\ answer = Pending
    /\ answer' = Declined
    /\ UNCHANGED <<known, thin, incident>>

Remember ==
    /\ answer.kind = "report" /\ incident = {}
    /\ incident' = UNION {answer.cites[c] : c \in Approved}
    /\ UNCHANGED <<known, thin, answer>>

Next == Conclude \/ Decline \/ Remember

Spec == Init /\ [][Next]_investigationVars
=============================================================================
