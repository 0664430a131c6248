---------------------------- MODULE IncidentMemory ----------------------------
(***************************************************************************)
(* Structure 4, the incident memory: confirmed incidents are inserted or   *)
(* replaced in one table, and searched for those that resemble an alert.   *)
(* What is found is cited by the report on the alert, and saved with it:   *)
(* evidence travels from incident to incident.                             *)
(*                                                                         *)
(* A save has two steps, since the time it carries is read before its      *)
(* transaction begins; sessions are served by processes of their own, on   *)
(* one clock.  A text is the set of the terms that occur in it, a piece of *)
(* evidence the repository it was taken from.                              *)
(***************************************************************************)
EXTENDS Integers, Sequences, FiniteSets

CONSTANTS
    Sessions,    \* workbench sessions
    Alerts,      \* alert ids; the incident of alert a is INC-a, in any repository
    Repos,       \* repo ids
    ErrorTypes,  \* error types, as terms
    Places,      \* suspected locations, as terms
    NoPlace,     \* an alert that has none
    Limit,       \* the limit a search is called with
    MaxTime      \* bound: saves begun

ASSUME MemoryAssumption ==
    /\ NoPlace \notin ErrorTypes \cup Places
    /\ IsFiniteSet(Alerts) /\ IsFiniteSet(ErrorTypes) /\ IsFiniteSet(Places)
    /\ Limit \in Int
    /\ MaxTime \in Nat

VARIABLES
    table,      \* rows of the incident table, by alert
    session,    \* what a session holds
    clock,      \* the time the last save carries
    confirmed   \* when the save that wrote a row began and ended (history)

vars == <<table, session, clock, confirmed>>

Terms == ErrorTypes \cup Places

Record == [repo : Repos, error : ErrorTypes, text : SUBSET Terms,
           evidence : (SUBSET Repos) \ {{}}, updated : 1..MaxTime]
NoRow == [updated |-> 0]

IncidentQuery == [repo : Repos, error : ErrorTypes, place : Places \cup {NoPlace}]

Idle == [stage |-> "idle"]
Reviewed == [stage : {"reviewed"}, alert : Alerts, repo : Repos, evidence : SUBSET Repos]
Saving == [stage : {"saving"}, alert : Alerts, record : Record]

Rows(r) == {a \in Alerts : table[a] # NoRow /\ table[a].repo = r}

Init ==
    /\ table = [a \in Alerts |-> NoRow]
    /\ session = [s \in Sessions |-> Idle]
    /\ clock = 0
    /\ confirmed = [a \in Alerts |-> [begun |-> 0, ended |-> 0]]

-----------------------------------------------------------------------------
(* Helpers.  A definition that stands just before another one, and is used  *)
(* nowhere, is a seeded bug: the mutant of the other that PROJECT.json names. *)

BoundedLimit == IF Limit < 1 THEN 1 ELSE IF Limit > 50 THEN 50 ELSE Limit

\* The terms of a query: the error type, the location, and keywords, which
\* are left out: they count like the other two.
SearchTerms(q) == {q.error, q.place} \ {NoPlace}

\* _similarity, in percent and multiplied by the number of terms: the error
\* type counts 45, the location 30, the share of the terms that occur 25.
Similarity(q, r) ==
    LET n == Cardinality(SearchTerms(q))
        score == (IF q.error = r.error THEN 45 * n ELSE 0)
                 + (IF q.place \in r.text THEN 30 * n ELSE 0)
                 + 25 * Cardinality(SearchTerms(q) \cap r.text)
    IN  IF score > 99 * n THEN 99 * n ELSE score

\* The rows that are read: those of the repository that were updated last, no
\* more of them than may be returned.
Newest(S) ==
    {W \in SUBSET S :
        /\ Cardinality(W) = IF Cardinality(S) < BoundedLimit THEN Cardinality(S) ELSE BoundedLimit
        /\ \A a \in W, b \in S \ W : table[a].updated >= table[b].updated}
WindowsOfAll(r) == {W \cap Rows(r) : W \in Newest(UNION {Rows(q) : q \in Repos})}
Windows(r) == Newest(Rows(r))

\* The sequences of all of S, without repetition.
Enumerations(S) ==
    {s \in [1..Cardinality(S) -> S] : \A x \in S : \E i \in 1..Cardinality(S) : s[i] = x}

\* _rank_similar_records: a stable sort by similarity of the rows read, without
\* those that have none.
NewestFirst(q, W) ==
    {s \in Enumerations({a \in W : Similarity(q, table[a]) > 0}) :
        \A i, j \in DOMAIN s : i < j => table[s[i]].updated >= table[s[j]].updated}
Rankings(q, W) ==
    {s \in Enumerations({a \in W : Similarity(q, table[a]) > 0}) :
        \A i, j \in DOMAIN s : i < j =>
            LET one == Similarity(q, table[s[i]])
                two == Similarity(q, table[s[j]])
            IN  one > two \/ (one = two /\ table[s[i]].updated >= table[s[j]].updated)}

Answers(q) == UNION {Rankings(q, W) : W \in Windows(q.repo)}

Listed(answer) == {answer[i] : i \in DOMAIN answer}
Cited(answer) == UNION {table[a].evidence : a \in Listed(answer)}

\* The gate of save_incident on the evidence of the approved findings.
AnyReport(h) == h.stage = "reviewed"
Savable(h) == h.stage = "reviewed" /\ h.evidence # {}

\* A row is replaced as a whole, whichever repository it belonged to.
UpsertMerging(a, record) ==
    [table EXCEPT ![a] = IF @ = NoRow THEN record
                         ELSE [record EXCEPT !.evidence = @ \cup table[a].evidence]]
UpsertUntimed(a, record) ==
    [table EXCEPT ![a] = IF @ = NoRow THEN record ELSE [record EXCEPT !.updated = table[a].updated]]
Upsert(a, record) == [table EXCEPT ![a] = record]

-----------------------------------------------------------------------------
(* The operations                                                           *)

\* find_similar_incidents for an alert, then the report on it and its review:
\* they approve findings, if any, that cite evidence of the alert's graph or of
\* the incidents found.
FindSimilarIncidents(s, a, q) ==
    /\ session[s] = Idle
    /\ \E answer \in Answers(q) :
         \E evidence \in SUBSET ({q.repo} \cup Cited(answer)) :
            session' = [session EXCEPT ![s] =
                [stage |-> "reviewed", alert |-> a, repo |-> q.repo, evidence |-> evidence]]
    /\ UNCHANGED <<table, clock, confirmed>>

\* save_incident builds the record: the time is read, and the error type and the
\* text are derived from the findings.
BuildRecord(s, error, text) ==
    LET h == session[s] IN
    /\ Savable(h)
    /\ clock < MaxTime
    /\ clock' = clock + 1
    /\ session' = [session EXCEPT ![s] =
           [stage |-> "saving", alert |-> h.alert,
            record |-> [repo |-> h.repo, error |-> error, text |-> text \cup {error},
                        evidence |-> h.evidence, updated |-> clock']]]
    /\ UNCHANGED <<table, confirmed>>

\* The session keeps the reviewed report: it can be saved again.
Review(h) ==
    [stage |-> "reviewed", alert |-> h.alert, repo |-> h.record.repo,
     evidence |-> h.record.evidence]

\* The transaction.  When its acknowledgement is lost the user may try again.
SaveIncident(s) ==
    LET h == session[s] IN
    /\ h.stage = "saving"
    /\ table' = Upsert(h.alert, h.record)
    /\ confirmed' = [confirmed EXCEPT ![h.alert] = [begun |-> h.record.updated, ended |-> clock]]
    /\ \E next \in {Idle, Review(h)} : session' = [session EXCEPT ![s] = next]
    /\ UNCHANGED clock

SaveFails(s) ==
    /\ session[s].stage = "saving"
    /\ session' = [session EXCEPT ![s] = Review(@)]
    /\ UNCHANGED <<table, clock, confirmed>>

\* The user turns to another alert.
Abandon(s) ==
    /\ session[s].stage = "reviewed"
    /\ session' = [session EXCEPT ![s] = Idle]
    /\ UNCHANGED <<table, clock, confirmed>>

Next ==
    \E s \in Sessions :
        \/ \E a \in Alerts, q \in IncidentQuery : FindSimilarIncidents(s, a, q)
        \/ \E error \in ErrorTypes, text \in SUBSET Terms : BuildRecord(s, error, text)
        \/ SaveIncident(s) \/ SaveFails(s) \/ Abandon(s)

Spec == Init /\ [][Next]_vars

-----------------------------------------------------------------------------
(* Properties                                                               *)

TypeOK ==
    /\ table \in [Alerts -> Record \cup {NoRow}]
    /\ session \in [Sessions -> {Idle} \cup Reviewed \cup Saving]
    /\ clock \in 0..MaxTime
    /\ confirmed \in [Alerts -> [begun : 0..MaxTime, ended : 0..MaxTime]]

\* The incidents of a's repository that were not confirmed before the save that
\* confirmed a began: stored later, or at the same time.
ConfirmedSince(a) ==
    {b \in Rows(table[a].repo) \ {a} : confirmed[b].ended >= confirmed[a].begun}

\* What was confirmed is found: an incident that resembles an alert of its
\* repository is in the answer, or as many others as the answer may hold have
\* been confirmed since.  Only that many rows are read before they are compared.
FoundAgain ==
    \A q \in IncidentQuery : \A answer \in Answers(q) :
        \A a \in Rows(q.repo) \ Listed(answer) :
            Similarity(q, table[a]) > 0 => Cardinality(ConfirmedSince(a)) >= BoundedLimit

\* The first incident of an answer resembles the alert most, of all incidents of
\* the repository but those that the limit hides.
BestFirst ==
    \A q \in IncidentQuery : \A answer \in Answers(q) :
        \A a \in Rows(q.repo) :
            answer # <<>> /\ Similarity(q, table[a]) > Similarity(q, table[answer[1]]) =>
                Cardinality(ConfirmedSince(a)) >= BoundedLimit

\* Evidence stays in its repository, although incidents hand it on from one to
\* the next and an alert id may be used for two repositories.
EvidenceStaysHome ==
    /\ \A a \in Alerts : table[a] # NoRow => table[a].evidence \subseteq {table[a].repo}
    /\ \A s \in Sessions :
        /\ session[s].stage = "reviewed" => session[s].evidence \subseteq {session[s].repo}
        /\ session[s].stage = "saving" => session[s].record.evidence \subseteq {session[s].record.repo}

\* An incident gets older only when two saves of it overlap: one that began
\* after the last was stored leaves it with a later time.
OnlyOverlapsGoBack ==
    [][\A a \in Alerts :
          table[a] # NoRow /\ confirmed'[a].begun > confirmed[a].ended =>
              table'[a].updated > table[a].updated]_vars
=============================================================================
