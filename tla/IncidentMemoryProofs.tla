-------------------------- MODULE IncidentMemoryProofs --------------------------
(***************************************************************************)
(* Proofs about IncidentMemory, for any number of sessions, alerts and     *)
(* repositories, any limit and any terms.  What is found is a matter of    *)
(* the state alone, so the theorems about answers follow from an invariant *)
(* that ties the time of a row to when the save that wrote it began.       *)
(***************************************************************************)
EXTENDS IncidentMemory, FiniteSetTheorems, TLAPS

\* A row carries the time at which its save began; that save has ended, and no
\* time lies in the future.
TimesAreKnown ==
    /\ \A a \in Alerts : table[a] # NoRow => table[a].updated = confirmed[a].begun
    /\ \A a \in Alerts : confirmed[a].begun <= confirmed[a].ended /\ confirmed[a].ended <= clock
    /\ \A s \in Sessions : session[s].stage = "saving" => session[s].record.updated <= clock

IInv == TypeOK /\ TimesAreKnown /\ EvidenceStaysHome

-----------------------------------------------------------------------------
(* The helpers.                                                             *)

\* At least one row is read, whatever limit is asked for.
LEMMA LimitBounded == BoundedLimit \in 1..50
  BY MemoryAssumption DEF BoundedLimit

\* A similarity is a number, so two of them compare.
LEMMA SimilarityIsANumber ==
    ASSUME NEW q \in IncidentQuery, NEW r
    PROVE  Similarity(q, r) \in Int
<1>1. IsFiniteSet({q.error, q.place})
  <2>1. IsFiniteSet({} \cup {q.error})
    BY FS_EmptySet, FS_AddElement
  <2>2. IsFiniteSet(({} \cup {q.error}) \cup {q.place})
    BY <2>1, FS_AddElement
  <2>3. ({} \cup {q.error}) \cup {q.place} = {q.error, q.place}
    OBVIOUS
  <2>. QED BY <2>2, <2>3
<1>2. IsFiniteSet(SearchTerms(q)) /\ IsFiniteSet(SearchTerms(q) \cap r.text)
  BY <1>1, FS_Subset DEF SearchTerms
<1>3. /\ Cardinality(SearchTerms(q)) \in Nat
      /\ Cardinality(SearchTerms(q) \cap r.text) \in Nat
  BY <1>2, FS_CardinalityType
<1>. DEFINE n == Cardinality(SearchTerms(q))
            m == Cardinality(SearchTerms(q) \cap r.text)
            score == (IF q.error = r.error THEN 45 * n ELSE 0)
                     + (IF q.place \in r.text THEN 30 * n ELSE 0) + 25 * m
<1>4. (IF q.error = r.error THEN 45 * n ELSE 0) \in Int
  BY <1>3
<1>5. (IF q.place \in r.text THEN 30 * n ELSE 0) \in Int
  BY <1>3
<1>6. score \in Int /\ 99 * n \in Int
  BY <1>3, <1>4, <1>5
<1>7. Similarity(q, r) = IF score > 99 * n THEN 99 * n ELSE score
  BY DEF Similarity
<1>. QED
  BY <1>6, <1>7

\* What an enumeration lists is its set.
LEMMA EnumerationListsAll ==
    ASSUME NEW S, NEW e \in Enumerations(S)
    PROVE  Listed(e) = S
  BY DEF Enumerations, Listed

\* The answer lists the rows of some window that resemble the alert.
LEMMA AnswerIsListed ==
    ASSUME NEW q \in IncidentQuery, NEW answer \in Answers(q)
    PROVE  \E W \in Windows(q.repo) :
             /\ answer \in Rankings(q, W)
             /\ answer \in Enumerations({a \in W : Similarity(q, table[a]) > 0})
             /\ Listed(answer) = {a \in W : Similarity(q, table[a]) > 0}
<1>1. PICK W \in Windows(q.repo) : answer \in Rankings(q, W)
  BY DEF Answers
<1>2. answer \in Enumerations({a \in W : Similarity(q, table[a]) > 0})
  BY <1>1 DEF Rankings
<1>. QED
  BY <1>1, <1>2, EnumerationListsAll

\* An answer holds rows of the repository asked about.
LEMMA AnswerIsLocal ==
    ASSUME NEW q \in IncidentQuery, NEW answer \in Answers(q)
    PROVE  Listed(answer) \subseteq Rows(q.repo)
<1>1. PICK W \in Windows(q.repo) : Listed(answer) = {a \in W : Similarity(q, table[a]) > 0}
  BY AnswerIsListed
<1>. QED
  BY <1>1 DEF Windows, Newest

\* A row outside the window has as many newer ones as the window holds.
LEMMA WindowHidesOlder ==
    ASSUME IInv, NEW r \in Repos, NEW W \in Windows(r), NEW a \in Rows(r) \ W
    PROVE  Cardinality(ConfirmedSince(a)) >= BoundedLimit
<1>1. /\ W \subseteq Rows(r)
      /\ Rows(r) \subseteq Alerts
      /\ table[a].repo = r
      /\ a \in Alerts
  BY DEF Windows, Newest, Rows
<1>2. IsFiniteSet(Rows(r)) /\ IsFiniteSet(W) /\ IsFiniteSet(ConfirmedSince(a))
  BY <1>1, FS_Subset, MemoryAssumption DEF ConfirmedSince
<1>3. Cardinality(W) = BoundedLimit
  <2>1. Cardinality(W) # Cardinality(Rows(r))
    BY <1>1, <1>2, FS_Subset
  <2>. QED BY <2>1 DEF Windows, Newest
<1>4. W \subseteq ConfirmedSince(a)
  <2>1. SUFFICES ASSUME NEW w \in W
                 PROVE  confirmed[w].ended >= confirmed[a].begun
    BY <1>1 DEF ConfirmedSince
  <2>2. table[w].updated >= table[a].updated
    BY DEF Windows, Newest
  <2>3. w \in Alerts /\ table[w] # NoRow /\ table[a] # NoRow
    BY <1>1 DEF Rows
  <2>4. table[w].updated = confirmed[w].begun /\ table[a].updated = confirmed[a].begun
    BY <1>1, <2>3 DEF IInv, TimesAreKnown
  <2>5. confirmed[w].begun <= confirmed[w].ended
    BY <2>3 DEF IInv, TimesAreKnown
  <2>6. /\ confirmed[w].begun \in Int /\ confirmed[w].ended \in Int
        /\ confirmed[a].begun \in Int
    BY <1>1, <2>3, MemoryAssumption DEF IInv, TypeOK
  <2>. QED BY <2>2, <2>4, <2>5, <2>6
<1>5. Cardinality(W) <= Cardinality(ConfirmedSince(a))
  BY <1>2, <1>4, FS_Subset
<1>. QED
  BY <1>3, <1>5

-----------------------------------------------------------------------------
(* The steps.                                                               *)

LEMMA InitIInv == Init => IInv
<1>1. SUFFICES ASSUME Init PROVE IInv
  OBVIOUS
<1>2. TypeOK
  BY <1>1, MemoryAssumption DEF Init, TypeOK
<1>3. \A a \in Alerts : table[a] = NoRow
  BY <1>1 DEF Init
<1>4. \A s \in Sessions : session[s].stage = "idle"
  BY <1>1 DEF Init, Idle
<1>. QED
  BY <1>1, <1>2, <1>3, <1>4 DEF Init, IInv, TimesAreKnown, EvidenceStaysHome

LEMMA StepIInv ==
    ASSUME IInv, [Next]_vars
    PROVE  IInv'
<1>. USE MemoryAssumption DEF IInv
<1>1. ASSUME NEW s \in Sessions, NEW a \in Alerts, NEW q \in IncidentQuery,
             FindSimilarIncidents(s, a, q)
      PROVE  IInv'
  <2>0. PICK answer \in Answers(q) :
           \E evidence \in SUBSET ({q.repo} \cup Cited(answer)) :
              session' = [session EXCEPT ![s] = [stage |-> "reviewed", alert |-> a,
                                                 repo |-> q.repo, evidence |-> evidence]]
    BY <1>1 DEF FindSimilarIncidents
  <2>1. PICK evidence \in SUBSET ({q.repo} \cup Cited(answer)) :
           session' = [session EXCEPT ![s] = [stage |-> "reviewed", alert |-> a,
                                              repo |-> q.repo, evidence |-> evidence]]
    BY <2>0
  <2>2. UNCHANGED <<table, clock, confirmed>>
    BY <1>1 DEF FindSimilarIncidents
  <2>3. Cited(answer) \subseteq {q.repo}
    <3>1. \A b \in Rows(q.repo) : table[b].evidence \subseteq {q.repo}
      BY DEF Rows, EvidenceStaysHome
    <3>. QED BY <3>1, AnswerIsLocal DEF Cited
  <2>4. q.repo \in Repos
    BY DEF IncidentQuery
  <2>5. [stage |-> "reviewed", alert |-> a, repo |-> q.repo, evidence |-> evidence] \in Reviewed
    BY <2>3, <2>4 DEF Reviewed
  <2>6. TypeOK'
    BY <2>1, <2>2, <2>5 DEF TypeOK
  <2>7. /\ session'[s].stage = "reviewed" /\ session'[s].evidence \subseteq {session'[s].repo}
        /\ \A t \in Sessions \ {s} : session'[t] = session[t]
    BY <2>1, <2>3 DEF TypeOK
  <2>8. TimesAreKnown'
    BY <2>2, <2>7 DEF TimesAreKnown
  <2>9. EvidenceStaysHome'
    BY <2>2, <2>7 DEF EvidenceStaysHome
  <2>. QED BY <2>6, <2>8, <2>9
<1>2. ASSUME NEW s \in Sessions, NEW error \in ErrorTypes, NEW text \in SUBSET Terms,
             BuildRecord(s, error, text)
      PROVE  IInv'
  <2>. DEFINE record == [repo |-> session[s].repo, error |-> error, text |-> text \cup {error},
                         evidence |-> session[s].evidence, updated |-> clock + 1]
              held == [stage |-> "saving", alert |-> session[s].alert, record |-> record]
  <2>1. /\ session[s].stage = "reviewed" /\ session[s].evidence # {}
        /\ clock < MaxTime /\ clock' = clock + 1
        /\ session' = [session EXCEPT ![s] = held]
        /\ UNCHANGED <<table, confirmed>>
    BY <1>2 DEF BuildRecord, Savable
  <2>2. session[s] \in Reviewed
    BY <2>1 DEF TypeOK, Idle, Saving
  <2>3. clock' \in 1..MaxTime
    BY <2>1 DEF TypeOK
  <2>4. held \in Saving
    <3>1. text \cup {error} \in SUBSET Terms
      BY DEF Terms
    <3>2. record \in Record
      BY <2>1, <2>2, <2>3, <3>1 DEF Record, Reviewed
    <3>. QED BY <2>2, <3>2 DEF Saving, Reviewed
  <2>5. TypeOK'
    BY <2>1, <2>3, <2>4 DEF TypeOK
  <2>6. /\ session'[s] = held
        /\ \A t \in Sessions \ {s} : session'[t] = session[t]
    BY <2>1 DEF TypeOK
  <2>7. \A t \in Sessions : session[t].stage = "saving" => session[t].record.updated \in Int
    BY DEF TypeOK, Idle, Reviewed, Saving, Record
  <2>8. TimesAreKnown'
    <3>1. \A a \in Alerts : confirmed[a].ended \in Int
      BY DEF TypeOK
    <3>2. \A a \in Alerts : confirmed[a].ended <= clock'
      BY <2>1, <3>1 DEF TypeOK, TimesAreKnown
    <3>3. \A t \in Sessions : session'[t].stage = "saving" => session'[t].record.updated <= clock'
      BY <2>1, <2>6, <2>7 DEF TypeOK, TimesAreKnown
    <3>. QED BY <2>1, <3>2, <3>3 DEF TimesAreKnown
  <2>9. EvidenceStaysHome'
    BY <2>1, <2>6 DEF EvidenceStaysHome
  <2>. QED BY <2>5, <2>8, <2>9
<1>3. \* What a session holds after its save, or its failure.
      ASSUME NEW s \in Sessions, session[s].stage = "saving",
             NEW h \in {Idle, Review(session[s])}, session' = [session EXCEPT ![s] = h]
      PROVE  /\ session[s] \in Saving /\ session[s].record.evidence \subseteq {session[s].record.repo}
             /\ session' \in [Sessions -> {Idle} \cup Reviewed \cup Saving]
             /\ \A t \in Sessions : \/ session'[t] = session[t]
                                    \/ /\ session'[t].stage # "saving"
                                       /\ session'[t].stage = "reviewed" =>
                                             session'[t].evidence \subseteq {session'[t].repo}
  <2>1. session[s] \in Saving
    BY <1>3 DEF TypeOK, Idle, Reviewed
  <2>2. session[s].record.evidence \subseteq {session[s].record.repo}
    BY <1>3 DEF EvidenceStaysHome
  <2>3. Review(session[s]) \in Reviewed
    BY <2>1 DEF Review, Reviewed, Saving, Record
  <2>4. h \in {Idle} \cup Reviewed /\ h.stage # "saving"
        /\ (h.stage = "reviewed" => h.evidence \subseteq {h.repo})
    BY <2>2, <2>3 DEF Idle, Review
  <2>. QED
    BY <1>3, <2>1, <2>2, <2>4 DEF TypeOK
<1>4. ASSUME NEW s \in Sessions, SaveIncident(s)
      PROVE  IInv'
  <2>1. PICK h \in {Idle, Review(session[s])} : session' = [session EXCEPT ![s] = h]
    BY <1>4 DEF SaveIncident
  <2>. DEFINE a == session[s].alert
              record == session[s].record
  <2>2. /\ session[s].stage = "saving" /\ clock' = clock
        /\ table' = [table EXCEPT ![a] = record]
        /\ confirmed' = [confirmed EXCEPT ![a] = [begun |-> record.updated, ended |-> clock]]
    BY <1>4 DEF SaveIncident, Upsert
  <2>3. /\ session[s] \in Saving /\ record.evidence \subseteq {record.repo}
        /\ session' \in [Sessions -> {Idle} \cup Reviewed \cup Saving]
        /\ \A t \in Sessions : \/ session'[t] = session[t]
                               \/ /\ session'[t].stage # "saving"
                                  /\ session'[t].stage = "reviewed" =>
                                        session'[t].evidence \subseteq {session'[t].repo}
    BY <1>3, <2>1, <2>2
  <2>4. a \in Alerts /\ record \in Record /\ record.updated \in 1..MaxTime /\ record.updated <= clock
    BY <2>2, <2>3 DEF Saving, Record, TimesAreKnown
  <2>5. TypeOK'
    BY <2>2, <2>3, <2>4 DEF TypeOK
  <2>6. /\ table'[a] = record /\ confirmed'[a] = [begun |-> record.updated, ended |-> clock]
        /\ \A b \in Alerts \ {a} : table'[b] = table[b] /\ confirmed'[b] = confirmed[b]
    BY <2>2, <2>4 DEF TypeOK
  <2>7. TimesAreKnown'
    <3>1. \A b \in Alerts : /\ table'[b] # NoRow => table'[b].updated = confirmed'[b].begun
                            /\ confirmed'[b].begun <= confirmed'[b].ended
                            /\ confirmed'[b].ended <= clock'
      BY <2>2, <2>4, <2>6 DEF TypeOK, TimesAreKnown
    <3>2. \A t \in Sessions : session'[t].stage = "saving" => session'[t].record.updated <= clock'
      BY <2>2, <2>3 DEF TimesAreKnown
    <3>. QED BY <3>1, <3>2 DEF TimesAreKnown
  <2>8. EvidenceStaysHome'
    BY <2>3, <2>6 DEF EvidenceStaysHome
  <2>. QED BY <2>5, <2>7, <2>8
<1>5. ASSUME NEW s \in Sessions, SaveFails(s)
      PROVE  IInv'
  <2>1. /\ session[s].stage = "saving"
        /\ session' = [session EXCEPT ![s] = Review(session[s])]
        /\ UNCHANGED <<table, clock, confirmed>>
    BY <1>5 DEF SaveFails
  <2>2. /\ session' \in [Sessions -> {Idle} \cup Reviewed \cup Saving]
        /\ \A t \in Sessions : \/ session'[t] = session[t]
                               \/ /\ session'[t].stage # "saving"
                                  /\ session'[t].stage = "reviewed" =>
                                        session'[t].evidence \subseteq {session'[t].repo}
    BY <1>3, <2>1
  <2>. QED BY <2>1, <2>2 DEF TypeOK, TimesAreKnown, EvidenceStaysHome
<1>6. ASSUME NEW s \in Sessions, Abandon(s)
      PROVE  IInv'
  <2>1. /\ session' = [session EXCEPT ![s] = Idle]
        /\ UNCHANGED <<table, clock, confirmed>>
    BY <1>6 DEF Abandon
  <2>2. /\ session' \in [Sessions -> {Idle} \cup Reviewed \cup Saving]
        /\ \A t \in Sessions : session'[t] = session[t] \/ session'[t].stage = "idle"
    BY <2>1 DEF TypeOK, Idle
  <2>. QED BY <2>1, <2>2 DEF TypeOK, TimesAreKnown, EvidenceStaysHome
<1>7. CASE UNCHANGED vars
  BY <1>7 DEF vars, TypeOK, TimesAreKnown, EvidenceStaysHome
<1>. QED
  BY <1>1, <1>2, <1>4, <1>5, <1>6, <1>7 DEF Next

\* The shape of the table, its times and its evidence are kept by every step.
THEOREM Invariance == Spec => []IInv
  BY InitIInv, StepIInv, PTL DEF Spec

\* Rows, sessions, clock and history keep their types.
THEOREM TypeCorrect == Spec => []TypeOK
<1>1. IInv => TypeOK
  BY DEF IInv
<1>. QED BY <1>1, Invariance, PTL

\* An incident that resembles an alert is found, unless as many incidents of its
\* repository as are read have been confirmed since: for any limit.
THEOREM ConfirmedIncidentsAreFound == Spec => []FoundAgain
<1>1. IInv => FoundAgain
  <2>1. SUFFICES ASSUME IInv, NEW q \in IncidentQuery, NEW answer \in Answers(q),
                        NEW a \in Rows(q.repo) \ Listed(answer), Similarity(q, table[a]) > 0
                 PROVE  Cardinality(ConfirmedSince(a)) >= BoundedLimit
    BY DEF FoundAgain
  <2>2. PICK W \in Windows(q.repo) : Listed(answer) = {b \in W : Similarity(q, table[b]) > 0}
    BY AnswerIsListed
  <2>3. a \in Rows(q.repo) \ W /\ q.repo \in Repos
    BY <2>1, <2>2 DEF IncidentQuery
  <2>. QED BY <2>1, <2>3, WindowHidesOlder
<1>. QED BY <1>1, Invariance, PTL

\* The best match that is read comes first.
THEOREM BestMatchFirst == Spec => []BestFirst
<1>1. IInv => BestFirst
  <2>1. SUFFICES ASSUME IInv, NEW q \in IncidentQuery, NEW answer \in Answers(q),
                        NEW a \in Rows(q.repo), answer # <<>>,
                        Similarity(q, table[a]) > Similarity(q, table[answer[1]])
                 PROVE  Cardinality(ConfirmedSince(a)) >= BoundedLimit
    BY DEF BestFirst
  <2>2. PICK W \in Windows(q.repo) :
           /\ answer \in Rankings(q, W)
           /\ answer \in Enumerations({b \in W : Similarity(q, table[b]) > 0})
           /\ Listed(answer) = {b \in W : Similarity(q, table[b]) > 0}
    BY AnswerIsListed
  <2>. DEFINE S == {b \in W : Similarity(q, table[b]) > 0}
              sim(b) == Similarity(q, table[b])
  <2>3. answer \in [1..Cardinality(S) -> S]
    BY <2>2 DEF Enumerations
  <2>4. a \notin W
    <3>1. SUFFICES ASSUME a \in W PROVE FALSE
      OBVIOUS
    <3>2. IsFiniteSet(S)
      BY FS_Subset, MemoryAssumption DEF Windows, Newest, Rows
    <3>3. Cardinality(S) \in Nat /\ Cardinality(S) # 0
      BY <2>1, <2>3, <3>2, FS_CardinalityType
    <3>4. 1 \in 1..Cardinality(S) /\ answer[1] \in S
      BY <2>3, <3>3
    <3>5. sim(answer[1]) \in Int /\ sim(a) \in Int
      BY SimilarityIsANumber
    <3>6. sim(answer[1]) > 0
      BY <3>4
    <3>7. sim(a) > 0
      BY <2>1, <3>5, <3>6
    <3>8. a \in Listed(answer)
      BY <2>2, <3>1, <3>7
    <3>9. PICK i \in 1..Cardinality(S) : answer[i] = a
      BY <2>3, <3>8 DEF Listed
    <3>10. i # 1
      BY <2>1, <3>5, <3>9
    <3>11. sim(answer[1]) > sim(answer[i]) \/ sim(answer[1]) = sim(answer[i])
      <4>1. 1 \in DOMAIN answer /\ i \in DOMAIN answer /\ 1 < i
        BY <2>3, <3>3, <3>4, <3>9, <3>10
      <4>. QED BY <2>2, <4>1 DEF Rankings
    <3>. QED BY <2>1, <3>5, <3>9, <3>11
  <2>5. q.repo \in Repos
    BY DEF IncidentQuery
  <2>. QED BY <2>1, <2>4, <2>5, WindowHidesOlder
<1>. QED BY <1>1, Invariance, PTL

\* However often evidence is handed on, it stays with its repository.
THEOREM EvidenceStaysInItsRepository == Spec => []EvidenceStaysHome
<1>1. IInv => EvidenceStaysHome
  BY DEF IInv
<1>. QED BY <1>1, Invariance, PTL

\* Only overlapping saves can leave an incident older than it was.
THEOREM SavesGoForward == Spec => OnlyOverlapsGoBack
<1>. DEFINE Forward == \A a \in Alerts :
                          table[a] # NoRow /\ confirmed'[a].begun > confirmed[a].ended =>
                              table'[a].updated > table[a].updated
<1>1. IInv /\ IInv' /\ [Next]_vars => [Forward]_vars
  <2>1. SUFFICES ASSUME IInv, IInv', NEW a \in Alerts, table[a] # NoRow, [Next]_vars,
                        confirmed'[a].begun > confirmed[a].ended
                 PROVE  table'[a].updated > table[a].updated
    OBVIOUS
  <2>2. table'[a] # NoRow
    <3>1. CASE table' = table
      BY <2>1, <3>1
    <3>2. ASSUME NEW s \in Sessions, SaveIncident(s)
          PROVE  table'[a] # NoRow
      <4>1. /\ session[s].stage = "saving"
            /\ table' = [table EXCEPT ![session[s].alert] = session[s].record]
        BY <3>2 DEF SaveIncident, Upsert
      <4>2. session[s] \in Saving
        BY <2>1, <4>1 DEF IInv, TypeOK, Idle, Reviewed
      <4>3. session[s].record # NoRow
        BY <4>2, MemoryAssumption DEF Saving, Record, NoRow
      <4>4. table'[a] = table[a] \/ table'[a] = session[s].record
        BY <2>1, <4>1 DEF IInv, TypeOK
      <4>. QED BY <2>1, <4>3, <4>4
    <3>. QED
      BY <2>1, <3>1, <3>2 DEF Next, vars, FindSimilarIncidents, BuildRecord, SaveFails, Abandon
  <2>3. table[a].updated = confirmed[a].begun /\ table'[a].updated = confirmed'[a].begun
    BY <2>1, <2>2 DEF IInv, TimesAreKnown
  <2>4. /\ confirmed[a].begun \in Int /\ confirmed[a].ended \in Int /\ confirmed'[a].begun \in Int
        /\ confirmed[a].begun <= confirmed[a].ended
    BY <2>1, MemoryAssumption DEF IInv, TypeOK, TimesAreKnown
  <2>. QED BY <2>1, <2>3, <2>4
<1>. QED BY <1>1, Invariance, PTL DEF Spec, OnlyOverlapsGoBack
=============================================================================
