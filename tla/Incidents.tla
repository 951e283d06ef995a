------------------------------- MODULE Incidents -------------------------------
(***************************************************************************)
(* Incidents (internal/obsstore/incidents.go): evidence that rules have    *)
(* found is grouped into incidents, and each incident that changed is      *)
(* given a conclusion.  Grouping is a sequence of single statements with   *)
(* no transaction, so a restart may fall between any two; operators move   *)
(* incidents on at the same time.  Nothing in the program inserts or       *)
(* retracts evidence or calls the grouping yet: evidence comes and is      *)
(* retracted here as the schema allows.                                    *)
(***************************************************************************)
EXTENDS Integers, Sequences, FiniteSetsExt, FiniteSetTheorems, TLAPS

CONSTANTS
  Kinds,        \* what evidence may say: [role, rule, severity]
  Entities,     \* entity keys of one tenant
  Times,        \* time stamps
  Gap,          \* GapSeconds, in the units of Times
  InOrder,      \* TRUE: evidence comes in the order of its time stamps
  Operators,    \* operators that look at incidents
  MaxEvidence,  \* bound: evidence rows
  MaxAged,      \* bound: rows too old at once
  MaxRounds,    \* bound: groupings
  MaxBroken,    \* bound: groupings cut off by a restart or an error
  MaxFailed     \* bound: statements and queries that fail where nobody looks

(* What the constants have to be. *)
IncidentsAssumption ==
  /\ Times \subseteq Nat /\ Gap \in Nat
  /\ Kinds \subseteq [role : {"trigger", "supporting", "symptom", "consequence"},
                     rule : {k.rule : k \in Kinds}, severity : Nat]
  /\ InOrder \in BOOLEAN /\ MaxEvidence \in Nat /\ MaxAged \in Nat
  /\ MaxRounds \in Nat /\ MaxBroken \in Nat /\ MaxFailed \in Nat

None == "none"

VARIABLES
  evidence,     \* rows in order of id: [kind, entity, ts, status, incident]
  incidents,    \* rows in order of id
  conclusions,  \* rows in order of id: [incident, cause, refs, current]
  pc,           \* where the grouping is
  list,         \* unassignedList, what is left of it
  chosen,       \* the incident at hand
  touched,      \* incidents to reason about
  drawn,        \* the conclusion that is being stored
  seen,         \* seen[o]: <<incident, status>> the operator has on the screen
  rounds,       \* groupings begun so far
  broken,       \* groupings cut off so far
  failed,       \* statements that failed so far
  aged,         \* rows that came - or, retracted, were retracted - too long ago for the
                \* next grouping to look for them: more than LookbackSeconds
  unseen        \* history: retracted rows no grouping has looked for

work == <<list, chosen, touched>>     \* what the grouping holds in memory
bounds == <<rounds, broken, failed>>

vars == <<evidence, incidents, conclusions, pc, work, drawn, seen, bounds, aged, unseen>>

Init ==
  /\ evidence = <<>> /\ incidents = <<>> /\ conclusions = <<>>
  /\ pc = "idle" /\ list = <<>> /\ chosen = 0 /\ touched = {}
  /\ drawn = [cause |-> None, refs |-> {}]
  /\ seen = [o \in Operators |-> <<>>]
  /\ rounds = 0 /\ broken = 0 /\ failed = 0 /\ aged = {} /\ unseen = {}

Linked(i) == {e \in DOMAIN evidence : evidence[e].incident = i}
Active(i) == {e \in Linked(i) : evidence[e].status = "active"}

-----------------------------------------------------------------------------
Arrive ==
  /\ Len(evidence) < MaxEvidence
  /\ \E k \in Kinds, n \in Entities, t \in Times :
       /\ InOrder => \A e \in DOMAIN evidence : evidence[e].ts <= t
       /\ evidence' = Append(evidence, [kind |-> k, entity |-> n, ts |-> t,
                                        status |-> "active", incident |-> 0])
  /\ UNCHANGED <<incidents, conclusions, pc, work, drawn, seen, bounds, aged, unseen>>

Retract ==
  /\ \E e \in DOMAIN evidence :
       /\ evidence[e].status = "active"
       /\ evidence' = [evidence EXCEPT ![e].status = "retracted"]
       /\ aged' = aged \ {e}
       /\ unseen' = unseen \cup {e}
  /\ UNCHANGED <<incidents, conclusions, pc, work, drawn, seen, bounds>>

(* LookbackSeconds go by between two groupings: a grouping reads the clock *)
(* once, when it begins.  Rows come in the order of created_ts, so those   *)
(* that stand age in that order.                                           *)
TimePasses ==
  /\ pc = "idle" /\ Cardinality(aged) < MaxAged
  /\ \E e \in DOMAIN evidence \ aged :
       /\ \A d \in 1..(e - 1) : evidence[d].status = "active" => d \in aged
       /\ aged' = aged \cup {e}
  /\ UNCHANGED <<evidence, incidents, conclusions, pc, work, drawn, seen, bounds, unseen>>

-----------------------------------------------------------------------------
(***************************************************************************)
(* GroupAndReasonIncidents: the active evidence without an incident that   *)
(* came within LookbackSeconds, by time and id.                            *)
(***************************************************************************)
Earlier(d, e) ==
  evidence[d].ts < evidence[e].ts \/ (evidence[d].ts = evidence[e].ts /\ d < e)

Unassigned ==
  {e \in DOMAIN evidence \ aged : evidence[e].incident = 0 /\ evidence[e].status = "active"}

(* The rows of S, each of them once, the earlier before the later. *)
Sorted(S) ==
  {l \in [1..Cardinality(S) -> S] :
     /\ \A e \in S : \E n \in DOMAIN l : l[n] = e
     /\ \A m, n \in DOMAIN l : m < n => Earlier(l[m], l[n])}

(* A query that fails, or a cursor that ends early, where nobody looks. *)
ReadFails == failed < MaxFailed /\ failed' = failed + 1

(* rows.Err is not asked: a cursor that ends early leaves the later rows out. *)
Begin ==
  /\ pc = "idle" /\ rounds < MaxRounds
  /\ rounds' = rounds + 1
  /\ \E L \in SUBSET Unassigned :
       /\ \/ L = Unassigned /\ UNCHANGED failed
          \/ ReadFails /\ \A d \in L, e \in Unassigned \ L : Earlier(d, e)
       /\ list' \in Sorted(L)
  /\ touched' = {} /\ pc' = "choose"
  /\ unseen' = unseen \cap aged
  /\ UNCHANGED <<evidence, incidents, conclusions, chosen, drawn, seen, broken, aged>>

(* closed_ts is never set: every incident of the entity that is recent enough. *)
Open(e) ==
  {i \in DOMAIN incidents :
     incidents[i].entity = evidence[e].entity /\ incidents[i].last >= evidence[e].ts - Gap}

(* The one opened first takes the evidence, or a new one does. *)
Choose ==
  /\ pc = "choose" /\ list # <<>>
  /\ LET e == Head(list)
     IN \/ /\ Open(e) # {}
           /\ \E i \in Open(e) :
                /\ \A j \in Open(e) \ {i} :
                     \/ incidents[i].opened < incidents[j].opened
                     \/ incidents[i].opened = incidents[j].opened /\ i < j
                /\ chosen' = i
           /\ UNCHANGED incidents
        \/ /\ Open(e) = {}
           /\ incidents' = Append(incidents,
                [entity |-> evidence[e].entity, opened |-> evidence[e].ts,
                 last |-> evidence[e].ts, severity |-> evidence[e].kind.severity,
                 count |-> 0, status |-> "new", cause |-> None])
           /\ chosen' = Len(incidents')
  /\ pc' = "link"
  /\ UNCHANGED <<evidence, conclusions, list, touched, drawn, seen, bounds, aged, unseen>>

Link ==
  /\ pc = "link"
  /\ evidence' = [evidence EXCEPT ![Head(list)].incident = chosen]
  /\ pc' = "count"
  /\ UNCHANGED <<incidents, conclusions, work, drawn, seen, bounds, aged, unseen>>

(* Fault: the last event is the last one linked. *)
CountedInOrder(row, e) ==
  [row EXCEPT !.last = evidence[e].ts, !.count = @ + 1,
              !.severity = Min({@, evidence[e].kind.severity})]

Counted(row, e) ==
  [row EXCEPT !.last = Max({@, evidence[e].ts}), !.opened = Min({@, evidence[e].ts}),
              !.count = @ + 1, !.severity = Min({@, evidence[e].kind.severity})]

Count ==
  /\ pc = "count"
  /\ incidents' = [incidents EXCEPT ![chosen] = Counted(@, Head(list))]
  /\ touched' = touched \cup {chosen}
  /\ list' = Tail(list)
  /\ pc' = "choose"
  /\ UNCHANGED <<evidence, conclusions, chosen, drawn, seen, bounds, aged, unseen>>

(* Fault: incidents that lost evidence are not looked at again. *)
RetractedUnseen == {}

(* Incidents with evidence that was retracted within LookbackSeconds. *)
Retracted ==
  {i \in DOMAIN incidents : \E e \in Linked(i) \ aged : evidence[e].status = "retracted"}

(* An error of this query is passed over, and so is a row that cannot be read. *)
Grouped ==
  /\ pc = "choose" /\ list = <<>>
  /\ \E R \in SUBSET Retracted :
       /\ \/ R = Retracted /\ UNCHANGED failed
          \/ R # Retracted /\ ReadFails
       /\ touched' = touched \cup R
  /\ pc' = "reason"
  /\ UNCHANGED <<evidence, incidents, conclusions, list, chosen, drawn, seen, rounds, broken,
                 aged, unseen>>

-----------------------------------------------------------------------------
(* The trigger: the most severe, then the earliest. *)
Triggers(A) ==
  LET E == {e \in A : evidence[e].kind.role = "trigger"}
  IN {e \in E : \A d \in E \ {e} :
        \/ evidence[e].kind.severity < evidence[d].kind.severity
        \/ evidence[e].kind.severity = evidence[d].kind.severity /\ Earlier(e, d)}

(* What the evidence points to: the rule of the trigger, if there is one. *)
Causes(A) ==
  IF \A e \in A : evidence[e].kind.role # "trigger" THEN {"undetermined"}
  ELSE {evidence[e].kind.rule : e \in Triggers(A)}

(***************************************************************************)
(* reasonIncident, in any order of the incidents: the active evidence is   *)
(* read, or, where reading the incident or the evidence fails, none or     *)
(* some of it.  Without any the old conclusion stays; otherwise the new    *)
(* one is drawn in memory.                                                 *)
(***************************************************************************)
Reason ==
  /\ pc = "reason"
  /\ \E i \in touched : \E A \in SUBSET Active(i) :
       /\ \/ A = Active(i) /\ UNCHANGED failed
          \/ A # Active(i) /\ ReadFails
       /\ touched' = touched \ {i}
       /\ chosen' = i
       /\ \/ A = {} /\ UNCHANGED <<drawn, pc>>
          \/ /\ A # {}
             /\ \E c \in Causes(A) : drawn' = [cause |-> c, refs |-> A]
             /\ pc' = "supersede"
  /\ UNCHANGED <<evidence, incidents, conclusions, list, seen, rounds, broken, aged, unseen>>

(* A statement either takes effect or fails, and nobody looks. *)
Exec(effect, unchanged) ==
  \/ effect /\ UNCHANGED failed
  \/ failed < MaxFailed /\ failed' = failed + 1 /\ UNCHANGED unchanged

Superseded ==
  [k \in DOMAIN conclusions |->
     [conclusions[k] EXCEPT !.current = @ /\ conclusions[k].incident # chosen]]

Supersede ==
  /\ pc = "supersede"
  /\ Exec(conclusions' = Superseded, conclusions)
  /\ pc' = "conclude"
  /\ UNCHANGED <<evidence, incidents, work, drawn, seen, rounds, broken, aged, unseen>>

Conclude ==
  /\ pc = "conclude"
  /\ Exec(conclusions' = Append(conclusions, [incident |-> chosen, cause |-> drawn.cause,
                                              refs |-> drawn.refs, current |-> TRUE]),
          conclusions)
  /\ pc' = "store"
  /\ UNCHANGED <<evidence, incidents, work, drawn, seen, rounds, broken, aged, unseen>>

StoreCause ==
  /\ pc = "store"
  /\ Exec(incidents' = [incidents EXCEPT ![chosen].cause = drawn.cause], incidents)
  /\ pc' = "reason"
  /\ UNCHANGED <<evidence, conclusions, work, drawn, seen, rounds, broken, aged, unseen>>

End ==
  /\ pc = "reason" /\ touched = {}
  /\ pc' = "idle"
  /\ UNCHANGED <<evidence, incidents, conclusions, work, drawn, seen, bounds,
                 aged, unseen>>

(* A restart, or an error: what is in memory is gone. *)
Break ==
  /\ pc # "idle" /\ broken < MaxBroken
  /\ broken' = broken + 1
  /\ pc' = "idle" /\ list' = <<>> /\ touched' = {}
  /\ UNCHANGED <<evidence, incidents, conclusions, chosen, drawn, seen, rounds, failed, aged, unseen>>

-----------------------------------------------------------------------------
allowedTransitions == {<<"new", "ack">>, <<"new", "resolved">>, <<"ack", "resolved">>}

Look(o) ==
  /\ \E i \in DOMAIN incidents : seen' = [seen EXCEPT ![o] = <<i, incidents[i].status>>]
  /\ UNCHANGED <<evidence, incidents, conclusions, pc, work, drawn, bounds, aged, unseen>>

(* Fault: the transition is checked on what the operator sees only. *)
UpdateBlindly(o) ==
  /\ seen[o] # <<>>
  /\ \E to \in {"ack", "resolved"} :
       /\ <<seen[o][2], to>> \in allowedTransitions
       /\ incidents' = [incidents EXCEPT ![seen[o][1]].status = to]
  /\ seen' = [seen EXCEPT ![o] = <<>>]
  /\ UNCHANGED <<evidence, conclusions, pc, work, drawn, bounds, aged, unseen>>

(* UpdateIncidentStatus: only if the status is still the one on the screen. *)
UpdateIncidentStatus(o) ==
  /\ seen[o] # <<>>
  /\ \E to \in {"ack", "resolved"} :
       /\ <<seen[o][2], to>> \in allowedTransitions
       /\ \/ /\ incidents[seen[o][1]].status = seen[o][2]
             /\ incidents' = [incidents EXCEPT ![seen[o][1]].status = to]
          \/ incidents[seen[o][1]].status # seen[o][2] /\ UNCHANGED incidents
  /\ seen' = [seen EXCEPT ![o] = <<>>]
  /\ UNCHANGED <<evidence, conclusions, pc, work, drawn, bounds, aged, unseen>>

Next ==
  \/ Arrive \/ Retract \/ TimePasses
  \/ Begin \/ Choose \/ Link \/ Count \/ Grouped
  \/ Reason \/ Supersede \/ Conclude \/ StoreCause \/ End \/ Break
  \/ \E o \in Operators : Look(o) \/ UpdateIncidentStatus(o)

Spec == Init /\ [][Next]_vars

-----------------------------------------------------------------------------
TypeOK ==
  /\ \A e \in DOMAIN evidence : evidence[e].incident \in 0..Len(incidents)
  /\ \A i \in DOMAIN incidents :
       /\ incidents[i].status \in {"new", "ack", "resolved"}
       /\ incidents[i].opened \in Times /\ incidents[i].last \in Times
       /\ incidents[i].count \in 0..Len(evidence)
  /\ \A k \in DOMAIN conclusions : conclusions[k].incident \in DOMAIN incidents
  /\ pc \in {"idle", "choose", "link", "count", "reason", "supersede", "conclude", "store"}
  /\ touched \subseteq DOMAIN incidents

(***************************************************************************)
(* Between groupings, none of them cut off, the counters of an incident    *)
(* are those of its evidence, whatever order it came in.                   *)
(***************************************************************************)
TotalsMatch ==
  pc = "idle" /\ broken = 0 =>
    \A i \in DOMAIN incidents :
      LET T == {evidence[e].ts : e \in Linked(i)}
      IN /\ incidents[i].count = Cardinality(Linked(i))
         /\ incidents[i].opened = Min(T) /\ incidents[i].last = Max(T)
         /\ incidents[i].severity = Min({evidence[e].kind.severity : e \in Linked(i)})

(***************************************************************************)
(* Each restart loses at most the count of the one row it fell on, and no  *)
(* row is counted twice.                                                   *)
(***************************************************************************)
CountLags ==
  \E Lost \in SUBSET {e \in DOMAIN evidence : evidence[e].incident # 0} :
    /\ Cardinality(Lost) <= broken + (IF pc = "count" THEN 1 ELSE 0)
    /\ \A i \in DOMAIN incidents : incidents[i].count = Cardinality(Linked(i) \ Lost)

(***************************************************************************)
(* An incident has one current conclusion at most, whatever restart falls  *)
(* between the statements; each failed statement leaves at most one more.  *)
(***************************************************************************)
OneCurrentConclusion ==
  \A i \in DOMAIN incidents :
    Cardinality({k \in DOMAIN conclusions :
                   conclusions[k].current /\ conclusions[k].incident = i}) <= 1 + failed

(***************************************************************************)
(* After a grouping that was not cut off, the incident and its current     *)
(* conclusion name the cause that the evidence still standing points to,   *)
(* retracted evidence left out, except where none is left - and except     *)
(* where no grouping came within LookbackSeconds of a retraction: no later *)
(* one looks for it, and the conclusion stands on what was retracted.      *)
(***************************************************************************)
ConclusionsStand ==
  pc = "idle" /\ broken = 0 /\ failed = 0 =>
    \A i \in DOMAIN incidents : Active(i) # {} /\ Linked(i) \cap unseen = {} =>
      /\ incidents[i].cause \in Causes(Active(i))
      /\ \E k \in DOMAIN conclusions :
           /\ conclusions[k].current /\ conclusions[k].incident = i
           /\ conclusions[k].cause = incidents[i].cause /\ conclusions[k].refs = Active(i)

(***************************************************************************)
(* When evidence comes in order and no grouping is cut off, an incident    *)
(* has no silence longer than GapSeconds in it, and two incidents of one   *)
(* entity are that far apart.                                              *)
(***************************************************************************)
GapKept ==
  broken = 0 =>
  \A d, e \in DOMAIN evidence :
    /\ evidence[d].incident # 0 /\ evidence[e].incident # 0
    /\ evidence[d].entity = evidence[e].entity /\ Earlier(d, e)
    /\ \A x \in DOMAIN evidence :
         evidence[x].entity = evidence[d].entity => ~(Earlier(d, x) /\ Earlier(x, e))
    => (evidence[d].incident = evidence[e].incident <=> evidence[e].ts - evidence[d].ts <= Gap)

(* What is said of the rows of an incident, and of its conclusions. *)
FollowsEvidence == TypeOK /\ TotalsMatch /\ CountLags
Concludes == ConclusionsStand /\ OneCurrentConclusion

(* Evidence once linked stays with its incident. *)
LinksStay ==
  \A e \in DOMAIN evidence :
    evidence[e].incident # 0 => evidence'[e].incident = evidence[e].incident
LinkedForGood == [][LinksStay]_vars

(***************************************************************************)
(* What an operator decided is never undone, by another operator with an   *)
(* old page or by the grouping: an incident only moves forward.            *)
(***************************************************************************)
StatusMoves ==
  \A i \in DOMAIN incidents :
    \/ incidents'[i].status = incidents[i].status
    \/ <<incidents[i].status, incidents'[i].status>> \in allowedTransitions
DecisionsStand == [][StatusMoves]_vars

-----------------------------------------------------------------------------
(***************************************************************************)
(* What follows is proved for any evidence, entities, times and gap, any   *)
(* number of operators and any number of groupings cut off or failed.      *)
(***************************************************************************)
Statuses == {"new", "ack", "resolved"}
CauseNames == {None, "undetermined"} \cup {k.rule : k \in Kinds}

EvidenceRow ==
  [kind : Kinds, entity : Entities, ts : Times, status : {"active", "retracted"}, incident : Nat]
IncidentRow ==
  [entity : Entities, opened : Times, last : Times, severity : Nat, count : Nat,
   status : Statuses, cause : CauseNames]
ConclusionRow == [incident : Nat, cause : CauseNames, refs : SUBSET Nat, current : BOOLEAN]

Typed ==
  /\ evidence \in Seq(EvidenceRow) /\ incidents \in Seq(IncidentRow)
  /\ conclusions \in Seq(ConclusionRow)
  /\ \A e \in DOMAIN evidence : evidence[e].incident <= Len(incidents)
  /\ \A k \in DOMAIN conclusions : conclusions[k].incident \in DOMAIN incidents
  /\ pc \in {"idle", "choose", "link", "count", "reason", "supersede", "conclude", "store"}
  /\ list \in Seq(Nat) /\ \A n \in DOMAIN list : list[n] \in DOMAIN evidence
  /\ pc \in {"link", "count"} => list # <<>>
  /\ pc \in {"link", "count", "supersede", "conclude", "store"} => chosen \in DOMAIN incidents
  /\ touched \subseteq DOMAIN incidents
  /\ drawn \in [cause : CauseNames, refs : SUBSET Nat]
  /\ broken \in Nat /\ failed \in Nat

LEMMA Rows ==
  ASSUME Typed
  PROVE  /\ Len(evidence) \in Nat /\ DOMAIN evidence = 1..Len(evidence)
         /\ \A e \in DOMAIN evidence : evidence[e] \in EvidenceRow
         /\ Len(incidents) \in Nat /\ DOMAIN incidents = 1..Len(incidents)
         /\ \A i \in DOMAIN incidents : incidents[i] \in IncidentRow
         /\ Len(conclusions) \in Nat /\ DOMAIN conclusions = 1..Len(conclusions)
         /\ \A k \in DOMAIN conclusions : conclusions[k] \in ConclusionRow
<1>1. evidence \in Seq(EvidenceRow) /\ incidents \in Seq(IncidentRow) /\ conclusions \in Seq(ConclusionRow)
  BY DEF Typed
<1> HIDE DEF Typed
<1> QED BY <1>1

LEMMA ReplacedRow ==
  ASSUME NEW R, NEW s \in Seq(R), NEW i \in DOMAIN s, NEW row \in R,
         NEW t, t = [s EXCEPT ![i] = row]
  PROVE  t \in Seq(R) /\ Len(t) = Len(s) /\ DOMAIN t = DOMAIN s
         /\ \A j \in DOMAIN s : t[j] = IF j = i THEN row ELSE s[j]
<1>1. DOMAIN s = 1..Len(s) /\ Len(s) \in Nat /\ \A j \in DOMAIN s : s[j] \in R
  OBVIOUS
<1>2. t \in [1..Len(s) -> R]
  BY <1>1
<1> QED BY <1>1, <1>2

LEMMA TypedFirst == IncidentsAssumption /\ Init => Typed
<1> SUFFICES ASSUME IncidentsAssumption, Init PROVE Typed
  OBVIOUS
<1>1. evidence = <<>> /\ incidents = <<>> /\ conclusions = <<>> /\ list = <<>>
  BY DEF Init
<1>2. drawn \in [cause : CauseNames, refs : SUBSET Nat]
  BY DEF Init, CauseNames
<1> QED BY <1>1, <1>2 DEF Init, Typed

(* What a step may do to evidence: a new row, a retraction, or a link. *)
Came == \E row \in EvidenceRow : row.incident = 0 /\ row.status = "active" /\ evidence' = Append(evidence, row)

LEMMA ArriveAdds == IncidentsAssumption /\ Arrive => Came
BY DEF Arrive, Came, EvidenceRow

LEMMA ArriveTyped == ASSUME IncidentsAssumption, Typed, Arrive PROVE Typed'
<1>1. PICK row \in EvidenceRow : row.incident = 0 /\ evidence' = Append(evidence, row)
  BY ArriveAdds DEF Came
<1>2. evidence' \in Seq(EvidenceRow) /\ Len(evidence') = Len(evidence) + 1
  BY <1>1 DEF Typed
<1>3. \A e \in DOMAIN evidence : e \in DOMAIN evidence' /\ evidence'[e] = evidence[e]
  BY <1>1, <1>2 DEF Typed
<1>4. \A e \in DOMAIN evidence' : e \in DOMAIN evidence \/ evidence'[e] = row
  BY <1>1, <1>2 DEF Typed
<1>5. \A e \in DOMAIN evidence' : evidence'[e].incident <= Len(incidents)
  BY <1>1, <1>3, <1>4 DEF Typed
<1>6. UNCHANGED <<incidents, conclusions, pc, work, drawn, seen, bounds>>
  BY DEF Arrive
<1> QED BY <1>2, <1>3, <1>5, <1>6 DEF Typed, work, bounds

LEMMA RetractTyped == ASSUME IncidentsAssumption, Typed, Retract PROVE Typed'
<1>1. PICK e \in DOMAIN evidence : evidence' = [evidence EXCEPT ![e].status = "retracted"]
  BY DEF Retract
<1> DEFINE row == [evidence[e] EXCEPT !.status = "retracted"]
<1>a. evidence[e] \in EvidenceRow /\ evidence \in Seq(EvidenceRow)
  BY Rows DEF Typed
<1>b. row \in EvidenceRow /\ row.incident = evidence[e].incident
  BY <1>a DEF EvidenceRow
<1>c. evidence' = [evidence EXCEPT ![e] = row]
  BY <1>1
<1> HIDE DEF row
<1>2. evidence' \in Seq(EvidenceRow) /\ Len(evidence') = Len(evidence) /\ DOMAIN evidence' = DOMAIN evidence
      /\ \A d \in DOMAIN evidence : evidence'[d] = IF d = e THEN row ELSE evidence[d]
  BY <1>a, <1>b, <1>c, ReplacedRow
<1>3. \A d \in DOMAIN evidence : evidence'[d].incident = evidence[d].incident
  BY <1>b, <1>2
<1>4. UNCHANGED <<incidents, conclusions, pc, list, chosen, touched, drawn, seen, broken, failed>>
  BY DEF Retract, work, bounds
<1> QED BY <1>2, <1>3, <1>4 DEF Typed

LEMMA TimeTyped == ASSUME IncidentsAssumption, Typed, TimePasses PROVE Typed'
<1>1. UNCHANGED <<evidence, incidents, conclusions, pc, list, chosen, touched, drawn, broken, failed>>
  BY DEF TimePasses, work, bounds
<1> QED BY <1>1 DEF Typed

LEMMA BeginTyped == ASSUME IncidentsAssumption, Typed, Begin PROVE Typed'
<1>1. PICK L \in SUBSET Unassigned : list' \in Sorted(L)
  BY DEF Begin
<1>a. /\ touched' = {} /\ pc' = "choose" /\ failed' \in {failed, failed + 1}
      /\ UNCHANGED <<evidence, incidents, conclusions, chosen, drawn, seen, broken>>
  BY DEF Begin, ReadFails
<1>2. IsFiniteSet(L) /\ L \subseteq DOMAIN evidence /\ L \subseteq Nat
  <2>1. DOMAIN evidence = 1..Len(evidence) /\ Len(evidence) \in Nat
    BY DEF Typed
  <2>2. IsFiniteSet(1..Len(evidence))
    BY <2>1, FS_Interval
  <2>3. L \subseteq 1..Len(evidence)
    BY <2>1 DEF Unassigned
  <2>4. IsFiniteSet(L)
    BY <2>2, <2>3, FS_Subset
  <2> QED BY <2>1, <2>3, <2>4
<1>3. Cardinality(L) \in Nat
  BY <1>2, FS_CardinalityType
<1>4. list' \in [1..Cardinality(L) -> L]
  BY <1>1 DEF Sorted
<1>5. list' \in Seq(Nat) /\ \A n \in DOMAIN list' : list'[n] \in DOMAIN evidence
  BY <1>2, <1>3, <1>4
<1>6. failed' \in Nat
  BY <1>a DEF Typed
<1> QED BY <1>a, <1>5, <1>6 DEF Typed

LEMMA ChooseTyped == ASSUME IncidentsAssumption, Typed, Choose PROVE Typed'
<1> DEFINE e == Head(list)
           new == [entity |-> evidence[e].entity, opened |-> evidence[e].ts, last |-> evidence[e].ts,
                   severity |-> evidence[e].kind.severity, count |-> 0, status |-> "new", cause |-> None]
<1>1. e \in DOMAIN evidence /\ list # <<>>
  BY DEF Choose, Typed
<1>2. evidence[e] \in EvidenceRow /\ evidence[e].kind.severity \in Nat
  <2>1. evidence[e] \in EvidenceRow
    BY <1>1, Rows
  <2> QED BY <2>1 DEF EvidenceRow, IncidentsAssumption
<1>3. pc' = "link" /\ UNCHANGED <<evidence, conclusions, list, touched, drawn, seen, broken, failed>>
  BY DEF Choose, bounds
<1>4. CASE UNCHANGED incidents /\ chosen' \in Open(e)
  <2>1. chosen' \in DOMAIN incidents
    BY <1>4 DEF Open
  <2> QED BY <1>1, <1>3, <1>4, <2>1 DEF Typed
<1>5. CASE incidents' = Append(incidents, new) /\ chosen' = Len(incidents')
  <2>1. new \in IncidentRow
    BY <1>2 DEF EvidenceRow, IncidentRow, Statuses, CauseNames
  <2> HIDE DEF new
  <2>2. incidents' \in Seq(IncidentRow) /\ Len(incidents') = Len(incidents) + 1 /\ Len(incidents) \in Nat
    BY <1>5, <2>1 DEF Typed
  <2>3. DOMAIN incidents = 1..Len(incidents) /\ DOMAIN incidents' = 1..Len(incidents')
    BY <2>2 DEF Typed
  <2>4. DOMAIN incidents \subseteq DOMAIN incidents' /\ chosen' \in DOMAIN incidents'
    BY <1>5, <2>2, <2>3
  <2>5. \A d \in DOMAIN evidence : evidence[d].incident <= Len(incidents')
    <3>1. \A d \in DOMAIN evidence : evidence[d].incident \in Nat /\ evidence[d].incident <= Len(incidents)
      BY Rows DEF Typed, EvidenceRow
    <3> QED BY <2>2, <3>1
  <2> QED BY <1>1, <1>3, <2>2, <2>4, <2>5 DEF Typed
<1> QED BY <1>4, <1>5 DEF Choose

LEMMA LinkTyped == ASSUME IncidentsAssumption, Typed, Link PROVE Typed'
<1>1. Head(list) \in DOMAIN evidence /\ chosen \in Nat /\ chosen <= Len(incidents)
  BY DEF Link, Typed
<1>2. evidence' = [evidence EXCEPT ![Head(list)].incident = chosen] /\ pc' = "count"
      /\ UNCHANGED <<incidents, conclusions, list, chosen, touched, drawn, seen, broken, failed>>
  BY DEF Link, work, bounds
<1> DEFINE e == Head(list)
           row == [evidence[e] EXCEPT !.incident = chosen]
<1>a. evidence[e] \in EvidenceRow /\ evidence \in Seq(EvidenceRow)
  BY <1>1, Rows DEF Typed
<1>b. row \in EvidenceRow /\ row.incident = chosen
  BY <1>a, <1>1 DEF EvidenceRow
<1>c. evidence' = [evidence EXCEPT ![e] = row]
  BY <1>2
<1> HIDE DEF row
<1>3. evidence' \in Seq(EvidenceRow) /\ Len(evidence') = Len(evidence) /\ DOMAIN evidence' = DOMAIN evidence
      /\ \A d \in DOMAIN evidence : evidence'[d] = IF d = e THEN row ELSE evidence[d]
  BY <1>1, <1>a, <1>b, <1>c, ReplacedRow
<1>4. \A d \in DOMAIN evidence' : evidence'[d].incident <= Len(incidents)
  BY <1>1, <1>b, <1>3 DEF Typed
<1> QED BY <1>1, <1>2, <1>3, <1>4 DEF Typed, Link

LEMMA LeastOfTwo == ASSUME NEW a \in Nat, NEW b \in Nat PROVE Min({a, b}) = IF a <= b THEN a ELSE b
BY DEF Min

LEMMA GreatestOfTwo == ASSUME NEW a \in Nat, NEW b \in Nat PROVE Max({a, b}) = IF a >= b THEN a ELSE b
BY DEF Max

(* The row of the incident at hand after it is counted. *)
LEMMA CountedRow ==
  ASSUME IncidentsAssumption, NEW row \in IncidentRow, NEW e, evidence[e] \in EvidenceRow
  PROVE  /\ Counted(row, e) \in IncidentRow
         /\ Counted(row, e).count = row.count + 1
         /\ Counted(row, e).opened = IF row.opened <= evidence[e].ts THEN row.opened ELSE evidence[e].ts
         /\ Counted(row, e).last = IF row.last >= evidence[e].ts THEN row.last ELSE evidence[e].ts
         /\ Counted(row, e).severity =
              IF row.severity <= evidence[e].kind.severity THEN row.severity ELSE evidence[e].kind.severity
         /\ Counted(row, e).status = row.status /\ Counted(row, e).entity = row.entity
         /\ Counted(row, e).cause = row.cause
<1>1. /\ row.opened \in Nat /\ row.last \in Nat /\ row.severity \in Nat /\ row.count \in Nat
      /\ evidence[e].ts \in Nat /\ evidence[e].kind.severity \in Nat /\ evidence[e].ts \in Times
      /\ row.opened \in Times /\ row.last \in Times
  BY DEF IncidentRow, EvidenceRow, IncidentsAssumption
<1>2. Counted(row, e) =
        [row EXCEPT !.last = IF row.last >= evidence[e].ts THEN row.last ELSE evidence[e].ts,
                    !.opened = IF row.opened <= evidence[e].ts THEN row.opened ELSE evidence[e].ts,
                    !.count = row.count + 1,
                    !.severity = IF row.severity <= evidence[e].kind.severity THEN row.severity
                                 ELSE evidence[e].kind.severity]
  BY <1>1, LeastOfTwo, GreatestOfTwo DEF Counted
<1>3. Counted(row, e) =
        [entity |-> row.entity,
         opened |-> IF row.opened <= evidence[e].ts THEN row.opened ELSE evidence[e].ts,
         last |-> IF row.last >= evidence[e].ts THEN row.last ELSE evidence[e].ts,
         severity |-> IF row.severity <= evidence[e].kind.severity THEN row.severity
                      ELSE evidence[e].kind.severity,
         count |-> row.count + 1, status |-> row.status, cause |-> row.cause]
  BY <1>2 DEF IncidentRow
<1>4. row.entity \in Entities /\ row.status \in Statuses /\ row.cause \in CauseNames
  BY DEF IncidentRow
<1>5. Counted(row, e) \in IncidentRow
  BY <1>1, <1>3, <1>4 DEF IncidentRow
<1> QED BY <1>3, <1>5

LEMMA CountTyped == ASSUME IncidentsAssumption, Typed, Count PROVE Typed'
<1>1. Head(list) \in DOMAIN evidence /\ chosen \in DOMAIN incidents /\ list # <<>>
  BY DEF Count, Typed
<1>2. incidents' = [incidents EXCEPT ![chosen] = Counted(incidents[chosen], Head(list))] /\ pc' = "choose"
      /\ touched' = touched \cup {chosen} /\ list' = Tail(list)
      /\ UNCHANGED <<evidence, conclusions, chosen, drawn, seen, broken, failed>>
  BY DEF Count, bounds
<1>3. incidents[chosen] \in IncidentRow /\ evidence[Head(list)] \in EvidenceRow
  BY <1>1, Rows
<1>4. Counted(incidents[chosen], Head(list)) \in IncidentRow
  BY <1>3, CountedRow
<1>5. incidents' \in Seq(IncidentRow) /\ Len(incidents') = Len(incidents) /\ DOMAIN incidents' = DOMAIN incidents
  <2>1. incidents \in Seq(IncidentRow)
    BY DEF Typed
  <2> QED BY <1>1, <1>2, <1>4, <2>1, ReplacedRow
<1>6. list' \in Seq(Nat) /\ \A n \in DOMAIN list' : list'[n] \in DOMAIN evidence
  BY <1>1, <1>2 DEF Typed
<1> QED BY <1>1, <1>2, <1>5, <1>6 DEF Typed

LEMMA GroupedTyped == ASSUME IncidentsAssumption, Typed, Grouped PROVE Typed'
<1>1. /\ pc' = "reason" /\ failed' \in {failed, failed + 1}
      /\ touched' \subseteq touched \cup Retracted
      /\ UNCHANGED <<evidence, incidents, conclusions, list, chosen, drawn, seen, broken>>
  BY DEF Grouped, ReadFails
<1>2. Retracted \subseteq DOMAIN incidents
  BY DEF Retracted
<1>3. failed' \in Nat /\ touched' \subseteq DOMAIN incidents
  BY <1>1, <1>2 DEF Typed
<1> QED BY <1>1, <1>3 DEF Typed

LEMMA ReasonTyped == ASSUME IncidentsAssumption, Typed, Reason PROVE Typed'
<1>1. PICK i \in touched : \E A \in SUBSET Active(i) :
        /\ touched' = touched \ {i} /\ chosen' = i
        /\ \/ UNCHANGED <<drawn, pc>>
           \/ /\ \E c \in Causes(A) : drawn' = [cause |-> c, refs |-> A]
              /\ pc' = "supersede"
  BY DEF Reason
<1>2. PICK A \in SUBSET Active(i) :
        /\ touched' = touched \ {i} /\ chosen' = i
        /\ \/ UNCHANGED <<drawn, pc>>
           \/ /\ \E c \in Causes(A) : drawn' = [cause |-> c, refs |-> A]
              /\ pc' = "supersede"
  BY <1>1
<1>3. A \subseteq DOMAIN evidence /\ A \subseteq Nat
  BY DEF Active, Linked, Typed
<1>4. Causes(A) \subseteq CauseNames
  <2>1. \A e \in A : evidence[e].kind \in Kinds
    BY <1>3, Rows DEF EvidenceRow
  <2>2. Triggers(A) \subseteq A
    BY DEF Triggers
  <2>3. {evidence[e].kind.rule : e \in Triggers(A)} \subseteq {k.rule : k \in Kinds}
    BY <2>1, <2>2
  <2> QED BY <2>3 DEF Causes, CauseNames
<1>5. drawn' \in [cause : CauseNames, refs : SUBSET Nat]
  BY <1>2, <1>3, <1>4 DEF Typed
<1>6. /\ pc' \in {"reason", "supersede"} /\ failed' \in {failed, failed + 1}
      /\ UNCHANGED <<evidence, incidents, conclusions, list, seen, broken>>
  BY <1>2 DEF Reason, ReadFails
<1>7. failed' \in Nat
  BY <1>6 DEF Typed
<1> QED BY <1>2, <1>5, <1>6, <1>7 DEF Typed

LEMMA ReasoningTyped ==
  ASSUME IncidentsAssumption, Typed, Supersede \/ Conclude \/ StoreCause PROVE Typed'
<1>1. /\ pc' \in {"conclude", "store", "reason"} /\ chosen \in DOMAIN incidents
      /\ UNCHANGED <<evidence, list, chosen, touched, drawn, seen, broken>>
  BY DEF Supersede, Conclude, StoreCause, work, Typed
<1>2. failed' \in Nat
  BY DEF Supersede, Conclude, StoreCause, Exec, Typed
<1>3. /\ incidents' \in Seq(IncidentRow) /\ Len(incidents') = Len(incidents)
      /\ DOMAIN incidents' = DOMAIN incidents
  <2>1. CASE UNCHANGED incidents
    BY <2>1 DEF Typed
  <2>2. CASE incidents' = [incidents EXCEPT ![chosen].cause = drawn.cause]
    <3> DEFINE row == [incidents[chosen] EXCEPT !.cause = drawn.cause]
    <3>1. drawn.cause \in CauseNames /\ incidents[chosen] \in IncidentRow /\ incidents \in Seq(IncidentRow)
      BY <1>1, Rows DEF Typed
    <3>2. row \in IncidentRow
      BY <3>1 DEF IncidentRow
    <3>3. incidents' = [incidents EXCEPT ![chosen] = row]
      BY <2>2
    <3> HIDE DEF row
    <3> QED BY <1>1, <3>1, <3>2, <3>3, ReplacedRow
  <2> QED BY <2>1, <2>2 DEF Supersede, Conclude, StoreCause, Exec
<1>4. conclusions' \in Seq(ConclusionRow) /\ \A k \in DOMAIN conclusions' : conclusions'[k].incident \in DOMAIN incidents
  <2>1. CASE UNCHANGED conclusions
    BY <2>1 DEF Typed
  <2>2. CASE conclusions' = Superseded
    <3> DEFINE row(k) == [conclusions[k] EXCEPT !.current = @ /\ conclusions[k].incident # chosen]
    <3>1. \A k \in DOMAIN conclusions :
            row(k) \in ConclusionRow /\ row(k).incident = conclusions[k].incident
      BY Rows DEF ConclusionRow
    <3>2. conclusions' = [k \in 1..Len(conclusions) |-> row(k)]
      BY <2>2, Rows DEF Superseded
    <3> HIDE DEF row
    <3>3. DOMAIN conclusions = 1..Len(conclusions) /\ Len(conclusions) \in Nat
      BY Rows
    <3>4. conclusions' \in Seq(ConclusionRow) /\ DOMAIN conclusions' = DOMAIN conclusions
      BY <3>1, <3>2, <3>3
    <3>5. \A k \in DOMAIN conclusions' : conclusions'[k].incident = conclusions[k].incident
      BY <3>1, <3>2, <3>3
    <3> QED BY <3>4, <3>5 DEF Typed
  <2>3. CASE Conclude /\ conclusions' # conclusions
    <3> DEFINE new == [incident |-> chosen, cause |-> drawn.cause, refs |-> drawn.refs, current |-> TRUE]
    <3>1. new \in ConclusionRow /\ new.incident \in DOMAIN incidents
      BY <1>1 DEF ConclusionRow, Typed
    <3>2. conclusions' = Append(conclusions, new)
      BY <2>3 DEF Conclude, Exec
    <3> HIDE DEF new
    <3> QED BY <3>1, <3>2 DEF Typed
  <2> QED BY <2>1, <2>2, <2>3 DEF Supersede, Conclude, StoreCause, Exec
<1> QED BY <1>1, <1>2, <1>3, <1>4 DEF Typed

LEMMA EndingTyped == ASSUME IncidentsAssumption, Typed, End \/ Break PROVE Typed'
<1>1. /\ pc' = "idle" /\ UNCHANGED <<evidence, incidents, conclusions, chosen, drawn, seen, failed>>
      /\ touched' \subseteq touched /\ broken' \in Nat
      /\ list' = list \/ list' = <<>>
  BY DEF End, Break, bounds, work, Typed
<1>2. list' \in Seq(Nat) /\ \A n \in DOMAIN list' : list'[n] \in DOMAIN evidence
  <2>1. CASE list' = list
    BY <2>1 DEF Typed
  <2>2. CASE list' = <<>>
    BY <2>2
  <2> QED BY <1>1, <2>1, <2>2
<1>3. touched' \subseteq DOMAIN incidents
  BY <1>1 DEF Typed
<1> QED BY <1>1, <1>2, <1>3 DEF Typed

LEMMA OperatorTyped ==
  ASSUME IncidentsAssumption, Typed, NEW o \in Operators, Look(o) \/ UpdateIncidentStatus(o)
  PROVE  Typed'
<1>1. UNCHANGED <<evidence, conclusions, pc, list, chosen, touched, drawn, broken, failed>>
  BY DEF Look, UpdateIncidentStatus, work, bounds
<1>2. \/ UNCHANGED incidents
      \/ \E i, to : to \in Statuses /\ incidents' = [incidents EXCEPT ![i].status = to]
  BY DEF Look, UpdateIncidentStatus, Statuses
<1>3. incidents' \in Seq(IncidentRow) /\ Len(incidents') = Len(incidents) /\ DOMAIN incidents' = DOMAIN incidents
  <2>0. incidents \in Seq(IncidentRow)
    BY DEF Typed
  <2>1. CASE UNCHANGED incidents
    BY <2>0, <2>1
  <2>2. ASSUME NEW i, NEW to \in Statuses, incidents' = [incidents EXCEPT ![i].status = to]
        PROVE  incidents' \in Seq(IncidentRow) /\ Len(incidents') = Len(incidents)
               /\ DOMAIN incidents' = DOMAIN incidents
    <3> DEFINE row == [incidents[i] EXCEPT !.status = to]
    <3>1. CASE i \in DOMAIN incidents
      <4>1. incidents[i] \in IncidentRow
        BY <3>1, Rows
      <4>2. row \in IncidentRow
        BY <4>1 DEF IncidentRow
      <4>3. incidents' = [incidents EXCEPT ![i] = row]
        BY <2>2
      <4> HIDE DEF row
      <4> QED BY <2>0, <3>1, <4>2, <4>3, ReplacedRow
    <3>2. CASE i \notin DOMAIN incidents
      <4>1. incidents' = incidents
        BY <2>0, <2>2, <3>2
      <4> QED BY <2>0, <4>1
    <3> QED BY <3>1, <3>2
  <2> QED BY <1>2, <2>1, <2>2
<1> QED BY <1>1, <1>3 DEF Typed

LEMMA TypedStays == IncidentsAssumption /\ Typed /\ [Next]_vars => Typed'
<1> SUFFICES ASSUME IncidentsAssumption, Typed, [Next]_vars PROVE Typed'
  OBVIOUS
<1>1. CASE UNCHANGED vars
  <2>1. UNCHANGED <<evidence, incidents, conclusions, pc, list, chosen, touched, drawn, broken, failed>>
    BY <1>1 DEF vars, work, bounds
  <2> QED BY <2>1 DEF Typed
<1> QED BY <1>1, ArriveTyped, RetractTyped, TimeTyped, BeginTyped, ChooseTyped, LinkTyped, CountTyped, GroupedTyped,
           ReasonTyped, ReasoningTyped, EndingTyped, OperatorTyped DEF Next

-----------------------------------------------------------------------------
(* What a step does to the rows of evidence, and what the grouping holds.  *)
SameRow(d) ==
  /\ evidence'[d].kind = evidence[d].kind /\ evidence'[d].entity = evidence[d].entity
  /\ evidence'[d].ts = evidence[d].ts

LEMMA ArriveRows ==
  ASSUME IncidentsAssumption, Typed, Arrive
  PROVE  /\ Len(evidence') = Len(evidence) + 1
         /\ DOMAIN evidence' = DOMAIN evidence \cup {Len(evidence')}
         /\ \A d \in DOMAIN evidence : evidence'[d] = evidence[d] /\ d < Len(evidence')
         /\ evidence'[Len(evidence')].incident = 0
         /\ evidence'[Len(evidence')].status = "active"
         /\ evidence'[Len(evidence')] \in EvidenceRow
<1>1. PICK row \in EvidenceRow :
        row.incident = 0 /\ row.status = "active" /\ evidence' = Append(evidence, row)
  BY ArriveAdds DEF Came
<1>2. evidence \in Seq(EvidenceRow) /\ Len(evidence) \in Nat /\ DOMAIN evidence = 1..Len(evidence)
  BY Rows DEF Typed
<1> QED BY <1>1, <1>2

LEMMA RetractRows ==
  ASSUME IncidentsAssumption, Typed, Retract
  PROVE  /\ DOMAIN evidence' = DOMAIN evidence
         /\ \A d \in DOMAIN evidence : SameRow(d) /\ evidence'[d].incident = evidence[d].incident
         /\ \E e \in DOMAIN evidence :
              /\ evidence[e].status = "active" /\ evidence'[e].status = "retracted"
              /\ \A d \in DOMAIN evidence \ {e} : evidence'[d] = evidence[d]
<1>1. PICK e \in DOMAIN evidence : /\ evidence[e].status = "active"
                                   /\ evidence' = [evidence EXCEPT ![e].status = "retracted"]
  BY DEF Retract
<1> DEFINE row == [evidence[e] EXCEPT !.status = "retracted"]
<1>2. evidence[e] \in EvidenceRow /\ evidence \in Seq(EvidenceRow)
  BY Rows DEF Typed
<1>3. /\ row \in EvidenceRow /\ row.incident = evidence[e].incident /\ row.status = "retracted"
      /\ row.kind = evidence[e].kind /\ row.entity = evidence[e].entity /\ row.ts = evidence[e].ts
  BY <1>2 DEF EvidenceRow
<1>4. evidence' = [evidence EXCEPT ![e] = row]
  BY <1>1
<1> HIDE DEF row
<1>5. DOMAIN evidence' = DOMAIN evidence
      /\ \A d \in DOMAIN evidence : evidence'[d] = IF d = e THEN row ELSE evidence[d]
  BY <1>2, <1>3, <1>4, ReplacedRow
<1> QED BY <1>1, <1>3, <1>5 DEF SameRow

LEMMA LinkRows ==
  ASSUME IncidentsAssumption, Typed, Link
  PROVE  /\ DOMAIN evidence' = DOMAIN evidence /\ Head(list) \in DOMAIN evidence
         /\ Len(evidence') = Len(evidence)
         /\ \A d \in DOMAIN evidence : SameRow(d) /\ evidence'[d].status = evidence[d].status
         /\ evidence'[Head(list)].incident = chosen
         /\ \A d \in DOMAIN evidence \ {Head(list)} : evidence'[d] = evidence[d]
<1> DEFINE e == Head(list)
           row == [evidence[e] EXCEPT !.incident = chosen]
<1>1. e \in DOMAIN evidence /\ chosen \in Nat
  BY Rows DEF Link, Typed
<1>2. evidence[e] \in EvidenceRow /\ evidence \in Seq(EvidenceRow)
  BY <1>1, Rows DEF Typed
<1>3. /\ row \in EvidenceRow /\ row.incident = chosen /\ row.status = evidence[e].status
      /\ row.kind = evidence[e].kind /\ row.entity = evidence[e].entity /\ row.ts = evidence[e].ts
  BY <1>1, <1>2 DEF EvidenceRow
<1>4. evidence' = [evidence EXCEPT ![e] = row]
  BY DEF Link
<1> HIDE DEF row
<1>5. DOMAIN evidence' = DOMAIN evidence /\ Len(evidence') = Len(evidence)
      /\ \A d \in DOMAIN evidence : evidence'[d] = IF d = e THEN row ELSE evidence[d]
  BY <1>1, <1>2, <1>3, <1>4, ReplacedRow
<1> QED BY <1>1, <1>3, <1>5 DEF SameRow

OtherSteps ==
  \/ TimePasses \/ Begin \/ Choose \/ Count \/ Grouped \/ Reason \/ Supersede \/ Conclude \/ StoreCause \/ End \/ Break
  \/ \E o \in Operators : Look(o) \/ UpdateIncidentStatus(o)

LEMMA OtherRows == OtherSteps => UNCHANGED evidence
<1>1. Begin \/ Choose \/ Count \/ Grouped => UNCHANGED evidence
  BY DEF Begin, Choose, Count, Grouped
<1>2. Reason \/ Supersede \/ Conclude \/ StoreCause => UNCHANGED evidence
  BY DEF Reason, Supersede, Conclude, StoreCause
<1>3. TimePasses \/ End \/ Break \/ (\E o \in Operators : Look(o) \/ UpdateIncidentStatus(o))
        => UNCHANGED evidence
  BY DEF TimePasses, End, Break, Look, UpdateIncidentStatus
<1> QED BY <1>1, <1>2, <1>3 DEF OtherSteps

LEMMA StepsAre == Next => Arrive \/ Retract \/ Link \/ OtherSteps
BY DEF Next, OtherSteps

(* No row goes, and none changes in what it says or when. *)
LEMMA RowsStay ==
  ASSUME IncidentsAssumption, Typed, Next, NEW d \in DOMAIN evidence
  PROVE  d \in DOMAIN evidence' /\ SameRow(d)
<1>1. CASE Arrive
  BY <1>1, ArriveRows DEF SameRow
<1>2. CASE Retract
  BY <1>2, RetractRows
<1>3. CASE Link
  BY <1>3, LinkRows
<1>4. CASE OtherSteps
  BY <1>4, OtherRows DEF SameRow
<1> QED BY <1>1, <1>2, <1>3, <1>4, StepsAre

LEMMA EarlierStays ==
  ASSUME IncidentsAssumption, Typed, Next, NEW d \in DOMAIN evidence, NEW e \in DOMAIN evidence
  PROVE  Earlier(d, e) <=> Earlier(d, e)'
BY RowsStay DEF SameRow, Earlier

(* The list is what is left to link, the earliest first. *)
ListSorted == \A m, n \in DOMAIN list : m < n => Earlier(list[m], list[n])
ListInv ==
  /\ ListSorted
  /\ pc \in {"choose", "link"} => \A n \in DOMAIN list : evidence[list[n]].incident = 0
  /\ pc = "count" => /\ evidence[Head(list)].incident = chosen
                     /\ \A n \in DOMAIN list \ {1} : evidence[list[n]].incident = 0

LEMMA ListFirst == Init => ListInv
BY DEF Init, ListInv, ListSorted

LEMMA ListRows ==
  ASSUME Typed
  PROVE  /\ Len(list) \in Nat /\ DOMAIN list = 1..Len(list)
         /\ \A n \in DOMAIN list : list[n] \in DOMAIN evidence /\ list[n] \in Nat
         /\ \A n \in DOMAIN list : evidence[list[n]].ts \in Times
         /\ list # <<>> => Head(list) = list[1] /\ 1 \in DOMAIN list
<1>1. list \in Seq(Nat) /\ \A n \in DOMAIN list : list[n] \in DOMAIN evidence
  BY DEF Typed
<1>2. \A n \in DOMAIN list : evidence[list[n]] \in EvidenceRow
  BY <1>1, Rows
<1>3. \A n \in DOMAIN list : evidence[list[n]].ts \in Times
  BY <1>2 DEF EvidenceRow
<1> QED BY <1>1, <1>3

(* No row is twice in the list. *)
LEMMA ListDistinct ==
  ASSUME IncidentsAssumption, Typed, ListInv, NEW m \in DOMAIN list, NEW n \in DOMAIN list, m # n
  PROVE  list[m] # list[n]
<1>1. m \in Nat /\ n \in Nat
  BY ListRows
<1>2. Earlier(list[m], list[n]) \/ Earlier(list[n], list[m])
  BY <1>1 DEF ListInv, ListSorted
<1>3. list[m] \in Nat /\ list[n] \in Nat /\ evidence[list[m]].ts \in Nat /\ evidence[list[n]].ts \in Nat
  BY ListRows DEF IncidentsAssumption
<1> QED BY <1>2, <1>3 DEF Earlier

LEMMA SameListStays ==
  ASSUME IncidentsAssumption, Typed, ListInv, Next, UNCHANGED <<list, pc, chosen>>,
         \A d \in DOMAIN evidence : evidence'[d].incident = evidence[d].incident
  PROVE  ListInv'
<1>1. \A n \in DOMAIN list : evidence'[list[n]].ts = evidence[list[n]].ts
  BY RowsStay, ListRows DEF SameRow
<1>2. ListSorted'
  BY <1>1 DEF ListInv, ListSorted, Earlier
<1>3. pc = "count" => Head(list) = list[1] /\ 1 \in DOMAIN list
  BY ListRows DEF Typed
<1>4. \A n \in DOMAIN list : evidence'[list[n]].incident = evidence[list[n]].incident
  BY ListRows
<1> QED BY <1>2, <1>3, <1>4 DEF ListInv

LEMMA ListStays ==
  ASSUME IncidentsAssumption, Typed, ListInv, Next PROVE ListInv'
<1>1. CASE Arrive
  <2>1. UNCHANGED <<list, pc, chosen>>
    BY <1>1 DEF Arrive, work
  <2> QED BY <1>1, <2>1, ArriveRows, SameListStays
<1>2. CASE Retract
  <2>1. UNCHANGED <<list, pc, chosen>>
    BY <1>2 DEF Retract, work
  <2> QED BY <1>2, <2>1, RetractRows, SameListStays
<1>3. CASE Link
  <2>1. UNCHANGED <<list, chosen>> /\ pc = "link" /\ pc' = "count" /\ list # <<>>
    BY <1>3 DEF Link, work, Typed
  <2>2. \A n \in DOMAIN list : evidence'[list[n]].ts = evidence[list[n]].ts
    BY RowsStay, ListRows DEF SameRow
  <2>3. ListSorted'
    BY <2>1, <2>2 DEF ListInv, ListSorted, Earlier
  <2>4. \A n \in DOMAIN list \ {1} : list[n] # Head(list) /\ list[n] \in DOMAIN evidence
    BY <2>1, ListDistinct, ListRows
  <2>5. \A n \in DOMAIN list \ {1} : evidence'[list[n]].incident = 0
    BY <1>3, <2>1, <2>4, LinkRows DEF ListInv
  <2>6. evidence'[Head(list')].incident = chosen' /\ pc' = "count"
    BY <1>3, <2>1, LinkRows
  <2> QED BY <2>1, <2>3, <2>5, <2>6 DEF ListInv
<1>4. CASE Begin
  <2>0. PICK L \in SUBSET Unassigned : list' \in Sorted(L)
    BY <1>4 DEF Begin
  <2>1. list' \in Sorted(L) /\ UNCHANGED evidence /\ pc' = "choose"
    BY <1>4, <2>0 DEF Begin
  <2>2. \A m, n \in DOMAIN list' : m < n => Earlier(list'[m], list'[n])
    BY <2>1 DEF Sorted
  <2>3. \A n \in DOMAIN list' : list'[n] \in Unassigned
    BY <2>0, <2>1 DEF Sorted
  <2>4. \A n \in DOMAIN list' : evidence'[list'[n]].incident = 0
    BY <2>1, <2>3 DEF Unassigned
  <2>5. ListSorted'
    BY <2>1, <2>2 DEF ListSorted, Earlier
  <2> QED BY <2>1, <2>4, <2>5 DEF ListInv
<1>5. CASE Choose
  <2>1. UNCHANGED <<evidence, list>> /\ pc = "choose" /\ pc' = "link"
    BY <1>5 DEF Choose
  <2> QED BY <2>1 DEF ListInv, ListSorted, Earlier
<1>6. CASE Count
  <2>1. UNCHANGED evidence /\ list' = Tail(list) /\ pc = "count" /\ pc' = "choose" /\ list # <<>>
    BY <1>6 DEF Count, Typed
  <2>2. list \in Seq(Nat)
    BY DEF Typed
  <2>3. \A n \in DOMAIN list' : list'[n] = list[n + 1] /\ n + 1 \in DOMAIN list /\ n + 1 # 1 /\ n \in Nat
    BY <2>1, <2>2
  <2>4. \A m, n \in DOMAIN list' : m < n => Earlier(list'[m], list'[n])
    BY <2>3 DEF ListInv, ListSorted
  <2>5. ListSorted'
    BY <2>1, <2>4 DEF ListSorted, Earlier
  <2> QED BY <2>1, <2>3, <2>5 DEF ListInv
<1>7. CASE Grouped \/ Reason \/ Supersede \/ Conclude \/ StoreCause \/ End
  <2>1. UNCHANGED <<evidence, list>> /\ pc' \in {"reason", "supersede", "conclude", "store", "idle"}
    BY <1>7 DEF Grouped, Reason, Supersede, Conclude, StoreCause, End, work
  <2> QED BY <2>1 DEF ListInv, ListSorted, Earlier
<1>8. CASE Break
  <2>1. list' = <<>> /\ pc' = "idle"
    BY <1>8 DEF Break
  <2> QED BY <2>1 DEF ListInv, ListSorted
<1>9. CASE TimePasses \/ \E o \in Operators : Look(o) \/ UpdateIncidentStatus(o)
  <2>1. UNCHANGED <<list, pc, chosen, evidence>>
    BY <1>9 DEF TimePasses, Look, UpdateIncidentStatus, work
  <2> QED BY <2>1 DEF ListInv, ListSorted, Earlier
<1> QED BY <1>1, <1>2, <1>3, <1>4, <1>5, <1>6, <1>7, <1>8, <1>9 DEF Next

-----------------------------------------------------------------------------
LEMMA LinkedStays ==
  ASSUME IncidentsAssumption, Typed, ListInv, Next, NEW e \in DOMAIN evidence, evidence[e].incident # 0
  PROVE  evidence'[e].incident = evidence[e].incident
<1>1. CASE Arrive
  BY <1>1, ArriveRows
<1>2. CASE Retract
  BY <1>2, RetractRows
<1>3. CASE Link
  <2>1. e # Head(list)
    <3>1. pc = "link" /\ list # <<>>
      BY <1>3 DEF Link, Typed
    <3>2. evidence[Head(list)].incident = 0
      BY <3>1, ListRows DEF ListInv
    <3> QED BY <3>2
  <2> QED BY <1>3, <2>1, LinkRows
<1>4. CASE OtherSteps
  BY <1>4, OtherRows
<1> QED BY <1>1, <1>2, <1>3, <1>4, StepsAre

(* What a step may do to the rows of incidents. *)
LEMMA ChooseAdds ==
  ASSUME IncidentsAssumption, Typed, Choose
  PROVE  \/ UNCHANGED incidents /\ chosen' \in Open(Head(list))
         \/ /\ Open(Head(list)) = {} /\ chosen' = Len(incidents) + 1
            /\ Len(incidents') = Len(incidents) + 1
            /\ DOMAIN incidents' = DOMAIN incidents \cup {chosen'}
            /\ \A i \in DOMAIN incidents : incidents'[i] = incidents[i] /\ i # chosen'
            /\ incidents'[chosen'] =
                 [entity |-> evidence[Head(list)].entity, opened |-> evidence[Head(list)].ts,
                  last |-> evidence[Head(list)].ts, severity |-> evidence[Head(list)].kind.severity,
                  count |-> 0, status |-> "new", cause |-> None]
<1> DEFINE e == Head(list)
           new == [entity |-> evidence[e].entity, opened |-> evidence[e].ts, last |-> evidence[e].ts,
                   severity |-> evidence[e].kind.severity, count |-> 0, status |-> "new", cause |-> None]
<1>1. CASE UNCHANGED incidents /\ chosen' \in Open(e)
  BY <1>1
<1>2. CASE Open(e) = {} /\ incidents' = Append(incidents, new) /\ chosen' = Len(incidents')
  <2> HIDE DEF new
  <2>1. incidents \in Seq(IncidentRow) /\ Len(incidents) \in Nat /\ DOMAIN incidents = 1..Len(incidents)
    BY Rows DEF Typed
  <2>2. Len(incidents') = Len(incidents) + 1 /\ DOMAIN incidents' = 1..(Len(incidents) + 1)
    BY <1>2, <2>1
  <2>3. \A i \in DOMAIN incidents : incidents'[i] = incidents[i] /\ i # chosen'
    BY <1>2, <2>1, <2>2
  <2>4. incidents'[chosen'] = new
    BY <1>2, <2>1, <2>2
  <2>5. DOMAIN incidents' = DOMAIN incidents \cup {chosen'}
    BY <1>2, <2>1, <2>2
  <2> USE DEF new
  <2> QED BY <1>2, <2>2, <2>3, <2>4, <2>5
<1> QED BY <1>1, <1>2 DEF Choose

LEMMA CountAdds ==
  ASSUME IncidentsAssumption, Typed, Count
  PROVE  /\ Head(list) \in DOMAIN evidence /\ chosen \in DOMAIN incidents
         /\ DOMAIN incidents' = DOMAIN incidents
         /\ \A i \in DOMAIN incidents \ {chosen} : incidents'[i] = incidents[i]
         /\ LET r == incidents[chosen]
                t == evidence[Head(list)].ts
                s == evidence[Head(list)].kind.severity
            IN incidents'[chosen] =
                 [entity |-> r.entity, opened |-> IF r.opened <= t THEN r.opened ELSE t,
                  last |-> IF r.last >= t THEN r.last ELSE t,
                  severity |-> IF r.severity <= s THEN r.severity ELSE s,
                  count |-> r.count + 1, status |-> r.status, cause |-> r.cause]
<1> DEFINE e == Head(list)
           row == Counted(incidents[chosen], e)
<1>1. e \in DOMAIN evidence /\ chosen \in DOMAIN incidents
  BY ListRows DEF Count, Typed
<1>2. incidents[chosen] \in IncidentRow /\ evidence[e] \in EvidenceRow /\ incidents \in Seq(IncidentRow)
  BY <1>1, Rows DEF Typed
<1>3. incidents' = [incidents EXCEPT ![chosen] = row]
  BY DEF Count
<1>4. row \in IncidentRow
  BY <1>2, CountedRow
<1>5. row = [entity |-> row.entity, opened |-> row.opened, last |-> row.last, severity |-> row.severity,
             count |-> row.count, status |-> row.status, cause |-> row.cause]
  BY <1>4 DEF IncidentRow
<1>6. /\ row.count = incidents[chosen].count + 1
      /\ row.opened = IF incidents[chosen].opened <= evidence[e].ts THEN incidents[chosen].opened ELSE evidence[e].ts
      /\ row.last = IF incidents[chosen].last >= evidence[e].ts THEN incidents[chosen].last ELSE evidence[e].ts
      /\ row.severity = IF incidents[chosen].severity <= evidence[e].kind.severity THEN incidents[chosen].severity
                        ELSE evidence[e].kind.severity
      /\ row.status = incidents[chosen].status /\ row.entity = incidents[chosen].entity
      /\ row.cause = incidents[chosen].cause
  BY <1>2, CountedRow
<1> HIDE DEF row
<1>7. DOMAIN incidents' = DOMAIN incidents
      /\ \A j \in DOMAIN incidents : incidents'[j] = IF j = chosen THEN row ELSE incidents[j]
  BY <1>1, <1>2, <1>3, <1>4, ReplacedRow
<1> QED BY <1>1, <1>5, <1>6, <1>7

(* What a step that only sets one field keeps. *)
SameTotals(i) ==
  /\ incidents'[i].entity = incidents[i].entity /\ incidents'[i].opened = incidents[i].opened
  /\ incidents'[i].last = incidents[i].last /\ incidents'[i].count = incidents[i].count
  /\ incidents'[i].severity = incidents[i].severity

LEMMA StoreSets ==
  ASSUME IncidentsAssumption, Typed, StoreCause
  PROVE  /\ DOMAIN incidents' = DOMAIN incidents
         /\ \A i \in DOMAIN incidents : SameTotals(i) /\ incidents'[i].status = incidents[i].status
         /\ \A i \in DOMAIN incidents \ {chosen} : incidents'[i] = incidents[i]
         /\ \/ incidents'[chosen].cause = drawn.cause /\ UNCHANGED failed
            \/ UNCHANGED incidents /\ failed' = failed + 1
<1>1. CASE UNCHANGED incidents /\ failed' = failed + 1
  BY <1>1 DEF SameTotals
<1>2. CASE incidents' = [incidents EXCEPT ![chosen].cause = drawn.cause] /\ UNCHANGED failed
  <2> DEFINE row == [incidents[chosen] EXCEPT !.cause = drawn.cause]
  <2>1. chosen \in DOMAIN incidents
    BY DEF StoreCause, Typed
  <2>2. drawn.cause \in CauseNames /\ incidents[chosen] \in IncidentRow /\ incidents \in Seq(IncidentRow)
    BY <2>1, Rows DEF Typed
  <2>3. /\ row \in IncidentRow /\ row.cause = drawn.cause /\ row.status = incidents[chosen].status
        /\ row.entity = incidents[chosen].entity /\ row.opened = incidents[chosen].opened
        /\ row.last = incidents[chosen].last /\ row.count = incidents[chosen].count
        /\ row.severity = incidents[chosen].severity
    BY <2>2 DEF IncidentRow
  <2>4. incidents' = [incidents EXCEPT ![chosen] = row]
    BY <1>2
  <2> HIDE DEF row
  <2>5. DOMAIN incidents' = DOMAIN incidents
        /\ \A j \in DOMAIN incidents : incidents'[j] = IF j = chosen THEN row ELSE incidents[j]
    BY <2>1, <2>2, <2>3, <2>4, ReplacedRow
  <2> QED BY <1>2, <2>1, <2>3, <2>5 DEF SameTotals
<1> QED BY <1>1, <1>2 DEF StoreCause, Exec

LEMMA UpdateSets ==
  ASSUME IncidentsAssumption, Typed, NEW o \in Operators, UpdateIncidentStatus(o)
  PROVE  /\ DOMAIN incidents' = DOMAIN incidents
         /\ \A i \in DOMAIN incidents :
              /\ SameTotals(i) /\ incidents'[i].cause = incidents[i].cause
              /\ \/ incidents'[i].status = incidents[i].status
                 \/ <<incidents[i].status, incidents'[i].status>> \in allowedTransitions
<1> DEFINE j == seen[o][1]
<1>1. CASE UNCHANGED incidents
  BY <1>1 DEF SameTotals
<1>2. ASSUME NEW to \in {"ack", "resolved"}, <<seen[o][2], to>> \in allowedTransitions,
             incidents[j].status = seen[o][2], incidents' = [incidents EXCEPT ![j].status = to]
      PROVE  /\ DOMAIN incidents' = DOMAIN incidents
             /\ \A i \in DOMAIN incidents :
                  /\ SameTotals(i) /\ incidents'[i].cause = incidents[i].cause
                  /\ \/ incidents'[i].status = incidents[i].status
                     \/ <<incidents[i].status, incidents'[i].status>> \in allowedTransitions
  <2> DEFINE row == [incidents[j] EXCEPT !.status = to]
  <2>1. CASE j \notin DOMAIN incidents
    <3>1. UNCHANGED incidents
      BY <1>2, <2>1, Rows DEF Typed
    <3> QED BY <3>1 DEF SameTotals
  <2>2. CASE j \in DOMAIN incidents
    <3>1. incidents[j] \in IncidentRow /\ incidents \in Seq(IncidentRow)
      BY <2>2, Rows DEF Typed
    <3>2. /\ row \in IncidentRow /\ row.status = to /\ row.cause = incidents[j].cause
          /\ row.entity = incidents[j].entity /\ row.opened = incidents[j].opened
          /\ row.last = incidents[j].last /\ row.count = incidents[j].count
          /\ row.severity = incidents[j].severity
      BY <3>1 DEF IncidentRow, Statuses
    <3>3. incidents' = [incidents EXCEPT ![j] = row]
      BY <1>2
    <3> HIDE DEF row
    <3>4. DOMAIN incidents' = DOMAIN incidents
          /\ \A i \in DOMAIN incidents : incidents'[i] = IF i = j THEN row ELSE incidents[i]
      BY <2>2, <3>1, <3>2, <3>3, ReplacedRow
    <3>5. <<incidents[j].status, to>> \in allowedTransitions
      BY <1>2
    <3> QED BY <3>2, <3>4, <3>5 DEF SameTotals
  <2> QED BY <2>1, <2>2
<1> QED BY <1>1, <1>2 DEF UpdateIncidentStatus

(* The other steps leave the incidents alone. *)
Elsewhere ==
  \/ Arrive \/ Retract \/ TimePasses \/ Begin \/ Link \/ Grouped
  \/ Reason \/ Supersede \/ Conclude \/ End \/ Break
  \/ \E o \in Operators : Look(o)

LEMMA ElsewhereKeeps == Elsewhere => UNCHANGED incidents
<1>1. Arrive \/ Retract \/ TimePasses \/ Begin \/ Link \/ Grouped => UNCHANGED incidents
  BY DEF Arrive, Retract, TimePasses, Begin, Link, Grouped
<1>2. Reason \/ Supersede \/ Conclude \/ End \/ Break => UNCHANGED incidents
  BY DEF Reason, Supersede, Conclude, End, Break
<1> QED BY <1>1, <1>2 DEF Elsewhere, Look

LEMMA IncidentStepsAre ==
  Next => Choose \/ Count \/ StoreCause \/ (\E o \in Operators : UpdateIncidentStatus(o)) \/ Elsewhere
BY DEF Next, Elsewhere

(* An incident stays, with its entity. *)
LEMMA IncidentsStay ==
  ASSUME IncidentsAssumption, Typed, Next
  PROVE  \A i \in DOMAIN incidents : i \in DOMAIN incidents' /\ incidents'[i].entity = incidents[i].entity
<1>1. CASE Choose
  BY <1>1, ChooseAdds
<1>2. CASE Count
  BY <1>2, CountAdds
<1>3. CASE StoreCause
  BY <1>3, StoreSets DEF SameTotals
<1>4. CASE \E o \in Operators : UpdateIncidentStatus(o)
  BY <1>4, UpdateSets DEF SameTotals
<1>5. CASE Elsewhere
  BY <1>5, ElsewhereKeeps
<1> QED BY <1>1, <1>2, <1>3, <1>4, <1>5, IncidentStepsAre

LEMMA StatusesMove ==
  ASSUME IncidentsAssumption, Typed, Next, NEW i \in DOMAIN incidents
  PROVE  \/ incidents'[i].status = incidents[i].status
         \/ <<incidents[i].status, incidents'[i].status>> \in allowedTransitions
<1>1. CASE Choose
  BY <1>1, ChooseAdds
<1>2. CASE Count
  BY <1>2, CountAdds
<1>3. CASE StoreCause
  BY <1>3, StoreSets
<1>4. CASE \E o \in Operators : UpdateIncidentStatus(o)
  BY <1>4, UpdateSets
<1>5. CASE Elsewhere
  BY <1>5, ElsewhereKeeps
<1> QED BY <1>1, <1>2, <1>3, <1>4, <1>5, IncidentStepsAre

-----------------------------------------------------------------------------
(* Conclusions change when one is superseded and when one is drawn. *)
Currents(i) == {k \in DOMAIN conclusions : conclusions[k].current /\ conclusions[k].incident = i}

LEMMA CurrentsFinite ==
  ASSUME Typed, NEW i
  PROVE  /\ IsFiniteSet(Currents(i)) /\ Cardinality(Currents(i)) \in Nat
         /\ Currents(i) \subseteq DOMAIN conclusions
<1>1. Len(conclusions) \in Nat /\ DOMAIN conclusions = 1..Len(conclusions)
  BY Rows
<1>2. IsFiniteSet(1..Len(conclusions))
  BY <1>1, FS_Interval
<1>3. Currents(i) \subseteq DOMAIN conclusions
  BY DEF Currents
<1> QED BY <1>1, <1>2, <1>3, FS_Subset, FS_CardinalityType

LEMMA SupersedeRows ==
  ASSUME Typed, conclusions' = Superseded
  PROVE  /\ DOMAIN conclusions' = DOMAIN conclusions
         /\ \A k \in DOMAIN conclusions :
              /\ conclusions'[k].incident = conclusions[k].incident
              /\ conclusions'[k].cause = conclusions[k].cause
              /\ conclusions'[k].refs = conclusions[k].refs
              /\ conclusions'[k].current <=> conclusions[k].current /\ conclusions[k].incident # chosen
<1>1. \A k \in DOMAIN conclusions : conclusions[k] \in ConclusionRow
  BY Rows
<1>2. DOMAIN conclusions' = DOMAIN conclusions
      /\ \A k \in DOMAIN conclusions : conclusions'[k] =
           [conclusions[k] EXCEPT !.current = conclusions[k].current /\ conclusions[k].incident # chosen]
  BY DEF Superseded
<1>3. \A k \in DOMAIN conclusions : conclusions'[k] =
        [incident |-> conclusions[k].incident, cause |-> conclusions[k].cause, refs |-> conclusions[k].refs,
         current |-> conclusions[k].current /\ conclusions[k].incident # chosen]
  BY <1>1, <1>2 DEF ConclusionRow
<1> QED BY <1>2, <1>3

Drawn == [incident |-> chosen, cause |-> drawn.cause, refs |-> drawn.refs, current |-> TRUE]

LEMMA ConcludeRows ==
  ASSUME Typed, conclusions' = Append(conclusions, Drawn)
  PROVE  /\ DOMAIN conclusions' = DOMAIN conclusions \cup {Len(conclusions) + 1}
         /\ Len(conclusions) + 1 \notin DOMAIN conclusions
         /\ \A k \in DOMAIN conclusions : conclusions'[k] = conclusions[k]
         /\ conclusions'[Len(conclusions) + 1] = Drawn
<1>1. conclusions \in Seq(ConclusionRow) /\ Len(conclusions) \in Nat /\ DOMAIN conclusions = 1..Len(conclusions)
  BY Rows DEF Typed
<1> HIDE DEF Drawn
<1> QED BY <1>1

CurrentInv ==
  /\ \A i \in DOMAIN incidents : Cardinality(Currents(i)) <= 1 + failed
  /\ pc = "conclude" => Cardinality(Currents(chosen)) <= failed

LEMMA CurrentFirst == Init => CurrentInv
BY DEF Init, CurrentInv

LEMMA CurrentSupersede == ASSUME IncidentsAssumption, Typed, CurrentInv, Supersede PROVE CurrentInv'
<1>1. pc' = "conclude" /\ chosen \in DOMAIN incidents /\ UNCHANGED <<incidents, chosen>> /\ failed \in Nat
  BY DEF Supersede, Typed, work
<1>2. CASE UNCHANGED conclusions /\ failed' = failed + 1
  <2>1. \A i : Currents(i)' = Currents(i)
    BY <1>2 DEF Currents
  <2>2. \A i \in DOMAIN incidents : Cardinality(Currents(i)) \in Nat /\ Cardinality(Currents(i)) <= 1 + failed
    BY CurrentsFinite DEF CurrentInv
  <2> QED BY <1>1, <1>2, <2>1, <2>2 DEF CurrentInv
<1>3. CASE conclusions' = Superseded /\ UNCHANGED failed
  <2>1. \A i \in DOMAIN incidents \ {chosen} : Currents(i)' = Currents(i)
    BY <1>3, SupersedeRows DEF Currents
  <2>2. Currents(chosen)' = {}
    BY <1>1, <1>3, SupersedeRows DEF Currents
  <2>3. Cardinality(Currents(chosen)') = 0
    BY <2>2, FS_EmptySet
  <2> QED BY <1>1, <1>3, <2>1, <2>3 DEF CurrentInv
<1> QED BY <1>2, <1>3 DEF Supersede, Exec

LEMMA CurrentConclude == ASSUME IncidentsAssumption, Typed, CurrentInv, Conclude PROVE CurrentInv'
<1>1. /\ pc = "conclude" /\ pc' = "store" /\ chosen \in DOMAIN incidents
      /\ UNCHANGED <<incidents, chosen>> /\ failed \in Nat
  BY DEF Conclude, Typed, work
<1>2. CASE UNCHANGED conclusions /\ failed' = failed + 1
  <2>1. \A i : Currents(i)' = Currents(i)
    BY <1>2 DEF Currents
  <2>2. \A i \in DOMAIN incidents : Cardinality(Currents(i)) \in Nat /\ Cardinality(Currents(i)) <= 1 + failed
    BY CurrentsFinite DEF CurrentInv
  <2> QED BY <1>1, <1>2, <2>1, <2>2 DEF CurrentInv
<1>3. CASE conclusions' = Append(conclusions, Drawn) /\ UNCHANGED failed
  <2>1. \A i \in DOMAIN incidents \ {chosen} : Currents(i)' = Currents(i)
    BY <1>3, ConcludeRows DEF Currents, Drawn
  <2>2. Currents(chosen)' = Currents(chosen) \cup {Len(conclusions) + 1}
    BY <1>1, <1>3, ConcludeRows DEF Currents, Drawn
  <2>3. IsFiniteSet(Currents(chosen)) /\ Len(conclusions) + 1 \notin Currents(chosen)
        /\ Cardinality(Currents(chosen)) \in Nat
    BY <1>3, CurrentsFinite, ConcludeRows
  <2>4. Cardinality(Currents(chosen)') = Cardinality(Currents(chosen)) + 1
    BY <2>2, <2>3, FS_AddElement
  <2>5. Cardinality(Currents(chosen)') <= 1 + failed
    BY <1>1, <2>3, <2>4 DEF CurrentInv
  <2> QED BY <1>1, <1>3, <2>1, <2>5 DEF CurrentInv
<1> QED BY <1>2, <1>3 DEF Conclude, Exec, Drawn

LEMMA CurrentElsewhere ==
  ASSUME IncidentsAssumption, Typed, CurrentInv, Next, UNCHANGED conclusions, pc' # "conclude" \/ UNCHANGED <<pc, chosen>>,
         failed' \in Nat, failed' >= failed
  PROVE  CurrentInv'
<1>0. failed \in Nat
  BY DEF Typed
<1>1. \A i : Currents(i)' = Currents(i)
  BY DEF Currents
<1>2. \A i \in DOMAIN incidents' : Cardinality(Currents(i)) <= 1 + failed
  <2>1. TAKE i \in DOMAIN incidents'
  <2>2. CASE i \in DOMAIN incidents
    BY <2>2 DEF CurrentInv
  <2>3. CASE i \notin DOMAIN incidents
    <3>1. Currents(i) = {}
      BY <2>3 DEF Currents, Typed
    <3> QED BY <1>0, <3>1, FS_EmptySet
  <2> QED BY <2>2, <2>3
<1>3. \A i : Cardinality(Currents(i)) \in Nat
  BY CurrentsFinite
<1>4. pc' = "conclude" => Cardinality(Currents(chosen')) <= failed
  BY DEF CurrentInv
<1>5. \A i \in DOMAIN incidents' : Cardinality(Currents(i)') <= 1 + failed'
  BY <1>0, <1>1, <1>2, <1>3
<1>6. pc' = "conclude" => Cardinality(Currents(chosen)') <= failed'
  <2> SUFFICES ASSUME pc' = "conclude" PROVE Cardinality(Currents(chosen)') <= failed'
    OBVIOUS
  <2>1. chosen' = chosen /\ Cardinality(Currents(chosen)) <= failed /\ Cardinality(Currents(chosen)) \in Nat
    BY <1>3, <1>4
  <2>2. Currents(chosen)' = Currents(chosen)
    BY <2>1 DEF Currents
  <2> QED BY <1>0, <2>1, <2>2
<1> QED BY <1>5, <1>6 DEF CurrentInv

LEMMA CurrentStays == ASSUME IncidentsAssumption, Typed, CurrentInv, Next PROVE CurrentInv'
<1>0. failed \in Nat
  BY DEF Typed
<1>1. CASE Supersede
  BY <1>1, CurrentSupersede
<1>2. CASE Conclude
  BY <1>2, CurrentConclude
<1>3. CASE Choose \/ Link \/ Count \/ End \/ Break
  <2>1. UNCHANGED <<conclusions, failed>> /\ pc' # "conclude"
    BY <1>3 DEF Choose, Link, Count, End, Break, bounds
  <2> QED BY <1>0, <2>1, CurrentElsewhere
<1>4. CASE Arrive \/ Retract \/ TimePasses \/ \E o \in Operators : Look(o) \/ UpdateIncidentStatus(o)
  <2>1. UNCHANGED <<conclusions, failed, pc, chosen>>
    BY <1>4 DEF Arrive, Retract, TimePasses, Look, UpdateIncidentStatus, bounds, work
  <2> QED BY <1>0, <2>1, CurrentElsewhere
<1>5. CASE Begin \/ Grouped \/ Reason
  <2>1. UNCHANGED conclusions /\ pc' # "conclude" /\ failed' \in {failed, failed + 1}
    BY <1>5 DEF Begin, Grouped, Reason, ReadFails
  <2> QED BY <1>0, <2>1, CurrentElsewhere
<1>6. CASE StoreCause
  <2>1. UNCHANGED conclusions /\ pc' # "conclude" /\ failed' \in {failed, failed + 1}
    BY <1>6 DEF StoreCause, Exec
  <2> QED BY <1>0, <2>1, CurrentElsewhere
<1> QED BY <1>1, <1>2, <1>3, <1>4, <1>5, <1>6 DEF Next

-----------------------------------------------------------------------------
(* Rows that a grouping linked and did not count: the one at hand is one.  *)
LinkedRows == {e \in DOMAIN evidence : evidence[e].incident # 0}
Lags(Lost) ==
  /\ Lost \subseteq LinkedRows
  /\ Cardinality(Lost) <= broken + (IF pc = "count" THEN 1 ELSE 0)
  /\ \A i \in DOMAIN incidents : incidents[i].count = Cardinality(Linked(i) \ Lost)
  /\ pc = "count" => Head(list) \in Lost
LostInv == \E Lost : Lags(Lost)

LEMMA LinkedFinite ==
  ASSUME Typed, NEW S \in SUBSET DOMAIN evidence
  PROVE  IsFiniteSet(S) /\ Cardinality(S) \in Nat /\ Cardinality(S) <= Len(evidence)
<1>1. Len(evidence) \in Nat /\ DOMAIN evidence = 1..Len(evidence)
  BY Rows
<1>2. IsFiniteSet(1..Len(evidence)) /\ Cardinality(1..Len(evidence)) = Len(evidence)
  BY <1>1, FS_Interval
<1> QED BY <1>1, <1>2, FS_Subset, FS_CardinalityType

LEMMA LinkedIsLinked ==
  ASSUME Typed, NEW i \in DOMAIN incidents
  PROVE  Linked(i) \subseteq LinkedRows /\ LinkedRows \subseteq DOMAIN evidence /\ i # 0
BY Rows DEF Linked, LinkedRows

LEMMA NoneLinkedYet ==
  ASSUME Typed, NEW i, i \notin DOMAIN incidents, i # 0 PROVE Linked(i) = {}
<1>1. \A e \in DOMAIN evidence : evidence[e].incident \in Nat /\ evidence[e].incident <= Len(incidents)
  BY Rows DEF Typed, EvidenceRow
<1> QED BY <1>1, Rows DEF Linked

LEMMA LostFirst == Init => LostInv
<1> SUFFICES ASSUME Init PROVE Lags({})
  BY DEF LostInv
<1>1. Cardinality({}) = 0
  BY FS_EmptySet
<1> QED BY <1>1 DEF Init, Lags

(* Steps that neither link nor count. *)
LEMMA LagsKept ==
  ASSUME IncidentsAssumption, Typed, NEW Lost, Lags(Lost),
         \A i \in DOMAIN incidents : Linked(i)' = Linked(i), LinkedRows \subseteq LinkedRows',
         DOMAIN incidents' = DOMAIN incidents,
         \A i \in DOMAIN incidents : incidents'[i].count = incidents[i].count,
         \/ pc' # "count" /\ UNCHANGED broken /\ pc # "count"
         \/ pc' # "count" /\ broken' = broken + 1
         \/ UNCHANGED <<pc, broken, list>>
  PROVE  Lags(Lost)'
<1>1. broken \in Nat
  BY DEF Typed
<1>2. Cardinality(Lost) \in Nat
  BY LinkedFinite DEF Lags, LinkedRows
<1>3. Cardinality(Lost) <= broken' + (IF pc' = "count" THEN 1 ELSE 0)
  BY <1>1, <1>2 DEF Lags
<1>4. \A i \in DOMAIN incidents' : incidents'[i].count = Cardinality(Linked(i)' \ Lost)
  BY DEF Lags
<1>5. pc' = "count" => Head(list') \in Lost
  BY DEF Lags
<1> QED BY <1>3, <1>4, <1>5 DEF Lags

LEMMA SameLinks ==
  ASSUME IncidentsAssumption, Typed, Arrive \/ Retract \/ UNCHANGED evidence
  PROVE  /\ \A i \in DOMAIN incidents : Linked(i)' = Linked(i)
         /\ LinkedRows' = LinkedRows
<1>1. \A i \in DOMAIN incidents : i # 0
  BY Rows
<1>2. CASE Arrive
  BY <1>1, <1>2, ArriveRows DEF Linked, LinkedRows
<1>3. CASE Retract
  BY <1>3, RetractRows DEF Linked, LinkedRows
<1>4. CASE UNCHANGED evidence
  BY <1>4 DEF Linked, LinkedRows
<1> QED BY <1>2, <1>3, <1>4

LEMMA LagsWhenChoosing ==
  ASSUME IncidentsAssumption, Typed, NEW Lost, Lags(Lost), Choose PROVE Lags(Lost)'
<1>1. /\ UNCHANGED <<evidence, broken, list>> /\ pc = "choose" /\ pc' = "link"
  BY DEF Choose, bounds
<1>2. (\A i \in DOMAIN incidents : Linked(i)' = Linked(i)) /\ LinkedRows' = LinkedRows
  BY <1>1, SameLinks
<1>3. CASE UNCHANGED incidents
  BY <1>1, <1>2, <1>3, LagsKept
<1>4. CASE /\ chosen' = Len(incidents) + 1 /\ DOMAIN incidents' = DOMAIN incidents \cup {chosen'}
           /\ \A i \in DOMAIN incidents : incidents'[i] = incidents[i] /\ i # chosen'
           /\ incidents'[chosen'].count = 0
  <2>1. Len(incidents) \in Nat
    BY Rows
  <2>2. Linked(chosen') = {}
    BY <1>4, <2>1, NoneLinkedYet
  <2>3. Linked(chosen') \ Lost = {} /\ Cardinality({}) = 0
    BY <2>2, FS_EmptySet
  <2>4. \A i \in DOMAIN incidents : incidents'[i].count = Cardinality(Linked(i) \ Lost)
    BY <1>4 DEF Lags
  <2>5. \A i \in DOMAIN incidents' : incidents'[i].count = Cardinality(Linked(i) \ Lost)
    BY <1>4, <2>3, <2>4
  <2>6. \A i : Linked(i)' = Linked(i)
    BY <1>1 DEF Linked
  <2>7. \A i \in DOMAIN incidents' : incidents'[i].count = Cardinality(Linked(i)' \ Lost)
    BY <2>5, <2>6
  <2>8. Cardinality(Lost) <= broken' + (IF pc' = "count" THEN 1 ELSE 0)
    BY <1>1 DEF Lags
  <2> QED BY <1>1, <1>2, <2>7, <2>8 DEF Lags
<1> QED BY <1>3, <1>4, ChooseAdds

LEMMA LagsWhenLinking ==
  ASSUME IncidentsAssumption, Typed, ListInv, NEW Lost, Lags(Lost), Link, NEW More, More = Lost \cup {Head(list)}
  PROVE  Lags(More)'
<1> DEFINE e == Head(list)
<1>1. /\ UNCHANGED <<incidents, broken, list>> /\ pc = "link" /\ pc' = "count" /\ list # <<>>
      /\ chosen \in DOMAIN incidents /\ broken \in Nat
  BY DEF Link, bounds, work, Typed
<1>2. e \in DOMAIN evidence /\ evidence[e].incident = 0
  BY <1>1, ListRows DEF ListInv
<1>3. /\ DOMAIN evidence' = DOMAIN evidence /\ evidence'[e].incident = chosen
      /\ \A d \in DOMAIN evidence \ {e} : evidence'[d] = evidence[d]
  BY LinkRows
<1> HIDE DEF e
<1>4. \A i \in DOMAIN incidents : i = chosen => Linked(i)' = Linked(i) \cup {e}
  BY <1>1, <1>2, <1>3, Rows DEF Linked, Link, work
<1>5. \A i \in DOMAIN incidents \ {chosen} : Linked(i)' = Linked(i)
  BY <1>1, <1>2, <1>3, Rows DEF Linked
<1>6. LinkedRows' = LinkedRows \cup {e} /\ e \notin LinkedRows
  BY <1>1, <1>2, <1>3, Rows DEF LinkedRows
<1>7. \A i \in DOMAIN incidents : e \notin Linked(i)
  BY <1>6, LinkedIsLinked
<1>8. \A i \in DOMAIN incidents : Linked(i)' \ (Lost \cup {e}) = Linked(i) \ Lost
  <2> TAKE i \in DOMAIN incidents
  <2>1. CASE i = chosen
    BY <1>4, <1>7, <2>1
  <2>2. CASE i # chosen
    <3>1. Linked(i)' = Linked(i) /\ e \notin Linked(i)
      BY <1>5, <1>7, <2>2
    <3> QED BY <3>1
  <2> QED BY <2>1, <2>2
<1>9. \A i \in DOMAIN incidents' : incidents'[i].count = Cardinality(Linked(i)' \ (Lost \cup {e}))
  BY <1>1, <1>8 DEF Lags
<1>10. IsFiniteSet(Lost) /\ Cardinality(Lost) \in Nat
  BY LinkedFinite DEF Lags, LinkedRows
<1>11. Cardinality(Lost) <= broken
  BY <1>1 DEF Lags
<1>12. Cardinality(Lost \cup {e}) <= broken + 1
  <2>1. e \notin Lost
    BY <1>6 DEF Lags
  <2>2. Cardinality(Lost \cup {e}) = Cardinality(Lost) + 1
    BY <1>10, <2>1, FS_AddElement
  <2> QED BY <1>1, <1>10, <1>11, <2>2
<1>13. Lost \cup {e} \subseteq LinkedRows'
  BY <1>6 DEF Lags
<1>14. More = Lost \cup {e} /\ Head(list') \in More
  BY <1>1 DEF e
<1>15. Cardinality(More) <= broken' + (IF pc' = "count" THEN 1 ELSE 0)
  BY <1>1, <1>12, <1>14
<1> QED BY <1>9, <1>13, <1>14, <1>15 DEF Lags

LEMMA LagsWhenCounting ==
  ASSUME IncidentsAssumption, Typed, ListInv, NEW Lost, Lags(Lost), Count, NEW Left, Left = Lost \ {Head(list)}
  PROVE  Lags(Left)'
<1> DEFINE e == Head(list)
<1>1. /\ UNCHANGED <<evidence, broken>> /\ pc = "count" /\ pc' = "choose" /\ chosen \in DOMAIN incidents
      /\ broken \in Nat
  BY DEF Count, bounds, Typed
<1>2. e \in DOMAIN evidence /\ evidence[e].incident = chosen /\ e \in Lost
  BY <1>1, ListRows DEF ListInv, Lags, Typed
<1>3. /\ DOMAIN incidents' = DOMAIN incidents /\ incidents'[chosen].count = incidents[chosen].count + 1
      /\ \A i \in DOMAIN incidents \ {chosen} : incidents'[i] = incidents[i]
  BY CountAdds
<1> HIDE DEF e
<1>4. \A i \in DOMAIN incidents \ {chosen} : Linked(i) \ (Lost \ {e}) = Linked(i) \ Lost
  BY <1>2 DEF Linked
<1>5. Linked(chosen) \ (Lost \ {e}) = (Linked(chosen) \ Lost) \cup {e} /\ e \notin Linked(chosen) \ Lost
  BY <1>2 DEF Linked
<1>6. IsFiniteSet(Linked(chosen) \ Lost) /\ Linked(chosen) \ Lost \subseteq DOMAIN evidence
  BY LinkedFinite DEF Linked
<1>7. Cardinality(Linked(chosen) \ (Lost \ {e})) = Cardinality(Linked(chosen) \ Lost) + 1
  BY <1>5, <1>6, FS_AddElement
<1>8. \A i \in DOMAIN incidents' : incidents'[i].count = Cardinality(Linked(i) \ (Lost \ {e}))
  BY <1>1, <1>3, <1>4, <1>7 DEF Lags
<1>9. (\A i : Linked(i)' = Linked(i)) /\ LinkedRows' = LinkedRows
  BY <1>1 DEF Linked, LinkedRows
<1>10. IsFiniteSet(Lost) /\ Cardinality(Lost) \in Nat
  BY LinkedFinite DEF Lags, LinkedRows
<1>11. Cardinality(Lost \ {e}) = Cardinality(Lost) - 1
  BY <1>2, <1>10, FS_RemoveElement
<1>12. Cardinality(Lost) <= broken + 1
  BY <1>1 DEF Lags
<1>13. Cardinality(Lost \ {e}) <= broken
  BY <1>1, <1>10, <1>11, <1>12
<1>14. \A i \in DOMAIN incidents' : incidents'[i].count = Cardinality(Linked(i)' \ (Lost \ {e}))
  BY <1>8, <1>9
<1>15. Lost \ {e} \subseteq LinkedRows'
  BY <1>9 DEF Lags
<1>16. Left = Lost \ {e}
  BY DEF e
<1>17. Cardinality(Left) <= broken' + (IF pc' = "count" THEN 1 ELSE 0)
  BY <1>1, <1>13, <1>16
<1> QED BY <1>1, <1>14, <1>15, <1>16, <1>17 DEF Lags

LEMMA LostStays == ASSUME IncidentsAssumption, Typed, ListInv, LostInv, Next PROVE LostInv'
<1>0. PICK Lost : Lags(Lost)
  BY DEF LostInv
<1> SUFFICES \E L : Lags(L)'
  BY DEF LostInv
<1>1. CASE Choose
  BY <1>0, <1>1, LagsWhenChoosing
<1>2. CASE Link
  BY <1>0, <1>2, LagsWhenLinking
<1>3. CASE Count
  BY <1>0, <1>3, LagsWhenCounting
<1>4. CASE Arrive \/ Retract
  <2>1. UNCHANGED <<incidents, pc, broken, list>>
    BY <1>4 DEF Arrive, Retract, work, bounds
  <2>2. (\A i \in DOMAIN incidents : Linked(i)' = Linked(i)) /\ LinkedRows' = LinkedRows
    BY <1>4, SameLinks
  <2> QED BY <1>0, <2>1, <2>2, LagsKept
<1>5. CASE TimePasses \/ Begin \/ Grouped \/ Reason \/ Supersede \/ Conclude \/ End
  <2>1. UNCHANGED <<incidents, evidence, broken>> /\ pc # "count" /\ pc' # "count"
    BY <1>5 DEF TimePasses, Begin, Grouped, Reason, Supersede, Conclude, End, work, bounds
  <2>2. (\A i \in DOMAIN incidents : Linked(i)' = Linked(i)) /\ LinkedRows' = LinkedRows
    BY <2>1, SameLinks
  <2> QED BY <1>0, <2>1, <2>2, LagsKept
<1>6. CASE StoreCause
  <2>1. UNCHANGED <<evidence, broken>> /\ pc # "count" /\ pc' # "count"
    BY <1>6 DEF StoreCause, work
  <2>2. (\A i \in DOMAIN incidents : Linked(i)' = Linked(i)) /\ LinkedRows' = LinkedRows
    BY <2>1, SameLinks
  <2> QED BY <1>0, <1>6, <2>1, <2>2, LagsKept, StoreSets DEF SameTotals
<1>7. CASE Break
  <2>1. UNCHANGED <<incidents, evidence>> /\ pc' # "count" /\ broken' = broken + 1
    BY <1>7 DEF Break
  <2>2. (\A i \in DOMAIN incidents : Linked(i)' = Linked(i)) /\ LinkedRows' = LinkedRows
    BY <2>1, SameLinks
  <2> QED BY <1>0, <2>1, <2>2, LagsKept
<1>8. ASSUME NEW o \in Operators, Look(o) \/ UpdateIncidentStatus(o) PROVE Lags(Lost)'
  <2>1. UNCHANGED <<evidence, pc, broken, list>>
    BY <1>8 DEF Look, UpdateIncidentStatus, work, bounds
  <2>2. (\A i \in DOMAIN incidents : Linked(i)' = Linked(i)) /\ LinkedRows' = LinkedRows
    BY <2>1, SameLinks
  <2>3. /\ DOMAIN incidents' = DOMAIN incidents
        /\ \A i \in DOMAIN incidents : incidents'[i].count = incidents[i].count
    <3>1. CASE UNCHANGED incidents
      BY <3>1
    <3>2. CASE UpdateIncidentStatus(o)
      BY <3>2, UpdateSets DEF SameTotals
    <3> QED BY <1>8, <3>1, <3>2 DEF Look
  <2> QED BY <1>0, <2>1, <2>2, <2>3, LagsKept
<1> QED BY <1>1, <1>2, <1>3, <1>4, <1>5, <1>6, <1>7, <1>8 DEF Next

LEMMA LostIsLag ==
  ASSUME IncidentsAssumption, Typed, LostInv PROVE CountLags /\ TypeOK
<1>0. PICK Lost : Lags(Lost)
  BY DEF LostInv
<1>1. CountLags
  BY <1>0 DEF CountLags, Lags, LinkedRows
<1>2. \A i \in DOMAIN incidents : incidents[i].count \in 0..Len(evidence)
  <2> SUFFICES ASSUME NEW i \in DOMAIN incidents PROVE incidents[i].count \in 0..Len(evidence)
    OBVIOUS
  <2>1. Linked(i) \ Lost \subseteq DOMAIN evidence
    BY DEF Linked
  <2>2. Cardinality(Linked(i) \ Lost) \in Nat /\ Cardinality(Linked(i) \ Lost) <= Len(evidence)
    BY <2>1, LinkedFinite
  <2>3. incidents[i].count = Cardinality(Linked(i) \ Lost)
    BY <1>0 DEF Lags
  <2> QED BY <2>2, <2>3, Rows
<1>3. \A e \in DOMAIN evidence : evidence[e].incident \in 0..Len(incidents)
  BY Rows DEF Typed, EvidenceRow
<1>4. \A i \in DOMAIN incidents : incidents[i].status \in Statuses /\ incidents[i].opened \in Times
                                 /\ incidents[i].last \in Times
  BY Rows DEF IncidentRow
<1>5. TypeOK
  BY <1>2, <1>3, <1>4 DEF TypeOK, Typed, Statuses
<1> QED BY <1>1, <1>5

-----------------------------------------------------------------------------
(* The span and the severity of an incident bound its rows, but for one    *)
(* that is linked and not counted yet, and are those of its rows or of the *)
(* one it was opened for.                                                  *)
Owners(i) == Linked(i) \cup (IF pc = "link" /\ i = chosen THEN {Head(list)} ELSE {})
Bounded(i) ==
  \A d \in Linked(i) :
    \/ pc = "count" /\ d = Head(list)
    \/ /\ incidents[i].opened <= evidence[d].ts /\ evidence[d].ts <= incidents[i].last
       /\ incidents[i].severity <= evidence[d].kind.severity
Attained(i) ==
  /\ \E d \in Owners(i) : d \in DOMAIN evidence /\ incidents[i].opened = evidence[d].ts
  /\ \E d \in Owners(i) : d \in DOMAIN evidence /\ incidents[i].last = evidence[d].ts
  /\ \E d \in Owners(i) : d \in DOMAIN evidence /\ incidents[i].severity = evidence[d].kind.severity
TotalsInv == broken = 0 => \A i \in DOMAIN incidents : Bounded(i) /\ Attained(i)

LEMMA TotalsFirst == Init => TotalsInv
BY DEF Init, TotalsInv

LEMMA TotalsKept ==
  ASSUME IncidentsAssumption, Typed, TotalsInv, Next, UNCHANGED broken,
         DOMAIN incidents' = DOMAIN incidents,
         \A i \in DOMAIN incidents : SameTotals(i) /\ Linked(i)' = Linked(i),
         \/ UNCHANGED <<pc, list, chosen>>
         \/ pc \notin {"link", "count"} /\ pc' \notin {"link", "count"}
  PROVE  TotalsInv'
<1> SUFFICES ASSUME broken = 0, NEW i \in DOMAIN incidents PROVE Bounded(i)' /\ Attained(i)'
  BY DEF TotalsInv
<1>1. Bounded(i) /\ Attained(i) /\ SameTotals(i) /\ Linked(i)' = Linked(i)
  BY DEF TotalsInv
<1>2. Owners(i)' = Owners(i)
  BY <1>1 DEF Owners
<1>3. \A d \in DOMAIN evidence : d \in DOMAIN evidence' /\ SameRow(d)
  BY RowsStay
<1>4. Linked(i) \subseteq DOMAIN evidence
  BY DEF Linked
<1>5. Bounded(i)'
  BY <1>1, <1>3, <1>4 DEF Bounded, SameTotals, SameRow
<1>6. Attained(i)'
  BY <1>1, <1>2, <1>3 DEF Attained, SameTotals, SameRow
<1> QED BY <1>5, <1>6

LEMMA RowTypes ==
  ASSUME IncidentsAssumption, Typed
  PROVE  /\ \A d \in DOMAIN evidence : evidence[d].ts \in Nat /\ evidence[d].kind.severity \in Nat
         /\ \A i \in DOMAIN incidents : /\ incidents[i].opened \in Nat /\ incidents[i].last \in Nat
                                        /\ incidents[i].severity \in Nat
<1>1. \A d \in DOMAIN evidence : evidence[d] \in EvidenceRow
  BY Rows
<1>2. \A i \in DOMAIN incidents : incidents[i] \in IncidentRow
  BY Rows
<1> QED BY <1>1, <1>2 DEF EvidenceRow, IncidentRow, IncidentsAssumption

LEMMA TotalsWhenChoosing == ASSUME IncidentsAssumption, Typed, TotalsInv, Choose PROVE TotalsInv'
<1> DEFINE e == Head(list)
<1>1. /\ UNCHANGED <<evidence, broken, list>> /\ pc = "choose" /\ pc' = "link" /\ e \in DOMAIN evidence
  BY ListRows DEF Choose, bounds
<1> SUFFICES ASSUME broken = 0, NEW i \in DOMAIN incidents' PROVE Bounded(i)' /\ Attained(i)'
  BY <1>1 DEF TotalsInv
<1>2. Linked(i)' = Linked(i)
  BY <1>1 DEF Linked
<1>3. ASSUME i \in DOMAIN incidents, incidents'[i] = incidents[i] PROVE Bounded(i)' /\ Attained(i)'
  <2>1. Bounded(i) /\ Attained(i)
    BY <1>3 DEF TotalsInv
  <2>2. Owners(i) = Linked(i) /\ Linked(i) \subseteq Owners(i)'
    BY <1>1, <1>2 DEF Owners
  <2>3. Bounded(i)'
    BY <1>1, <1>2, <1>3, <2>1 DEF Bounded
  <2>4. Attained(i)'
    BY <1>1, <1>3, <2>1, <2>2 DEF Attained
  <2> QED BY <2>3, <2>4
<1>4. ASSUME i = chosen', i \notin DOMAIN incidents, i # 0,
             incidents'[i].opened = evidence[e].ts, incidents'[i].last = evidence[e].ts,
             incidents'[i].severity = evidence[e].kind.severity
      PROVE  Bounded(i)' /\ Attained(i)'
  <2>1. Linked(i) = {}
    BY <1>4, NoneLinkedYet
  <2>2. e \in Owners(i)'
    BY <1>1, <1>4 DEF Owners
  <2>3. Bounded(i)'
    BY <1>2, <2>1 DEF Bounded
  <2>4. Attained(i)'
    BY <1>1, <1>4, <2>2 DEF Attained
  <2> QED BY <2>3, <2>4
<1>5. CASE UNCHANGED incidents
  BY <1>3, <1>5
<1>6. CASE incidents' # incidents
  <2>1. /\ DOMAIN incidents' = DOMAIN incidents \cup {chosen'} /\ chosen' = Len(incidents) + 1
        /\ \A j \in DOMAIN incidents : incidents'[j] = incidents[j] /\ j # chosen'
        /\ incidents'[chosen'].opened = evidence[e].ts /\ incidents'[chosen'].last = evidence[e].ts
        /\ incidents'[chosen'].severity = evidence[e].kind.severity
    BY <1>6, ChooseAdds
  <2>2. chosen' # 0
    BY <2>1, Rows
  <2>3. CASE i \in DOMAIN incidents
    BY <1>3, <2>1, <2>3
  <2>4. CASE i = chosen'
    BY <1>4, <2>1, <2>2, <2>4
  <2> QED BY <2>1, <2>3, <2>4
<1> QED BY <1>5, <1>6

LEMMA TotalsWhenLinking == ASSUME IncidentsAssumption, Typed, ListInv, TotalsInv, Link PROVE TotalsInv'
<1> DEFINE e == Head(list)
<1>1. /\ UNCHANGED <<incidents, broken, list, chosen>> /\ pc = "link" /\ pc' = "count" /\ list # <<>>
      /\ chosen \in DOMAIN incidents
  BY DEF Link, bounds, work, Typed
<1> SUFFICES ASSUME broken = 0, NEW i \in DOMAIN incidents PROVE Bounded(i)' /\ Attained(i)'
  BY <1>1 DEF TotalsInv
<1>2. e \in DOMAIN evidence /\ evidence[e].incident = 0
  BY <1>1, ListRows DEF ListInv
<1>3. /\ DOMAIN evidence' = DOMAIN evidence /\ evidence'[e].incident = chosen
      /\ \A d \in DOMAIN evidence : SameRow(d)
      /\ \A d \in DOMAIN evidence \ {e} : evidence'[d] = evidence[d]
  BY LinkRows
<1>4. Bounded(i) /\ Attained(i)
  BY DEF TotalsInv
<1>5. e = Head(list)'
  BY <1>1
<1> HIDE DEF e
<1>6. Linked(i)' \subseteq Linked(i) \cup {e}
  BY <1>3 DEF Linked
<1>7. Linked(i) \subseteq Linked(i)' /\ Linked(i) \subseteq DOMAIN evidence
  BY <1>2, <1>3, Rows DEF Linked
<1>8. i = chosen => e \in Linked(i)'
  BY <1>1, <1>2, <1>3 DEF Linked
<1>9. Owners(i) \subseteq Owners(i)'
  BY <1>7, <1>8 DEF Owners, e
<1>10. Bounded(i)'
  BY <1>1, <1>3, <1>4, <1>5, <1>6, <1>7 DEF Bounded, SameRow
<1>11. Attained(i)'
  BY <1>1, <1>3, <1>4, <1>9 DEF Attained, SameRow
<1> QED BY <1>10, <1>11

LEMMA TotalsWhenCounting == ASSUME IncidentsAssumption, Typed, ListInv, TotalsInv, Count PROVE TotalsInv'
<1> DEFINE e == Head(list)
           r == incidents[chosen]
           n == incidents'[chosen]
           t == evidence[e].ts
           s == evidence[e].kind.severity
<1>1. /\ UNCHANGED <<evidence, broken, chosen>> /\ pc = "count" /\ pc' = "choose"
      /\ chosen \in DOMAIN incidents /\ list # <<>>
  BY DEF Count, bounds, Typed
<1>2. e \in DOMAIN evidence /\ evidence[e].incident = chosen
  BY <1>1, ListRows DEF ListInv
<1>3. /\ DOMAIN incidents' = DOMAIN incidents
      /\ \A i \in DOMAIN incidents \ {chosen} : incidents'[i] = incidents[i]
      /\ n.opened = (IF r.opened <= t THEN r.opened ELSE t)
      /\ n.last = (IF r.last >= t THEN r.last ELSE t)
      /\ n.severity = (IF r.severity <= s THEN r.severity ELSE s)
  BY CountAdds
<1>4. /\ r.opened \in Nat /\ r.last \in Nat /\ r.severity \in Nat /\ t \in Nat /\ s \in Nat
      /\ \A d \in DOMAIN evidence : evidence[d].ts \in Nat /\ evidence[d].kind.severity \in Nat
  BY <1>1, <1>2, RowTypes
<1> SUFFICES ASSUME broken = 0, NEW i \in DOMAIN incidents PROVE Bounded(i)' /\ Attained(i)'
  BY <1>1, <1>3 DEF TotalsInv
<1>5. Bounded(i) /\ Attained(i) /\ Linked(i)' = Linked(i) /\ Linked(i) \subseteq DOMAIN evidence
  BY <1>1 DEF TotalsInv, Linked
<1>6. Owners(i) = Linked(i) /\ Owners(i)' = Linked(i)
  BY <1>1, <1>5 DEF Owners
<1>7. CASE i # chosen
  <2>1. e \notin Linked(i)
    BY <1>2, <1>7 DEF Linked
  <2>2. incidents'[i] = incidents[i]
    BY <1>3, <1>7
  <2>3. Bounded(i)'
    BY <1>1, <1>5, <2>1, <2>2 DEF Bounded
  <2>4. Attained(i)'
    BY <1>1, <1>5, <1>6, <2>2 DEF Attained
  <2> QED BY <2>3, <2>4
<1>8. CASE i = chosen
  <2>1. e \in Linked(i)
    BY <1>2, <1>8 DEF Linked
  <2>2. \A d \in Linked(i) : n.opened <= evidence[d].ts /\ evidence[d].ts <= n.last
                             /\ n.severity <= evidence[d].kind.severity
    <3>1. TAKE d \in Linked(i)
    <3>2. evidence[d].ts \in Nat /\ evidence[d].kind.severity \in Nat
      BY <1>4, <1>5
    <3>3. CASE d = e
      BY <1>3, <1>4, <3>3
    <3>4. CASE d # e
      <4>1. r.opened <= evidence[d].ts /\ evidence[d].ts <= r.last /\ r.severity <= evidence[d].kind.severity
        BY <1>5, <1>8, <3>4 DEF Bounded
      <4> QED BY <1>3, <1>4, <3>2, <4>1
    <3> QED BY <3>3, <3>4
  <2>3. Bounded(i)'
    BY <1>1, <1>5, <1>8, <2>2 DEF Bounded
  <2>4. /\ \E d \in Linked(i) : r.opened = evidence[d].ts
        /\ \E d \in Linked(i) : r.last = evidence[d].ts
        /\ \E d \in Linked(i) : r.severity = evidence[d].kind.severity
    BY <1>5, <1>6, <1>8 DEF Attained
  <2>5. \E d \in Linked(i) : n.opened = evidence[d].ts
    BY <1>3, <2>1, <2>4
  <2>6. \E d \in Linked(i) : n.last = evidence[d].ts
    BY <1>3, <2>1, <2>4
  <2>7. \E d \in Linked(i) : n.severity = evidence[d].kind.severity
    BY <1>3, <2>1, <2>4
  <2>8. Attained(i)'
    BY <1>1, <1>5, <1>6, <1>8, <2>5, <2>6, <2>7 DEF Attained
  <2> QED BY <2>3, <2>8
<1> QED BY <1>7, <1>8

LEMMA TotalsStay == ASSUME IncidentsAssumption, Typed, ListInv, TotalsInv, Next PROVE TotalsInv'
<1>1. CASE Choose
  BY <1>1, TotalsWhenChoosing
<1>2. CASE Link
  BY <1>2, TotalsWhenLinking
<1>3. CASE Count
  BY <1>3, TotalsWhenCounting
<1>4. CASE Arrive \/ Retract
  <2>1. UNCHANGED <<incidents, pc, broken, list, chosen>>
    BY <1>4 DEF Arrive, Retract, work, bounds
  <2> QED BY <1>4, <2>1, SameLinks, TotalsKept DEF SameTotals
<1>5. CASE TimePasses \/ Begin \/ Grouped \/ Reason \/ Supersede \/ Conclude \/ End
  <2>1. UNCHANGED <<incidents, evidence, broken>> /\ pc \notin {"link", "count"} /\ pc' \notin {"link", "count"}
    BY <1>5 DEF TimePasses, Begin, Grouped, Reason, Supersede, Conclude, End, work, bounds
  <2> QED BY <2>1, SameLinks, TotalsKept DEF SameTotals
<1>6. CASE StoreCause
  <2>1. UNCHANGED <<evidence, broken>> /\ pc \notin {"link", "count"} /\ pc' \notin {"link", "count"}
    BY <1>6 DEF StoreCause, work
  <2> QED BY <1>6, <2>1, SameLinks, TotalsKept, StoreSets
<1>7. CASE Break
  <2>1. broken \in Nat /\ broken' = broken + 1
    BY <1>7 DEF Break, Typed
  <2> QED BY <2>1 DEF TotalsInv
<1>8. ASSUME NEW o \in Operators, Look(o) \/ UpdateIncidentStatus(o) PROVE TotalsInv'
  <2>1. UNCHANGED <<evidence, pc, broken, list, chosen>>
    BY <1>8 DEF Look, UpdateIncidentStatus, work, bounds
  <2>2. /\ DOMAIN incidents' = DOMAIN incidents
        /\ \A i \in DOMAIN incidents : SameTotals(i)
    <3>1. CASE UNCHANGED incidents
      BY <3>1 DEF SameTotals
    <3>2. CASE UpdateIncidentStatus(o)
      BY <3>2, UpdateSets
    <3> QED BY <1>8, <3>1, <3>2 DEF Look
  <2> QED BY <2>1, <2>2, SameLinks, TotalsKept
<1> QED BY <1>1, <1>2, <1>3, <1>4, <1>5, <1>6, <1>7, <1>8 DEF Next

LEMMA LeastIs == ASSUME NEW S \in SUBSET Nat, NEW x \in S, \A y \in S : x <= y PROVE Min(S) = x
<1>1. \A y \in S : (\A z \in S : y <= z) => y = x
  OBVIOUS
<1> QED BY <1>1 DEF Min

LEMMA GreatestIs == ASSUME NEW S \in SUBSET Nat, NEW x \in S, \A y \in S : x >= y PROVE Max(S) = x
<1>1. \A y \in S : (\A z \in S : y >= z) => y = x
  OBVIOUS
<1> QED BY <1>1 DEF Max

LEMMA TotalsAre ==
  ASSUME IncidentsAssumption, Typed, LostInv, TotalsInv PROVE TotalsMatch
<1> SUFFICES ASSUME pc = "idle", broken = 0, NEW i \in DOMAIN incidents
             PROVE  LET T == {evidence[e].ts : e \in Linked(i)}
                    IN /\ incidents[i].count = Cardinality(Linked(i))
                       /\ incidents[i].opened = Min(T) /\ incidents[i].last = Max(T)
                       /\ incidents[i].severity = Min({evidence[e].kind.severity : e \in Linked(i)})
  BY DEF TotalsMatch
<1> DEFINE T == {evidence[e].ts : e \in Linked(i)}
           V == {evidence[e].kind.severity : e \in Linked(i)}
<1>1. Linked(i) \subseteq DOMAIN evidence
  BY DEF Linked
<1>2. T \in SUBSET Nat /\ V \in SUBSET Nat
  BY <1>1, RowTypes
<1>3. Bounded(i) /\ Attained(i)
  BY DEF TotalsInv
<1>4. Owners(i) = Linked(i)
  BY DEF Owners
<1>5. incidents[i].opened \in T /\ incidents[i].last \in T /\ incidents[i].severity \in V
  BY <1>3, <1>4 DEF Attained
<1>6. /\ \A y \in T : incidents[i].opened <= y
      /\ \A y \in V : incidents[i].severity <= y
  BY <1>3 DEF Bounded
<1>7. \A y \in T : incidents[i].last >= y
  BY <1>1, <1>3, RowTypes DEF Bounded
<1>8. incidents[i].count = Cardinality(Linked(i))
  <2>1. PICK Lost : Lags(Lost)
    BY DEF LostInv
  <2>2. IsFiniteSet(Lost) /\ Cardinality(Lost) \in Nat
    BY <2>1, LinkedFinite DEF Lags, LinkedRows
  <2>3. Cardinality(Lost) = 0
    BY <2>1, <2>2 DEF Lags
  <2>4. Lost = {}
    BY <2>2, <2>3, FS_EmptySet
  <2>5. Linked(i) \ Lost = Linked(i)
    BY <2>4
  <2> QED BY <2>1, <2>5 DEF Lags
<1> HIDE DEF T, V
<1>9. Min(T) = incidents[i].opened
  BY <1>2, <1>5, <1>6, LeastIs
<1>10. Max(T) = incidents[i].last
  BY <1>2, <1>5, <1>7, GreatestIs
<1>11. Min(V) = incidents[i].severity
  BY <1>2, <1>5, <1>6, LeastIs
<1> QED BY <1>8, <1>9, <1>10, <1>11 DEF T, V

-----------------------------------------------------------------------------
(* While nothing is cut off and no statement fails, each incident is       *)
(* concluded, or waits for it, or has lost a row that no grouping has      *)
(* looked for, or that this one is still to look for.                      *)
Concluded(i) ==
  \A A : A = Active(i) /\ A # {} =>
    /\ incidents[i].cause \in Causes(A)
    /\ \E k \in Currents(i) : conclusions[k].cause = incidents[i].cause /\ conclusions[k].refs = A
Overlooked(i) == \E e \in Linked(i) : evidence[e].status = "retracted" /\ e \in unseen
LookedFor(i) == \E e \in Linked(i) : evidence[e].status = "retracted" /\ e \notin aged
Held(i) == i = chosen /\ pc \in {"supersede", "conclude", "store"}
Fine(i) ==
  \/ Concluded(i)
  \/ i \in touched
  \/ i = chosen /\ pc = "count"
  \/ Held(i)
  \/ Overlooked(i)
  \/ LookedFor(i) /\ pc \in {"choose", "link", "count"}
InHand(i) ==
  /\ \/ \A A : A = Active(i) => drawn.refs = A /\ drawn.cause \in Causes(A)
     \/ Overlooked(i)
  /\ pc = "store" =>
       \E k \in Currents(i) : conclusions[k].cause = drawn.cause /\ conclusions[k].refs = drawn.refs

IdleInv == pc = "idle" => touched = {}
FineInv ==
  broken = 0 /\ failed = 0 =>
    \A i \in DOMAIN incidents : Fine(i) /\ (Held(i) => InHand(i))

LEMMA FineFirst == Init => IdleInv /\ FineInv
BY DEF Init, IdleInv, FineInv

LEMMA IdleStays == ASSUME IdleInv, Next PROVE IdleInv'
<1>1. CASE Begin \/ Choose \/ Link \/ Count \/ Grouped \/ Supersede \/ Conclude \/ StoreCause
  <2>1. pc' # "idle"
    BY <1>1 DEF Begin, Choose, Link, Count, Grouped, Supersede, Conclude, StoreCause
  <2> QED BY <2>1 DEF IdleInv
<1>2. CASE End \/ Break
  BY <1>2 DEF IdleInv, End, Break, work
<1>3. CASE Arrive \/ Retract \/ TimePasses \/ \E o \in Operators : Look(o) \/ UpdateIncidentStatus(o)
  <2>1. UNCHANGED <<pc, touched>>
    BY <1>3 DEF Arrive, Retract, TimePasses, Look, UpdateIncidentStatus, work
  <2> QED BY <2>1 DEF IdleInv
<1>4. CASE Reason
  <2>1. pc' # "idle"
    BY <1>4 DEF Reason
  <2> QED BY <2>1 DEF IdleInv
<1> QED BY <1>1, <1>2, <1>3, <1>4 DEF Next

LEMMA CausesStay ==
  ASSUME IncidentsAssumption, Typed, Next, NEW A \in SUBSET DOMAIN evidence
  PROVE  Causes(A)' = Causes(A)
<1>1. \A d \in A : SameRow(d)
  BY RowsStay
<1>2. Triggers(A)' = Triggers(A)
  BY <1>1 DEF Triggers, SameRow, Earlier
<1>3. Triggers(A) \subseteq A
  BY DEF Triggers
<1>4. {evidence'[e].kind.rule : e \in Triggers(A)} = {evidence[e].kind.rule : e \in Triggers(A)}
  BY <1>1, <1>3 DEF SameRow
<1>5. (\A e \in A : evidence'[e].kind.role # "trigger") <=> (\A e \in A : evidence[e].kind.role # "trigger")
  BY <1>1 DEF SameRow
<1> QED BY <1>2, <1>4, <1>5 DEF Causes

LEMMA ConcludedKept ==
  ASSUME IncidentsAssumption, Typed, Next, NEW i, Active(i)' = Active(i),
         incidents'[i].cause = incidents[i].cause,
         \A k \in Currents(i) : k \in Currents(i)' /\ conclusions'[k] = conclusions[k],
         Concluded(i)
  PROVE  Concluded(i)'
<1> SUFFICES ASSUME NEW A, A = Active(i)', A # {}
             PROVE  /\ incidents'[i].cause \in Causes(A)'
                    /\ \E k \in Currents(i)' : conclusions'[k].cause = incidents'[i].cause /\ conclusions'[k].refs = A
  BY DEF Concluded
<1>1. A = Active(i) /\ A \in SUBSET DOMAIN evidence
  BY DEF Active, Linked
<1>2. Causes(A)' = Causes(A)
  BY <1>1, CausesStay
<1>3. /\ incidents[i].cause \in Causes(A)
      /\ \E k \in Currents(i) : conclusions[k].cause = incidents[i].cause /\ conclusions[k].refs = A
  BY <1>1 DEF Concluded
<1> QED BY <1>2, <1>3

LEMMA DrawnKept ==
  ASSUME IncidentsAssumption, Typed, Next, NEW i, Active(i)' = Active(i), UNCHANGED drawn,
         \A A : A = Active(i) => drawn.refs = A /\ drawn.cause \in Causes(A)
  PROVE  (\A A : A = Active(i) => drawn.refs = A /\ drawn.cause \in Causes(A))'
<1> SUFFICES ASSUME NEW A, A = Active(i)' PROVE drawn'.refs = A /\ drawn'.cause \in Causes(A)'
  OBVIOUS
<1>1. A = Active(i) /\ A \in SUBSET DOMAIN evidence
  BY DEF Active, Linked
<1>2. Causes(A)' = Causes(A)
  BY <1>1, CausesStay
<1> QED BY <1>1, <1>2

LEMMA ConclusionsSame ==
  ASSUME UNCHANGED conclusions, NEW i
  PROVE  \A k \in Currents(i) : k \in Currents(i)' /\ conclusions'[k] = conclusions[k]
BY DEF Currents

(* An incident at which nothing changes, while the grouping goes on.       *)
LEMMA FineKept ==
  ASSUME IncidentsAssumption, Typed, FineInv, Next, NEW i \in DOMAIN incidents, broken = 0, failed = 0,
         Active(i)' = Active(i), Linked(i)' = Linked(i), UNCHANGED <<drawn, conclusions>>,
         incidents'[i].cause = incidents[i].cause,
         \A e \in Linked(i) : evidence'[e].status = evidence[e].status,
         unseen \subseteq unseen', aged' \subseteq aged \/ pc = "idle",
         UNCHANGED <<pc, chosen, touched>>
  PROVE  Fine(i)' /\ (Held(i) => InHand(i))'
<1>1. Fine(i) /\ (Held(i) => InHand(i))
  BY DEF FineInv
<1>2. /\ Overlooked(i) => Overlooked(i)'
      /\ LookedFor(i) /\ pc # "idle" => LookedFor(i)'
  BY DEF Overlooked, LookedFor
<1>3. Held(i)' <=> Held(i)
  BY DEF Held
<1>4. Concluded(i) => Concluded(i)'
  BY ConcludedKept, ConclusionsSame
<1>5. Fine(i)'
  BY <1>1, <1>2, <1>3, <1>4 DEF Fine
<1>6. ASSUME Held(i) PROVE InHand(i)'
  <2>1. (\A A : A = Active(i) => drawn.refs = A /\ drawn.cause \in Causes(A)) =>
          (\A A : A = Active(i) => drawn.refs = A /\ drawn.cause \in Causes(A))'
    BY DrawnKept
  <2>2. Currents(i)' = Currents(i)
    BY DEF Currents
  <2>3. InHand(i)
    BY <1>1, <1>6
  <2> QED BY <1>2, <2>1, <2>2, <2>3 DEF InHand
<1> QED BY <1>3, <1>5, <1>6

LEMMA FineArrive == ASSUME IncidentsAssumption, Typed, FineInv, Next, Arrive PROVE FineInv'
<1>1. UNCHANGED <<incidents, conclusions, pc, list, chosen, touched, drawn, broken, failed, aged, unseen>>
  BY DEF Arrive, work, bounds
<1>2. \A i \in DOMAIN incidents : Linked(i)' = Linked(i)
  BY SameLinks
<1>3. \A d \in DOMAIN evidence : evidence'[d] = evidence[d]
  BY ArriveRows
<1>4. \A i \in DOMAIN incidents : Active(i)' = Active(i)
  BY <1>2, <1>3 DEF Active, Linked
<1>5. \A i \in DOMAIN incidents : \A e \in Linked(i) : evidence'[e].status = evidence[e].status
  BY <1>3 DEF Linked
<1> SUFFICES ASSUME broken = 0, failed = 0, NEW i \in DOMAIN incidents
             PROVE  Fine(i)' /\ (Held(i) => InHand(i))'
  BY <1>1 DEF FineInv
<1> QED BY <1>1, <1>2, <1>4, <1>5, FineKept

LEMMA FineTime == ASSUME IncidentsAssumption, Typed, FineInv, Next, TimePasses PROVE FineInv'
<1>1. /\ UNCHANGED <<evidence, incidents, conclusions, pc, list, chosen, touched, drawn, broken, failed, unseen>>
      /\ pc = "idle"
  BY DEF TimePasses, work, bounds
<1> SUFFICES ASSUME broken = 0, failed = 0, NEW i \in DOMAIN incidents
             PROVE  Fine(i)' /\ (Held(i) => InHand(i))'
  BY <1>1 DEF FineInv
<1>2. Active(i)' = Active(i) /\ Linked(i)' = Linked(i)
  BY <1>1 DEF Active, Linked
<1> QED BY <1>1, <1>2, FineKept

LEMMA FineRetract == ASSUME IncidentsAssumption, Typed, FineInv, Next, Retract PROVE FineInv'
<1>1. UNCHANGED <<incidents, conclusions, pc, list, chosen, touched, drawn, broken, failed>>
  BY DEF Retract, work, bounds
<1>2. \A i \in DOMAIN incidents : Linked(i)' = Linked(i)
  BY SameLinks
<1>a. PICK e \in DOMAIN evidence : /\ evidence[e].status = "active"
                                   /\ evidence' = [evidence EXCEPT ![e].status = "retracted"]
                                   /\ aged' = aged \ {e} /\ unseen' = unseen \cup {e}
  BY DEF Retract
<1>3. /\ evidence'[e].status = "retracted" /\ e \in unseen'
      /\ \A d \in DOMAIN evidence \ {e} : evidence'[d] = evidence[d]
  <2>1. \A d \in DOMAIN evidence : evidence[d] \in EvidenceRow
    BY Rows
  <2>2. DOMAIN evidence' = DOMAIN evidence /\ evidence'[e] = [evidence[e] EXCEPT !.status = "retracted"]
    BY <1>a DEF Typed
  <2>3. evidence'[e].status = "retracted"
    BY <2>1, <2>2 DEF EvidenceRow
  <2> QED BY <1>a, <2>3 DEF Typed
<1>b. unseen \subseteq unseen' /\ aged' \subseteq aged
  BY <1>a
<1> SUFFICES ASSUME broken = 0, failed = 0, NEW i \in DOMAIN incidents
             PROVE  Fine(i)' /\ (Held(i) => InHand(i))'
  BY <1>1 DEF FineInv
<1>4. CASE e \in Linked(i)
  <2>1. Overlooked(i)'
    BY <1>2, <1>3, <1>4 DEF Overlooked
  <2>2. Fine(i)'
    BY <2>1 DEF Fine
  <2>3. Held(i)' => Held(i)
    BY <1>1 DEF Held
  <2>4. Held(i) => InHand(i)
    BY DEF FineInv
  <2>5. Currents(i)' = Currents(i)
    BY <1>1 DEF Currents
  <2>6. (Held(i) => InHand(i))'
    BY <1>1, <2>1, <2>3, <2>4, <2>5 DEF InHand
  <2> QED BY <2>2, <2>6
<1>5. CASE e \notin Linked(i)
  <2>1. \A d \in Linked(i) : evidence'[d] = evidence[d]
    BY <1>3, <1>5 DEF Linked
  <2>2. Active(i)' = Active(i)
    BY <1>2, <2>1 DEF Active
  <2> QED BY <1>1, <1>2, <1>b, <2>1, <2>2, FineKept
<1> QED BY <1>4, <1>5

(* An incident that stays concluded, or overlooked, where nothing is held. *)
LEMMA StillConcluded ==
  ASSUME IncidentsAssumption, Typed, Next, NEW i, UNCHANGED <<evidence, conclusions>>,
         incidents'[i].cause = incidents[i].cause, Concluded(i)
  PROVE  Concluded(i)'
<1>1. Active(i)' = Active(i)
  BY DEF Active, Linked
<1> QED BY <1>1, ConcludedKept, ConclusionsSame

LEMMA StillLost ==
  ASSUME UNCHANGED <<evidence, aged, unseen>>, NEW i
  PROVE  (Overlooked(i)' <=> Overlooked(i)) /\ (LookedFor(i)' <=> LookedFor(i))
BY DEF Overlooked, LookedFor, Linked

LEMMA FineBegin == ASSUME IncidentsAssumption, Typed, IdleInv, FineInv, Next, Begin PROVE FineInv'
<1>1. /\ UNCHANGED <<evidence, incidents, conclusions, broken, aged>>
      /\ pc = "idle" /\ pc' = "choose" /\ touched = {} /\ unseen' = unseen \cap aged
      /\ failed \in Nat /\ failed' \in {failed, failed + 1}
  BY DEF Begin, IdleInv, ReadFails, Typed
<1> SUFFICES ASSUME broken = 0, failed = 0, failed' = 0, NEW i \in DOMAIN incidents
             PROVE  Fine(i)' /\ (Held(i) => InHand(i))'
  BY <1>1 DEF FineInv
<1>2. Concluded(i) \/ Overlooked(i)
  BY <1>1 DEF FineInv, Fine, Held
<1>3. ~Held(i)'
  BY <1>1 DEF Held
<1>4. Overlooked(i) => Overlooked(i)' \/ LookedFor(i)'
  BY <1>1 DEF Overlooked, LookedFor, Linked
<1> QED BY <1>1, <1>2, <1>3, <1>4, StillConcluded DEF Fine

LEMMA FineChoose == ASSUME IncidentsAssumption, Typed, FineInv, Next, Choose PROVE FineInv'
<1>1. /\ UNCHANGED <<evidence, conclusions, touched, aged, unseen, broken, failed>>
      /\ pc = "choose" /\ pc' = "link"
  BY DEF Choose, bounds
<1> SUFFICES ASSUME broken = 0, failed = 0, NEW i \in DOMAIN incidents'
             PROVE  Fine(i)' /\ (Held(i) => InHand(i))'
  BY <1>1 DEF FineInv
<1>2. ~Held(i)'
  BY <1>1 DEF Held
<1>3. CASE i \in DOMAIN incidents
  <2>1. incidents'[i] = incidents[i]
    BY <1>3, ChooseAdds
  <2>2. Concluded(i) \/ i \in touched \/ Overlooked(i) \/ LookedFor(i)
    BY <1>1, <1>3 DEF FineInv, Fine, Held
  <2> QED BY <1>1, <1>2, <2>1, <2>2, StillConcluded, StillLost DEF Fine
<1>4. CASE i \notin DOMAIN incidents
  <2>1. i # 0
    BY Rows, ChooseTyped DEF Typed
  <2>2. Linked(i) = {}
    BY <1>4, <2>1, NoneLinkedYet
  <2>3. Active(i)' = {}
    BY <1>1, <2>2 DEF Active, Linked
  <2>4. Concluded(i)'
    BY <2>3 DEF Concluded
  <2> QED BY <1>2, <2>4 DEF Fine
<1> QED BY <1>3, <1>4

LEMMA FineLink == ASSUME IncidentsAssumption, Typed, ListInv, FineInv, Next, Link PROVE FineInv'
<1>1. /\ UNCHANGED <<incidents, conclusions, list, chosen, touched, drawn, aged, unseen, broken, failed>>
      /\ pc = "link" /\ pc' = "count" /\ list # <<>>
  BY DEF Link, work, bounds, Typed
<1>2. Head(list) \in DOMAIN evidence /\ evidence[Head(list)].incident = 0
  BY <1>1, ListRows DEF ListInv
<1> SUFFICES ASSUME broken = 0, failed = 0, NEW i \in DOMAIN incidents
             PROVE  Fine(i)' /\ (Held(i) => InHand(i))'
  BY <1>1 DEF FineInv
<1>3. ~Held(i)'
  BY <1>1 DEF Held
<1>4. CASE i = chosen
  BY <1>1, <1>3, <1>4 DEF Fine
<1>5. CASE i # chosen
  <2>1. i # 0
    BY Rows
  <2>2. Linked(i)' = Linked(i)
    BY <1>2, <1>5, <2>1, LinkRows DEF Linked
  <2>3. \A d \in Linked(i) : evidence'[d].status = evidence[d].status
    BY LinkRows DEF Linked
  <2>4. Active(i)' = Active(i)
    BY <2>2, <2>3 DEF Active
  <2>5. (Overlooked(i)' <=> Overlooked(i)) /\ (LookedFor(i)' <=> LookedFor(i))
    BY <1>1, <2>2, <2>3 DEF Overlooked, LookedFor
  <2>6. Concluded(i) => Concluded(i)'
    BY <1>1, <2>4, ConcludedKept, ConclusionsSame
  <2>7. Fine(i)
    BY DEF FineInv
  <2> QED BY <1>1, <1>3, <1>5, <2>5, <2>6, <2>7 DEF Fine, Held
<1> QED BY <1>4, <1>5

LEMMA FineCount == ASSUME IncidentsAssumption, Typed, FineInv, Next, Count PROVE FineInv'
<1>1. /\ UNCHANGED <<evidence, conclusions, chosen, drawn, aged, unseen, broken, failed>>
      /\ pc = "count" /\ pc' = "choose" /\ touched' = touched \cup {chosen}
  BY DEF Count, bounds
<1>2. /\ DOMAIN incidents' = DOMAIN incidents
      /\ \A i \in DOMAIN incidents : incidents'[i].cause = incidents[i].cause
  BY CountAdds
<1> SUFFICES ASSUME broken = 0, failed = 0, NEW i \in DOMAIN incidents
             PROVE  Fine(i)' /\ (Held(i) => InHand(i))'
  BY <1>1, <1>2 DEF FineInv
<1>3. ~Held(i)' /\ ~Held(i) /\ Fine(i)
  BY <1>1 DEF Held, FineInv
<1> QED BY <1>1, <1>2, <1>3, StillConcluded, StillLost DEF Fine

LEMMA FineGrouped == ASSUME IncidentsAssumption, Typed, FineInv, Next, Grouped PROVE FineInv'
<1>1. /\ UNCHANGED <<evidence, incidents, conclusions, chosen, drawn, aged, unseen, broken>>
      /\ pc = "choose" /\ pc' = "reason" /\ failed \in Nat
  BY DEF Grouped, Typed
<1>2. PICK R \in SUBSET Retracted :
        /\ touched' = touched \cup R
        /\ (R = Retracted /\ UNCHANGED failed) \/ failed' = failed + 1
  BY DEF Grouped, ReadFails
<1> SUFFICES ASSUME broken = 0, failed = 0, R = Retracted, NEW i \in DOMAIN incidents
             PROVE  Fine(i)' /\ (Held(i) => InHand(i))'
  BY <1>1, <1>2 DEF FineInv
<1>3. ~Held(i)' /\ ~Held(i) /\ Fine(i)
  BY <1>1 DEF Held, FineInv
<1>4. LookedFor(i) => i \in touched'
  BY <1>2 DEF LookedFor, Retracted
<1>5. touched \subseteq touched'
  BY <1>2
<1> QED BY <1>1, <1>3, <1>4, <1>5, StillConcluded, StillLost DEF Fine

LEMMA FineReason == ASSUME IncidentsAssumption, Typed, FineInv, Next, Reason PROVE FineInv'
<1>1. /\ UNCHANGED <<evidence, incidents, conclusions, aged, unseen, broken>> /\ pc = "reason"
      /\ failed \in Nat
  BY DEF Reason, Typed
<1>2. PICK h \in touched : \E A \in SUBSET Active(h) :
        /\ (A = Active(h) /\ UNCHANGED failed) \/ failed' = failed + 1
        /\ touched' = touched \ {h} /\ chosen' = h
        /\ \/ A = {} /\ UNCHANGED pc
           \/ /\ \E c \in Causes(A) : drawn' = [cause |-> c, refs |-> A]
              /\ pc' = "supersede"
  BY DEF Reason, ReadFails
<1>a. failed' = failed \/ failed' = failed + 1
  BY <1>2
<1> SUFFICES ASSUME broken = 0, failed = 0, failed' = 0, NEW i \in DOMAIN incidents
             PROVE  Fine(i)' /\ (Held(i) => InHand(i))'
  BY <1>1, <1>a DEF FineInv
<1>b. /\ touched' = touched \ {h} /\ chosen' = h
      /\ \/ Active(h) = {} /\ UNCHANGED pc
         \/ /\ \E c \in Causes(Active(h)) : drawn' = [cause |-> c, refs |-> Active(h)]
            /\ pc' = "supersede"
  BY <1>2
<1>3. Fine(i) /\ ~Held(i) /\ pc \notin {"choose", "link", "count"}
  BY <1>1 DEF Held, FineInv
<1>4. CASE i # h
  <2>1. ~Held(i)'
    BY <1>b, <1>4 DEF Held
  <2> QED BY <1>1, <1>b, <1>3, <1>4, <2>1, StillConcluded, StillLost DEF Fine
<1>5. CASE i = h /\ Active(i) = {} /\ UNCHANGED pc
  <2>1. ~Held(i)'
    BY <1>1, <1>5 DEF Held
  <2>2. Active(i)' = {}
    BY <1>1, <1>5 DEF Active, Linked
  <2>3. Concluded(i)'
    BY <2>2 DEF Concluded
  <2> QED BY <2>1, <2>3 DEF Fine
<1>6. ASSUME i = h, pc' = "supersede", NEW c \in Causes(Active(i)), drawn' = [cause |-> c, refs |-> Active(i)]
      PROVE  Fine(i)' /\ (Held(i) => InHand(i))'
  <2>1. Held(i)'
    BY <1>b, <1>6 DEF Held
  <2>2. ASSUME NEW A, A = Active(i)' PROVE drawn'.refs = A /\ drawn'.cause \in Causes(A)'
    <3>1. A = Active(i) /\ A \in SUBSET DOMAIN evidence
      BY <1>1, <2>2 DEF Active, Linked
    <3>2. Causes(A)' = Causes(A)
      BY <3>1, CausesStay
    <3>3. c \in Causes(A)
      BY <1>6, <3>1
    <3> QED BY <1>6, <3>1, <3>2, <3>3
  <2>3. InHand(i)'
    BY <1>6, <2>2 DEF InHand
  <2> QED BY <2>1, <2>3 DEF Fine
<1> QED BY <1>b, <1>4, <1>5, <1>6

LEMMA FineSupersede == ASSUME IncidentsAssumption, Typed, FineInv, Next, Supersede PROVE FineInv'
<1>1. /\ UNCHANGED <<evidence, incidents, list, chosen, touched, drawn, aged, unseen, broken>>
      /\ pc = "supersede" /\ pc' = "conclude" /\ failed \in Nat
  BY DEF Supersede, work, Typed
<1> SUFFICES ASSUME broken = 0, failed = 0, failed' = 0, NEW i \in DOMAIN incidents
             PROVE  Fine(i)' /\ (Held(i) => InHand(i))'
  <2>1. failed' \in {failed, failed + 1}
    BY DEF Supersede, Exec
  <2> QED BY <1>1, <2>1 DEF FineInv
<1>2. conclusions' = Superseded
  BY <1>1 DEF Supersede, Exec
<1>3. Fine(i) /\ (Held(i) => InHand(i)) /\ Active(i)' = Active(i)
  BY <1>1 DEF FineInv, Active, Linked
<1>4. Held(i)' <=> i = chosen
  BY <1>1 DEF Held
<1>5. CASE i = chosen
  <2>1. InHand(i)
    BY <1>1, <1>3, <1>5 DEF Held
  <2>2. (\A A : A = Active(i) => drawn.refs = A /\ drawn.cause \in Causes(A)) =>
          (\A A : A = Active(i) => drawn.refs = A /\ drawn.cause \in Causes(A))'
    BY <1>1, <1>3, DrawnKept
  <2>3. Overlooked(i) => Overlooked(i)'
    BY <1>1, StillLost
  <2>4. InHand(i)'
    BY <1>1, <2>1, <2>2, <2>3 DEF InHand
  <2> QED BY <1>4, <1>5, <2>4 DEF Fine
<1>6. CASE i # chosen
  <2>1. \A k \in Currents(i) : k \in Currents(i)' /\ conclusions'[k] = conclusions[k]
    <3>1. \A k \in Currents(i) : k \in DOMAIN conclusions /\ conclusions[k].incident # chosen
                                 /\ conclusions[k].current
      BY <1>6 DEF Currents
    <3>2. \A k \in Currents(i) : k \in Currents(i)'
      BY <1>2, <3>1, SupersedeRows DEF Currents
    <3>3. \A k \in Currents(i) : conclusions'[k] = conclusions[k]
      <4> SUFFICES ASSUME NEW k \in Currents(i) PROVE conclusions'[k] = conclusions[k]
        OBVIOUS
      <4>1. conclusions[k] \in ConclusionRow /\ k \in DOMAIN conclusions
        BY <3>1, Rows
      <4>2. conclusions'[k] = [conclusions[k] EXCEPT !.current = conclusions[k].current /\ conclusions[k].incident # chosen]
        BY <1>2, <4>1 DEF Superseded
      <4>3. (conclusions[k].current /\ conclusions[k].incident # chosen) = conclusions[k].current
        BY <3>1, <4>1 DEF ConclusionRow
      <4> QED BY <4>1, <4>2, <4>3 DEF ConclusionRow
    <3> QED BY <3>2, <3>3
  <2>2. Concluded(i) => Concluded(i)'
    BY <1>1, <1>3, <2>1, ConcludedKept
  <2>3. (Overlooked(i)' <=> Overlooked(i)) /\ (LookedFor(i)' <=> LookedFor(i))
    BY <1>1, StillLost
  <2> QED BY <1>1, <1>3, <1>4, <1>6, <2>2, <2>3 DEF Fine, Held
<1> QED BY <1>5, <1>6

LEMMA FineConclude == ASSUME IncidentsAssumption, Typed, FineInv, Next, Conclude PROVE FineInv'
<1>1. /\ UNCHANGED <<evidence, incidents, list, chosen, touched, drawn, aged, unseen, broken>>
      /\ pc = "conclude" /\ pc' = "store" /\ failed \in Nat
  BY DEF Conclude, work, Typed
<1> SUFFICES ASSUME broken = 0, failed = 0, failed' = 0, NEW i \in DOMAIN incidents
             PROVE  Fine(i)' /\ (Held(i) => InHand(i))'
  <2>1. failed' \in {failed, failed + 1}
    BY DEF Conclude, Exec
  <2> QED BY <1>1, <2>1 DEF FineInv
<1>2. conclusions' = Append(conclusions, Drawn)
  BY <1>1 DEF Conclude, Exec, Drawn
<1>3. Fine(i) /\ (Held(i) => InHand(i)) /\ Active(i)' = Active(i)
  BY <1>1 DEF FineInv, Active, Linked
<1>4. Held(i)' <=> i = chosen
  BY <1>1 DEF Held
<1>5. \A k \in Currents(i) : k \in Currents(i)' /\ conclusions'[k] = conclusions[k]
  BY <1>2, ConcludeRows DEF Currents
<1>6. CASE i = chosen
  <2>1. InHand(i)
    BY <1>1, <1>3, <1>6 DEF Held
  <2>2. (\A A : A = Active(i) => drawn.refs = A /\ drawn.cause \in Causes(A)) =>
          (\A A : A = Active(i) => drawn.refs = A /\ drawn.cause \in Causes(A))'
    BY <1>1, <1>3, DrawnKept
  <2>3. Overlooked(i) => Overlooked(i)'
    BY <1>1, StillLost
  <2>4. Len(conclusions) + 1 \in Currents(i)'
    BY <1>2, <1>6, ConcludeRows DEF Currents, Drawn
  <2>5. /\ conclusions'[Len(conclusions) + 1].cause = drawn.cause
        /\ conclusions'[Len(conclusions) + 1].refs = drawn.refs
    BY <1>2, ConcludeRows DEF Drawn
  <2>6. InHand(i)'
    BY <1>1, <2>1, <2>2, <2>3, <2>4, <2>5 DEF InHand
  <2> QED BY <1>4, <1>6, <2>6 DEF Fine
<1>7. CASE i # chosen
  <2>1. Concluded(i) => Concluded(i)'
    BY <1>1, <1>3, <1>5, ConcludedKept
  <2>2. (Overlooked(i)' <=> Overlooked(i)) /\ (LookedFor(i)' <=> LookedFor(i))
    BY <1>1, StillLost
  <2> QED BY <1>1, <1>3, <1>4, <1>7, <2>1, <2>2 DEF Fine, Held
<1> QED BY <1>6, <1>7

LEMMA FineStore == ASSUME IncidentsAssumption, Typed, FineInv, Next, StoreCause PROVE FineInv'
<1>1. /\ UNCHANGED <<evidence, conclusions, list, chosen, touched, drawn, aged, unseen, broken>>
      /\ pc = "store" /\ pc' = "reason" /\ failed \in Nat
  BY DEF StoreCause, work, Typed
<1>2. DOMAIN incidents' = DOMAIN incidents
  BY StoreSets
<1> SUFFICES ASSUME broken = 0, failed = 0, failed' = 0, NEW i \in DOMAIN incidents
             PROVE  Fine(i)' /\ (Held(i) => InHand(i))'
  <2>1. failed' \in {failed, failed + 1}
    BY DEF StoreCause, Exec
  <2> QED BY <1>1, <1>2, <2>1 DEF FineInv
<1>3. Fine(i) /\ (Held(i) => InHand(i)) /\ Active(i)' = Active(i)
  BY <1>1 DEF FineInv, Active, Linked
<1>4. ~Held(i)'
  BY <1>1 DEF Held
<1>5. CASE i = chosen
  <2>1. InHand(i)
    BY <1>1, <1>3, <1>5 DEF Held
  <2>2. incidents'[i].cause = drawn.cause
    BY <1>5, StoreSets
  <2>3. CASE Overlooked(i)
    BY <1>1, <1>4, <2>3, StillLost DEF Fine
  <2>4. CASE \A A : A = Active(i) => drawn.refs = A /\ drawn.cause \in Causes(A)
    <3> SUFFICES ASSUME NEW A, A = Active(i)', A # {}
                 PROVE  /\ incidents'[i].cause \in Causes(A)'
                        /\ \E k \in Currents(i)' : /\ conclusions'[k].cause = incidents'[i].cause
                                                   /\ conclusions'[k].refs = A
      BY <1>4 DEF Fine, Concluded
    <3>1. A = Active(i) /\ A \in SUBSET DOMAIN evidence
      BY <1>3 DEF Active, Linked
    <3>2. Causes(A)' = Causes(A)
      BY <3>1, CausesStay
    <3>3. drawn.refs = A /\ drawn.cause \in Causes(A)
      BY <2>4, <3>1
    <3>4. \E k \in Currents(i) : conclusions[k].cause = drawn.cause /\ conclusions[k].refs = drawn.refs
      BY <1>1, <2>1 DEF InHand
    <3>5. Currents(i)' = Currents(i)
      BY <1>1 DEF Currents
    <3> QED BY <1>1, <2>2, <3>2, <3>3, <3>4, <3>5
  <2> QED BY <2>1, <2>3, <2>4 DEF InHand
<1>6. CASE i # chosen
  <2>1. incidents'[i] = incidents[i]
    BY <1>6, StoreSets
  <2>2. ~Held(i)
    BY <1>6 DEF Held
  <2> QED BY <1>1, <1>3, <1>4, <1>6, <2>1, <2>2, StillConcluded, StillLost DEF Fine
<1> QED BY <1>5, <1>6

LEMMA FineEnd == ASSUME IncidentsAssumption, Typed, FineInv, Next, End PROVE FineInv'
<1>1. /\ UNCHANGED <<evidence, incidents, conclusions, touched, aged, unseen, broken, failed>>
      /\ pc = "reason" /\ pc' = "idle" /\ touched = {}
  BY DEF End, work, bounds
<1> SUFFICES ASSUME broken = 0, failed = 0, NEW i \in DOMAIN incidents
             PROVE  Fine(i)' /\ (Held(i) => InHand(i))'
  BY <1>1 DEF FineInv
<1>2. ~Held(i)' /\ ~Held(i) /\ Fine(i)
  BY <1>1 DEF Held, FineInv
<1> QED BY <1>1, <1>2, StillConcluded, StillLost DEF Fine

LEMMA FineOperator ==
  ASSUME IncidentsAssumption, Typed, FineInv, Next, NEW o \in Operators, Look(o) \/ UpdateIncidentStatus(o)
  PROVE  FineInv'
<1>1. UNCHANGED <<evidence, conclusions, pc, list, chosen, touched, drawn, aged, unseen, broken, failed>>
  BY DEF Look, UpdateIncidentStatus, work, bounds
<1>2. /\ DOMAIN incidents' = DOMAIN incidents
      /\ \A i \in DOMAIN incidents : incidents'[i].cause = incidents[i].cause
  <2>1. CASE UNCHANGED incidents
    BY <2>1
  <2>2. CASE UpdateIncidentStatus(o)
    BY <2>2, UpdateSets
  <2> QED BY <2>1, <2>2 DEF Look
<1> SUFFICES ASSUME broken = 0, failed = 0, NEW i \in DOMAIN incidents
             PROVE  Fine(i)' /\ (Held(i) => InHand(i))'
  BY <1>1, <1>2 DEF FineInv
<1>3. Active(i)' = Active(i) /\ Linked(i)' = Linked(i)
  BY <1>1 DEF Active, Linked
<1> QED BY <1>1, <1>2, <1>3, FineKept

LEMMA FineStays == ASSUME IncidentsAssumption, Typed, ListInv, IdleInv, FineInv, Next PROVE FineInv'
<1>1. CASE Break
  <2>1. broken \in Nat /\ broken' = broken + 1
    BY <1>1 DEF Break, Typed
  <2> QED BY <2>1 DEF FineInv
<1> QED BY <1>1, FineArrive, FineRetract, FineTime, FineBegin, FineChoose, FineLink, FineCount, FineGrouped, FineReason,
           FineSupersede, FineConclude, FineStore, FineEnd, FineOperator DEF Next

-----------------------------------------------------------------------------
(* Evidence that comes in order is linked in order: what is linked came    *)
(* before what waits, and what is not in the list came after it.           *)
InLine == \A d, e \in DOMAIN evidence : d < e => evidence[d].ts <= evidence[e].ts
LinkedInLine ==
  /\ \A d \in LinkedRows, x \in Unassigned : d < x
  /\ pc \in {"choose", "link"} => \A d \in LinkedRows, n \in DOMAIN list : d < list[n]
  /\ pc = "count" => \A d \in LinkedRows : d <= Head(list)
  /\ pc \in {"choose", "link", "count"} =>
       \A x \in Unassigned : (\E n \in DOMAIN list : list[n] = x) \/ (\A n \in DOMAIN list : list[n] < x)
LineInv == InLine /\ (broken = 0 => LinkedInLine)

LEMMA LineFirst == Init => LineInv
BY DEF Init, LineInv, InLine, LinkedInLine, LinkedRows, Unassigned

LEMMA EarlierInLine ==
  ASSUME IncidentsAssumption, Typed, InLine, NEW d \in DOMAIN evidence, NEW e \in DOMAIN evidence
  PROVE  Earlier(d, e) <=> d < e
<1>1. d \in Nat /\ e \in Nat
  BY Rows
<1>2. evidence[d].ts \in Nat /\ evidence[e].ts \in Nat
  BY RowTypes
<1>3. CASE d < e
  BY <1>1, <1>2, <1>3 DEF Earlier, InLine
<1>4. CASE e < d
  BY <1>1, <1>2, <1>4 DEF Earlier, InLine
<1>5. CASE d = e
  BY <1>1, <1>2, <1>5 DEF Earlier
<1> QED BY <1>1, <1>3, <1>4, <1>5

LEMMA InLineStays == ASSUME IncidentsAssumption, InOrder, Typed, InLine, Next PROVE InLine'
<1>1. CASE Arrive
  <2>1. PICK k \in Kinds, n \in Entities, t \in Times :
          /\ InOrder => \A e \in DOMAIN evidence : evidence[e].ts <= t
          /\ evidence' = Append(evidence, [kind |-> k, entity |-> n, ts |-> t, status |-> "active", incident |-> 0])
    BY <1>1 DEF Arrive
  <2>2. evidence \in Seq(EvidenceRow) /\ Len(evidence) \in Nat /\ DOMAIN evidence = 1..Len(evidence)
    BY Rows DEF Typed
  <2> DEFINE row == [kind |-> k, entity |-> n, ts |-> t, status |-> "active", incident |-> 0]
  <2>3. row.ts = t /\ evidence' = Append(evidence, row)
    BY <2>1
  <2> HIDE DEF row
  <2>4. DOMAIN evidence' = 1..(Len(evidence) + 1)
    BY <2>2, <2>3
  <2>5. \A d \in DOMAIN evidence : evidence'[d] = evidence[d]
    BY <2>2, <2>3
  <2>6. evidence'[Len(evidence) + 1].ts = t
    BY <2>2, <2>3
  <2>7. \A e \in DOMAIN evidence : evidence[e].ts <= t
    BY <2>1
  <2> SUFFICES ASSUME NEW d \in DOMAIN evidence', NEW e \in DOMAIN evidence', d < e
               PROVE  evidence'[d].ts <= evidence'[e].ts
    BY DEF InLine
  <2>8. d \in DOMAIN evidence
    BY <2>2, <2>4
  <2>9. CASE e \in DOMAIN evidence
    BY <2>5, <2>8, <2>9 DEF InLine
  <2>10. CASE e = Len(evidence) + 1
    BY <2>5, <2>6, <2>7, <2>8, <2>10
  <2> QED BY <2>2, <2>4, <2>9, <2>10
<1>2. CASE DOMAIN evidence' = DOMAIN evidence
  <2>1. \A d \in DOMAIN evidence : evidence'[d].ts = evidence[d].ts
    BY RowsStay DEF SameRow
  <2> QED BY <1>2, <2>1 DEF InLine
<1> QED BY <1>1, <1>2, RetractRows, LinkRows, OtherRows, StepsAre

LEMMA LineKept ==
  ASSUME IncidentsAssumption, Typed, LinkedInLine, Next, LinkedRows' = LinkedRows, Unassigned' \subseteq Unassigned,
         \/ UNCHANGED <<pc, list>>
         \/ pc = "choose" /\ pc' = "link" /\ UNCHANGED list
         \/ pc' \notin {"choose", "link", "count"}
  PROVE  LinkedInLine'
BY DEF LinkedInLine

LEMMA LineArrive == ASSUME IncidentsAssumption, Typed, LinkedInLine, Arrive PROVE LinkedInLine'
<1>1. UNCHANGED <<pc, list>>
  BY DEF Arrive, work
<1>2. LinkedRows' = LinkedRows
  BY SameLinks
<1>3. /\ DOMAIN evidence' = DOMAIN evidence \cup {Len(evidence')}
      /\ \A d \in DOMAIN evidence : evidence'[d] = evidence[d] /\ d < Len(evidence')
  BY ArriveRows
<1>a. UNCHANGED aged
  BY DEF Arrive
<1>4. Unassigned' \subseteq Unassigned \cup {Len(evidence')}
  BY <1>3, <1>a DEF Unassigned
<1>5. \A d \in LinkedRows : d < Len(evidence')
  BY <1>3 DEF LinkedRows
<1>6. \A n \in DOMAIN list : list[n] < Len(evidence')
  BY <1>3, ListRows
<1> QED BY <1>1, <1>2, <1>4, <1>5, <1>6 DEF LinkedInLine

LEMMA LineTime == ASSUME IncidentsAssumption, Typed, LinkedInLine, Next, TimePasses PROVE LinkedInLine'
<1>1. UNCHANGED <<pc, list, evidence>> /\ aged \subseteq aged'
  BY DEF TimePasses, work
<1>2. LinkedRows' = LinkedRows /\ Unassigned' \subseteq Unassigned
  BY <1>1 DEF LinkedRows, Unassigned
<1> QED BY <1>1, <1>2, LineKept

LEMMA LineRetract == ASSUME IncidentsAssumption, Typed, LinkedInLine, Next, Retract PROVE LinkedInLine'
<1>1. UNCHANGED <<pc, list>>
  BY DEF Retract, work
<1>2. LinkedRows' = LinkedRows
  BY SameLinks
<1>3. Unassigned' \subseteq Unassigned
  <2>1. PICK e \in DOMAIN evidence : /\ evidence' = [evidence EXCEPT ![e].status = "retracted"]
                                     /\ aged' = aged \ {e}
    BY DEF Retract
  <2>2. evidence[e] \in EvidenceRow /\ evidence \in Seq(EvidenceRow)
    BY Rows DEF Typed
  <2>3. DOMAIN evidence' = DOMAIN evidence /\ evidence'[e].status = "retracted"
    BY <2>1, <2>2 DEF EvidenceRow
  <2>4. \A d \in DOMAIN evidence \ {e} : evidence'[d] = evidence[d]
    BY <2>1, <2>2
  <2> QED BY <2>1, <2>3, <2>4 DEF Unassigned
<1> QED BY <1>1, <1>2, <1>3, LineKept

LEMMA LineBegin == ASSUME IncidentsAssumption, Typed, InLine, LinkedInLine, Begin PROVE LinkedInLine'
<1>0. PICK L \in SUBSET Unassigned :
        list' \in Sorted(L) /\ \A d \in L, e \in Unassigned \ L : Earlier(d, e)
  BY DEF Begin
<1>1. UNCHANGED <<evidence, aged>> /\ pc' = "choose"
  BY DEF Begin
<1>2. LinkedRows' = LinkedRows /\ Unassigned' = Unassigned /\ Unassigned \subseteq DOMAIN evidence
  BY <1>1 DEF LinkedRows, Unassigned
<1>3. \A n \in DOMAIN list' : list'[n] \in L
  BY <1>0 DEF Sorted
<1>4. \A x \in L : \E n \in DOMAIN list' : list'[n] = x
  BY <1>0 DEF Sorted
<1>5. \A d \in L, e \in Unassigned \ L : d < e
  BY <1>0, <1>2, EarlierInLine
<1> QED BY <1>1, <1>2, <1>3, <1>4, <1>5 DEF LinkedInLine

LEMMA LineLink == ASSUME IncidentsAssumption, Typed, ListInv, InLine, LinkedInLine, Link PROVE LinkedInLine'
<1> DEFINE e == Head(list)
<1>1. UNCHANGED <<list, chosen>> /\ pc = "link" /\ pc' = "count" /\ list # <<>> /\ chosen # 0
  BY Rows DEF Link, work, Typed
<1>2. e \in DOMAIN evidence /\ e = list[1] /\ 1 \in DOMAIN list /\ DOMAIN list = 1..Len(list) /\ Len(list) \in Nat
  BY <1>1, ListRows
<1>3. /\ DOMAIN evidence' = DOMAIN evidence /\ evidence'[e].incident = chosen
      /\ \A d \in DOMAIN evidence \ {e} : evidence'[d] = evidence[d]
  BY LinkRows
<1>4. LinkedRows' = LinkedRows \cup {e}
  BY <1>1, <1>2, <1>3 DEF LinkedRows
<1>a. UNCHANGED aged
  BY DEF Link
<1>5. Unassigned' \subseteq Unassigned \ {e}
  BY <1>1, <1>2, <1>3, <1>a DEF Unassigned
<1>6. \A n \in DOMAIN list \ {1} : e < list[n]
  <2> SUFFICES ASSUME NEW n \in DOMAIN list \ {1} PROVE list[1] < list[n]
    BY <1>2
  <2>1. Earlier(list[1], list[n])
    BY <1>2 DEF ListInv, ListSorted
  <2> QED BY <1>2, <2>1, EarlierInLine, ListRows
<1>7. \A x \in Unassigned \ {e} : e < x
  <2> SUFFICES ASSUME NEW x \in Unassigned \ {e} PROVE e < x
    OBVIOUS
  <2>1. (\E n \in DOMAIN list : list[n] = x) \/ (\A n \in DOMAIN list : list[n] < x)
    BY <1>1 DEF LinkedInLine
  <2>2. CASE \A n \in DOMAIN list : list[n] < x
    BY <1>2, <2>2
  <2>3. CASE \E n \in DOMAIN list : list[n] = x
    BY <1>2, <1>6, <2>3
  <2> QED BY <2>1, <2>2, <2>3
<1>8. \A d \in LinkedRows : d < e
  BY <1>1, <1>2 DEF LinkedInLine
<1>9. \A d \in LinkedRows' : d <= e
  BY <1>2, <1>4, <1>8, Rows DEF LinkedRows
<1>10. \A d \in LinkedRows', x \in Unassigned' : d < x
  BY <1>4, <1>5, <1>7 DEF LinkedInLine
<1>11. \A x \in Unassigned' : (\E n \in DOMAIN list : list[n] = x) \/ (\A n \in DOMAIN list : list[n] < x)
  BY <1>1, <1>5 DEF LinkedInLine
<1>12. e = Head(list')
  BY <1>1
<1> HIDE DEF e
<1> QED BY <1>1, <1>9, <1>10, <1>11, <1>12 DEF LinkedInLine

LEMMA LineCount == ASSUME IncidentsAssumption, Typed, ListInv, InLine, LinkedInLine, Count PROVE LinkedInLine'
<1> DEFINE e == Head(list)
<1>1. UNCHANGED <<evidence, aged>> /\ pc = "count" /\ pc' = "choose" /\ list # <<>> /\ list' = Tail(list)
      /\ evidence[e].incident = chosen /\ chosen # 0
  BY Rows DEF Count, Typed, ListInv
<1>2. e \in DOMAIN evidence /\ e = list[1] /\ 1 \in DOMAIN list /\ DOMAIN list = 1..Len(list) /\ Len(list) \in Nat
  BY <1>1, ListRows
<1>3. LinkedRows' = LinkedRows /\ Unassigned' = Unassigned /\ e \notin Unassigned
  BY <1>1 DEF LinkedRows, Unassigned
<1>4. list \in Seq(Nat)
  BY DEF Typed
<1>5. /\ \A n \in DOMAIN list' : list'[n] = list[n + 1] /\ n + 1 \in DOMAIN list \ {1}
      /\ \A n \in DOMAIN list \ {1} : n - 1 \in DOMAIN list' /\ list'[n - 1] = list[n]
  BY <1>1, <1>2, <1>4
<1>6. \A n \in DOMAIN list \ {1} : e < list[n]
  <2> SUFFICES ASSUME NEW n \in DOMAIN list \ {1} PROVE list[1] < list[n]
    BY <1>2
  <2>1. Earlier(list[1], list[n])
    BY <1>2 DEF ListInv, ListSorted
  <2> QED BY <1>2, <2>1, EarlierInLine, ListRows
<1>7. \A d \in LinkedRows : d <= e /\ d \in Nat
  BY <1>1, Rows DEF LinkedInLine, LinkedRows
<1>8. \A d \in LinkedRows, n \in DOMAIN list' : d < list'[n]
  <2> TAKE d \in LinkedRows, n \in DOMAIN list'
  <2>1. d <= e /\ d \in Nat /\ e \in Nat
    BY <1>2, <1>7, Rows
  <2>2. e < list'[n] /\ list'[n] \in Nat
    BY <1>5, <1>6, ListRows
  <2> QED BY <2>1, <2>2
<1>9. \A x \in Unassigned : (\E n \in DOMAIN list' : list'[n] = x) \/ (\A n \in DOMAIN list' : list'[n] < x)
  <2> SUFFICES ASSUME NEW x \in Unassigned
               PROVE  (\E n \in DOMAIN list' : list'[n] = x) \/ (\A n \in DOMAIN list' : list'[n] < x)
    OBVIOUS
  <2>1. (\E n \in DOMAIN list : list[n] = x) \/ (\A n \in DOMAIN list : list[n] < x)
    BY <1>1 DEF LinkedInLine
  <2>2. CASE \A n \in DOMAIN list : list[n] < x
    BY <1>5, <2>2
  <2>3. CASE \E n \in DOMAIN list : list[n] = x
    <3>1. PICK n \in DOMAIN list : list[n] = x
      BY <2>3
    <3>2. n # 1
      BY <1>2, <1>3, <3>1
    <3> QED BY <1>5, <3>1, <3>2
  <2> QED BY <2>1, <2>2, <2>3
<1> HIDE DEF e
<1> QED BY <1>1, <1>3, <1>8, <1>9 DEF LinkedInLine

LEMMA LineStays == ASSUME IncidentsAssumption, InOrder, Typed, ListInv, LineInv, Next PROVE LineInv'
<1>1. InLine'
  BY InLineStays DEF LineInv
<1>2. CASE Break
  <2>1. broken \in Nat /\ broken' = broken + 1
    BY <1>2 DEF Break, Typed
  <2> QED BY <1>1, <2>1 DEF LineInv
<1>3. ASSUME LinkedInLine => LinkedInLine', UNCHANGED broken PROVE LineInv'
  BY <1>1, <1>3 DEF LineInv
<1>4. CASE Arrive \/ Retract \/ TimePasses \/ Begin \/ Link \/ Count
  <2>1. UNCHANGED broken
    BY <1>4 DEF Arrive, Retract, TimePasses, Begin, Link, Count, bounds
  <2>2. LinkedInLine => LinkedInLine'
    BY <1>4, LineArrive, LineRetract, LineTime, LineBegin, LineLink, LineCount DEF LineInv
  <2> QED BY <1>3, <2>1, <2>2
<1>5. CASE Choose
  <2>1. UNCHANGED <<evidence, aged, broken, list>> /\ pc = "choose" /\ pc' = "link"
    BY <1>5 DEF Choose, bounds
  <2>2. LinkedRows' = LinkedRows /\ Unassigned' = Unassigned
    BY <2>1 DEF LinkedRows, Unassigned
  <2> QED BY <1>3, <2>1, <2>2, LineKept
<1>6. CASE Grouped \/ Reason \/ Supersede \/ Conclude \/ StoreCause \/ End
  <2>1. UNCHANGED <<evidence, aged, broken>> /\ pc' \notin {"choose", "link", "count"}
    BY <1>6 DEF Grouped, Reason, Supersede, Conclude, StoreCause, End, bounds
  <2>2. LinkedRows' = LinkedRows /\ Unassigned' = Unassigned
    BY <2>1 DEF LinkedRows, Unassigned
  <2> QED BY <1>3, <2>1, <2>2, LineKept
<1>7. CASE \E o \in Operators : Look(o) \/ UpdateIncidentStatus(o)
  <2>1. UNCHANGED <<evidence, aged, broken, pc, list>>
    BY <1>7 DEF Look, UpdateIncidentStatus, bounds, work
  <2>2. LinkedRows' = LinkedRows /\ Unassigned' = Unassigned
    BY <2>1 DEF LinkedRows, Unassigned
  <2> QED BY <1>3, <2>1, <2>2, LineKept
<1> QED BY <1>2, <1>4, <1>5, <1>6, <1>7 DEF Next

-----------------------------------------------------------------------------
(* Incidents of one entity are further apart than the gap, and the one at  *)
(* hand ends no further before the row at hand than that.                  *)
Apart(i, j) == incidents[i].last + Gap < incidents[j].opened
Parted ==
  \A i, j \in DOMAIN incidents :
    i # j /\ incidents[i].entity = incidents[j].entity => Apart(i, j) \/ Apart(j, i)
OfEntity == \A d \in LinkedRows : evidence[d].entity = incidents[evidence[d].incident].entity
AtHand ==
  /\ pc \in {"link", "count"} =>
       /\ incidents[chosen].entity = evidence[Head(list)].entity
       /\ incidents[chosen].last + Gap >= evidence[Head(list)].ts
  /\ pc = "link" =>
       \/ Linked(chosen) = {}
       \/ \E w \in Linked(chosen) : incidents[chosen].last = evidence[w].ts
Neighbours(d, e) ==
  /\ evidence[d].incident # 0 /\ evidence[e].incident # 0
  /\ evidence[d].entity = evidence[e].entity /\ d < e
  /\ \A x \in DOMAIN evidence : evidence[x].entity = evidence[d].entity => ~(d < x /\ x < e)
Gaps ==
  \A d, e \in DOMAIN evidence :
    Neighbours(d, e) => (evidence[d].incident = evidence[e].incident <=> evidence[e].ts <= evidence[d].ts + Gap)
PartInv == broken = 0 => Parted /\ OfEntity /\ AtHand /\ Gaps

LEMMA PartFirst == Init => PartInv
BY DEF Init, PartInv, Parted, OfEntity, AtHand, Gaps, LinkedRows

(* No incident starts or ends after the row at hand. *)
LEMMA SpansAreBefore ==
  ASSUME IncidentsAssumption, Typed, ListInv, TotalsInv, LineInv, broken = 0,
         pc \in {"choose", "link", "count"}, list # <<>>, NEW i \in DOMAIN incidents
  PROVE  /\ incidents[i].opened <= evidence[Head(list)].ts
         /\ incidents[i].last <= evidence[Head(list)].ts
<1> DEFINE e == Head(list)
<1>1. e \in DOMAIN evidence /\ e = list[1] /\ 1 \in DOMAIN list
  BY ListRows
<1>2. \A d \in LinkedRows : d <= e
  <2>1. CASE pc = "count"
    BY <2>1 DEF LineInv, LinkedInLine
  <2>2. CASE pc \in {"choose", "link"}
    <3>1. \A d \in LinkedRows : d < e
      BY <1>1, <2>2 DEF LineInv, LinkedInLine
    <3> QED BY <1>1, <3>1, Rows DEF LinkedRows
  <2> QED BY <2>1, <2>2
<1>3. \A d \in LinkedRows \cup {e} : evidence[d].ts <= evidence[e].ts
  <2> SUFFICES ASSUME NEW d \in LinkedRows \cup {e} PROVE evidence[d].ts <= evidence[e].ts
    OBVIOUS
  <2>1. d \in DOMAIN evidence /\ d <= e /\ d \in Nat /\ e \in Nat
    BY <1>1, <1>2, Rows DEF LinkedRows
  <2>2. evidence[e].ts \in Nat
    BY <1>1, RowTypes
  <2>3. CASE d = e
    BY <2>2, <2>3
  <2>4. CASE d < e
    BY <1>1, <2>1, <2>4 DEF LineInv, InLine
  <2> QED BY <2>1, <2>3, <2>4
<1>4. Owners(i) \subseteq LinkedRows \cup {e}
  BY LinkedIsLinked DEF Owners
<1>5. Attained(i)
  BY DEF TotalsInv
<1> QED BY <1>3, <1>4, <1>5 DEF Attained

(* Steps that change neither the rows' links nor the incidents' spans. *)
LEMMA PartKept ==
  ASSUME IncidentsAssumption, Typed, PartInv, Next, UNCHANGED broken,
         DOMAIN incidents' = DOMAIN incidents,
         \A i \in DOMAIN incidents : SameTotals(i) /\ Linked(i)' = Linked(i),
         LinkedRows' = LinkedRows, \A d \in DOMAIN evidence : evidence'[d].incident = evidence[d].incident,
         \/ UNCHANGED <<pc, list, chosen>>
         \/ pc' \notin {"link", "count"}
  PROVE  PartInv'
<1> SUFFICES ASSUME broken = 0 PROVE (Parted /\ OfEntity /\ AtHand /\ Gaps)'
  BY DEF PartInv
<1>1. Parted /\ OfEntity /\ AtHand /\ Gaps
  BY DEF PartInv
<1>2. \A d \in DOMAIN evidence : d \in DOMAIN evidence' /\ SameRow(d)
  BY RowsStay
<1>3. \A d \in LinkedRows : d \in DOMAIN evidence /\ evidence[d].incident \in DOMAIN incidents
  <2>1. \A d \in DOMAIN evidence : evidence[d].incident \in Nat /\ evidence[d].incident <= Len(incidents)
    BY Rows DEF Typed, EvidenceRow
  <2> QED BY <2>1, Rows DEF LinkedRows
<1>4. Parted'
  BY <1>1 DEF Parted, Apart, SameTotals
<1>5. OfEntity'
  BY <1>1, <1>2, <1>3 DEF OfEntity, SameTotals, SameRow
<1>6. AtHand'
  <2>1. CASE pc' \notin {"link", "count"}
    BY <2>1 DEF AtHand
  <2>2. CASE UNCHANGED <<pc, list, chosen>> /\ pc \in {"link", "count"}
    <3>1. chosen \in DOMAIN incidents /\ Head(list) \in DOMAIN evidence /\ Head(list') = Head(list)
      BY <2>2, ListRows DEF Typed
    <3>2. Linked(chosen)' = Linked(chosen) /\ Linked(chosen) \subseteq DOMAIN evidence
      BY <2>2, <3>1 DEF Linked
    <3>3. SameTotals(chosen) /\ SameRow(Head(list))
      BY <1>2, <3>1
    <3>4. /\ incidents'[chosen'].entity = evidence'[Head(list')].entity
          /\ incidents'[chosen'].last + Gap >= evidence'[Head(list')].ts
      BY <1>1, <2>2, <3>1, <3>3 DEF AtHand, SameTotals, SameRow
    <3>5. pc' = "link" => (Linked(chosen) = {} \/ \E w \in Linked(chosen) : incidents[chosen].last = evidence[w].ts)'
      BY <1>1, <1>2, <2>2, <3>2, <3>3 DEF AtHand, SameTotals, SameRow
    <3> QED BY <3>4, <3>5 DEF AtHand
  <2> QED BY <2>1, <2>2
<1>7. Gaps'
  <2> SUFFICES ASSUME NEW d \in DOMAIN evidence', NEW e \in DOMAIN evidence', Neighbours(d, e)'
               PROVE  evidence'[d].incident = evidence'[e].incident <=> evidence'[e].ts <= evidence'[d].ts + Gap
    BY DEF Gaps
  <2>1. d \in DOMAIN evidence /\ e \in DOMAIN evidence
    BY DEF Neighbours, LinkedRows
  <2>2. Neighbours(d, e)
    BY <1>2, <2>1 DEF Neighbours, SameRow
  <2> QED BY <1>1, <1>2, <2>1, <2>2 DEF Gaps, SameRow
<1> QED BY <1>4, <1>5, <1>6, <1>7

LEMMA PartChoose ==
  ASSUME IncidentsAssumption, Typed, ListInv, TotalsInv, LineInv, PartInv, Next, Choose PROVE PartInv'
<1> DEFINE e == Head(list)
<1>1. UNCHANGED <<evidence, broken, list>> /\ pc = "choose" /\ pc' = "link" /\ list # <<>>
  BY DEF Choose, bounds
<1> SUFFICES ASSUME broken = 0 PROVE (Parted /\ OfEntity /\ AtHand /\ Gaps)'
  BY <1>1 DEF PartInv
<1>2. Parted /\ OfEntity /\ Gaps
  BY DEF PartInv
<1>3. Gaps'
  BY <1>1, <1>2 DEF Gaps, Neighbours
<1>4. e \in DOMAIN evidence /\ evidence[e].ts \in Nat /\ Gap \in Nat /\ Head(list') = e
  BY <1>1, ListRows, RowTypes DEF IncidentsAssumption
<1>5. \A d \in LinkedRows : d \in DOMAIN evidence /\ evidence[d].incident \in DOMAIN incidents
  <2>1. \A d \in DOMAIN evidence : evidence[d].incident \in Nat /\ evidence[d].incident <= Len(incidents)
    BY Rows DEF Typed, EvidenceRow
  <2> QED BY <2>1, Rows DEF LinkedRows
<1>6. \A i \in DOMAIN incidents : incidents[i].opened \in Nat /\ incidents[i].last \in Nat
  BY RowTypes
<1>7. LinkedRows' = LinkedRows
  BY <1>1 DEF LinkedRows
<1>8. CASE UNCHANGED incidents /\ chosen' \in Open(e)
  <2>1. Parted' /\ OfEntity'
    BY <1>1, <1>2, <1>7, <1>8 DEF Parted, OfEntity, Apart
  <2>2. chosen' \in DOMAIN incidents /\ incidents[chosen'].entity = evidence[e].entity
        /\ incidents[chosen'].last + Gap >= evidence[e].ts
    BY <1>4, <1>6, <1>8 DEF Open
  <2>3. \E w \in Linked(chosen') : incidents[chosen'].last = evidence[w].ts
    <3>1. Attained(chosen')
      BY <2>2 DEF TotalsInv
    <3>2. Owners(chosen') = Linked(chosen')
      BY <1>1 DEF Owners
    <3> QED BY <3>1, <3>2 DEF Attained
  <2>4. (\E w \in Linked(chosen) : incidents[chosen].last = evidence[w].ts)'
    BY <1>1, <1>8, <2>3 DEF Linked
  <2>5. AtHand'
    BY <1>1, <1>4, <1>8, <2>2, <2>4 DEF AtHand
  <2> QED BY <1>3, <2>1, <2>5
<1>9. CASE /\ Open(e) = {} /\ chosen' = Len(incidents) + 1
           /\ DOMAIN incidents' = DOMAIN incidents \cup {chosen'}
           /\ \A i \in DOMAIN incidents : incidents'[i] = incidents[i] /\ i # chosen'
           /\ incidents'[chosen'].entity = evidence[e].entity /\ incidents'[chosen'].opened = evidence[e].ts
           /\ incidents'[chosen'].last = evidence[e].ts
  <2>1. \A i \in DOMAIN incidents : incidents[i].entity = evidence[e].entity => incidents[i].last + Gap < evidence[e].ts
    <3> SUFFICES ASSUME NEW i \in DOMAIN incidents, incidents[i].entity = evidence[e].entity
                 PROVE  incidents[i].last + Gap < evidence[e].ts
      OBVIOUS
    <3>1. ~(incidents[i].last >= evidence[e].ts - Gap)
      BY <1>9 DEF Open
    <3> QED BY <1>4, <1>6, <3>1
  <2>2. Parted'
    <3> SUFFICES ASSUME NEW i \in DOMAIN incidents', NEW j \in DOMAIN incidents', i # j,
                        incidents'[i].entity = incidents'[j].entity
                 PROVE  (Apart(i, j) \/ Apart(j, i))'
      BY DEF Parted
    <3>1. CASE i \in DOMAIN incidents /\ j \in DOMAIN incidents
      BY <1>2, <1>9, <3>1 DEF Parted, Apart
    <3>2. CASE i \in DOMAIN incidents /\ j = chosen'
      BY <1>9, <2>1, <3>2 DEF Apart
    <3>3. CASE i = chosen' /\ j \in DOMAIN incidents
      BY <1>9, <2>1, <3>3 DEF Apart
    <3> QED BY <1>9, <3>1, <3>2, <3>3
  <2>3. OfEntity'
    BY <1>1, <1>2, <1>5, <1>7, <1>9 DEF OfEntity
  <2>4. chosen' # 0 /\ chosen' \notin DOMAIN incidents
    BY <1>9, Rows
  <2>5. Linked(chosen') = {}
    BY <2>4, NoneLinkedYet
  <2>6. (Linked(chosen) = {})'
    BY <1>1, <2>5 DEF Linked
  <2>7. AtHand'
    BY <1>1, <1>4, <1>9, <2>6 DEF AtHand
  <2> QED BY <1>3, <2>2, <2>3, <2>7
<1> QED BY <1>8, <1>9, ChooseAdds

LEMMA PartLink ==
  ASSUME IncidentsAssumption, Typed, ListInv, TotalsInv, LineInv, PartInv, Next, Link PROVE PartInv'
<1> DEFINE e == Head(list)
<1>1. UNCHANGED <<incidents, broken, list, chosen>> /\ pc = "link" /\ pc' = "count" /\ list # <<>>
      /\ chosen \in DOMAIN incidents /\ chosen # 0
  BY Rows DEF Link, bounds, work, Typed
<1> SUFFICES ASSUME broken = 0 PROVE (Parted /\ OfEntity /\ AtHand /\ Gaps)'
  BY <1>1 DEF PartInv
<1>2. Parted /\ OfEntity /\ Gaps /\ AtHand
  BY DEF PartInv
<1>3. /\ e \in DOMAIN evidence /\ e \in Nat /\ e = list[1] /\ 1 \in DOMAIN list
      /\ evidence[e].ts \in Nat /\ Gap \in Nat /\ evidence[e].incident = 0
  BY <1>1, Rows, ListRows, RowTypes DEF ListInv, IncidentsAssumption
<1>4. /\ DOMAIN evidence' = DOMAIN evidence /\ evidence'[e].incident = chosen
      /\ \A d \in DOMAIN evidence : SameRow(d)
      /\ \A d \in DOMAIN evidence \ {e} : evidence'[d] = evidence[d]
  BY LinkRows
<1>5. LinkedRows' = LinkedRows \cup {e}
  BY <1>1, <1>3, <1>4 DEF LinkedRows
<1>6. \A d \in LinkedRows : d < e /\ d \in DOMAIN evidence /\ d # e
  BY <1>1, <1>3, Rows DEF LineInv, LinkedInLine, LinkedRows
<1>7. Parted'
  BY <1>1, <1>2 DEF Parted, Apart
<1>8. incidents[chosen].entity = evidence[e].entity /\ incidents[chosen].last + Gap >= evidence[e].ts
  BY <1>1, <1>2 DEF AtHand
<1>9. OfEntity'
  <2>1. \A d \in LinkedRows : evidence'[d] = evidence[d]
    BY <1>4, <1>6
  <2>2. \A d \in LinkedRows : evidence'[d].entity = incidents'[evidence'[d].incident].entity
    BY <1>1, <1>2, <2>1 DEF OfEntity
  <2>3. evidence'[e].entity = incidents'[evidence'[e].incident].entity
    BY <1>1, <1>3, <1>4, <1>8 DEF SameRow
  <2> HIDE DEF e
  <2> QED BY <1>5, <2>2, <2>3 DEF OfEntity
<1>10. AtHand'
  <2>1. Head(list') = e /\ SameRow(e)
    BY <1>1, <1>3, <1>4
  <2> QED BY <1>1, <1>8, <2>1 DEF AtHand, SameRow
<1>11. ASSUME NEW d \in LinkedRows, evidence[d].entity = evidence[e].entity,
              \A x \in DOMAIN evidence : evidence[x].entity = evidence[d].entity => ~(d < x /\ x < e)
       PROVE  evidence[d].incident = chosen <=> evidence[e].ts <= evidence[d].ts + Gap
  <2> DEFINE j == evidence[d].incident
  <2>1. d \in DOMAIN evidence /\ d < e /\ d \in Nat /\ evidence[d].ts \in Nat
    BY <1>6, Rows, RowTypes
  <2>2. j \in DOMAIN incidents /\ d \in Linked(j)
    <3>1. j \in Nat /\ j <= Len(incidents) /\ j # 0
      BY <2>1, Rows DEF Typed, EvidenceRow, LinkedRows
    <3> QED BY <2>1, <3>1, Rows DEF Linked
  <2>3. incidents[j].entity = evidence[e].entity
    BY <1>2, <1>11 DEF OfEntity
  <2>4. incidents[j].opened <= evidence[d].ts /\ evidence[d].ts <= incidents[j].last
    BY <1>1, <2>2 DEF TotalsInv, Bounded
  <2>5. /\ incidents[j].opened \in Nat /\ incidents[j].last \in Nat
        /\ incidents[chosen].opened \in Nat /\ incidents[chosen].last \in Nat
    BY <1>1, <2>2, RowTypes
  <2>6. incidents[chosen].opened <= evidence[e].ts /\ incidents[j].opened <= evidence[e].ts
    BY <1>1, <2>2, SpansAreBefore
  <2>7. ASSUME evidence[e].ts <= evidence[d].ts + Gap PROVE j = chosen
    <3> SUFFICES ASSUME j # chosen PROVE FALSE
      OBVIOUS
    <3>1. Apart(j, chosen) \/ Apart(chosen, j)
      BY <1>1, <1>2, <1>8, <2>2, <2>3 DEF Parted
    <3>2. ~Apart(j, chosen)
      BY <1>3, <2>1, <2>4, <2>5, <2>6, <2>7 DEF Apart
    <3>3. ~Apart(chosen, j)
      BY <1>3, <1>8, <2>5, <2>6 DEF Apart
    <3> QED BY <3>1, <3>2, <3>3
  <2>8. ASSUME j = chosen PROVE evidence[e].ts <= evidence[d].ts + Gap
    <3>1. PICK w \in Linked(chosen) : incidents[chosen].last = evidence[w].ts
      BY <1>1, <1>2, <2>2, <2>8 DEF AtHand
    <3>2. w \in LinkedRows
      BY <1>1, LinkedIsLinked
    <3>3. w < e /\ w \in DOMAIN evidence /\ w \in Nat /\ evidence[w].ts \in Nat
      BY <1>6, <3>2, Rows, RowTypes
    <3>4. evidence[w].entity = evidence[d].entity
      BY <1>2, <1>8, <1>11, <3>1, <3>2 DEF OfEntity, Linked
    <3>5. w <= d
      BY <1>11, <2>1, <3>3, <3>4
    <3>6. evidence[w].ts <= evidence[d].ts
      <4>1. CASE w = d
        BY <2>1, <4>1
      <4>2. CASE w < d
        BY <2>1, <3>3, <4>2 DEF LineInv, InLine
      <4> QED BY <2>1, <3>3, <3>5, <4>1, <4>2
    <3> QED BY <1>3, <1>8, <2>1, <3>1, <3>3, <3>6
  <2> QED BY <2>7, <2>8
<1>12. Gaps'
  <2> SUFFICES ASSUME NEW d \in DOMAIN evidence', NEW f \in DOMAIN evidence', Neighbours(d, f)'
               PROVE  evidence'[d].incident = evidence'[f].incident <=> evidence'[f].ts <= evidence'[d].ts + Gap
    BY DEF Gaps
  <2>1. d \in LinkedRows' /\ f \in LinkedRows' /\ d \in DOMAIN evidence /\ f \in DOMAIN evidence
        /\ d < f /\ d \in Nat /\ f \in Nat
    BY <1>4, Rows DEF Neighbours, LinkedRows
  <2>2. /\ evidence[d].entity = evidence[f].entity
        /\ \A x \in DOMAIN evidence : evidence[x].entity = evidence[d].entity => ~(d < x /\ x < f)
    BY <1>4, <2>1 DEF Neighbours, SameRow
  <2>3. d # e
    <3>1. f # e => f < e
      BY <1>5, <1>6, <2>1
    <3> QED BY <1>3, <2>1, <3>1
  <2>4. d \in LinkedRows /\ evidence'[d] = evidence[d]
    BY <1>4, <1>5, <2>1, <2>3
  <2>5. CASE f = e
    <3>1. evidence'[f].incident = chosen /\ evidence'[f].ts = evidence[e].ts
      BY <1>3, <1>4, <2>5 DEF SameRow
    <3> HIDE DEF e
    <3> QED BY <1>11, <2>2, <2>4, <2>5, <3>1
  <2>6. CASE f # e
    <3>1. f \in LinkedRows /\ evidence'[f] = evidence[f]
      BY <1>4, <1>5, <2>1, <2>6
    <3>2. Neighbours(d, f)
      BY <2>1, <2>2, <2>4, <3>1 DEF Neighbours, LinkedRows
    <3> QED BY <1>2, <2>1, <2>4, <3>1, <3>2 DEF Gaps
  <2> QED BY <2>5, <2>6
<1> QED BY <1>7, <1>9, <1>10, <1>12

LEMMA PartCount ==
  ASSUME IncidentsAssumption, Typed, ListInv, TotalsInv, LineInv, PartInv, Next, Count PROVE PartInv'
<1> DEFINE e == Head(list)
<1>1. UNCHANGED <<evidence, broken, chosen>> /\ pc = "count" /\ pc' = "choose" /\ list # <<>>
      /\ chosen \in DOMAIN incidents
  BY DEF Count, bounds, Typed
<1> SUFFICES ASSUME broken = 0 PROVE (Parted /\ OfEntity /\ AtHand /\ Gaps)'
  BY <1>1 DEF PartInv
<1>2. Parted /\ OfEntity /\ Gaps /\ AtHand
  BY DEF PartInv
<1>3. e \in DOMAIN evidence /\ evidence[e].ts \in Nat /\ Gap \in Nat
  BY <1>1, ListRows, RowTypes DEF IncidentsAssumption
<1>4. \A i \in DOMAIN incidents : incidents[i].opened \in Nat /\ incidents[i].last \in Nat
  BY RowTypes
<1>5. \A i \in DOMAIN incidents : incidents[i].opened <= evidence[e].ts /\ incidents[i].last <= evidence[e].ts
  BY <1>1, SpansAreBefore
<1>6. /\ DOMAIN incidents' = DOMAIN incidents
      /\ \A i \in DOMAIN incidents \ {chosen} : incidents'[i] = incidents[i]
      /\ \A i \in DOMAIN incidents : incidents'[i].entity = incidents[i].entity
      /\ incidents'[chosen].opened = incidents[chosen].opened
      /\ incidents'[chosen].last = evidence[e].ts
  <2>1. /\ incidents'[chosen].opened = IF incidents[chosen].opened <= evidence[e].ts THEN incidents[chosen].opened
                                       ELSE evidence[e].ts
        /\ incidents'[chosen].last = IF incidents[chosen].last >= evidence[e].ts THEN incidents[chosen].last
                                     ELSE evidence[e].ts
        /\ incidents'[chosen].entity = incidents[chosen].entity
        /\ DOMAIN incidents' = DOMAIN incidents
        /\ \A i \in DOMAIN incidents \ {chosen} : incidents'[i] = incidents[i]
    BY CountAdds
  <2> QED BY <1>1, <1>3, <1>4, <1>5, <2>1
<1>7. incidents[chosen].last + Gap >= evidence[e].ts
  BY <1>1, <1>2 DEF AtHand
<1>8. \A j \in DOMAIN incidents \ {chosen} : incidents[j].entity = incidents[chosen].entity => Apart(j, chosen)
  <2> SUFFICES ASSUME NEW j \in DOMAIN incidents \ {chosen}, incidents[j].entity = incidents[chosen].entity
               PROVE  Apart(j, chosen)
    OBVIOUS
  <2>1. Apart(j, chosen) \/ Apart(chosen, j)
    BY <1>1, <1>2 DEF Parted
  <2>2. ~Apart(chosen, j)
    BY <1>1, <1>3, <1>4, <1>5, <1>7 DEF Apart
  <2> QED BY <2>1, <2>2
<1>9. Parted'
  <2> SUFFICES ASSUME NEW i \in DOMAIN incidents, NEW j \in DOMAIN incidents, i # j,
                      incidents[i].entity = incidents[j].entity
               PROVE  (Apart(i, j) \/ Apart(j, i))'
    BY <1>6 DEF Parted
  <2>1. CASE i # chosen /\ j # chosen
    BY <1>2, <1>6, <2>1 DEF Parted, Apart
  <2>2. CASE i = chosen
    <3>1. Apart(j, i)
      BY <1>8, <2>2
    <3> QED BY <1>6, <2>2, <3>1 DEF Apart
  <2>3. CASE j = chosen
    <3>1. Apart(i, j)
      BY <1>8, <2>3
    <3> QED BY <1>6, <2>3, <3>1 DEF Apart
  <2> QED BY <2>1, <2>2, <2>3
<1>10. OfEntity'
  <2>1. \A d \in DOMAIN evidence : evidence[d].incident \in Nat /\ evidence[d].incident <= Len(incidents)
    BY Rows DEF Typed, EvidenceRow
  <2>2. \A d \in LinkedRows : evidence[d].incident \in DOMAIN incidents
    BY <2>1, Rows DEF LinkedRows
  <2>3. LinkedRows' = LinkedRows
    BY <1>1 DEF LinkedRows
  <2> QED BY <1>1, <1>2, <1>6, <2>2, <2>3 DEF OfEntity
<1>11. AtHand'
  BY <1>1 DEF AtHand
<1>12. Gaps'
  BY <1>1, <1>2 DEF Gaps, Neighbours
<1> QED BY <1>9, <1>10, <1>11, <1>12

LEMMA PartStays ==
  ASSUME IncidentsAssumption, Typed, ListInv, TotalsInv, LineInv, PartInv, Next PROVE PartInv'
<1>0. ASSUME UNCHANGED evidence PROVE /\ LinkedRows' = LinkedRows
                                      /\ \A i \in DOMAIN incidents : Linked(i)' = Linked(i)
                                      /\ \A d \in DOMAIN evidence : evidence'[d].incident = evidence[d].incident
  BY <1>0 DEF LinkedRows, Linked
<1>1. CASE Choose
  BY <1>1, PartChoose
<1>2. CASE Link
  BY <1>2, PartLink
<1>3. CASE Count
  BY <1>3, PartCount
<1>4. CASE Arrive \/ Retract
  <2>1. UNCHANGED <<incidents, pc, broken, list, chosen>>
    BY <1>4 DEF Arrive, Retract, work, bounds
  <2>2. \A d \in DOMAIN evidence : evidence'[d].incident = evidence[d].incident
    BY <1>4, ArriveRows, RetractRows
  <2> QED BY <1>4, <2>1, <2>2, SameLinks, PartKept DEF SameTotals
<1>5. CASE TimePasses \/ Begin \/ Grouped \/ Reason \/ Supersede \/ Conclude \/ End
  <2>1. UNCHANGED <<incidents, evidence, broken>> /\ pc' \notin {"link", "count"}
    BY <1>5 DEF TimePasses, Begin, Grouped, Reason, Supersede, Conclude, End, work, bounds
  <2> QED BY <1>0, <2>1, PartKept DEF SameTotals
<1>6. CASE StoreCause
  <2>1. UNCHANGED <<evidence, broken>> /\ pc' \notin {"link", "count"}
    BY <1>6 DEF StoreCause, work
  <2> QED BY <1>0, <1>6, <2>1, PartKept, StoreSets
<1>7. CASE Break
  <2>1. broken \in Nat /\ broken' = broken + 1
    BY <1>7 DEF Break, Typed
  <2> QED BY <2>1 DEF PartInv
<1>8. ASSUME NEW o \in Operators, Look(o) \/ UpdateIncidentStatus(o) PROVE PartInv'
  <2>1. UNCHANGED <<evidence, pc, broken, list, chosen>>
    BY <1>8 DEF Look, UpdateIncidentStatus, work, bounds
  <2>2. /\ DOMAIN incidents' = DOMAIN incidents
        /\ \A i \in DOMAIN incidents : SameTotals(i)
    <3>1. CASE UNCHANGED incidents
      BY <3>1 DEF SameTotals
    <3>2. CASE UpdateIncidentStatus(o)
      BY <3>2, UpdateSets
    <3> QED BY <1>8, <3>1, <3>2 DEF Look
  <2> QED BY <1>0, <2>1, <2>2, PartKept
<1> QED BY <1>1, <1>2, <1>3, <1>4, <1>5, <1>6, <1>7, <1>8 DEF Next

LEMMA GapsAreKept == ASSUME IncidentsAssumption, Typed, InLine, Gaps PROVE GapKept
<1> SUFFICES ASSUME NEW d \in DOMAIN evidence, NEW e \in DOMAIN evidence,
                    evidence[d].incident # 0, evidence[e].incident # 0,
                    evidence[d].entity = evidence[e].entity, Earlier(d, e),
                    \A x \in DOMAIN evidence :
                      evidence[x].entity = evidence[d].entity => ~(Earlier(d, x) /\ Earlier(x, e))
             PROVE  evidence[d].incident = evidence[e].incident <=> evidence[e].ts - evidence[d].ts <= Gap
  BY DEF GapKept
<1>1. d < e
  BY EarlierInLine
<1>2. \A x \in DOMAIN evidence : evidence[x].entity = evidence[d].entity => ~(d < x /\ x < e)
  BY EarlierInLine
<1>3. Neighbours(d, e)
  BY <1>1, <1>2 DEF Neighbours
<1>4. evidence[d].ts \in Nat /\ evidence[e].ts \in Nat /\ Gap \in Nat
  BY RowTypes DEF IncidentsAssumption
<1>5. evidence[d].incident = evidence[e].incident <=> evidence[e].ts <= evidence[d].ts + Gap
  BY <1>3 DEF Gaps
<1> QED BY <1>4, <1>5

-----------------------------------------------------------------------------
(* The inductive invariant: what the steps above keep, put together.       *)
IncidentsInv == Typed /\ ListInv /\ LostInv /\ TotalsInv /\ CurrentInv /\ IdleInv /\ FineInv
OrderedInv == LineInv /\ PartInv

LEMMA StutterKeeps ==
  ASSUME IncidentsInv, UNCHANGED vars PROVE IncidentsInv' /\ (OrderedInv => OrderedInv')
<1>1. UNCHANGED <<evidence, incidents, conclusions, pc, list, chosen, touched, drawn, broken, failed, aged, unseen>>
  BY DEF vars, work, bounds
<1>2. Typed'
  BY <1>1 DEF IncidentsInv, Typed
<1>3. ListInv'
  BY <1>1 DEF IncidentsInv, ListInv, ListSorted, Earlier
<1>4. LostInv'
  BY <1>1 DEF IncidentsInv, LostInv, Lags, Linked, LinkedRows
<1>5. TotalsInv'
  BY <1>1 DEF IncidentsInv, TotalsInv, Bounded, Attained, Owners, Linked
<1>6. CurrentInv' /\ IdleInv'
  BY <1>1 DEF IncidentsInv, CurrentInv, Currents, IdleInv
<1>7. FineInv'
  <2>1. \A A : Causes(A)' = Causes(A)
    BY <1>1 DEF Causes, Triggers, Earlier
  <2>2. \A i : Currents(i)' = Currents(i) /\ Linked(i)' = Linked(i) /\ Active(i)' = Active(i)
    BY <1>1 DEF Currents, Active, Linked
  <2>3. \A i : Concluded(i)' <=> Concluded(i)
    BY <1>1, <2>1, <2>2 DEF Concluded
  <2>4. \A i : /\ (Overlooked(i)' <=> Overlooked(i)) /\ (LookedFor(i)' <=> LookedFor(i))
               /\ (Held(i)' <=> Held(i))
    BY <1>1, <2>2 DEF Overlooked, LookedFor, Held
  <2>5. \A i : InHand(i)' <=> InHand(i)
    BY <1>1, <2>1, <2>2, <2>4 DEF InHand
  <2>6. \A i : Fine(i)' <=> Fine(i)
    BY <1>1, <2>3, <2>4 DEF Fine
  <2> QED BY <1>1, <2>4, <2>5, <2>6 DEF FineInv, IncidentsInv
<1>8. LineInv => LineInv'
  BY <1>1 DEF LineInv, InLine, LinkedInLine, LinkedRows, Unassigned
<1>9. PartInv => PartInv'
  <2>1. Parted' = Parted /\ OfEntity' = OfEntity
    BY <1>1 DEF Parted, Apart, OfEntity, LinkedRows
  <2>2. AtHand' <=> AtHand
    BY <1>1 DEF AtHand, Linked
  <2>3. Gaps' <=> Gaps
    BY <1>1 DEF Gaps, Neighbours
  <2> QED BY <1>1, <2>1, <2>2, <2>3 DEF PartInv
<1> QED BY <1>2, <1>3, <1>4, <1>5, <1>6, <1>7, <1>8, <1>9 DEF IncidentsInv, OrderedInv

LEMMA IncidentsInvFirst == IncidentsAssumption /\ Init => IncidentsInv /\ OrderedInv
BY TypedFirst, ListFirst, LostFirst, TotalsFirst, CurrentFirst, FineFirst, LineFirst, PartFirst
   DEF IncidentsInv, OrderedInv

LEMMA IncidentsInvStays == IncidentsAssumption /\ IncidentsInv /\ [Next]_vars => IncidentsInv'
<1> SUFFICES ASSUME IncidentsAssumption, IncidentsInv, [Next]_vars PROVE IncidentsInv'
  OBVIOUS
<1>1. CASE Next
  BY <1>1, TypedStays, ListStays, LostStays, TotalsStay, CurrentStays, IdleStays, FineStays DEF IncidentsInv
<1>2. CASE UNCHANGED vars
  BY <1>2, StutterKeeps
<1> QED BY <1>1, <1>2

LEMMA OrderedInvStays ==
  IncidentsAssumption /\ InOrder /\ IncidentsInv /\ OrderedInv /\ [Next]_vars => OrderedInv'
<1> SUFFICES ASSUME IncidentsAssumption, InOrder, IncidentsInv, OrderedInv, [Next]_vars PROVE OrderedInv'
  OBVIOUS
<1>1. CASE Next
  BY <1>1, LineStays, PartStays DEF IncidentsInv, OrderedInv
<1>2. CASE UNCHANGED vars
  BY <1>2, StutterKeeps
<1> QED BY <1>1, <1>2

LEMMA InvSays == IncidentsAssumption /\ IncidentsInv => FollowsEvidence /\ Concludes
<1> SUFFICES ASSUME IncidentsAssumption, IncidentsInv PROVE FollowsEvidence /\ Concludes
  OBVIOUS
<1>1. TypeOK /\ CountLags /\ TotalsMatch
  BY LostIsLag, TotalsAre DEF IncidentsInv
<1>2. OneCurrentConclusion
  BY DEF IncidentsInv, CurrentInv, Currents, OneCurrentConclusion
<1>3. ConclusionsStand
  <2> SUFFICES ASSUME pc = "idle", broken = 0, failed = 0, NEW i \in DOMAIN incidents,
                        Active(i) # {}, Linked(i) \cap unseen = {}
               PROVE  /\ incidents[i].cause \in Causes(Active(i))
                      /\ \E k \in DOMAIN conclusions :
                           /\ conclusions[k].current /\ conclusions[k].incident = i
                           /\ conclusions[k].cause = incidents[i].cause /\ conclusions[k].refs = Active(i)
    BY DEF ConclusionsStand
  <2>1. Concluded(i)
    BY DEF IncidentsInv, FineInv, Fine, Held, IdleInv, Overlooked
  <2> QED BY <2>1 DEF Concluded, Currents
<1> QED BY <1>1, <1>2, <1>3 DEF FollowsEvidence, Concludes

LEMMA OrderSays == IncidentsAssumption /\ IncidentsInv /\ OrderedInv => GapKept
<1> SUFFICES ASSUME IncidentsAssumption, IncidentsInv, OrderedInv, broken = 0 PROVE GapKept
  BY DEF GapKept
<1> QED BY GapsAreKept DEF IncidentsInv, OrderedInv, LineInv, PartInv

LEMMA StepsSay ==
  IncidentsAssumption /\ IncidentsInv /\ [Next]_vars => [LinksStay /\ StatusMoves]_vars
<1> SUFFICES ASSUME IncidentsAssumption, IncidentsInv, Next PROVE LinksStay /\ StatusMoves
  OBVIOUS
<1>1. LinksStay
  BY LinkedStays DEF LinksStay, IncidentsInv
<1>2. StatusMoves
  BY StatusesMove DEF StatusMoves, IncidentsInv
<1> QED BY <1>1, <1>2

(***************************************************************************)
(* Whatever a restart falls between, the count of an incident misses its   *)
(* rows by at most one for each grouping that was cut off, and no row is   *)
(* counted twice; and every incident and row is what it may be.            *)
(***************************************************************************)
THEOREM CountsLagByRestarts == ASSUME IncidentsAssumption PROVE Spec => [](CountLags /\ TypeOK)
<1>1. Init => IncidentsInv
  BY IncidentsInvFirst
<1>2. IncidentsInv /\ [Next]_vars => IncidentsInv'
  BY IncidentsInvStays
<1>3. IncidentsInv => (CountLags /\ TypeOK)
  BY InvSays DEF FollowsEvidence, Concludes
<1> QED BY <1>1, <1>2, <1>3, PTL DEF Spec

(***************************************************************************)
(* Between groupings, none of them cut off, count, span and severity of an *)
(* incident are those of its rows, whatever order they came in.            *)
(***************************************************************************)
THEOREM TotalsFollowEvidence == ASSUME IncidentsAssumption PROVE Spec => []TotalsMatch
<1>1. Init => IncidentsInv
  BY IncidentsInvFirst
<1>2. IncidentsInv /\ [Next]_vars => IncidentsInv'
  BY IncidentsInvStays
<1>3. IncidentsInv => TotalsMatch
  BY InvSays DEF FollowsEvidence, Concludes
<1> QED BY <1>1, <1>2, <1>3, PTL DEF Spec

(***************************************************************************)
(* An incident has one current conclusion and at most one more for each    *)
(* statement that failed, however many groupings are cut off, and wherever.*)
(***************************************************************************)
THEOREM OneIsCurrent == ASSUME IncidentsAssumption PROVE Spec => []OneCurrentConclusion
<1>1. Init => IncidentsInv
  BY IncidentsInvFirst
<1>2. IncidentsInv /\ [Next]_vars => IncidentsInv'
  BY IncidentsInvStays
<1>3. IncidentsInv => OneCurrentConclusion
  BY InvSays DEF FollowsEvidence, Concludes
<1> QED BY <1>1, <1>2, <1>3, PTL DEF Spec

(***************************************************************************)
(* After a grouping that was not cut off and where no statement or query   *)
(* failed, the incident and its current conclusion name the cause that its *)
(* standing evidence points to, unless evidence of it was retracted of     *)
(* which no grouping came in time: later ones do not look for it.          *)
(***************************************************************************)
THEOREM ConclusionsFollow == ASSUME IncidentsAssumption PROVE Spec => []ConclusionsStand
<1>1. Init => IncidentsInv
  BY IncidentsInvFirst
<1>2. IncidentsInv /\ [Next]_vars => IncidentsInv'
  BY IncidentsInvStays
<1>3. IncidentsInv => ConclusionsStand
  BY InvSays DEF FollowsEvidence, Concludes
<1> QED BY <1>1, <1>2, <1>3, PTL DEF Spec

(***************************************************************************)
(* When evidence comes in order and no grouping is cut off, silences       *)
(* longer than the gap part incidents of an entity, and nothing else does. *)
(***************************************************************************)
THEOREM GapsPartIncidents == ASSUME IncidentsAssumption, InOrder PROVE Spec => []GapKept
<1>1. Init => IncidentsInv /\ OrderedInv
  BY IncidentsInvFirst
<1>2. IncidentsInv /\ OrderedInv /\ [Next]_vars => (IncidentsInv /\ OrderedInv)'
  BY IncidentsInvStays, OrderedInvStays
<1>3. IncidentsInv /\ OrderedInv => GapKept
  BY OrderSays
<1> QED BY <1>1, <1>2, <1>3, PTL DEF Spec

(***************************************************************************)
(* Evidence once linked stays with its incident, and what an operator      *)
(* decided is never undone by another with an old page or by the grouping, *)
(* however many operators there are and whatever is cut off.               *)
(***************************************************************************)
THEOREM NothingMovesBack == ASSUME IncidentsAssumption PROVE Spec => LinkedForGood /\ DecisionsStand
<1>1. Init => IncidentsInv
  BY IncidentsInvFirst
<1>2. IncidentsInv /\ [Next]_vars => IncidentsInv'
  BY IncidentsInvStays
<1>3. IncidentsInv /\ [Next]_vars => [LinksStay]_vars
  BY StepsSay
<1>4. IncidentsInv /\ [Next]_vars => [StatusMoves]_vars
  BY StepsSay
<1> QED BY <1>1, <1>2, <1>3, <1>4, PTL DEF Spec, LinkedForGood, DecisionsStand
=============================================================================
