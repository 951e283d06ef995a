---------------------------- MODULE OperationsProofs ----------------------------
(***************************************************************************)
(* Proofs about what operators and administrators work with: the ping      *)
(* monitor, the tables of sites and of users, triage, jobs and commands on *)
(* a device, and anomalies and incidents.                                  *)
(***************************************************************************)
EXTENDS MCOperations, MCCorrelation, FiniteSetTheorems, TLAPS

-----------------------------------------------------------------------------
(***************************************************************************)
(* PingMonitor, for any finite set of devices, any number of savers and    *)
(* any number of slots: NoLostWake, which is inductive beside the types,   *)
(* and AnsweringIsUp, which is not.  What is shown after a cycle rests on  *)
(* what the probes found during it (SteadyNotDown), and that on the slots: *)
(* the deadline finds no steady device waiting, because with few silent    *)
(* ones a slot would have been free.                                       *)
(***************************************************************************)
(* A steady device is of this cycle and answers. *)
SteadyAnswers == steady \subseteq ips /\ steady \subseteq answers

(* A probe under way has no result yet. *)
ProbesAreOpen == pc = "probe" => \A d \in probing : results[d] = "none"

(* No probe of a steady device failed, and at the deadline all are back. *)
SteadyNotDown ==
  pc = "probe" /\ FewSilent =>
    \A d \in steady : results[d] # "down" /\ (expired => results[d] = "up")

(* Between cycles, also one that was left out, a steady device is up. *)
ShownIsUp == pc # "probe" /\ FewSilent => \A d \in steady : state[d] = "up"

(* Its steps without the bounds: more may be saved and may change. *)
Saving(s) ==
  /\ saver[s] = "free" /\ enabled' \in BOOLEAN
  /\ saver' = [saver EXCEPT ![s] = "saved"]
  /\ UNCHANGED <<wakeCh, pc, cfg, env, cycle, state>>

Changing ==
  /\ inventory' \subseteq Devices /\ answers' \subseteq Devices /\ steady' = steady \cap answers'
  /\ UNCHANGED <<settings, wakeCh, pc, cfg, ips, probing, results, expired, state>>

Unbounded == Loop \/ Changing \/ \E s \in Savers : Saving(s) \/ Wake(s)

IInv ==
  /\ TypeOK
  /\ NoLostWake
  /\ SteadyAnswers
  /\ ProbesAreOpen
  /\ SteadyNotDown
  /\ ShownIsUp

-----------------------------------------------------------------------------
LEMMA InitHolds == Init => IInv
<1> SUFFICES ASSUME Init PROVE IInv
  OBVIOUS
<1> USE DEF Init
<1>1. Cardinality(probing) <= Slots
  BY FS_EmptySet, PingMonitorAssumption
<1>2. results \in [Devices -> {"none", "up", "down"}]
  BY DEF NoResults
<1>3. wakeCh \in 0..1
  OBVIOUS
<1>4. /\ saver \in [Savers -> {"free", "saved"}]
      /\ state \in [Devices -> {"unknown", "up", "down"}]
      /\ enabled \in BOOLEAN /\ cfg \in BOOLEAN /\ expired \in BOOLEAN
  BY Zenon
<1>5. TypeOK
  BY <1>1, <1>2, <1>3, <1>4, Zenon DEF TypeOK
<1> QED
  BY <1>5 DEF IInv, NoLostWake, SteadyAnswers, ProbesAreOpen, SteadyNotDown, ShownIsUp

(* The fewer devices are steady, the more are silent. *)
LEMMA FewerSteadyMoreSilent ==
  ASSUME TypeOK, NEW S \in SUBSET steady, Cardinality(ips \ S) < Slots
  PROVE  FewSilent
<1>1. IsFiniteSet(ips \ S) /\ ips \ steady \in SUBSET (ips \ S)
  BY FS_Subset, PingMonitorAssumption DEF TypeOK
<1>2. /\ Cardinality(ips \ steady) <= Cardinality(ips \ S)
      /\ Cardinality(ips \ steady) \in Nat /\ Cardinality(ips \ S) \in Nat
  BY <1>1, FS_Subset, FS_CardinalityType
<1> QED BY <1>2, PingMonitorAssumption DEF FewSilent

(* The types are kept by every step; the slots are what needs counting. *)
LEMMA TypesAreKept == TypeOK /\ [Unbounded]_vars => TypeOK'
<1> SUFFICES ASSUME TypeOK, [Unbounded]_vars PROVE TypeOK'
  OBVIOUS
<1> USE PingMonitorAssumption DEF TypeOK, env, cycle, settings
<1>1. CASE Start \/ Idle \/ Sleep \/ Expire
  <2>1. wakeCh' \in 0..1
    BY <1>1 DEF Start, Idle, Sleep, Expire
  <2> QED BY <1>1, <2>1, Zenon DEF Start, Idle, Sleep, Expire
<1>10. CASE GetConfig
  <2>1. cfg' \in BOOLEAN /\ pc' \in {"list", "idle"}
    BY <1>10 DEF GetConfig
  <2> QED BY <1>10, <2>1 DEF GetConfig
<1>2. CASE ListDevices
  <2>1. CASE Listed
    <3>1. Cardinality(probing') <= Slots /\ probing' \subseteq ips'
      BY <2>1, FS_EmptySet DEF Listed
    <3>2. results' \in [Devices -> {"none", "up", "down"}]
      BY <2>1 DEF Listed, NoResults
    <3>3. state' \in [Devices -> {"unknown", "up", "down"}] /\ pc' \in {"sleep", "probe"}
      BY <2>1 DEF Listed
    <3> QED BY <2>1, <3>1, <3>2, <3>3, Zenon DEF Listed
  <2> QED BY <1>2, <2>1 DEF ListDevices
<1>3. ASSUME NEW d \in Devices, Acquire(d) PROVE TypeOK'
  <2>1. IsFiniteSet(probing) /\ Cardinality(probing) \in Nat /\ Cardinality(probing) < Slots
    <3>1. probing \in SUBSET Devices
      OBVIOUS
    <3> QED BY <1>3, <3>1, FS_Subset, FS_CardinalityType DEF Acquire
  <2>2. Cardinality(probing \cup {d}) <= Slots
    <3>1. Cardinality(probing \cup {d})
            = IF d \in probing THEN Cardinality(probing) ELSE Cardinality(probing) + 1
      BY <2>1, FS_AddElement, Zenon
    <3>2. Slots \in Nat
      OBVIOUS
    <3> HIDE DEF TypeOK
    <3> QED BY <2>1, <3>1, <3>2
  <2> QED BY <1>3, <2>2 DEF Acquire, Waiting
<1>4. ASSUME NEW d \in Devices, Probe(d) PROVE TypeOK'
  <2>1. Cardinality(probing \ {d}) <= Cardinality(probing)
        /\ Cardinality(probing \ {d}) \in Nat /\ Cardinality(probing) \in Nat
    <3>1. IsFiniteSet(probing) /\ probing \ {d} \in SUBSET probing
      <4>1. probing \in SUBSET Devices
        OBVIOUS
      <4> QED BY <4>1, FS_Subset
    <3> QED BY <3>1, FS_Subset, FS_CardinalityType
  <2> QED BY <1>4, <2>1 DEF Probe
<1>5. CASE Merge
  BY <1>5 DEF Merge
<1>6. CASE Changing
  BY <1>6 DEF Changing
<1>7. ASSUME NEW s \in Savers, Saving(s) \/ Wake(s) PROVE TypeOK'
  BY <1>7 DEF Saving, Wake
<1>8. CASE UNCHANGED vars
  BY <1>8 DEF vars
<1> QED BY <1>1, <1>2, <1>3, <1>4, <1>5, <1>6, <1>7, <1>8, <1>10 DEF Unbounded, Loop

(* Nothing between reading the settings and the wait loses a token. *)
LEMMA WakesAreKept == TypeOK /\ NoLostWake /\ [Unbounded]_vars => NoLostWake'
<1> SUFFICES ASSUME TypeOK, NoLostWake, [Unbounded]_vars PROVE NoLostWake'
  OBVIOUS
<1> USE DEF TypeOK, NoLostWake, env, cycle, settings
<1>1. CASE Start \/ GetConfig \/ Idle \/ ListDevices \/ Expire \/ Merge \/ Sleep
  BY <1>1 DEF Start, GetConfig, Idle, ListDevices, Listed, Expire, Merge, Sleep
<1>2. ASSUME NEW d \in Devices, Acquire(d) \/ Probe(d) PROVE NoLostWake'
  BY <1>2 DEF Acquire, Probe
<1>3. CASE Changing
  BY <1>3 DEF Changing
<1>4. ASSUME NEW s \in Savers, Saving(s) PROVE NoLostWake'
  BY <1>4 DEF Saving
<1>5. ASSUME NEW s \in Savers, Wake(s) PROVE NoLostWake'
  BY <1>5 DEF Wake
<1>6. CASE UNCHANGED vars
  BY <1>6 DEF vars
<1> QED BY <1>1, <1>2, <1>3, <1>4, <1>5, <1>6 DEF Unbounded, Loop

-----------------------------------------------------------------------------
(***************************************************************************)
(* The deadline: what holds a slot is silent, so it holds fewer than all   *)
(* of them, so nothing waits, and a steady device has its answer.          *)
(***************************************************************************)
LEMMA DeadlineFindsAnswers ==
  ASSUME IInv, Expire, FewSilent, NEW d \in steady
  PROVE  results[d] = "up"
<1> USE PingMonitorAssumption DEF IInv, TypeOK, SteadyAnswers
<1>1. probing \in SUBSET (ips \ steady) /\ IsFiniteSet(ips \ steady)
  BY FS_Subset DEF Expire
<1>2. Cardinality(probing) # Slots
  <2>1. /\ Cardinality(probing) <= Cardinality(ips \ steady)
        /\ Cardinality(probing) \in Nat /\ Cardinality(ips \ steady) \in Nat
    BY <1>1, FS_Subset, FS_CardinalityType
  <2> QED BY <2>1 DEF FewSilent
<1>3. d \notin Waiting /\ d \notin probing /\ d \in ips
  BY <1>1, <1>2 DEF Expire
<1>4. results[d] # "none" /\ results[d] # "down"
  BY <1>3 DEF Waiting, SteadyNotDown, Expire
<1> QED BY <1>4

LEMMA CyclesAreKept ==
  IInv /\ TypeOK' /\ NoLostWake' /\ [Unbounded]_vars => IInv'
<1> SUFFICES ASSUME IInv, TypeOK', NoLostWake', [Unbounded]_vars PROVE IInv'
  OBVIOUS
<1> USE DEF IInv, SteadyAnswers, ProbesAreOpen, SteadyNotDown, ShownIsUp, env, cycle, settings
<1>1. CASE Start \/ GetConfig \/ Idle \/ Sleep
  BY <1>1 DEF Start, GetConfig, Idle, Sleep, FewSilent
<1>2. CASE ListDevices
  BY <1>2 DEF ListDevices, Listed, NoResults, FewSilent, TypeOK
<1>3. ASSUME NEW d \in Devices, Acquire(d) PROVE IInv'
  BY <1>3 DEF Acquire, Waiting, FewSilent
<1>4. ASSUME NEW d \in Devices, Probe(d) PROVE IInv'
  BY <1>4 DEF Probe, FewSilent, TypeOK
<1>5. CASE Expire
  BY <1>5, DeadlineFindsAnswers DEF Expire, FewSilent
<1>6. CASE Merge
  <2>1. \A d \in ips : results[d] \in {"up", "down"}
    BY <1>6 DEF Merge, TypeOK
  <2>2. FewSilent => \A d \in steady : results[d] = "up"
    BY <1>6, <2>1 DEF Merge
  <2>3. \A d \in steady : state'[d] = results[d]
    BY <1>6 DEF Merge, TypeOK
  <2> QED BY <1>6, <2>2, <2>3 DEF Merge, FewSilent
<1>7. CASE Changing
  <2>1. /\ steady' \in SUBSET steady /\ steady' \subseteq answers'
        /\ UNCHANGED <<settings, wakeCh, pc, cfg, ips, probing, results, expired, state>>
    BY <1>7 DEF Changing
  <2>2. FewSilent' => FewSilent
    BY <2>1, FewerSteadyMoreSilent DEF FewSilent
  <2> QED BY <2>1, <2>2
<1>8. ASSUME NEW s \in Savers, Saving(s) \/ Wake(s) PROVE IInv'
  BY <1>8 DEF Saving, Wake, FewSilent
<1>9. CASE UNCHANGED vars
  BY <1>9 DEF vars, FewSilent
<1> QED BY <1>1, <1>2, <1>3, <1>4, <1>5, <1>6, <1>7, <1>8, <1>9 DEF Unbounded, Loop

-----------------------------------------------------------------------------
LEMMA MonitorStays == IInv /\ [Unbounded]_vars => IInv'
BY TypesAreKept, WakesAreKept, CyclesAreKept DEF IInv

LEMMA BoundsOnlyForbid == TypeOK /\ Next => Unbounded
<1> SUFFICES ASSUME TypeOK, Next PROVE Unbounded
  OBVIOUS
<1>1. Environment => Changing
  BY DEF TypeOK, Environment, Change, Changing, settings
<1>2. \A s \in Savers : SaveConfig(s) => Saving(s)
  BY DEF SaveConfig, Saving
<1> QED BY <1>1, <1>2, Zenon DEF Next, Unbounded

LEMMA Invariance == Spec => []IInv
<1>1. IInv /\ [Next]_vars => IInv'
  BY BoundsOnlyForbid, MonitorStays DEF IInv
<1> QED BY InitHolds, <1>1, PTL DEF Spec

(* TypeOK: at most Slots probes are under way, whatever comes and goes. *)
THEOREM TypesAreRight == Spec => []TypeOK
BY Invariance, PTL DEF IInv

(***************************************************************************)
(* SaveConfig and Wake against the loop: settings saved while an enabled   *)
(* monitor works or sleeps are never slept over.                           *)
(***************************************************************************)
THEOREM WakesAreNotLost == Spec => []NoLostWake
BY Invariance, PTL DEF IInv

(***************************************************************************)
(* RunCycle: with fewer silent devices than slots, a device that answered  *)
(* during the whole cycle is shown as up.                                  *)
(***************************************************************************)
THEOREM AnsweringIsShown == Spec => []AnsweringIsUp
<1>1. IInv => AnsweringIsUp
  BY DEF IInv, ShownIsUp, AnsweringIsUp
<1> QED BY Invariance, <1>1, PTL

-----------------------------------------------------------------------------
(* Sites.                                                                   *)
(* A token is held for a site by its row, or by a request that has read the *)
(* row and may write it back.  What makes TokenOpensOneSite inductive is    *)
(* that a token is held for one site only, a site deleted and created anew  *)
(* included, and that a token is drawn before it is held.                   *)
InRow(id, t) == id \in DOMAIN sites /\ sites[id].token = t
InRequest(id, t) == \E a \in Admins : call[a].at = "update" /\ call[a].id = id /\ call[a].row.token = t
Holds(id, t) == InRow(id, t) \/ InRequest(id, t)

OneOwner == \A i, j \in SiteIds, t \in Registry!Token : Holds(i, t) /\ Holds(j, t) /\ t # Registry!NoToken => i = j
DrawnBefore == \A i \in SiteIds, t \in Registry!Token : Holds(i, t) => t <= drawn
RegistryInv == Registry!TypeOK /\ OneOwner /\ DrawnBefore

LEMMA TurnsOrNot == ByTurns \in BOOLEAN /\ (ByTurns \in BOOLEAN)'
BY DEF ByTurns

LEMMA TokenFacts ==
  Registry!SitesAssumption => Registry!Token \subseteq Nat /\ Registry!NoToken \in Registry!Token /\ \A t \in Nat : t < MaxTokens => t + 1 \in Registry!Token
BY DEF Registry!SitesAssumption, Registry!Token, Registry!NoToken

(* Tokens held before, and one just drawn for a single site. *)
LEMMA OwnersStay ==
  ASSUME Registry!SitesAssumption, RegistryInv, NEW new, drawn' \in {drawn, drawn + 1},
         \A i \in SiteIds, t \in Registry!Token :
           Holds(i, t)' => t = Registry!NoToken \/ Holds(i, t) \/ (i = new /\ t = drawn' /\ drawn' = drawn + 1)
  PROVE  OneOwner' /\ DrawnBefore'
<1>1. drawn \in Nat /\ Registry!NoToken \in Nat /\ Registry!Token \subseteq Nat /\ \A t \in Registry!Token : t >= Registry!NoToken
  BY TokenFacts DEF RegistryInv, Registry!TypeOK, Registry!Token, Registry!NoToken
<1>2. DrawnBefore'
  BY <1>1 DEF RegistryInv, DrawnBefore, Registry!NoToken
<1>3. ASSUME NEW i \in SiteIds, NEW j \in SiteIds, NEW t \in Registry!Token, Holds(i, t)', Holds(j, t)', t # Registry!NoToken
      PROVE  i = j
  BY <1>1, <1>3 DEF RegistryInv, OneOwner, DrawnBefore
<1> QED BY <1>2, <1>3 DEF OneOwner

LEMMA RegistryBegins == Registry!SitesAssumption /\ Registry!Init => RegistryInv
<1> SUFFICES ASSUME Registry!SitesAssumption, Registry!Init PROVE RegistryInv
  OBVIOUS
<1>1. Registry!TypeOK
  BY TokenFacts DEF Registry!SitesAssumption, Registry!Init, Registry!TypeOK, Registry!Row,
     Registry!Modes, Registry!Calls, Registry!Idle, Registry!NoToken
<1>2. \A i \in SiteIds, t \in Registry!Token : Holds(i, t) => t = Registry!NoToken /\ t <= drawn
  BY TokenFacts DEF Registry!Init, Holds, InRow, InRequest, Registry!Idle, Registry!NoToken
<1> QED BY <1>1, <1>2 DEF RegistryInv, OneOwner, DrawnBefore

(* A row is written, and a request that ends holds nothing any more. *)
RowsAreTyped ==
  DOMAIN sites \subseteq SiteIds /\ Default \in DOMAIN sites /\ \A i \in DOMAIN sites : sites[i] \in Registry!Row

LEMMA WritingARow ==
  ASSUME RegistryInv, NEW id \in SiteIds, NEW row \in Registry!Row, sites' = Registry!Put(id, row)
  PROVE  RowsAreTyped' /\ \A i, t : InRow(i, t)' => InRow(i, t) \/ (i = id /\ t = row.token)
<1>1. /\ DOMAIN sites' = DOMAIN sites \cup {id} /\ sites'[id] = row
      /\ \A i \in DOMAIN sites \ {id} : sites'[i] = sites[i]
  BY DEF Registry!Put
<1> QED BY <1>1 DEF RegistryInv, Registry!TypeOK, RowsAreTyped, InRow

LEMMA EndingARequest ==
  ASSUME RegistryInv, NEW a \in Admins, call' = [call EXCEPT ![a] = Registry!Idle]
  PROVE  call' \in [Admins -> Registry!Calls] /\ \A i, t : InRequest(i, t)' => InRequest(i, t)
<1>1. Registry!Idle \in Registry!Calls /\ Registry!Idle.at # "update"
  BY DEF Registry!Calls, Registry!Idle
<1> QED BY <1>1 DEF RegistryInv, Registry!TypeOK, InRequest

(* Requests begin: what they read is held for the site already. *)
LEMMA BeginningKeeps ==
  ASSUME Registry!SitesAssumption, RegistryInv, NEW a \in Admins, NEW id \in SiteIds,
         \/ \E mode \in Registry!Modes : Registry!CreateLook(a, id, mode)
         \/ \E mode \in Registry!Modes \cup {"same"} : Registry!UpdateRead(a, id, mode)
         \/ Registry!RegenerateRead(a, id)
  PROVE  RegistryInv'
<1>1. Registry!TypeOK'
  <2>1. CASE \E mode \in Registry!Modes : Registry!CreateLook(a, id, mode)
    BY TurnsOrNot, <2>1 DEF RegistryInv, Registry!TypeOK, Registry!CreateLook, Registry!Calls
  <2>2. CASE \E mode \in Registry!Modes \cup {"same"} : Registry!UpdateRead(a, id, mode)
    BY TurnsOrNot, <2>2 DEF RegistryInv, Registry!TypeOK, Registry!UpdateRead, Registry!Calls
  <2>3. CASE Registry!RegenerateRead(a, id)
    BY TurnsOrNot, <2>3 DEF RegistryInv, Registry!TypeOK, Registry!RegenerateRead, Registry!Calls
  <2> QED BY <2>1, <2>2, <2>3
<1>2. \A i \in SiteIds, t \in Registry!Token : Holds(i, t)' => Holds(i, t)
  BY DEF RegistryInv, Registry!TypeOK, Holds, InRow, InRequest, Registry!CreateLook,
     Registry!UpdateRead, Registry!RegenerateRead
<1>3. drawn' = drawn
  BY DEF Registry!CreateLook, Registry!UpdateRead, Registry!RegenerateRead
<1> QED BY <1>1, <1>2, <1>3, OwnersStay DEF RegistryInv

LEMMA CreatingKeeps ==
  ASSUME Registry!SitesAssumption, RegistryInv, NEW a \in Admins, Registry!CreateInsert(a)
  PROVE  RegistryInv'
<1> DEFINE id == call[a].id
           Drawn(row) == /\ row.token = drawn' /\ drawn' = drawn + 1 /\ drawn < MaxTokens
                         /\ shown' = [shown EXCEPT ![id] = drawn']
<1>1. call[a] \in Registry!Calls /\ call[a].at = "create" /\ id \in SiteIds
  BY DEF RegistryInv, Registry!TypeOK, Registry!CreateInsert, Registry!Calls, Registry!Idle
<1>2. PICK row \in Registry!Row :
        /\ sites' = Registry!Put(id, row)
        /\ Drawn(row) \/ (row.token = Registry!NoToken /\ UNCHANGED <<drawn, shown>>)
  <2>1. CASE call[a].mode = "central"
    <3>1. [mode |-> "central", token |-> Registry!NoToken] \in Registry!Row
      BY TokenFacts DEF Registry!Row, Registry!Modes
    <3> QED BY <2>1, <3>1 DEF Registry!CreateInsert
  <2>2. CASE call[a].mode = "agent" /\ drawn < MaxTokens /\ drawn' = drawn + 1
    <3>1. [mode |-> "agent", token |-> drawn'] \in Registry!Row
      BY <2>2, TokenFacts DEF Registry!Row, Registry!Modes, RegistryInv, Registry!TypeOK
    <3> QED BY <2>2, <3>1 DEF Registry!CreateInsert
  <2> QED BY <2>1, <2>2 DEF Registry!CreateInsert
<1>3. call' = [call EXCEPT ![a] = Registry!Idle] /\ over' = over
  BY DEF Registry!CreateInsert
<1>4. drawn' \in Registry!Token /\ shown' \in [SiteIds -> Registry!Token]
  BY <1>1, <1>2, TokenFacts DEF RegistryInv, Registry!TypeOK
<1>5. Registry!TypeOK'
  BY TurnsOrNot, <1>1, <1>2, <1>3, <1>4, WritingARow, EndingARequest DEF RegistryInv, Registry!TypeOK,
     RowsAreTyped
<1>6. \A i \in SiteIds, t \in Registry!Token :
        Holds(i, t)' => t = Registry!NoToken \/ Holds(i, t) \/ (i = id /\ t = drawn' /\ drawn' = drawn + 1)
  <2>1. \A i, t : InRow(i, t)' => InRow(i, t) \/ (i = id /\ t = row.token)
    BY <1>1, <1>2, WritingARow
  <2>2. \A i, t : InRequest(i, t)' => InRequest(i, t)
    BY <1>3, EndingARequest
  <2>3. row.token = Registry!NoToken \/ (row.token = drawn' /\ drawn' = drawn + 1)
    BY <1>2
  <2> QED BY <2>1, <2>2, <2>3 DEF Holds
<1>7. drawn' \in {drawn, drawn + 1}
  BY <1>2
<1> QED BY <1>5, <1>6, <1>7, OwnersStay DEF RegistryInv

(* The row as it was read is written back, its token with it. *)
LEMMA UpdatingKeeps ==
  ASSUME Registry!SitesAssumption, RegistryInv, NEW a \in Admins, Registry!UpdateWrite(a)
  PROVE  RegistryInv'
<1> DEFINE id == call[a].id
           row == Registry!Changed(call[a])
<1>1. call[a].at = "update" /\ id \in SiteIds /\ call[a].row \in Registry!Row /\ call[a].mode \in Registry!Modes \cup {"same"}
  <2>1. call[a] \in Registry!Calls /\ call[a].at = "update"
    BY DEF RegistryInv, Registry!TypeOK, Registry!UpdateWrite
  <2> QED BY <2>1 DEF Registry!Calls, Registry!Idle
<1>2. row \in Registry!Row /\ row.token \in {Registry!NoToken, call[a].row.token}
  BY <1>1, TokenFacts DEF Registry!Changed, Registry!Row, Registry!Modes
<1>3. sites' = sites \/ sites' = Registry!Put(id, row)
  BY DEF Registry!UpdateWrite
<1>4. call' = [call EXCEPT ![a] = Registry!Idle] /\ drawn' = drawn /\ shown' = shown
  BY DEF Registry!UpdateWrite
<1>5. over' \subseteq Registry!Token
  BY DEF Registry!UpdateWrite, Registry!TokenOf, RegistryInv, Registry!TypeOK, Registry!Row
<1>6. RowsAreTyped' /\ \A i, t : InRow(i, t)' => InRow(i, t) \/ (i = id /\ t = row.token)
  <2>1. CASE sites' = sites
    BY <2>1 DEF RegistryInv, Registry!TypeOK, RowsAreTyped, InRow
  <2>2. CASE sites' = Registry!Put(id, row)
    BY <1>1, <1>2, <2>2, WritingARow
  <2> QED BY <1>3, <2>1, <2>2
<1>7. Registry!TypeOK'
  BY TurnsOrNot, <1>4, <1>5, <1>6, EndingARequest DEF RegistryInv, Registry!TypeOK, RowsAreTyped
<1>8. InRequest(id, call[a].row.token)
  BY <1>1 DEF InRequest
<1>9. \A i \in SiteIds, t \in Registry!Token : Holds(i, t)' => t = Registry!NoToken \/ Holds(i, t)
  BY <1>2, <1>4, <1>6, <1>8, EndingARequest DEF Holds
<1> QED BY <1>1, <1>4, <1>7, <1>9, OwnersStay DEF RegistryInv

LEMMA RegeneratingKeeps ==
  ASSUME Registry!SitesAssumption, RegistryInv, NEW a \in Admins, Registry!RegenerateWrite(a)
  PROVE  RegistryInv'
<1> DEFINE id == call[a].id
<1>1. id \in SiteIds
  <2>1. call[a] \in Registry!Calls /\ call[a].at = "regenerate"
    BY DEF RegistryInv, Registry!TypeOK, Registry!RegenerateWrite
  <2> QED BY <2>1 DEF Registry!Calls, Registry!Idle
<1>2. drawn' = drawn + 1 /\ drawn' \in Registry!Token
  BY TokenFacts DEF Registry!RegenerateWrite, RegistryInv, Registry!TypeOK
<1>3. /\ call' = [call EXCEPT ![a] = Registry!Idle] /\ shown' = [shown EXCEPT ![id] = drawn']
      /\ over' \subseteq Registry!Token
  BY DEF Registry!RegenerateWrite, Registry!TokenOf, RegistryInv, Registry!TypeOK, Registry!Row
<1>4. RowsAreTyped' /\ \A i, t : InRow(i, t)' => InRow(i, t) \/ (i = id /\ t = drawn')
  <2>1. CASE sites' = sites
    BY <2>1 DEF RegistryInv, Registry!TypeOK, RowsAreTyped, InRow
  <2>2. CASE id \in DOMAIN sites /\ sites' = [sites EXCEPT ![id].token = drawn']
    <3>1. /\ DOMAIN sites' = DOMAIN sites /\ sites'[id] = [sites[id] EXCEPT !.token = drawn']
          /\ \A i \in DOMAIN sites \ {id} : sites'[i] = sites[i]
      BY <2>2
    <3>2. sites'[id] \in Registry!Row /\ sites'[id].token = drawn'
      BY <1>2, <2>2, <3>1 DEF RegistryInv, Registry!TypeOK, Registry!Row
    <3> QED BY <3>1, <3>2 DEF RegistryInv, Registry!TypeOK, RowsAreTyped, InRow
  <2> QED BY <2>1, <2>2 DEF Registry!RegenerateWrite
<1>5. Registry!TypeOK'
  BY TurnsOrNot, <1>1, <1>2, <1>3, <1>4, EndingARequest DEF RegistryInv, Registry!TypeOK, RowsAreTyped
<1>6. \A i \in SiteIds, t \in Registry!Token : Holds(i, t)' => Holds(i, t) \/ (i = id /\ t = drawn')
  BY <1>3, <1>4, EndingARequest DEF Holds
<1> QED BY <1>1, <1>2, <1>5, <1>6, OwnersStay DEF RegistryInv

LEMMA FailingKeeps ==
  ASSUME Registry!SitesAssumption, RegistryInv, NEW a \in Admins, Registry!CreateFails(a)
  PROVE  RegistryInv'
<1>1. call' = [call EXCEPT ![a] = Registry!Idle] /\ UNCHANGED <<sites, drawn, over, shown>>
  BY DEF Registry!CreateFails
<1>2. Registry!TypeOK'
  BY TurnsOrNot, <1>1, EndingARequest DEF RegistryInv, Registry!TypeOK
<1>3. \A i \in SiteIds, t \in Registry!Token : Holds(i, t)' => Holds(i, t)
  BY <1>1, EndingARequest DEF Holds, InRow
<1> QED BY <1>1, <1>2, <1>3, OwnersStay DEF RegistryInv

LEMMA DeletingKeeps ==
  ASSUME Registry!SitesAssumption, RegistryInv, NEW a \in Admins, NEW id \in SiteIds, Registry!DeleteSite(a, id)
  PROVE  RegistryInv'
<1>1. over' \subseteq Registry!Token
  BY DEF Registry!DeleteSite, Registry!TokenOf, RegistryInv, Registry!TypeOK, Registry!Row
<1>2. /\ DOMAIN sites' = DOMAIN sites \ {id} /\ id # Default /\ UNCHANGED <<call, drawn, shown>>
      /\ \A i \in DOMAIN sites \ {id} : sites'[i] = sites[i]
  BY DEF Registry!DeleteSite
<1>3. Registry!TypeOK'
  BY TurnsOrNot, <1>1, <1>2 DEF RegistryInv, Registry!TypeOK
<1>4. \A i \in SiteIds, t \in Registry!Token : Holds(i, t)' => Holds(i, t)
  BY <1>2 DEF Holds, InRow, InRequest
<1> QED BY <1>2, <1>3, <1>4, OwnersStay DEF RegistryInv

LEMMA RegistryKeeps == Registry!SitesAssumption /\ RegistryInv /\ [Registry!Next]_(Registry!vars) => RegistryInv'
<1> SUFFICES ASSUME Registry!SitesAssumption, RegistryInv, [Registry!Next]_(Registry!vars) PROVE RegistryInv'
  OBVIOUS
<1>1. CASE UNCHANGED Registry!vars
  BY <1>1 DEF Registry!vars, RegistryInv, Registry!TypeOK, OneOwner, DrawnBefore, Holds, InRow,
     InRequest
<1> QED BY <1>1, BeginningKeeps, CreatingKeeps, UpdatingKeeps, RegeneratingKeeps, FailingKeeps, DeletingKeeps DEF Registry!Next

LEMMA OneOwnerOpensOne == RegistryInv => Registry!TokenOpensOneSite
<1> SUFFICES ASSUME RegistryInv, NEW t \in Registry!Token PROVE Cardinality(Registry!AuthenticateSite(t)) <= 1
  BY DEF Registry!TokenOpensOneSite, Registry!Cardinality, Cardinality
<1>1. \A i, j \in Registry!AuthenticateSite(t) : i = j
  BY DEF Registry!AuthenticateSite, RegistryInv, Registry!TypeOK, OneOwner, Holds, InRow
<1>2. CASE Registry!AuthenticateSite(t) = {}
  <2>1. Cardinality({}) = 0
    BY FS_EmptySet
  <2> QED BY <1>2, <2>1
<1>3. ASSUME NEW i \in Registry!AuthenticateSite(t)
      PROVE  Cardinality(Registry!AuthenticateSite(t)) <= 1
  <2>1. Registry!AuthenticateSite(t) = {i}
    BY <1>1, <1>3
  <2>2. Cardinality({i}) = 1
    BY FS_Singleton
  <2> QED BY <2>1, <2>2
<1> QED BY <1>2, <1>3

(***************************************************************************)
(* CreateSite, UpdateSite, RegenerateSiteToken and DeleteSite: for any     *)
(* number of administrators, sites and tokens, whichever statements of     *)
(* their requests interleave, a token opens one site at most.              *)
(***************************************************************************)
THEOREM TokensOpenOneSite ==
  ASSUME Registry!SitesAssumption
  PROVE  Registry!Spec => [](Registry!TypeOK /\ Registry!TokenOpensOneSite)
<1>1. RegistryInv => Registry!TypeOK /\ Registry!TokenOpensOneSite
  BY OneOwnerOpensOne DEF RegistryInv
<1> QED BY RegistryBegins, RegistryKeeps, <1>1, PTL DEF Registry!Spec

-----------------------------------------------------------------------------
(* Requests about sites that come by turns.  One is served at a time, so   *)
(* what it has read is what the table says; a token that is over is in no  *)
(* row; and a token shown is in the row of its site until it is over.      *)
OneIsServed == \A a, b \in Admins : call[a] # Registry!Idle /\ call[b] # Registry!Idle => a = b

WhatWasReadHolds ==
  \A a \in Admins :
    /\ call[a].at = "update" => call[a].id \in DOMAIN sites /\ call[a].row = sites[call[a].id]
    /\ call[a].at = "regenerate" => call[a].id \in DOMAIN sites /\ sites[call[a].id].mode = "agent"

OverIsGone ==
  \A t \in over : t # Registry!NoToken /\ t <= drawn /\ \A id \in DOMAIN sites : sites[id].token # t

ShownIsInItsRow ==
  \A id \in SiteIds :
    shown[id] \notin over \cup {Registry!NoToken} =>
      id \in DOMAIN sites /\ sites[id].mode = "agent" /\ sites[id].token = shown[id]

TurnsInv ==
  ByTurns => OneIsServed /\ WhatWasReadHolds /\ Registry!CentralHasNoToken /\ OverIsGone /\ ShownIsInItsRow

LEMMA TurnsBegin == Registry!SitesAssumption /\ Registry!Init => TurnsInv
BY DEF Registry!SitesAssumption, Registry!Init, TurnsInv, OneIsServed, WhatWasReadHolds, OverIsGone, ShownIsInItsRow,
   Registry!CentralHasNoToken, Registry!Idle, Registry!NoToken

(* The request that was served ends, and nobody is served. *)
LEMMA NobodyIsServed ==
  ASSUME RegistryInv, OneIsServed, NEW a \in Admins, call[a] # Registry!Idle,
         call' = [call EXCEPT ![a] = Registry!Idle]
  PROVE  OneIsServed' /\ WhatWasReadHolds'
<1>1. \A b \in Admins : call'[b] = Registry!Idle
  BY DEF RegistryInv, Registry!TypeOK, OneIsServed
<1> QED BY <1>1 DEF OneIsServed, WhatWasReadHolds, Registry!Idle

LEMMA OneBegins ==
  ASSUME RegistryInv, ByTurns, TurnsInv, NEW a \in Admins, NEW id \in SiteIds,
         \/ \E mode \in Registry!Modes : Registry!CreateLook(a, id, mode)
         \/ \E mode \in Registry!Modes \cup {"same"} : Registry!UpdateRead(a, id, mode)
         \/ Registry!RegenerateRead(a, id)
  PROVE  TurnsInv'
<1>1. /\ UNCHANGED <<sites, drawn, over, shown>>
      /\ \A b \in Admins : call[b] = Registry!Idle
  BY DEF Registry!CreateLook, Registry!UpdateRead, Registry!RegenerateRead, Registry!Free
<1>2. \A b \in Admins \ {a} : call'[b] = Registry!Idle
  BY <1>1 DEF RegistryInv, Registry!TypeOK, Registry!CreateLook, Registry!UpdateRead, Registry!RegenerateRead
<1>3. /\ call'[a].at = "update" => call'[a].id \in DOMAIN sites /\ call'[a].row = sites[call'[a].id]
      /\ call'[a].at = "regenerate" => call'[a].id \in DOMAIN sites /\ sites[call'[a].id].mode = "agent"
  BY DEF RegistryInv, Registry!TypeOK, Registry!CreateLook, Registry!UpdateRead, Registry!RegenerateRead
<1>4. OneIsServed' /\ WhatWasReadHolds'
  BY <1>1, <1>2, <1>3 DEF OneIsServed, WhatWasReadHolds, Registry!Idle
<1>5. Registry!CentralHasNoToken' /\ OverIsGone' /\ ShownIsInItsRow'
  BY <1>1 DEF TurnsInv, Registry!CentralHasNoToken, OverIsGone, ShownIsInItsRow
<1> QED BY <1>4, <1>5 DEF TurnsInv

LEMMA OneCreates ==
  ASSUME Registry!SitesAssumption, RegistryInv, ByTurns, TurnsInv, NEW a \in Admins, Registry!CreateInsert(a)
  PROVE  TurnsInv'
<1> DEFINE id == call[a].id
<1>1. call[a] # Registry!Idle /\ id \notin DOMAIN sites /\ call' = [call EXCEPT ![a] = Registry!Idle] /\ over' = over
  BY DEF Registry!CreateInsert, Registry!Idle
<1>2. id \in SiteIds /\ drawn \in Nat
  BY TokenFacts DEF RegistryInv, Registry!TypeOK, Registry!CreateInsert, Registry!Calls, Registry!Idle
<1>3. OneIsServed' /\ WhatWasReadHolds'
  BY <1>1, NobodyIsServed DEF TurnsInv
<1>4. PICK row :
        /\ sites' = Registry!Put(id, row)
        /\ \/ row.mode = "central" /\ row.token = Registry!NoToken /\ UNCHANGED <<drawn, shown>>
           \/ /\ row.mode = "agent" /\ row.token = drawn + 1 /\ drawn' = drawn + 1
              /\ shown' = [shown EXCEPT ![id] = drawn + 1]
  BY DEF Registry!CreateInsert
<1>5. /\ DOMAIN sites' = DOMAIN sites \cup {id} /\ sites'[id] = row
      /\ \A i \in DOMAIN sites : sites'[i] = sites[i]
  BY <1>1, <1>4 DEF Registry!Put
<1>6. Registry!CentralHasNoToken'
  BY <1>4, <1>5 DEF TurnsInv, Registry!CentralHasNoToken
<1>7. OverIsGone'
  BY <1>1, <1>2, <1>4, <1>5 DEF TurnsInv, OverIsGone, RegistryInv, Registry!TypeOK, Registry!Token, Registry!NoToken
<1>8. ShownIsInItsRow'
  BY <1>1, <1>2, <1>4, <1>5 DEF TurnsInv, ShownIsInItsRow, RegistryInv, Registry!TypeOK
<1> QED BY <1>3, <1>6, <1>7, <1>8 DEF TurnsInv

LEMMA OneFails ==
  ASSUME RegistryInv, ByTurns, TurnsInv, NEW a \in Admins, Registry!CreateFails(a)
  PROVE  TurnsInv'
<1>1. call[a] # Registry!Idle /\ call' = [call EXCEPT ![a] = Registry!Idle] /\ UNCHANGED <<sites, drawn, over, shown>>
  BY DEF Registry!CreateFails, Registry!Idle
<1>2. OneIsServed' /\ WhatWasReadHolds'
  BY <1>1, NobodyIsServed DEF TurnsInv
<1>3. Registry!CentralHasNoToken' /\ OverIsGone' /\ ShownIsInItsRow'
  BY <1>1 DEF TurnsInv, Registry!CentralHasNoToken, OverIsGone, ShownIsInItsRow
<1> QED BY <1>2, <1>3 DEF TurnsInv

(* What is over by a request was the token of one site, and no other's. *)
LEMMA TokenIsOver ==
  ASSUME Registry!SitesAssumption, RegistryInv, TurnsInv, ByTurns, NEW id \in SiteIds, id \in DOMAIN sites,
         over' = over \cup Registry!TokenOf(id), drawn' \in {drawn, drawn + 1},
         DOMAIN sites' \subseteq DOMAIN sites,
         \A i \in DOMAIN sites' \ {id} : sites'[i] = sites[i],
         id \in DOMAIN sites' => sites'[id].token = Registry!NoToken \/ (sites'[id].token = drawn + 1)
  PROVE  OverIsGone'
<1>1. drawn \in Nat /\ DOMAIN sites \subseteq SiteIds /\ \A i \in DOMAIN sites : sites[i].token \in Registry!Token
  BY TokenFacts DEF RegistryInv, Registry!TypeOK, Registry!Row
<1>2. \A t \in over' : t # Registry!NoToken /\ t <= drawn /\ t \in Registry!Token
  BY <1>1 DEF Registry!TokenOf, TurnsInv, OverIsGone, RegistryInv, DrawnBefore, Holds, InRow, Registry!TypeOK
<1>3. ASSUME NEW t \in over', NEW i \in DOMAIN sites' PROVE sites'[i].token # t
  <2>1. CASE i = id
    BY <1>1, <1>2, <2>1, TokenFacts
  <2>2. CASE i # id /\ t \in over
    BY <2>2 DEF TurnsInv, OverIsGone
  <2>3. CASE i # id /\ t \in Registry!TokenOf(id)
    BY <1>1, <1>2, <2>3 DEF Registry!TokenOf, RegistryInv, OneOwner, Holds, InRow
  <2> QED BY <2>1, <2>2, <2>3
<1> QED BY <1>1, <1>2, <1>3, TokenFacts DEF OverIsGone

LEMMA OneUpdates ==
  ASSUME Registry!SitesAssumption, RegistryInv, ByTurns, TurnsInv, NEW a \in Admins, Registry!UpdateWrite(a)
  PROVE  TurnsInv'
<1> DEFINE id == call[a].id
           row == Registry!Changed(call[a])
<1>1. call[a] # Registry!Idle /\ call' = [call EXCEPT ![a] = Registry!Idle] /\ UNCHANGED <<drawn, shown>>
  BY DEF Registry!UpdateWrite, Registry!Idle
<1>2. id \in SiteIds /\ id \in DOMAIN sites /\ call[a].row = sites[id] /\ call[a].mode \in Registry!Modes \cup {"same"}
  <2>1. call[a] \in Registry!Calls /\ call[a].at = "update"
    BY DEF RegistryInv, Registry!TypeOK, Registry!UpdateWrite
  <2> QED BY <2>1 DEF TurnsInv, WhatWasReadHolds, Registry!Calls, Registry!Idle
<1>3. OneIsServed' /\ WhatWasReadHolds'
  BY <1>1, NobodyIsServed DEF TurnsInv
<1>4. /\ DOMAIN sites' = DOMAIN sites /\ sites'[id] = row
      /\ \A i \in DOMAIN sites \ {id} : sites'[i] = sites[i]
  BY <1>2 DEF Registry!UpdateWrite, Registry!Put
<1>5. CASE call[a].mode = "central"
  <2>1. row.mode = "central" /\ row.token = Registry!NoToken /\ over' = over \cup Registry!TokenOf(id)
    BY <1>5 DEF Registry!Changed, Registry!UpdateWrite
  <2>2. Registry!CentralHasNoToken'
    BY <1>4, <2>1 DEF TurnsInv, Registry!CentralHasNoToken
  <2>3. OverIsGone'
    BY <1>1, <1>2, <1>4, <2>1, TokenIsOver
  <2>4. ShownIsInItsRow'
    BY <1>1, <1>2, <1>4, <2>1 DEF TurnsInv, ShownIsInItsRow, Registry!TokenOf
  <2> QED BY <1>3, <2>2, <2>3, <2>4 DEF TurnsInv
<1>6. CASE call[a].mode # "central"
  <2>1. /\ row.token = sites[id].token /\ row.mode \in {sites[id].mode, "agent"} /\ over' = over
        /\ sites[id].mode \in Registry!Modes
    BY <1>2, <1>6 DEF Registry!Changed, Registry!UpdateWrite, Registry!Modes, RegistryInv, Registry!TypeOK, Registry!Row
  <2>2. Registry!CentralHasNoToken' /\ OverIsGone' /\ ShownIsInItsRow'
    BY <1>1, <1>2, <1>4, <2>1 DEF TurnsInv, Registry!CentralHasNoToken, OverIsGone, ShownIsInItsRow
  <2> QED BY <1>3, <2>2 DEF TurnsInv
<1> QED BY <1>5, <1>6

LEMMA OneRegenerates ==
  ASSUME Registry!SitesAssumption, RegistryInv, ByTurns, TurnsInv, NEW a \in Admins, Registry!RegenerateWrite(a)
  PROVE  TurnsInv'
<1> DEFINE id == call[a].id
<1>1. /\ call[a] # Registry!Idle /\ call' = [call EXCEPT ![a] = Registry!Idle] /\ drawn' = drawn + 1
      /\ over' = over \cup Registry!TokenOf(id) /\ shown' = [shown EXCEPT ![id] = drawn']
  BY DEF Registry!RegenerateWrite, Registry!Idle
<1>2. id \in SiteIds /\ id \in DOMAIN sites /\ sites[id].mode = "agent"
  <2>1. call[a] \in Registry!Calls /\ call[a].at = "regenerate"
    BY DEF RegistryInv, Registry!TypeOK, Registry!RegenerateWrite
  <2> QED BY <2>1 DEF TurnsInv, WhatWasReadHolds, Registry!Calls, Registry!Idle
<1>3. OneIsServed' /\ WhatWasReadHolds'
  BY <1>1, NobodyIsServed DEF TurnsInv
<1>4. sites' = [sites EXCEPT ![id].token = drawn'] /\ sites[id] \in Registry!Row
  BY <1>2 DEF Registry!RegenerateWrite, RegistryInv, Registry!TypeOK
<1>5. /\ DOMAIN sites' = DOMAIN sites /\ sites'[id].token = drawn + 1 /\ sites'[id].mode = "agent"
      /\ \A i \in DOMAIN sites \ {id} : sites'[i] = sites[i]
  BY <1>1, <1>2, <1>4 DEF Registry!Row
<1>6. Registry!CentralHasNoToken'
  BY <1>5 DEF TurnsInv, Registry!CentralHasNoToken
<1>7. OverIsGone'
  BY <1>1, <1>2, <1>5, TokenIsOver
<1>8. ShownIsInItsRow'
  BY <1>1, <1>2, <1>5 DEF TurnsInv, ShownIsInItsRow, RegistryInv, Registry!TypeOK
<1> QED BY <1>3, <1>6, <1>7, <1>8 DEF TurnsInv

LEMMA OneDeletes ==
  ASSUME Registry!SitesAssumption, RegistryInv, ByTurns, TurnsInv, NEW a \in Admins, NEW id \in SiteIds,
         Registry!DeleteSite(a, id)
  PROVE  TurnsInv'
<1>1. /\ \A b \in Admins : call[b] = Registry!Idle
      /\ id \in DOMAIN sites /\ over' = over \cup Registry!TokenOf(id) /\ UNCHANGED <<call, drawn, shown>>
  BY DEF Registry!DeleteSite, Registry!Free
<1>2. DOMAIN sites' = DOMAIN sites \ {id} /\ \A i \in DOMAIN sites \ {id} : sites'[i] = sites[i]
  BY DEF Registry!DeleteSite
<1>3. OneIsServed' /\ WhatWasReadHolds'
  BY <1>1 DEF OneIsServed, WhatWasReadHolds, Registry!Idle
<1>4. Registry!CentralHasNoToken'
  BY <1>2 DEF TurnsInv, Registry!CentralHasNoToken
<1>5. OverIsGone'
  BY <1>1, <1>2, TokenIsOver
<1>6. ShownIsInItsRow'
  BY <1>1, <1>2 DEF TurnsInv, ShownIsInItsRow, Registry!TokenOf
<1> QED BY <1>3, <1>4, <1>5, <1>6 DEF TurnsInv

LEMMA TurnsStay ==
  Registry!SitesAssumption /\ RegistryInv /\ TurnsInv /\ [Registry!Next]_(Registry!vars) /\ UNCHANGED ByTurns => TurnsInv'
<1> SUFFICES ASSUME Registry!SitesAssumption, RegistryInv, TurnsInv, [Registry!Next]_(Registry!vars), UNCHANGED ByTurns
             PROVE  TurnsInv'
  OBVIOUS
<1>1. CASE UNCHANGED Registry!vars
  BY <1>1 DEF Registry!vars, TurnsInv, OneIsServed, WhatWasReadHolds, OverIsGone, ShownIsInItsRow,
     Registry!CentralHasNoToken
<1>2. CASE ~ByTurns
  BY <1>2 DEF TurnsInv
<1>3. CASE ByTurns /\ Registry!Next
  BY <1>3, OneBegins, OneCreates, OneFails, OneUpdates, OneRegenerates, OneDeletes DEF Registry!Next
<1> QED BY <1>1, <1>2, <1>3

LEMMA TurnsSay ==
  RegistryInv /\ TurnsInv /\ ByTurns =>
    Registry!EndedTokenIsDead /\ Registry!ShownTokenWorks /\ Registry!CentralHasNoToken
<1> SUFFICES ASSUME RegistryInv, TurnsInv, ByTurns
             PROVE  Registry!EndedTokenIsDead /\ Registry!ShownTokenWorks /\ Registry!CentralHasNoToken
  OBVIOUS
<1>1. Registry!EndedTokenIsDead
  BY DEF Registry!EndedTokenIsDead, Registry!AuthenticateSite, TurnsInv, OverIsGone
<1>2. ASSUME NEW id \in SiteIds, shown[id] \notin over \cup {Registry!NoToken}
      PROVE  Registry!AuthenticateSite(shown[id]) = {id}
  <2>1. id \in DOMAIN sites /\ sites[id].mode = "agent" /\ sites[id].token = shown[id] /\ shown[id] # Registry!NoToken
    BY <1>2 DEF TurnsInv, ShownIsInItsRow
  <2>2. shown[id] \in Registry!Token /\ DOMAIN sites \subseteq SiteIds
    BY DEF RegistryInv, Registry!TypeOK
  <2>3. \A i \in DOMAIN sites : sites[i].token = shown[id] => i = id
    BY <2>1, <2>2 DEF RegistryInv, OneOwner, Holds, InRow
  <2> QED BY <2>1, <2>3 DEF Registry!AuthenticateSite
<1> QED BY <1>1, <1>2 DEF Registry!ShownTokenWorks, TurnsInv

(* Only the end of a creation adds a row. *)
LEMMA RowsAreCreated ==
  ASSUME RegistryInv, [Registry!Next]_(Registry!vars), NEW id \in DOMAIN sites' \ DOMAIN sites
  PROVE  \E a \in Admins : call[a].at = "create" /\ call[a].id = id /\ call'[a] = Registry!Idle
<1>1. Registry!Next
  BY DEF Registry!vars
<1>2. PICK a \in Admins :
        \/ Registry!CreateInsert(a) \/ Registry!UpdateWrite(a) \/ Registry!RegenerateWrite(a)
        \/ \E i \in SiteIds : Registry!DeleteSite(a, i)
        \/ UNCHANGED sites
  BY <1>1 DEF Registry!Next, Registry!CreateLook, Registry!CreateFails, Registry!UpdateRead, Registry!RegenerateRead
<1>3. CASE Registry!CreateInsert(a)
  <2>1. id = call[a].id
    BY <1>3 DEF Registry!CreateInsert, Registry!Put
  <2> QED BY <1>3, <2>1 DEF Registry!CreateInsert, RegistryInv, Registry!TypeOK
<1>4. ASSUME ~Registry!CreateInsert(a) PROVE FALSE
  BY <1>2, <1>4 DEF Registry!UpdateWrite, Registry!RegenerateWrite, Registry!DeleteSite, Registry!Put
<1> QED BY <1>3, <1>4

-----------------------------------------------------------------------------
(* Accounts.                                                                *)
(* What is counted, as a question of who is there: the names are finitely   *)
(* many.  By turns, a request that may write would leave an administrator:  *)
(* its target is none, another one was counted, or it takes nothing away.   *)
SomeUser == \E n \in Names : UserTable!Exists(n)
SomeAdmin == \E n \in Names : UserTable!ActiveAdmin(n)

TakesNothing(q) ==
  \/ q.kind \in {"register", "create"}
  \/ q.kind = "role" /\ q.role = "admin"
  \/ q.kind = "disable" /\ ~q.disabled

Leaves(q) ==
  \/ TakesNothing(q)
  \/ ~UserTable!ActiveAdmin(q.target)
  \/ \E n \in Names \ {q.target} : UserTable!ActiveAdmin(n)

(* A request that is served, by turns: who was there when it came still is. *)
Served(q) ==
  /\ IF q.kind = "register" THEN ~SomeUser /\ q.role = "admin" /\ q.step = "write" ELSE SomeAdmin
  /\ q.step = "write" => Leaves(q)

ServedAlone ==
  \A q, r \in Requests : request[q] # UserTable!Free /\ request[r] # UserTable!Free => q = r

AllServed == \A r \in Requests : request[r] # UserTable!Free => Served(request[r])

UsersInv ==
  /\ UserTable!TypeOK
  /\ ByTurns =>
       /\ ServedAlone
       /\ AllServed
       /\ SomeUser => SomeAdmin
       /\ registered > 0 => SomeUser
       /\ registered <= 1

LEMMA UsersCount ==
  ASSUME UserTable!AccountsAssumption
  PROVE  /\ UserTable!UserCount \in Nat /\ (UserTable!UserCount > 0 <=> SomeUser)
         /\ UserTable!AdminCount \in Nat /\ (UserTable!AdminCount > 0 <=> SomeAdmin)
         /\ \A t : UserTable!AdminCount > 1 => \E n \in Names \ {t} : UserTable!ActiveAdmin(n)
<1> DEFINE Active == {n \in Names : UserTable!ActiveAdmin(n)}
           Known == {n \in Names : UserTable!Exists(n)}
<1>1. IsFiniteSet(Names)
  BY DEF UserTable!AccountsAssumption, UserTable!IsFiniteSet, IsFiniteSet
<1>2. IsFiniteSet(Active) /\ IsFiniteSet(Known)
  BY <1>1, FS_Subset
<1>3. UserTable!AdminCount = Cardinality(Active) /\ UserTable!UserCount = Cardinality(Known)
  BY DEF UserTable!AdminCount, UserTable!UserCount, UserTable!Cardinality, Cardinality
<1> HIDE DEF Active, Known
<1>4. Cardinality(Active) \in Nat /\ Cardinality(Known) \in Nat
  BY <1>2, FS_CardinalityType
<1>5. (Cardinality(Active) = 0 <=> Active = {}) /\ (Cardinality(Known) = 0 <=> Known = {})
  BY <1>2, FS_EmptySet
<1>6. (Active = {} <=> ~SomeAdmin) /\ (Known = {} <=> ~SomeUser)
  BY DEF Active, Known, SomeAdmin, SomeUser
<1>7. ASSUME NEW t, Cardinality(Active) > 1 PROVE \E n \in Names \ {t} : UserTable!ActiveAdmin(n)
  <2>1. CASE Active \subseteq {t}
    <3>1. IsFiniteSet({t}) /\ Cardinality({t}) = 1
      BY FS_Singleton
    <3>2. Cardinality(Active) <= Cardinality({t})
      BY <2>1, <3>1, FS_Subset
    <3> QED BY <1>4, <1>7, <3>1, <3>2
  <2>2. CASE ~(Active \subseteq {t})
    BY <2>2 DEF Active
  <2> QED BY <2>1, <2>2
<1> QED BY <1>3, <1>4, <1>5, <1>6, <1>7

LEMMA UsersFirst == UserTable!AccountsAssumption /\ UserTable!Init => UsersInv
BY TurnsOrNot DEF UserTable!AccountsAssumption, UserTable!Init, UsersInv, UserTable!TypeOK, ServedAlone, AllServed, SomeUser, SomeAdmin,
   UserTable!Exists, UserTable!Free

(* Who is there depends on the table only. *)
LEMMA TableStays ==
  ASSUME users' = users
  PROVE  /\ SomeUser' <=> SomeUser
         /\ SomeAdmin' <=> SomeAdmin
         /\ \A n : UserTable!ActiveAdmin(n)' <=> UserTable!ActiveAdmin(n)
         /\ \A q : Leaves(q)' <=> Leaves(q)
BY DEF SomeUser, SomeAdmin, Leaves, TakesNothing, UserTable!ActiveAdmin, UserTable!Exists

(* A request that comes, with what is asked of it. *)
LEMMA Arriving ==
  ASSUME UserTable!AccountsAssumption, UsersInv, NEW r \in Requests, NEW c \in UserTable!Calls,
         UserTable!Arrives(r), UNCHANGED <<users, registered, ByTurns>>,
         request' = [request EXCEPT ![r] = c], Served(c)
  PROVE  UsersInv'
<1>1. request' \in [Requests -> UserTable!Calls \cup {UserTable!Free}] /\ request'[r] = c
  BY DEF UsersInv, UserTable!TypeOK
<1>2. UserTable!TypeOK'
  BY <1>1, TurnsOrNot DEF UsersInv, UserTable!TypeOK, UserTable!Arrives, UserTable!AccountsAssumption
<1>3. ASSUME ByTurns
      PROVE  \A q \in Requests \ {r} : request'[q] = UserTable!Free
  BY <1>3 DEF UsersInv, UserTable!TypeOK, UserTable!Arrives, UserTable!Calls, UserTable!Free
<1>4. ASSUME ByTurns
      PROVE  ServedAlone' /\ AllServed'
  <2>1. ServedAlone'
    BY <1>1, <1>3, <1>4 DEF ServedAlone
  <2>2. Served(c)'
    BY TableStays DEF Served
  <2> QED BY <1>1, <1>3, <1>4, <2>1, <2>2 DEF AllServed
<1>5. ByTurns => (SomeUser => SomeAdmin)' /\ (registered > 0 => SomeUser)' /\ (registered <= 1)'
  BY TableStays DEF UsersInv
<1> QED BY <1>2, <1>4, <1>5 DEF UsersInv

LEMMA RequestsBegin ==
  ASSUME UsersInv, UserTable!AccountsAssumption, NEW r \in Requests, UserTable!Begin(r), UNCHANGED ByTurns
  PROVE  UsersInv'
<1>1. PICK kind \in UserTable!Kinds \ {"register"}, by \in Names, target \in Names, role \in UserTable!Roles, disabled \in BOOLEAN :
        /\ UserTable!ActiveAdmin(by)
        /\ kind # "disable" => ~disabled
        /\ request' = [request EXCEPT ![r] = UserTable!Asked(kind, target, role, disabled)]
  BY DEF UserTable!Begin
<1> DEFINE c == UserTable!Asked(kind, target, role, disabled)
<1>2. c \in UserTable!Calls
  BY DEF UserTable!Calls, UserTable!Asked
<1>3. SomeAdmin
  BY <1>1 DEF SomeAdmin
<1>4. c.step = "write" => TakesNothing(c)
  BY <1>1 DEF TakesNothing, UserTable!Kinds, UserTable!Asked
<1>5. Served(c)
  BY <1>3, <1>4 DEF Served, Leaves, UserTable!Asked
<1>6. UserTable!Arrives(r) /\ UNCHANGED <<users, registered>>
  BY DEF UserTable!Begin
<1> QED BY <1>1, <1>2, <1>5, <1>6, Arriving

LEMMA FirstRegisters ==
  ASSUME UsersInv, UserTable!AccountsAssumption, NEW r \in Requests, UserTable!Register(r), UNCHANGED ByTurns
  PROVE  UsersInv'
<1>1. PICK n \in Names : request' = [request EXCEPT ![r] = UserTable!Asked("register", n, "admin", FALSE)]
  BY DEF UserTable!Register
<1> DEFINE c == UserTable!Asked("register", n, "admin", FALSE)
<1>2. c \in UserTable!Calls
  BY DEF UserTable!Calls, UserTable!Kinds, UserTable!Roles, UserTable!Asked
<1>3. ~SomeUser
  BY UsersCount DEF UserTable!Register
<1>4. Served(c)
  BY <1>3 DEF Served, Leaves, TakesNothing, UserTable!Asked
<1>5. UserTable!Arrives(r) /\ UNCHANGED <<users, registered>>
  BY DEF UserTable!Register
<1> QED BY <1>1, <1>2, <1>4, <1>5, Arriving

(* A request goes on, or is answered, and the table stays. *)
LEMMA GoingOnWithUsers ==
  ASSUME UsersInv, NEW r \in Requests, request[r] # UserTable!Free, UNCHANGED <<users, served, registered, ByTurns>>,
         \/ UserTable!Answer(r)
         \/ /\ UserTable!Goto(r, "count")
            /\ request[r].step # "write"
         \/ /\ UserTable!Goto(r, "write")
            /\ request[r].step # "write"
            /\ Leaves(request[r])
  PROVE  UsersInv'
<1>1. request[r] \in UserTable!Calls
  BY DEF UsersInv, UserTable!TypeOK
<1>2. PICK c \in UserTable!Calls \cup {UserTable!Free} :
        /\ request' = [request EXCEPT ![r] = c]
        /\ c # UserTable!Free =>
             /\ c.kind = request[r].kind /\ c.role = request[r].role /\ c.target = request[r].target
             /\ c.disabled = request[r].disabled /\ c.step \in {"count", "write"} /\ request[r].step # "write"
             /\ c.step = "write" => Leaves(request[r])
  <2>1. CASE UserTable!Answer(r)
    BY <2>1 DEF UserTable!Answer
  <2>2. ASSUME NEW step \in {"count", "write"}, UserTable!Goto(r, step), request[r].step # "write",
               step = "write" => Leaves(request[r])
        PROVE  \E c \in UserTable!Calls :
                 /\ request' = [request EXCEPT ![r] = c]
                 /\ c.kind = request[r].kind /\ c.role = request[r].role /\ c.target = request[r].target
                 /\ c.disabled = request[r].disabled /\ c.step = step
    <3> DEFINE c == [request[r] EXCEPT !.step = step]
    <3>1. c \in UserTable!Calls /\ c.step = step
      BY <1>1 DEF UserTable!Calls
    <3>2. c.kind = request[r].kind /\ c.role = request[r].role /\ c.target = request[r].target /\ c.disabled = request[r].disabled
      BY <1>1 DEF UserTable!Calls
    <3>3. request' = [request EXCEPT ![r] = c]
      BY <2>2 DEF UserTable!Goto
    <3> QED BY <3>1, <3>2, <3>3
  <2> QED BY <2>1, <2>2
<1>3. request' \in [Requests -> UserTable!Calls \cup {UserTable!Free}] /\ request'[r] = c
      /\ \A q \in Requests \ {r} : request'[q] = request[q]
  BY <1>2 DEF UsersInv, UserTable!TypeOK
<1>4. UserTable!TypeOK'
  BY <1>3, TurnsOrNot DEF UsersInv, UserTable!TypeOK
<1>5. ASSUME ByTurns, c # UserTable!Free PROVE Served(c)
  <2>1. Served(request[r])
    BY <1>5 DEF UsersInv, AllServed
  <2>2. request[r].kind # "register"
    BY <1>2, <1>5, <2>1 DEF Served
  <2>3. Leaves(request[r]) => Leaves(c)
    BY <1>2, <1>5 DEF Leaves, TakesNothing
  <2> QED BY <1>2, <1>5, <2>1, <2>2, <2>3 DEF Served
<1>6. ASSUME ByTurns
      PROVE  ServedAlone' /\ AllServed'
  <2>1. ServedAlone'
    BY <1>3, <1>6 DEF UsersInv, ServedAlone
  <2>2. ASSUME NEW q \in Requests, request'[q] # UserTable!Free PROVE Served(request'[q])
    BY <1>3, <1>5, <1>6, <2>2 DEF UsersInv, AllServed
  <2>3. \A q : Served(q)' <=> Served(q)
    BY TableStays DEF Served
  <2> QED BY <2>1, <2>2, <2>3 DEF AllServed
<1>7. ByTurns => (SomeUser => SomeAdmin)' /\ (registered > 0 => SomeUser)' /\ (registered <= 1)'
  BY TableStays DEF UsersInv
<1> QED BY <1>4, <1>6, <1>7 DEF UsersInv

LEMMA LookingKeeps ==
  ASSUME UsersInv, UserTable!AccountsAssumption, NEW r \in Requests, UNCHANGED ByTurns,
         UserTable!FindName(r) \/ UserTable!FindTarget(r) \/ UserTable!CountAdmins(r)
  PROVE  UsersInv'
<1>1. request[r].step # "write" /\ request[r].step # "free"
  BY DEF UserTable!FindName, UserTable!FindTarget, UserTable!CountAdmins
<1>2. request[r] # UserTable!Free /\ UNCHANGED <<users, served, registered>>
  BY <1>1 DEF UserTable!FindName, UserTable!FindTarget, UserTable!CountAdmins, UserTable!Free
<1>3. CASE UserTable!FindName(r)
  BY <1>1, <1>2, <1>3, GoingOnWithUsers DEF UserTable!FindName, UserTable!ActiveAdmin, Leaves
<1>4. CASE UserTable!FindTarget(r)
  BY <1>1, <1>2, <1>4, GoingOnWithUsers DEF UserTable!FindTarget, Leaves
<1>5. CASE UserTable!CountAdmins(r)
  BY <1>1, <1>2, <1>5, UsersCount, GoingOnWithUsers DEF UserTable!CountAdmins, Leaves
<1> QED BY <1>3, <1>4, <1>5

(* What a statement does to the row it names, and that it does no more. *)
LEMMA StatementsWriteARow ==
  ASSUME UsersInv, NEW q \in UserTable!Calls, users' = UserTable!Written(q)
  PROVE  /\ users' \in [Names -> UserTable!Row \cup {UserTable!Absent}]
         /\ \A n \in Names \ {q.target} : users'[n] = users[n]
         /\ q.kind \in {"register", "create"} /\ ~UserTable!Exists(q.target) =>
              users'[q.target] = [role |-> q.role, disabled |-> FALSE]
         /\ q.kind \in {"register", "create"} /\ UserTable!Exists(q.target) => users' = users
         /\ UserTable!ActiveAdmin(q.target) /\ TakesNothing(q) => UserTable!ActiveAdmin(q.target)'
<1> DEFINE t == q.target
<1>1. /\ users \in [Names -> UserTable!Row \cup {UserTable!Absent}] /\ t \in Names
      /\ q.role \in UserTable!Roles /\ q.disabled \in BOOLEAN /\ q.kind \in UserTable!Kinds
  BY DEF UsersInv, UserTable!TypeOK, UserTable!Calls
<1>2. UserTable!Exists(t) => users[t] \in UserTable!Row
  BY <1>1 DEF UserTable!Exists
<1>3. CASE q.kind \in {"register", "create"}
  <2>1. users' = UserTable!Inserted(q)
    BY <1>3 DEF UserTable!Written
  <2>2. [role |-> q.role, disabled |-> FALSE] \in UserTable!Row
    BY <1>1 DEF UserTable!Row
  <2>3. CASE UserTable!Exists(t)
    BY <1>1, <1>3, <2>1, <2>3 DEF UserTable!Inserted, UserTable!ActiveAdmin, UserTable!Exists
  <2>4. CASE ~UserTable!Exists(t)
    <3>1. users' = [users EXCEPT ![t] = [role |-> q.role, disabled |-> FALSE]]
      BY <2>1, <2>4 DEF UserTable!Inserted
    <3> QED BY <1>1, <2>2, <2>4, <3>1 DEF UserTable!ActiveAdmin
  <2> QED BY <2>3, <2>4
<1>4. CASE q.kind = "delete"
  <2>1. users' = [users EXCEPT ![t] = UserTable!Absent]
    BY <1>4 DEF UserTable!Written
  <2> QED BY <1>1, <1>4, <2>1 DEF TakesNothing
<1>5. CASE q.kind = "role"
  <2>1. CASE UserTable!Exists(t)
    <3>1. users' = [users EXCEPT ![t].role = q.role]
      BY <1>5, <2>1 DEF UserTable!Written
    <3>2. users'[t] = [role |-> q.role, disabled |-> users[t].disabled]
      BY <1>1, <1>2, <2>1, <3>1 DEF UserTable!Row
    <3>3. users'[t] \in UserTable!Row
      BY <1>1, <1>2, <2>1, <3>2 DEF UserTable!Row
    <3>4. TakesNothing(q) => q.role = "admin"
      BY <1>5 DEF TakesNothing
    <3>5. users'[t] # UserTable!Absent
      BY <1>1, <3>2 DEF UserTable!Absent, UserTable!Roles
    <3> QED BY <1>1, <1>5, <3>1, <3>2, <3>3, <3>4, <3>5 DEF UserTable!ActiveAdmin, UserTable!Exists
  <2>2. CASE ~UserTable!Exists(t)
    <3>1. users' = users
      BY <1>5, <2>2 DEF UserTable!Written
    <3> QED BY <1>1, <1>5, <2>2, <3>1 DEF UserTable!ActiveAdmin
  <2> QED BY <2>1, <2>2
<1>6. CASE q.kind = "disable"
  <2>1. CASE UserTable!Exists(t)
    <3>1. users' = [users EXCEPT ![t].disabled = q.disabled]
      BY <1>6, <2>1 DEF UserTable!Written
    <3>2. users'[t] = [role |-> users[t].role, disabled |-> q.disabled]
      BY <1>1, <1>2, <2>1, <3>1 DEF UserTable!Row
    <3>3. users'[t] \in UserTable!Row
      BY <1>1, <1>2, <2>1, <3>2 DEF UserTable!Row
    <3>4. TakesNothing(q) => ~q.disabled
      BY <1>6 DEF TakesNothing
    <3>5. users'[t] # UserTable!Absent
      BY <1>1, <1>2, <2>1, <3>2 DEF UserTable!Absent, UserTable!Roles, UserTable!Row
    <3> QED BY <1>1, <1>6, <3>1, <3>2, <3>3, <3>4, <3>5 DEF UserTable!ActiveAdmin, UserTable!Exists
  <2>2. CASE ~UserTable!Exists(t)
    <3>1. users' = users
      BY <1>6, <2>2 DEF UserTable!Written
    <3> QED BY <1>1, <1>6, <2>2, <3>1 DEF UserTable!ActiveAdmin
  <2> QED BY <2>1, <2>2
<1> QED BY <1>1, <1>3, <1>4, <1>5, <1>6 DEF UserTable!Kinds

LEMMA AnAdminIsLeft ==
  ASSUME UsersInv, NEW q \in UserTable!Calls, users' = UserTable!Written(q), SomeAdmin, Leaves(q)
  PROVE  SomeAdmin'
<1>1. PICK m \in Names : UserTable!ActiveAdmin(m) /\ (m # q.target \/ TakesNothing(q))
  BY DEF SomeAdmin, Leaves
<1>2. CASE m # q.target
  <2>1. users'[m] = users[m]
    BY <1>2, StatementsWriteARow
  <2> QED BY <1>1, <2>1 DEF SomeAdmin, UserTable!ActiveAdmin, UserTable!Exists
<1>3. CASE m = q.target
  <2>1. UserTable!ActiveAdmin(m)'
    BY <1>1, <1>3, StatementsWriteARow
  <2> QED BY <2>1 DEF SomeAdmin
<1> QED BY <1>2, <1>3

LEMMA WritingUsers ==
  ASSUME UsersInv, NEW r \in Requests, UserTable!Write(r), UNCHANGED ByTurns
  PROVE  UsersInv'
<1> DEFINE q == request[r]
<1>1. /\ q.step = "write" /\ q # UserTable!Free /\ users' = UserTable!Written(q) /\ served' = served
      /\ request' = [request EXCEPT ![r] = UserTable!Free]
      /\ registered' = registered + (IF q.kind = "register" /\ users' # users THEN 1 ELSE 0)
  BY DEF UserTable!Write, UserTable!Answer, UserTable!Free
<1>2. q \in UserTable!Calls
  BY <1>1 DEF UsersInv, UserTable!TypeOK
<1>3. UserTable!TypeOK'
  <2>1. users' \in [Names -> UserTable!Row \cup {UserTable!Absent}]
    BY <1>1, <1>2, StatementsWriteARow
  <2>2. registered' \in Nat /\ request' \in [Requests -> UserTable!Calls \cup {UserTable!Free}]
    BY <1>1 DEF UsersInv, UserTable!TypeOK
  <2> QED BY <1>1, <2>1, <2>2, TurnsOrNot DEF UsersInv, UserTable!TypeOK
<1>4. ASSUME ByTurns PROVE \A s \in Requests : request'[s] = UserTable!Free
  BY <1>1, <1>4 DEF UsersInv, UserTable!TypeOK, ServedAlone
<1>5. SomeAdmin' => SomeUser'
  BY DEF SomeAdmin, SomeUser, UserTable!ActiveAdmin
<1>6. ASSUME ByTurns, q.kind # "register"
      PROVE  SomeAdmin' /\ registered' = registered
  <2>1. SomeAdmin /\ Leaves(q)
    BY <1>1, <1>6 DEF UsersInv, AllServed, Served
  <2>2. registered \in Nat
    BY DEF UsersInv, UserTable!TypeOK
  <2> QED BY <1>1, <1>2, <1>6, <2>1, <2>2, AnAdminIsLeft
<1>7. ASSUME ByTurns, q.kind = "register"
      PROVE  SomeAdmin' /\ registered' <= 1
  <2>1. ~SomeUser /\ q.role = "admin"
    BY <1>1, <1>7 DEF UsersInv, AllServed, Served
  <2>2. registered = 0
    BY <1>7, <2>1 DEF UsersInv, UserTable!TypeOK
  <2>3. PICK t \in Names : t = q.target
    BY <1>2 DEF UserTable!Calls
  <2>4. ~UserTable!Exists(t)
    BY <2>1, <2>3 DEF SomeUser
  <2>5. users'[t] = [role |-> "admin", disabled |-> FALSE]
    BY <1>1, <1>2, <1>7, <2>1, <2>3, <2>4, StatementsWriteARow
  <2>6. UserTable!ActiveAdmin(t)'
    BY <2>5 DEF UserTable!ActiveAdmin, UserTable!Exists, UserTable!Absent
  <2>7. SomeAdmin'
    BY <2>6 DEF SomeAdmin
  <2>8. registered' <= 1
    BY <1>1, <2>2
  <2> QED BY <2>7, <2>8
<1>8. ASSUME ByTurns
      PROVE  /\ ServedAlone' /\ AllServed'
             /\ (SomeUser => SomeAdmin)' /\ (registered > 0 => SomeUser)' /\ (registered <= 1)'
  <2>1. ServedAlone' /\ AllServed'
    BY <1>4, <1>8 DEF ServedAlone, AllServed
  <2>2. SomeAdmin' /\ SomeUser' /\ registered' <= 1
    BY <1>5, <1>6, <1>7, <1>8 DEF UsersInv
  <2> QED BY <2>1, <2>2
<1> QED BY <1>3, <1>8 DEF UsersInv

LEMMA UsersStay ==
  UserTable!AccountsAssumption /\ UsersInv /\ [UserTable!Next]_(UserTable!vars) /\ UNCHANGED ByTurns => UsersInv'
<1> SUFFICES ASSUME UserTable!AccountsAssumption, UsersInv, [UserTable!Next]_(UserTable!vars), UNCHANGED ByTurns
             PROVE  UsersInv'
  OBVIOUS
<1>1. CASE UNCHANGED UserTable!vars
  <2>1. UNCHANGED <<users, request, served, registered>>
    BY <1>1 DEF UserTable!vars
  <2>2. UserTable!TypeOK'
    BY <2>1, TurnsOrNot DEF UsersInv, UserTable!TypeOK
  <2>3. ServedAlone' <=> ServedAlone
    BY <2>1 DEF ServedAlone
  <2>4. \A q : Served(q)' <=> Served(q)
    BY <2>1, TableStays DEF Served
  <2>5. AllServed' <=> AllServed
    BY <2>1, <2>4 DEF AllServed
  <2> QED BY <2>1, <2>2, <2>3, <2>5, TableStays DEF UsersInv
<1> QED BY <1>1, RequestsBegin, FirstRegisters, LookingKeeps, WritingUsers DEF UserTable!Next

LEMMA UsersSay ==
  UserTable!AccountsAssumption /\ UsersInv =>
    UserTable!TypeOK /\ (ByTurns => UserTable!AdminLeft /\ UserTable!OneFirstAdmin)
BY UsersCount DEF UsersInv, UserTable!AdminLeft, UserTable!OneFirstAdmin

-----------------------------------------------------------------------------
(* MCOperations.  The tables of sites and users change by their own steps  *)
(* only, and whether requests come by turns is settled in the beginning.   *)
TablesInv == RegistryInv /\ TurnsInv /\ UsersInv

LEMMA TablesFirst == OperationsInit => TablesInv
<1>1. OperationsInit => Registry!Init /\ UserTable!Init
  BY Zenon DEF OperationsInit
<1>2. Registry!SitesAssumption /\ UserTable!AccountsAssumption
  BY OperationsAreRight, Zenon
<1> QED BY <1>1, <1>2, RegistryBegins, TurnsBegin, UsersFirst DEF TablesInv

LEMMA TablesStep ==
  ASSUME [OperationsNext]_operationsVars
  PROVE  UNCHANGED ByTurns /\ [Registry!Next]_(Registry!vars) /\ [UserTable!Next]_(UserTable!vars)
<1>1. \/ UNCHANGED <<area, siteVars, accountVars>>
      \/ UNCHANGED <<area, accountVars>> /\ Registry!Next
      \/ UNCHANGED <<area, siteVars>> /\ UserTable!Next
  <2>1. CASE Monitor
    <3>1. UNCHANGED <<area, workVars, tableVars>>
      BY <2>1, Zenon DEF Monitor
    <3> QED BY <3>1 DEF tableVars
  <2>2. CASE Work
    <3>1. UNCHANGED <<area, vars, tableVars>>
      BY <2>2, Zenon DEF Work
    <3> QED BY <3>1 DEF tableVars
  <2>3. CASE Tables
    <3>1. /\ UNCHANGED <<area, vars, workVars>>
          /\ (Registry!Next /\ UNCHANGED accountVars) \/ (UserTable!Next /\ UNCHANGED siteVars)
      BY <2>3, Zenon DEF Tables
    <3> QED BY <3>1
  <2>4. CASE UNCHANGED operationsVars
    BY <2>4 DEF operationsVars, tableVars
  <2> QED BY <2>1, <2>2, <2>3, <2>4 DEF OperationsNext
<1>2. UNCHANGED ByTurns
  BY <1>1, Zenon DEF ByTurns
<1>3. UNCHANGED siteVars => UNCHANGED Registry!vars
  BY <1>2 DEF siteVars, Registry!vars
<1>4. UNCHANGED accountVars => UNCHANGED UserTable!vars
  BY <1>2 DEF accountVars, UserTable!vars
<1> QED BY <1>1, <1>2, <1>3, <1>4

LEMMA TablesStay == TablesInv /\ [OperationsNext]_operationsVars => TablesInv'
<1>1. Registry!SitesAssumption /\ UserTable!AccountsAssumption
  BY OperationsAreRight, Zenon
<1> QED BY <1>1, TablesStep, RegistryKeeps, TurnsStay, UsersStay DEF TablesInv

(***************************************************************************)
(* The run operations, for any sites, users, administrators, tokens and    *)
(* requests: a token opens one site at most, and only a creation brings a  *)
(* site; by turns, what was ended opens nothing, what was shown last       *)
(* works, a central site keeps no token, an active administrator is left   *)
(* and the first one is registered once.                                   *)
(***************************************************************************)
THEOREM TablesAreRight == OperationsSpec => TablesAreTrue
<1>1. TablesInv => Registry!TypeOK /\ Registry!TokenOpensOneSite /\ UserTable!TypeOK
  BY OneOwnerOpensOne DEF TablesInv, RegistryInv, UsersInv
<1>2. TablesInv /\ ByTurns => Registry!EndedTokenIsDead /\ Registry!ShownTokenWorks /\ Registry!CentralHasNoToken
  BY TurnsSay DEF TablesInv
<1>3. TablesInv /\ ByTurns => UserTable!AdminLeft /\ UserTable!OneFirstAdmin
  <2>1. UserTable!AccountsAssumption
    BY OperationsAreRight, Zenon
  <2> QED BY <2>1, UsersSay DEF TablesInv
<1>4. TablesInv /\ [OperationsNext]_operationsVars =>
        [\A id \in DOMAIN sites' \ DOMAIN sites :
           \E a \in Admins : call[a].at = "create" /\ call[a].id = id /\ call'[a] = Registry!Idle]_(Registry!vars)
  BY TablesStep, RowsAreCreated DEF TablesInv
<1> QED BY <1>1, <1>2, <1>3, <1>4, TablesFirst, TablesStay, PTL DEF OperationsSpec, TablesAreTrue, Registry!DeletedStaysDeleted

-----------------------------------------------------------------------------
(***************************************************************************)
(* Triage, for any clients, devices and selections.  A batch that ended,   *)
(* or that is still to be, has no devices, and the record is running only  *)
(* while a batch is.  By turns, who is being served finds no batch: the    *)
(* record is looked at when no other request is under way.                 *)
(***************************************************************************)
(* Batches are numbered as they start, and have devices only while live. *)
BatchesAreLive ==
  /\ live \subseteq 1..started
  /\ \A b \in Global!Batches \ live : waiting[b] = {} /\ visiting[b] = {}

(* One request at a time, and none beside a batch; the record is its own. *)
ServedAloneOrBusy ==
  /\ \A c, d \in Clients : triage[c] # "idle" /\ triage[d] # "idle" => c = d
  /\ \A c \in Clients : triage[c] # "idle" => live = {}
  /\ \A b, e \in live : b = e
  /\ \A b \in live : waiting[b] \cap visiting[b] = {}
  /\ Global!RecordTellsTheBatch

TriageInv ==
  /\ Global!TypeOK /\ Global!IdleAgain /\ BatchesAreLive
  /\ TriageByTurns => ServedAloneOrBusy

LEMMA StatusNames ==
  "idle" \in Global!NotRunning /\ "running" \notin Global!NotRunning
BY Zenon DEF Global!NotRunning

LEMMA TurnsOfTriage == TriageByTurns \in BOOLEAN /\ TriageByTurns' \in BOOLEAN
BY DEF TriageByTurns

LEMMA DevicesAreFinite ==
  ASSUME Global!TriageAssumption
  PROVE  IsFiniteSet(Devices) /\ \A S : Global!Cardinality(S) = Cardinality(S)
BY DEF Global!TriageAssumption, Global!IsFiniteSet, IsFiniteSet, Global!Cardinality, Cardinality

LEMMA SelectionsAreFinite ==
  ASSUME Global!TriageAssumption, NEW S \in SUBSET Devices
  PROVE  IsFiniteSet(S) /\ Cardinality(S) \in 0..Cardinality(Devices)
<1>1. IsFiniteSet(Devices)
  BY DevicesAreFinite
<1>2. IsFiniteSet(S) /\ Cardinality(S) <= Cardinality(Devices)
  BY <1>1, FS_Subset
<1>3. Cardinality(S) \in Nat /\ Cardinality(Devices) \in Nat
  BY <1>1, <1>2, FS_CardinalityType
<1> QED BY <1>2, <1>3

LEMMA TriageBegins == Global!TriageAssumption /\ Global!Init => TriageInv
<1> SUFFICES ASSUME Global!TriageAssumption, Global!Init
             PROVE  TriageInv
  OBVIOUS
<1> DEFINE zero == triageStatus.status
<1>1. /\ zero \in Global!NotRunning /\ triageStatus.progress = 0 /\ triageStatus.total = 0
      /\ triageStatus = [status |-> zero, total |-> 0, progress |-> 0]
  BY Zenon DEF Global!Init, Global!NotRunning
<1>2. /\ asked = [c \in Clients |-> {}] /\ triage = [c \in Clients |-> "idle"] /\ started = 0
      /\ waiting = [b \in Global!Batches |-> {}] /\ visiting = [b \in Global!Batches |-> {}] /\ live = {}
  BY Zenon DEF Global!Init
<1>3. Global!Cardinality(Devices) \in Nat
  BY DevicesAreFinite, FS_CardinalityType
<1> HIDE DEF zero
<1>4. Global!TypeOK
  BY <1>1, <1>2, <1>3, TurnsOfTriage DEF Global!TypeOK, Global!Batches, Global!TriageAssumption
<1>5. BatchesAreLive
  BY <1>2 DEF BatchesAreLive
<1>6. ServedAloneOrBusy
  BY <1>1, <1>2 DEF ServedAloneOrBusy, Global!RecordTellsTheBatch, zero
<1> QED BY <1>1, <1>4, <1>5, <1>6 DEF TriageInv, Global!IdleAgain, zero

LEMMA Checking ==
  ASSUME TriageInv, UNCHANGED TriageByTurns, NEW c \in Clients, Global!Check(c)
  PROVE  TriageInv'
<1>1. Global!TypeOK'
  BY TurnsOfTriage DEF TriageInv, Global!TypeOK, Global!Check
<1>2. Global!IdleAgain' /\ BatchesAreLive'
  BY DEF TriageInv, Global!IdleAgain, BatchesAreLive, Global!Check
<1>3. ASSUME TriageByTurns, ServedAloneOrBusy
      PROVE  ServedAloneOrBusy'
  <2>1. live = {}
    BY <1>3, StatusNames DEF ServedAloneOrBusy, Global!RecordTellsTheBatch, Global!Check
  <2>2. \A d \in Clients : triage[d] = "idle"
    BY <1>3 DEF Global!Check
  <2>3. Global!RecordTellsTheBatch'
    BY <1>3 DEF ServedAloneOrBusy, Global!RecordTellsTheBatch, Global!Check
  <2> QED BY <2>1, <2>2, <2>3, <1>3 DEF ServedAloneOrBusy, Global!Check, TriageInv, Global!TypeOK
<1> QED BY <1>1, <1>2, <1>3 DEF TriageInv

LEMMA Listing ==
  ASSUME Global!TriageAssumption, TriageInv, UNCHANGED TriageByTurns, NEW c \in Clients, Global!ListDevices(c)
  PROVE  TriageInv'
<1>1. Global!TypeOK'
  BY TurnsOfTriage DEF TriageInv, Global!TypeOK, Global!ListDevices, Global!TriageAssumption
<1>2. Global!IdleAgain' /\ BatchesAreLive'
  BY DEF TriageInv, Global!IdleAgain, BatchesAreLive, Global!ListDevices
<1>3. ASSUME ServedAloneOrBusy
      PROVE  ServedAloneOrBusy'
  <2>1. Global!RecordTellsTheBatch'
    BY <1>3 DEF ServedAloneOrBusy, Global!RecordTellsTheBatch, Global!ListDevices
  <2>2. \A d \in Clients : triage'[d] # "idle" => triage[d] # "idle"
    BY DEF TriageInv, Global!TypeOK, Global!ListDevices
  <2> QED BY <2>1, <2>2, <1>3 DEF ServedAloneOrBusy, Global!ListDevices
<1> QED BY <1>1, <1>2, <1>3 DEF TriageInv

LEMMA Starting ==
  ASSUME Global!TriageAssumption, TriageInv, UNCHANGED TriageByTurns, NEW c \in Clients, Global!Start(c)
  PROVE  TriageInv'
<1> DEFINE b == started + 1
<1>1. /\ b \in Global!Batches /\ b \notin live /\ waiting[b] = {} /\ visiting[b] = {} /\ started' = b
      /\ asked[c] \in SUBSET Devices
  BY DEF TriageInv, Global!TypeOK, BatchesAreLive, Global!Start, Global!Batches, Global!TriageAssumption
<1>2. Global!Cardinality(asked[c]) \in 0..Global!Cardinality(Devices)
  BY <1>1, SelectionsAreFinite, DevicesAreFinite
<1>3. Global!TypeOK'
  BY <1>1, <1>2, TurnsOfTriage DEF TriageInv, Global!TypeOK, Global!Start, Global!Batches,
     Global!TriageAssumption
<1>4. Global!IdleAgain' /\ BatchesAreLive'
  BY <1>1 DEF TriageInv, Global!TypeOK, Global!IdleAgain, BatchesAreLive, Global!Start, Global!TriageAssumption
<1>5. ASSUME TriageByTurns, ServedAloneOrBusy
      PROVE  ServedAloneOrBusy'
  <2>1. live = {} /\ live' = {b}
    BY <1>1, <1>5 DEF ServedAloneOrBusy, Global!Start
  <2>2. waiting'[b] = asked[c] /\ visiting'[b] = {}
    BY <1>1 DEF TriageInv, Global!TypeOK, Global!Start
  <2>3. triageStatus' = [status |-> "running", total |-> Global!Cardinality(asked[c]), progress |-> 0]
    BY DEF Global!Start
  <2>4. Global!RecordTellsTheBatch'
    <3>1. waiting'[b] \cup visiting'[b] = asked[c]
      BY <2>2
    <3>2. Global!Cardinality(asked[c]) \in Nat
      BY <1>1, SelectionsAreFinite, DevicesAreFinite, FS_CardinalityType
    <3>3. /\ triageStatus'.status = "running" /\ triageStatus'.progress = 0
          /\ triageStatus'.total = Global!Cardinality(waiting'[b] \cup visiting'[b])
          /\ triageStatus'.total \in Nat
      BY <2>3, <3>1, <3>2
    <3> QED BY <2>1, <3>3 DEF Global!RecordTellsTheBatch
  <2>5. \A d \in Clients : triage'[d] = "idle"
    BY <1>5 DEF ServedAloneOrBusy, TriageInv, Global!TypeOK, Global!Start
  <2> QED BY <2>1, <2>2, <2>4, <2>5 DEF ServedAloneOrBusy
<1> QED BY <1>3, <1>4, <1>5 DEF TriageInv

LEMMA VisitsBegin ==
  ASSUME TriageInv, UNCHANGED TriageByTurns, NEW b \in Global!Batches, Global!Visit(b)
  PROVE  TriageInv'
<1>1. PICK d \in waiting[b] : /\ waiting' = [waiting EXCEPT ![b] = @ \ {d}]
                              /\ visiting' = [visiting EXCEPT ![b] = @ \cup {d}]
  BY DEF Global!Visit
<1>2. Global!TypeOK'
  BY <1>1, TurnsOfTriage DEF TriageInv, Global!TypeOK, Global!Visit
<1>3. /\ waiting'[b] \cup visiting'[b] = waiting[b] \cup visiting[b]
      /\ waiting[b] \cap visiting[b] = {} => waiting'[b] \cap visiting'[b] = {}
      /\ \A e \in Global!Batches \ {b} : waiting'[e] = waiting[e] /\ visiting'[e] = visiting[e]
      /\ b \in live
  BY <1>1 DEF TriageInv, Global!TypeOK, BatchesAreLive
<1>4. Global!IdleAgain' /\ BatchesAreLive'
  BY <1>3 DEF TriageInv, Global!IdleAgain, BatchesAreLive, Global!Visit
<1>5. ASSUME ServedAloneOrBusy
      PROVE  ServedAloneOrBusy'
  <2>1. \A e \in live : waiting'[e] \cup visiting'[e] = waiting[e] \cup visiting[e]
    BY <1>3 DEF TriageInv, Global!TypeOK
  <2>2. Global!RecordTellsTheBatch'
    BY <1>5, <2>1 DEF ServedAloneOrBusy, Global!RecordTellsTheBatch, Global!Visit
  <2>3. \A e \in live : waiting'[e] \cap visiting'[e] = {}
    BY <1>3, <1>5 DEF ServedAloneOrBusy, TriageInv, Global!TypeOK
  <2> QED BY <2>2, <2>3, <1>5 DEF ServedAloneOrBusy, Global!Visit
<1> QED BY <1>2, <1>4, <1>5 DEF TriageInv

LEMMA VisitsEnd ==
  ASSUME Global!TriageAssumption, TriageInv, UNCHANGED TriageByTurns, NEW b \in Global!Batches, Global!Visited(b)
  PROVE  TriageInv'
<1>1. PICK d \in visiting[b] : visiting' = [visiting EXCEPT ![b] = @ \ {d}]
  BY DEF Global!Visited
<1>2. /\ triageStatus' = [triageStatus EXCEPT !.progress = @ + 1]
      /\ UNCHANGED <<asked, triage, started, waiting, live>>
  BY DEF Global!Visited
<1>3. Global!TypeOK'
  BY <1>1, <1>2, TurnsOfTriage DEF TriageInv, Global!TypeOK
<1>4. b \in live /\ \A e \in Global!Batches \ {b} : visiting'[e] = visiting[e]
  BY <1>1 DEF TriageInv, Global!TypeOK, BatchesAreLive
<1>5. Global!IdleAgain' /\ BatchesAreLive'
  BY <1>2, <1>4 DEF TriageInv, Global!TypeOK, Global!IdleAgain, BatchesAreLive
<1>6. ASSUME ServedAloneOrBusy
      PROVE  ServedAloneOrBusy'
  <2>1. live = {b}
    BY <1>4, <1>6 DEF ServedAloneOrBusy
  <2>2. waiting[b] \cap visiting[b] = {}
    BY <1>4, <1>6 DEF ServedAloneOrBusy
  <2> DEFINE left == waiting[b] \cup visiting[b]
  <2>3. waiting'[b] \cup visiting'[b] = left \ {d} /\ waiting'[b] \cap visiting'[b] = {} /\ d \in left
    BY <1>1, <1>2, <2>2 DEF TriageInv, Global!TypeOK
  <2>4. left \in SUBSET Devices
    BY DEF TriageInv, Global!TypeOK
  <2>5. IsFiniteSet(left) /\ Cardinality(left) \in Nat
    BY <2>4, SelectionsAreFinite
  <2>6. Cardinality(left \ {d}) = Cardinality(left) - 1
    BY <2>3, <2>5, FS_RemoveElement
  <2>7. triageStatus.status = "running" /\ triageStatus.progress = triageStatus.total - Global!Cardinality(left)
    BY <1>4, <1>6 DEF ServedAloneOrBusy, Global!RecordTellsTheBatch
  <2>8. /\ triageStatus'.status = triageStatus.status /\ triageStatus'.total = triageStatus.total
        /\ triageStatus'.progress = triageStatus.progress + 1
        /\ triageStatus.total \in Nat /\ triageStatus.progress \in Nat
    <3>1. triageStatus.total \in 0..Cardinality(Devices) /\ Cardinality(Devices) \in Nat
      BY DevicesAreFinite, FS_CardinalityType DEF TriageInv, Global!TypeOK
    <3> QED BY <1>2, <3>1 DEF TriageInv, Global!TypeOK
  <2>9. triageStatus'.progress = triageStatus'.total - Global!Cardinality(waiting'[b] \cup visiting'[b])
    <3> HIDE DEF left
    <3>1. Global!Cardinality(left) = Cardinality(left) /\ Global!Cardinality(left \ {d}) = Cardinality(left \ {d})
      BY DevicesAreFinite
    <3>2. triageStatus'.progress = triageStatus'.total - Cardinality(left \ {d})
      BY <2>5, <2>6, <2>7, <2>8, <3>1
    <3> QED BY <2>3, <3>1, <3>2
  <2>10. Global!RecordTellsTheBatch'
    BY <1>2, <2>1, <2>7, <2>8, <2>9 DEF Global!RecordTellsTheBatch
  <2> QED BY <1>2, <1>6, <2>1, <2>3, <2>10 DEF ServedAloneOrBusy
<1> QED BY <1>3, <1>5, <1>6 DEF TriageInv

LEMMA BatchesEnd ==
  ASSUME Global!TriageAssumption, TriageInv, UNCHANGED TriageByTurns, NEW b \in Global!Batches, Global!Finish(b)
  PROVE  TriageInv'
<1>1. /\ b \in live /\ waiting[b] = {} /\ visiting[b] = {}
      /\ live' = live \ {b}
      /\ triageStatus' = [triageStatus EXCEPT !.status = "idle"]
      /\ UNCHANGED <<asked, triage, started, waiting, visiting>>
  BY DEF Global!Finish
<1>2. /\ triageStatus'.status \in Global!NotRunning
      /\ triageStatus'.total = triageStatus.total /\ triageStatus'.progress = triageStatus.progress
  BY <1>1, StatusNames DEF TriageInv, Global!TypeOK
<1>3. Global!TypeOK'
  BY <1>1, StatusNames, TurnsOfTriage DEF TriageInv, Global!TypeOK
<1>4. Global!IdleAgain' /\ BatchesAreLive'
  BY <1>1, <1>2 DEF TriageInv, Global!TypeOK, Global!IdleAgain, BatchesAreLive
<1>5. ASSUME ServedAloneOrBusy
      PROVE  ServedAloneOrBusy'
  <2>1. live' = {}
    BY <1>1, <1>5 DEF ServedAloneOrBusy
  <2>2. Cardinality({}) = 0 /\ {} \cup {} = {}
    BY FS_EmptySet
  <2>3. triageStatus.total \in Nat
    <3>1. triageStatus.total \in 0..Cardinality(Devices) /\ Cardinality(Devices) \in Nat
      BY DevicesAreFinite, FS_CardinalityType DEF TriageInv, Global!TypeOK
    <3> QED BY <3>1
  <2>4. triageStatus.progress = triageStatus.total
    BY <1>1, <1>5, <2>2, <2>3, DevicesAreFinite DEF ServedAloneOrBusy, Global!RecordTellsTheBatch
  <2>5. Global!RecordTellsTheBatch'
    BY <1>2, <2>1, <2>4 DEF Global!RecordTellsTheBatch
  <2> QED BY <1>1, <1>5, <2>1, <2>5 DEF ServedAloneOrBusy
<1> QED BY <1>3, <1>4, <1>5 DEF TriageInv

LEMMA TriageStays ==
  Global!TriageAssumption /\ TriageInv /\ [Global!Next]_(Global!vars) /\ UNCHANGED TriageByTurns => TriageInv'
<1> SUFFICES ASSUME Global!TriageAssumption, TriageInv, [Global!Next]_(Global!vars), UNCHANGED TriageByTurns
             PROVE  TriageInv'
  OBVIOUS
<1>1. CASE UNCHANGED Global!vars
  <2>1. UNCHANGED <<triageStatus, asked, triage, started, waiting, visiting, live>>
    BY <1>1 DEF Global!vars
  <2>2. Global!TypeOK'
    BY <2>1, TurnsOfTriage DEF TriageInv, Global!TypeOK
  <2>3. Global!IdleAgain' /\ BatchesAreLive' /\ (ServedAloneOrBusy => ServedAloneOrBusy')
    BY <2>1 DEF TriageInv, Global!IdleAgain, BatchesAreLive, ServedAloneOrBusy, Global!RecordTellsTheBatch
  <2> QED BY <2>2, <2>3 DEF TriageInv
<1> QED BY <1>1, Checking, Listing, Starting, VisitsBegin, VisitsEnd, BatchesEnd DEF Global!Next

LEMMA TriageSays == Global!TriageAssumption /\ TriageInv => TriageIsTrue
<1> SUFFICES ASSUME Global!TriageAssumption, TriageInv, TriageByTurns
             PROVE  Global!OneBatch
  BY DEF TriageInv, TriageIsTrue, ServedAloneOrBusy
<1>1. live = {} \/ \E b \in live : live = {b}
  BY DEF TriageInv, ServedAloneOrBusy
<1>2. Cardinality(live) \in {0, 1}
  BY <1>1, FS_EmptySet, FS_Singleton
<1> QED BY <1>2, DevicesAreFinite DEF Global!OneBatch

-----------------------------------------------------------------------------
(***************************************************************************)
(* AsyncJobs, for any jobs of any hosts.  The hosts that were handed out   *)
(* are being handled, or handled and not recorded, or in the record, and   *)
(* none is twice: the loop hands out each position once, and what is       *)
(* handed out goes one way.  A job that is done has nothing in its hands.  *)
(***************************************************************************)
JobRecord == [status : {"running", "done"}, progress : Nat, results : Seq(Nat)]

InHand(j) == busy[j] \cup counting[j]

(* Where the hosts of a job are. *)
HostsAreOnTheirWay(j) ==
  /\ next[j] \in 0..Tasks!Total(j)
  /\ busy[j] \subseteq 1..next[j] /\ counting[j] \subseteq 1..next[j] /\ found[j] \subseteq 1..next[j]
  /\ busy[j] \cap counting[j] = {}
  /\ Handlers[j] = "verify" => found[j] = 1..next[j] \ busy[j]
  /\ j \notin DOMAIN jobs => next[j] = 0

(* What the record says of them. *)
RecordTellsTheHosts(j) ==
  /\ jobs[j].results \in Seq(0..Tasks!Total(j))
  /\ jobs[j].progress = next[j] - Cardinality(InHand(j))
  /\ Handlers[j] = "bulk" =>
       /\ Tasks!ToSet(jobs[j].results) = 1..next[j] \ InHand(j)
       /\ Len(jobs[j].results) = jobs[j].progress
  /\ jobs[j].status = "done" =>
       /\ next[j] = Tasks!Total(j) /\ busy[j] = {} /\ counting[j] = {}
       /\ Handlers[j] = "verify" => jobs[j].results = [p \in 1..Tasks!Total(j) |-> p]

JobsShape ==
  /\ DOMAIN jobs \subseteq DOMAIN Hosts /\ jobs \in [DOMAIN jobs -> JobRecord]
  /\ next \in [DOMAIN Hosts -> Nat]
  /\ busy \in [DOMAIN Hosts -> SUBSET Nat]
  /\ counting \in [DOMAIN Hosts -> SUBSET Nat]
  /\ found \in [DOMAIN Hosts -> SUBSET Nat]
  /\ writing = {} \/ \E c \in Pollers : writing = {c}

JobsInv ==
  /\ JobsShape
  /\ \A j \in DOMAIN Hosts : HostsAreOnTheirWay(j)
  /\ \A j \in DOMAIN jobs : RecordTellsTheHosts(j)

LEMMA HandlersAreKinds ==
  /\ Tasks!Jobs = DOMAIN Hosts
  /\ Handlers \in [DOMAIN Hosts -> Tasks!Kinds]
BY DEF Handlers, Tasks!Kinds, Tasks!Jobs

LEMMA TotalsAreNumbers ==
  ASSUME Tasks!JobsAssumption, NEW j \in DOMAIN Hosts
  PROVE  Tasks!Total(j) \in Nat
BY DEF Tasks!JobsAssumption, Tasks!Total, Tasks!Jobs

(* What is in hand is finite. *)
LEMMA InHandIsCounted ==
  ASSUME NEW n \in Nat, NEW S \in SUBSET (1..n)
  PROVE  IsFiniteSet(S) /\ Cardinality(S) \in 0..n /\ Tasks!Cardinality(S) = Cardinality(S)
<1>1. IsFiniteSet(1..n) /\ Cardinality(1..n) = n
  BY FS_Interval
<1>2. IsFiniteSet(S) /\ Cardinality(S) <= n
  BY <1>1, FS_Subset
<1>3. Cardinality(S) \in Nat
  BY <1>2, FS_CardinalityType
<1> QED BY <1>2, <1>3 DEF Tasks!Cardinality, Cardinality

LEMMA NoHostsNoCount == Cardinality({}) = 0 /\ Tasks!Cardinality({}) = 0
BY FS_EmptySet DEF Tasks!Cardinality, Cardinality

LEMMA JobsBegin == Tasks!JobsAssumption /\ Tasks!Init => JobsInv
<1> SUFFICES ASSUME Tasks!JobsAssumption, Tasks!Init
             PROVE  JobsInv
  OBVIOUS
<1>1. DOMAIN jobs = {} /\ jobs \in [DOMAIN jobs -> JobRecord]
  BY DEF Tasks!Init
<1>2. JobsShape
  BY <1>1 DEF JobsShape, Tasks!Init, Tasks!Jobs
<1>3. \A j \in DOMAIN Hosts : HostsAreOnTheirWay(j)
  BY TotalsAreNumbers DEF HostsAreOnTheirWay, Tasks!Init, Tasks!Jobs
<1> QED BY <1>1, <1>2, <1>3 DEF JobsInv

(* A step of one job is no step of the others. *)
JobStays(j) ==
  /\ next'[j] = next[j] /\ busy'[j] = busy[j] /\ counting'[j] = counting[j] /\ found'[j] = found[j]
  /\ j \in DOMAIN jobs' <=> j \in DOMAIN jobs
  /\ j \in DOMAIN jobs => jobs'[j] = jobs[j]

LEMMA OtherJobsStay ==
  ASSUME JobsInv, UNCHANGED Handlers, NEW i \in DOMAIN Hosts, \A j \in DOMAIN Hosts \ {i} : JobStays(j),
         JobsShape', HostsAreOnTheirWay(i)', i \in DOMAIN jobs' => RecordTellsTheHosts(i)'
  PROVE  JobsInv'
<1>1. \A j \in DOMAIN Hosts \ {i} : HostsAreOnTheirWay(j)'
  BY DEF JobsInv, JobStays, HostsAreOnTheirWay
<1>2. \A j \in DOMAIN Hosts \ {i} : j \in DOMAIN jobs' => RecordTellsTheHosts(j)'
  <2> SUFFICES ASSUME NEW j \in DOMAIN Hosts \ {i}, j \in DOMAIN jobs'
               PROVE  RecordTellsTheHosts(j)'
    OBVIOUS
  <2>1. j \in DOMAIN jobs /\ jobs'[j] = jobs[j] /\ next'[j] = next[j] /\ busy'[j] = busy[j] /\ counting'[j] = counting[j]
    BY DEF JobStays
  <2>2. RecordTellsTheHosts(j) /\ InHand(j)' = InHand(j) /\ Handlers'[j] = Handlers[j]
    BY <2>1 DEF JobsInv, InHand
  <2> QED BY <2>1, <2>2 DEF RecordTellsTheHosts
<1>3. DOMAIN jobs' \subseteq DOMAIN Hosts
  BY DEF JobsShape
<1> QED BY <1>1, <1>2, <1>3 DEF JobsInv

LEMMA JobsAreCreated ==
  ASSUME Tasks!JobsAssumption, JobsInv, UNCHANGED Handlers, NEW j \in DOMAIN Hosts, Tasks!NewJob(j)
  PROVE  JobsInv'
<1> DEFINE fresh == [status |-> "running", progress |-> 0, results |-> <<>>]
<1>1. /\ j \notin DOMAIN jobs
      /\ jobs' = [i \in DOMAIN jobs \cup {j} |-> IF i = j THEN fresh ELSE jobs[i]]
      /\ UNCHANGED <<next, busy, counting, found, writing>>
  BY DEF Tasks!NewJob
<1>2. fresh \in JobRecord
  BY DEF JobRecord
<1>3. JobsShape'
  <2> HIDE DEF fresh
  <2> QED BY <1>1, <1>2 DEF JobsInv, JobsShape
<1>4. next[j] = 0 /\ busy[j] = {} /\ counting[j] = {} /\ found[j] = {}
  BY <1>1 DEF JobsInv, HostsAreOnTheirWay
<1>5. HostsAreOnTheirWay(j)'
  BY <1>1, <1>4 DEF JobsInv, HostsAreOnTheirWay
<1>6. RecordTellsTheHosts(j)'
  <2>1. jobs'[j] = fresh
    BY <1>1
  <2>2. InHand(j)' = {} /\ next'[j] = 0
    BY <1>1, <1>4 DEF InHand
  <2>3. <<>> \in Seq(0..Tasks!Total(j)) /\ Len(<<>>) = 0 /\ Tasks!ToSet(<<>>) = {} /\ 1..0 = {}
    BY DEF Tasks!ToSet
  <2> QED BY <2>1, <2>2, <2>3, NoHostsNoCount DEF RecordTellsTheHosts
<1>7. \A i \in DOMAIN Hosts \ {j} : JobStays(i)
  <2> HIDE DEF fresh
  <2> QED BY <1>1 DEF JobStays
<1> QED BY <1>3, <1>5, <1>6, <1>7, OtherJobsStay

LEMMA HostsAreHandedOut ==
  ASSUME Tasks!JobsAssumption, JobsInv, UNCHANGED Handlers, NEW j \in DOMAIN Hosts, Tasks!Begin(j)
  PROVE  JobsInv'
<1>1. /\ j \in DOMAIN jobs /\ next[j] < Tasks!Total(j)
      /\ next' = [next EXCEPT ![j] = @ + 1] /\ busy' = [busy EXCEPT ![j] = @ \cup {next'[j]}]
      /\ UNCHANGED <<jobs, counting, found, writing>>
  BY DEF Tasks!Begin
<1> DEFINE n == next[j]
<1>2. /\ next'[j] = n + 1 /\ busy'[j] = busy[j] \cup {n + 1} /\ n \in Nat /\ Tasks!Total(j) \in Nat
      /\ HostsAreOnTheirWay(j) /\ RecordTellsTheHosts(j)
  BY <1>1, TotalsAreNumbers DEF JobsInv, JobsShape
<1>3. JobsShape'
  BY <1>1, <1>2 DEF JobsInv, JobsShape
<1>4. HostsAreOnTheirWay(j)'
  BY <1>1, <1>2 DEF HostsAreOnTheirWay
<1>5. InHand(j)' = InHand(j) \cup {n + 1} /\ n + 1 \notin InHand(j) /\ InHand(j) \in SUBSET (1..n)
  BY <1>1, <1>2 DEF InHand, HostsAreOnTheirWay
<1>6. IsFiniteSet(InHand(j)) /\ Cardinality(InHand(j)) \in Nat
  BY <1>2, <1>5, InHandIsCounted
<1>7. Cardinality(InHand(j)') = Cardinality(InHand(j)) + 1
  BY <1>5, <1>6, FS_AddElement
<1>8. RecordTellsTheHosts(j)'
  <2>1. next'[j] - Cardinality(InHand(j)') = n - Cardinality(InHand(j))
    BY <1>2, <1>6, <1>7
  <2>2. 1..next'[j] \ InHand(j)' = 1..n \ InHand(j)
    BY <1>2, <1>5
  <2>3. jobs' = jobs /\ jobs[j].status # "done"
    BY <1>1, <1>2 DEF RecordTellsTheHosts
  <2> QED BY <1>2, <2>1, <2>2, <2>3 DEF RecordTellsTheHosts
<1>9. \A i \in DOMAIN Hosts \ {j} : JobStays(i)
  BY <1>1 DEF JobStays, JobsInv, JobsShape
<1> QED BY <1>3, <1>4, <1>8, <1>9, OtherJobsStay

LEMMA HostsAreHandled ==
  ASSUME Tasks!JobsAssumption, JobsInv, UNCHANGED Handlers, NEW j \in DOMAIN Hosts, Tasks!Handle(j)
  PROVE  JobsInv'
<1>1. PICK p \in busy[j] :
        /\ busy' = [busy EXCEPT ![j] = @ \ {p}] /\ counting' = [counting EXCEPT ![j] = @ \cup {p}]
        /\ \/ Handlers[j] # "verify" /\ found' \in {found, [found EXCEPT ![j] = @ \cup {p}]}
           \/ Handlers[j] = "verify" /\ found' = [found EXCEPT ![j] = @ \cup {p}]
        /\ UNCHANGED <<jobs, next, writing>>
  BY DEF Tasks!Handle
<1>2. /\ busy'[j] = busy[j] \ {p} /\ counting'[j] = counting[j] \cup {p} /\ next[j] \in Nat /\ p \in Nat
      /\ found'[j] \in {found[j], found[j] \cup {p}}
      /\ Handlers[j] = "verify" => found'[j] = found[j] \cup {p}
      /\ HostsAreOnTheirWay(j)
      /\ j \in DOMAIN jobs => RecordTellsTheHosts(j)
  BY <1>1 DEF JobsInv, JobsShape
<1>3. JobsShape'
  BY <1>1, <1>2 DEF JobsInv, JobsShape
<1>4. HostsAreOnTheirWay(j)'
  BY <1>1, <1>2 DEF HostsAreOnTheirWay
<1>5. InHand(j)' = InHand(j)
  BY <1>1, <1>2 DEF InHand
<1>6. j \in DOMAIN jobs' => RecordTellsTheHosts(j)'
  BY <1>1, <1>2, <1>5 DEF RecordTellsTheHosts
<1>7. \A i \in DOMAIN Hosts \ {j} : JobStays(i)
  BY <1>1 DEF JobStays, JobsInv, JobsShape
<1> QED BY <1>3, <1>4, <1>6, <1>7, OtherJobsStay

LEMMA AppendedIsIn ==
  ASSUME NEW S, NEW s \in Seq(S), NEW p \in S
  PROVE  Append(s, p) \in Seq(S) /\ Len(Append(s, p)) = Len(s) + 1 /\ Tasks!ToSet(Append(s, p)) = Tasks!ToSet(s) \cup {p}
<1>1. Append(s, p) \in Seq(S) /\ Len(Append(s, p)) = Len(s) + 1
  OBVIOUS
<1>2. \A i \in 1..(Len(s) + 1) : Append(s, p)[i] = IF i = Len(s) + 1 THEN p ELSE s[i]
  OBVIOUS
<1>3. DOMAIN s = 1..Len(s) /\ DOMAIN Append(s, p) = 1..(Len(s) + 1) /\ Len(s) \in Nat
  OBVIOUS
<1> HIDE DEF Tasks!ToSet
<1>4. \A x \in Tasks!ToSet(s) \cup {p} : \E i \in 1..(Len(s) + 1) : Append(s, p)[i] = x
  BY <1>2, <1>3 DEF Tasks!ToSet
<1>5. \A i \in 1..(Len(s) + 1) : Append(s, p)[i] \in Tasks!ToSet(s) \cup {p}
  BY <1>2, <1>3 DEF Tasks!ToSet
<1> QED BY <1>1, <1>3, <1>4, <1>5 DEF Tasks!ToSet

LEMMA HostsAreRecorded ==
  ASSUME Tasks!JobsAssumption, JobsInv, UNCHANGED Handlers, NEW j \in DOMAIN Hosts, Tasks!Count(j)
  PROVE  JobsInv'
<1>1. PICK p \in counting[j] :
        /\ counting' = [counting EXCEPT ![j] = @ \ {p}]
        /\ jobs' = [jobs EXCEPT ![j] = Tasks!Counted(j, p)]
        /\ UNCHANGED <<next, busy, found, writing>>
  BY DEF Tasks!Count
<1> DEFINE record == jobs[j]
           added == IF Handlers[j] = "bulk" THEN Append(record.results, p) ELSE record.results
<1>2. /\ HostsAreOnTheirWay(j) /\ j \in DOMAIN jobs /\ record \in JobRecord /\ Tasks!Total(j) \in Nat /\ next[j] \in Nat
      /\ RecordTellsTheHosts(j) /\ p \in 1..next[j] /\ p \in 0..Tasks!Total(j)
  <2>1. HostsAreOnTheirWay(j) /\ Tasks!Total(j) \in Nat /\ next[j] \in Nat
    BY TotalsAreNumbers DEF JobsInv, JobsShape
  <2>2. p \in 1..next[j] /\ next[j] <= Tasks!Total(j)
    BY <2>1 DEF HostsAreOnTheirWay
  <2>3. j \in DOMAIN jobs
    BY <2>1, <2>2 DEF HostsAreOnTheirWay
  <2> QED BY <2>1, <2>2, <2>3 DEF JobsInv, JobsShape
<1>3. jobs'[j] = [record EXCEPT !.progress = @ + 1, !.results = added]
  BY <1>1, <1>2 DEF Tasks!Counted, JobsInv, JobsShape
<1>4. /\ jobs'[j].status = record.status /\ jobs'[j].progress = record.progress + 1 /\ jobs'[j].results = added
      /\ record.results \in Seq(0..Tasks!Total(j)) /\ record.results \in Seq(Nat) /\ record.progress \in Nat
  <2> HIDE DEF added
  <2> QED BY <1>2, <1>3 DEF JobRecord, RecordTellsTheHosts
<1>5. added \in Seq(Nat) /\ added \in Seq(0..Tasks!Total(j))
  <2>1. Append(record.results, p) \in Seq(0..Tasks!Total(j))
    BY <1>2, <1>4, AppendedIsIn
  <2>2. p \in Nat
    BY <1>2
  <2>3. Append(record.results, p) \in Seq(Nat)
    BY <1>4, <2>2, AppendedIsIn
  <2> QED BY <1>4, <2>1, <2>3
<1>6. jobs'[j] \in JobRecord
  <2> HIDE DEF added
  <2>1. record = [status |-> record.status, progress |-> record.progress, results |-> record.results]
    BY <1>2 DEF JobRecord
  <2>2. jobs'[j] = [status |-> record.status, progress |-> record.progress + 1, results |-> added]
    BY <1>3, <2>1
  <2>3. record.status \in {"running", "done"}
    BY <1>2 DEF JobRecord
  <2> QED BY <1>4, <1>5, <2>2, <2>3 DEF JobRecord
<1>7. JobsShape'
  BY <1>1, <1>2, <1>6 DEF JobsInv, JobsShape
<1>8. HostsAreOnTheirWay(j)' /\ counting'[j] = counting[j] \ {p}
  BY <1>1, <1>2 DEF HostsAreOnTheirWay, JobsInv, JobsShape
<1>9. InHand(j)' = InHand(j) \ {p} /\ p \in InHand(j) /\ InHand(j) \in SUBSET (1..next[j])
  BY <1>1, <1>2, <1>8 DEF InHand, HostsAreOnTheirWay
<1>10. IsFiniteSet(InHand(j)) /\ Cardinality(InHand(j)) \in Nat
  BY <1>2, <1>9, InHandIsCounted
<1>11. Cardinality(InHand(j)') = Cardinality(InHand(j)) - 1
  BY <1>9, <1>10, FS_RemoveElement
<1>12. RecordTellsTheHosts(j)'
  <2>1. jobs'[j].progress = next'[j] - Cardinality(InHand(j)')
    <3>1. record.progress = next[j] - Cardinality(InHand(j))
      BY <1>2 DEF RecordTellsTheHosts
    <3>2. next'[j] = next[j] /\ jobs'[j].progress = record.progress + 1
      BY <1>1, <1>4
    <3> HIDE DEF record, added
    <3> QED BY <1>2, <1>10, <1>11, <3>1, <3>2
  <2>2. ASSUME Handlers[j] = "bulk"
        PROVE  /\ Tasks!ToSet(jobs'[j].results) = 1..next'[j] \ InHand(j)'
               /\ Len(jobs'[j].results) = jobs'[j].progress
    <3>1. jobs'[j].results = Append(record.results, p)
      BY <1>4, <2>2
    <3>2. /\ Tasks!ToSet(jobs'[j].results) = Tasks!ToSet(record.results) \cup {p}
          /\ Len(jobs'[j].results) = Len(record.results) + 1
      BY <1>2, <1>4, <3>1, AppendedIsIn
    <3>3. Tasks!ToSet(record.results) = 1..next[j] \ InHand(j) /\ Len(record.results) = record.progress
      BY <1>2, <2>2 DEF RecordTellsTheHosts
    <3> QED BY <1>1, <1>2, <1>4, <1>9, <3>2, <3>3
  <2>3. jobs'[j].status # "done"
    BY <1>2, <1>4, <1>1 DEF RecordTellsTheHosts
  <2> HIDE DEF added
  <2>4. Handlers'[j] = Handlers[j]
    OBVIOUS
  <2> QED BY <1>4, <1>5, <2>1, <2>2, <2>3, <2>4 DEF RecordTellsTheHosts
<1>13. \A i \in DOMAIN Hosts \ {j} : JobStays(i)
  BY <1>1, <1>2 DEF JobStays, JobsInv, JobsShape
<1> QED BY <1>7, <1>8, <1>12, <1>13, OtherJobsStay

LEMMA JobsAreDone ==
  ASSUME Tasks!JobsAssumption, JobsInv, UNCHANGED Handlers, NEW j \in DOMAIN Hosts, Tasks!Finish(j)
  PROVE  JobsInv'
<1>1. /\ j \in DOMAIN jobs /\ next[j] = Tasks!Total(j) /\ busy[j] = {} /\ counting[j] = {}
      /\ UNCHANGED <<next, busy, counting, found, writing>>
  BY DEF Tasks!Finish, Tasks!AllEnded
<1>2. HostsAreOnTheirWay(j) /\ RecordTellsTheHosts(j) /\ jobs[j] \in JobRecord /\ Tasks!Total(j) \in Nat
  BY <1>1, TotalsAreNumbers DEF JobsInv, JobsShape
<1> DEFINE n == Tasks!Total(j)
<1>3. InHand(j) = {} /\ InHand(j)' = {} /\ Cardinality(InHand(j)) = 0
  BY <1>1, NoHostsNoCount DEF InHand
<1>4. \E r \in JobRecord :
        /\ jobs' = [jobs EXCEPT ![j] = r] /\ r.progress = n /\ r.results \in Seq(0..n)
        /\ Handlers[j] = "bulk" => r.results = jobs[j].results
        /\ Handlers[j] = "verify" => r.results = [p \in 1..n |-> p]
  <2>1. CASE Handlers[j] = "bulk"
    <3> DEFINE r == [jobs[j] EXCEPT !.status = "done"]
    <3>1. jobs' = [jobs EXCEPT ![j] = r]
      BY <2>1 DEF Tasks!Finish
    <3>2. r \in JobRecord /\ r.progress = jobs[j].progress /\ r.results = jobs[j].results
      BY <1>2 DEF JobRecord
    <3>3. jobs[j].progress = n /\ jobs[j].results \in Seq(0..n)
      BY <1>1, <1>2, <1>3 DEF RecordTellsTheHosts
    <3> HIDE DEF r
    <3> QED BY <2>1, <3>1, <3>2, <3>3
  <2>2. CASE Handlers[j] = "verify"
    <3> DEFINE inOrder == Tasks!Rows(j)
               r == [status |-> "done", progress |-> n, results |-> inOrder]
    <3>1. jobs' = [jobs EXCEPT ![j] = r]
      BY <2>2 DEF Tasks!Finish
    <3>2. found[j] = 1..n
      BY <1>1, <1>2, <2>2 DEF HostsAreOnTheirWay
    <3>3. inOrder = [p \in 1..n |-> p]
      BY <3>2 DEF Tasks!Rows
    <3>4. inOrder \in Seq(Nat) /\ inOrder \in Seq(0..n)
      BY <1>2, <3>3
    <3> HIDE DEF inOrder
    <3>5. r \in JobRecord /\ r.progress = n /\ r.results = inOrder
      BY <1>2, <3>4 DEF JobRecord
    <3> HIDE DEF r
    <3> QED BY <2>2, <3>1, <3>3, <3>4, <3>5
  <2>3. CASE Handlers[j] \notin {"bulk", "verify"}
    <3>1. PICK s \in Tasks!ByAddress(j) :
            jobs' = [jobs EXCEPT ![j] = [status |-> "done", progress |-> n, results |-> s]]
      BY <2>3 DEF Tasks!Finish
    <3> DEFINE r == [status |-> "done", progress |-> n, results |-> s]
    <3>2. found[j] \in SUBSET (1..n)
      BY <1>1, <1>2 DEF HostsAreOnTheirWay
    <3>3. Tasks!Cardinality(found[j]) \in Nat
      BY <1>2, <3>2, InHandIsCounted
    <3>4. s \in [1..Tasks!Cardinality(found[j]) -> found[j]]
      BY DEF Tasks!ByAddress, Tasks!SetToSeqs
    <3>5. s \in Seq(found[j])
      BY <3>3, <3>4
    <3>6. s \in Seq(Nat) /\ s \in Seq(0..n)
      BY <1>2, <3>2, <3>5
    <3>7. r \in JobRecord /\ r.progress = n /\ r.results = s
      BY <1>2, <3>6 DEF JobRecord
    <3> HIDE DEF r
    <3> QED BY <2>3, <3>1, <3>6, <3>7 DEF r
  <2> QED BY <2>1, <2>2, <2>3
<1>5. PICK r \in JobRecord :
        /\ jobs' = [jobs EXCEPT ![j] = r] /\ r.progress = n /\ r.results \in Seq(0..n)
        /\ Handlers[j] = "bulk" => r.results = jobs[j].results
        /\ Handlers[j] = "verify" => r.results = [p \in 1..n |-> p]
  BY <1>4
<1>6. jobs'[j] = r /\ DOMAIN jobs' = DOMAIN jobs
  BY <1>1, <1>5 DEF JobsInv, JobsShape
<1>7. JobsShape'
  BY <1>1, <1>5, <1>6 DEF JobsInv, JobsShape
<1>8. HostsAreOnTheirWay(j)'
  BY <1>1, <1>2, <1>6 DEF HostsAreOnTheirWay
<1>9. RecordTellsTheHosts(j)'
  <2>1. Handlers[j] = "bulk" => Tasks!ToSet(r.results) = 1..n \ {} /\ Len(r.results) = n
    BY <1>1, <1>2, <1>3, <1>5 DEF RecordTellsTheHosts
  <2>2. Cardinality(InHand(j)') = 0 /\ n - 0 = n
    BY <1>2, <1>3, NoHostsNoCount
  <2> QED BY <1>1, <1>3, <1>5, <1>6, <2>1, <2>2 DEF RecordTellsTheHosts
<1>10. \A i \in DOMAIN Hosts \ {j} : JobStays(i)
  BY <1>1, <1>5, <1>6 DEF JobStays, JobsInv, JobsShape
<1> QED BY <1>7, <1>8, <1>9, <1>10, OtherJobsStay

(* What happens to no job. *)
LEMMA JobsAsTheyAre ==
  ASSUME JobsInv, UNCHANGED <<Handlers, jobs, next, busy, counting, found>>,
         writing' = {} \/ \E c \in Pollers : writing' = {c}
  PROVE  JobsInv'
<1>1. JobsShape'
  BY DEF JobsInv, JobsShape
<1>2. \A j \in DOMAIN Hosts : HostsAreOnTheirWay(j)'
  BY DEF JobsInv, HostsAreOnTheirWay
<1>3. \A j \in DOMAIN jobs : RecordTellsTheHosts(j)'
  BY DEF JobsInv, RecordTellsTheHosts, InHand
<1> QED BY <1>1, <1>2, <1>3 DEF JobsInv

LEMMA JobsStay ==
  Tasks!JobsAssumption /\ JobsInv /\ [Tasks!Next]_(Tasks!vars) /\ UNCHANGED Handlers => JobsInv'
<1> SUFFICES ASSUME Tasks!JobsAssumption, JobsInv, [Tasks!Next]_(Tasks!vars), UNCHANGED Handlers
             PROVE  JobsInv'
  OBVIOUS
<1>1. CASE UNCHANGED Tasks!vars
  BY <1>1, JobsAsTheyAre DEF Tasks!vars, JobsInv, JobsShape
<1>2. CASE \E c \in Pollers : Tasks!Poll(c) \/ Tasks!Answered(c)
  BY <1>2, JobsAsTheyAre DEF Tasks!Poll, Tasks!Answered
<1> QED BY <1>1, <1>2, HandlersAreKinds, JobsAreCreated, HostsAreHandedOut, HostsAreHandled, HostsAreRecorded,
        JobsAreDone DEF Tasks!Next

LEMMA JobsSay == Tasks!JobsAssumption /\ JobsInv => JobsAreTrue
<1> SUFFICES ASSUME Tasks!JobsAssumption, JobsInv
             PROVE  JobsAreTrue
  OBVIOUS
<1>1. \A j \in DOMAIN Hosts : Tasks!Total(j) \in Nat /\ next[j] \in Nat /\ HostsAreOnTheirWay(j)
  BY TotalsAreNumbers DEF JobsInv, JobsShape
<1>2. ASSUME NEW j \in DOMAIN jobs
      PROVE  /\ InHand(j) \in SUBSET (1..next[j]) /\ RecordTellsTheHosts(j) /\ j \in DOMAIN Hosts
             /\ jobs[j] \in JobRecord /\ next[j] <= Tasks!Total(j)
  BY <1>1 DEF JobsInv, JobsShape, InHand, HostsAreOnTheirWay
<1>3. \A j \in DOMAIN jobs : Tasks!Cardinality(InHand(j)) = Cardinality(InHand(j)) /\ Cardinality(InHand(j)) \in 0..next[j]
  BY <1>1, <1>2, InHandIsCounted
<1>4. Tasks!ProgressIsHonest
  BY <1>2, <1>3 DEF Tasks!ProgressIsHonest, RecordTellsTheHosts, InHand
<1>5. Tasks!DoneIsComplete
  <2> SUFFICES ASSUME NEW j \in DOMAIN jobs, jobs[j].status = "done"
               PROVE  /\ jobs[j].progress = Tasks!Total(j)
                      /\ Handlers[j] \in {"bulk", "verify"} => Tasks!ToSet(jobs[j].results) = 1..Tasks!Total(j)
                      /\ Handlers[j] = "verify" => jobs[j].results = [p \in 1..Tasks!Total(j) |-> p]
    BY DEF Tasks!DoneIsComplete
  <2>1. InHand(j) = {} /\ next[j] = Tasks!Total(j)
    BY <1>2 DEF RecordTellsTheHosts, InHand
  <2>2. jobs[j].progress = Tasks!Total(j)
    <3>1. jobs[j].progress = next[j] - Cardinality(InHand(j))
      BY <1>2 DEF RecordTellsTheHosts
    <3>2. Cardinality(InHand(j)) = 0 /\ next[j] \in Nat
      BY <1>1, <1>2, <2>1, NoHostsNoCount
    <3> QED BY <2>1, <3>1, <3>2
  <2>3. Handlers[j] = "bulk" => Tasks!ToSet(jobs[j].results) = 1..Tasks!Total(j)
    BY <1>2, <2>1 DEF RecordTellsTheHosts
  <2>4. Handlers[j] = "verify" => jobs[j].results = [p \in 1..Tasks!Total(j) |-> p]
    BY <1>2 DEF RecordTellsTheHosts
  <2>5. Handlers[j] = "verify" => Tasks!ToSet(jobs[j].results) = 1..Tasks!Total(j)
    BY <2>4 DEF Tasks!ToSet
  <2> QED BY <2>2, <2>3, <2>4, <2>5
<1>6. Tasks!TypeOK
  <2>1. \A j \in DOMAIN jobs :
          /\ jobs[j].status \in {"running", "done"}
          /\ jobs[j].progress \in 0..Tasks!Total(j)
          /\ jobs[j].results \in Seq(0..Tasks!Total(j))
    <3> SUFFICES ASSUME NEW j \in DOMAIN jobs
                 PROVE  /\ jobs[j].status \in {"running", "done"}
                        /\ jobs[j].progress \in 0..Tasks!Total(j)
                        /\ jobs[j].results \in Seq(0..Tasks!Total(j))
      OBVIOUS
    <3>1. jobs[j].status \in {"running", "done"}
      BY <1>2 DEF JobRecord
    <3>2. jobs[j].results \in Seq(0..Tasks!Total(j)) /\ jobs[j].progress = next[j] - Cardinality(InHand(j))
      BY <1>2 DEF RecordTellsTheHosts
    <3>3. next[j] \in Nat /\ Tasks!Total(j) \in Nat /\ next[j] <= Tasks!Total(j) /\ Cardinality(InHand(j)) \in 0..next[j]
      BY <1>1, <1>2, <1>3
    <3>4. jobs[j].progress \in 0..Tasks!Total(j)
      BY <3>2, <3>3
    <3> QED BY <3>1, <3>2, <3>4
  <2>2. \A j \in DOMAIN Hosts : next[j] \in 0..Tasks!Total(j) /\ busy[j] \cup counting[j] \cup found[j] \subseteq 1..next[j]
    BY <1>1 DEF HostsAreOnTheirWay
  <2>3. writing \subseteq Pollers /\ (writing = {} \/ \E c \in writing : writing = {c})
    BY DEF JobsInv, JobsShape
  <2>4. Tasks!Cardinality(writing) <= 1
    <3>1. Cardinality(writing) \in {0, 1}
      BY <2>3, FS_EmptySet, FS_Singleton
    <3> QED BY <3>1 DEF Tasks!Cardinality, Cardinality
  <2>5. DOMAIN jobs \subseteq DOMAIN Hosts
    BY DEF JobsInv, JobsShape
  <2> QED BY <2>1, <2>2, <2>3, <2>4, <2>5, HandlersAreKinds DEF Tasks!TypeOK
<1> QED BY <1>4, <1>5, <1>6 DEF JobsAreTrue

(* A job that says done has nothing left that could change its record. *)
LEMMA DoneJobsRest ==
  ASSUME Tasks!JobsAssumption, JobsInv, [Tasks!Next]_(Tasks!vars), NEW j \in DOMAIN jobs, jobs[j].status = "done"
  PROVE  jobs'[j] = jobs[j]
<1>1. j \in DOMAIN Hosts /\ counting[j] = {} /\ jobs \in [DOMAIN jobs -> JobRecord]
  BY DEF JobsInv, JobsShape, RecordTellsTheHosts
<1>2. CASE \E i \in DOMAIN Hosts : Tasks!NewJob(i)
  BY <1>2 DEF Tasks!NewJob
<1>3. CASE \E i \in DOMAIN Hosts : Tasks!Count(i)
  BY <1>1, <1>3 DEF Tasks!Count
<1>4. CASE \E i \in DOMAIN Hosts : Tasks!Finish(i)
  <2>1. PICK i \in DOMAIN Hosts : Tasks!Finish(i)
    BY <1>4
  <2>2. i # j /\ \E r : jobs' = [jobs EXCEPT ![i] = r]
    BY <2>1 DEF Tasks!Finish, Tasks!AllEnded
  <2> QED BY <1>1, <2>2
<1>5. CASE UNCHANGED jobs
  BY <1>5
<1> QED BY <1>2, <1>3, <1>4, <1>5, HandlersAreKinds DEF Tasks!Next, Tasks!vars, Tasks!Begin, Tasks!Handle, Tasks!Poll,
        Tasks!Answered

-----------------------------------------------------------------------------
(***************************************************************************)
(* CliSession, for any commands, answers and sizes of a read.  What was    *)
(* printed is in the channel from some piece on, and what was before it    *)
(* was read; each goroutine took pieces that follow one another, and what  *)
(* the one of this round took comes after all that was returned.           *)
(***************************************************************************)
(* The pieces that were read so far. *)
Handed == Len(printed) - Len(pipe)

Reader == [round : Nat, back : BOOLEAN, took : Seq(Nat)]

ShellShape ==
  /\ NCmds \in Nat
  /\ at \in {"write", "start", "wait", "closed"} /\ cmd \in 0..NCmds /\ ended \in BOOLEAN /\ round \in Nat
  /\ inbox \in Seq(0..NCmds) /\ printed \in Seq(0..NCmds) /\ pipe \in Seq(Nat)
  /\ readers \subseteq Reader
  /\ got \in Seq((0..NCmds) \X Nat)

PipeIsTheRest == Len(pipe) <= Len(printed) /\ \A i \in 1..Len(pipe) : pipe[i] = Handed + i

(* What a goroutine has is of its round and follows one another. *)
TookInOrder(r) ==
  /\ r.round \in 1..round
  /\ \A i \in 1..Len(r.took) : r.took[i] \in 1..Handed
  /\ \A i, k \in 1..Len(r.took) : i < k => r.took[i] < r.took[k]
  /\ r.round = round => \A i \in 1..Len(got), k \in 1..Len(r.took) : got[i][2] < r.took[k]

ReadersAreApart == \A r, s \in readers : r.round = s.round => r = s

GotInOrder ==
  /\ \A i \in 1..Len(got) : got[i][2] \in 1..Handed
  /\ \A i, k \in 1..Len(got) : i < k => got[i][2] < got[k][2]

NothingOfLater ==
  /\ \A i \in 1..Len(inbox) : inbox[i] <= cmd
  /\ \A e \in 1..Len(printed) : printed[e] <= cmd
  /\ \A i \in 1..Len(got) : printed[got[i][2]] <= got[i][1]

ShellInOrder ==
  /\ ShellShape /\ PipeIsTheRest /\ (\A r \in readers : TookInOrder(r)) /\ ReadersAreApart
  /\ GotInOrder /\ NothingOfLater

(***************************************************************************)
(* From a device that never pauses: what is in the channel, what is asked  *)
(* while it is open, what the goroutine of this round has and what was     *)
(* returned is of its command; between commands nothing is to come; and a  *)
(* goroutine comes back with nothing only from a channel that is at its    *)
(* end.                                                                    *)
(***************************************************************************)
OfTheCommand(r) == r.round = round => \A i \in 1..Len(r.took) : printed[r.took[i]] = cmd

OnlyAtTheEnd(r) == r.back /\ Len(r.took) = 0 => ended /\ Len(pipe) = 0

NothingLeft ==
  /\ \A i \in 1..Len(pipe) : printed[pipe[i]] = cmd
  /\ ~ended => \A i \in 1..Len(inbox) : inbox[i] = cmd
  /\ at \in {"write", "closed"} => Len(pipe) = 0 /\ (ended \/ Len(inbox) = 0)
  /\ at = "wait" => \A r \in readers : OfTheCommand(r)
  /\ \A r \in readers : OnlyAtTheEnd(r)
  /\ \A i \in 1..Len(got) : printed[got[i][2]] = got[i][1]

ShellInv == ShellInOrder /\ (Steadily => NothingLeft)

LEMMA SteadyOrNot == Steadily \in BOOLEAN /\ Steadily' \in BOOLEAN
BY DEF Steadily

(* Sequences: one more at the end, one less at the beginning, two parts. *)
LEMMA Appending ==
  ASSUME NEW S, NEW s \in Seq(S), NEW x \in S
  PROVE  /\ Append(s, x) \in Seq(S) /\ Len(Append(s, x)) = Len(s) + 1
         /\ \A i \in 1..Len(s) : Append(s, x)[i] = s[i]
         /\ Append(s, x)[Len(s) + 1] = x
OBVIOUS

LEMMA ElementsAreIn ==
  ASSUME NEW S, NEW s \in Seq(S)
  PROVE  Len(s) \in Nat /\ \A i \in 1..Len(s) : s[i] \in S
OBVIOUS

LEMMA First ==
  ASSUME NEW S, NEW s \in Seq(S), Len(s) > 0
  PROVE  /\ Len(s) \in Nat /\ 1 \in 1..Len(s) /\ Head(s) = s[1] /\ s[1] \in S
         /\ Tail(s) \in Seq(S) /\ Len(Tail(s)) = Len(s) - 1
         /\ \A i \in 1..(Len(s) - 1) : Tail(s)[i] = s[i + 1]
OBVIOUS

LEMMA Cutting ==
  ASSUME NEW S, NEW s \in Seq(S), NEW n \in 0..Len(s)
  PROVE  /\ SubSeq(s, 1, n) \in Seq(S) /\ Len(SubSeq(s, 1, n)) = n
         /\ \A i \in 1..n : SubSeq(s, 1, n)[i] = s[i]
         /\ SubSeq(s, n + 1, Len(s)) \in Seq(S) /\ Len(SubSeq(s, n + 1, Len(s))) = Len(s) - n
         /\ \A i \in 1..(Len(s) - n) : SubSeq(s, n + 1, Len(s))[i] = s[n + i]
<1>1. /\ SubSeq(s, 1, n) \in Seq(S) /\ Len(SubSeq(s, 1, n)) = n
      /\ \A i \in 1..n : SubSeq(s, 1, n)[i] = s[i]
  OBVIOUS
<1>2. /\ SubSeq(s, n + 1, Len(s)) \in Seq(S) /\ Len(SubSeq(s, n + 1, Len(s))) = Len(s) - n
      /\ \A i \in 1..(Len(s) - n) : SubSeq(s, n + 1, Len(s))[i] = s[n + i]
  OBVIOUS
<1> QED BY <1>1, <1>2

LEMMA Joining ==
  ASSUME NEW S, NEW s \in Seq(S), NEW n \in Nat, NEW t \in [1..n -> S]
  PROVE  /\ s \o t \in Seq(S) /\ Len(s \o t) = Len(s) + n
         /\ \A i \in 1..Len(s) : (s \o t)[i] = s[i]
         /\ \A i \in (Len(s) + 1)..(Len(s) + n) : (s \o t)[i] = t[i - Len(s)]
<1>1. t \in Seq(S) /\ Len(t) = n /\ Len(s) \in Nat
  OBVIOUS
<1>2. s \o t \in Seq(S) /\ Len(s \o t) = Len(s) + n
  BY <1>1
<1>3. \A i \in 1..Len(s) : (s \o t)[i] = s[i]
  BY <1>1
<1>4. \A i \in (Len(s) + 1)..(Len(s) + n) : (s \o t)[i] = t[i - Len(s)]
  BY <1>1
<1> QED BY <1>2, <1>3, <1>4

LEMMA ShellBegins == Shell!SessionAssumption /\ Shell!Init => ShellInv
<1> SUFFICES ASSUME Shell!SessionAssumption, Shell!Init
             PROVE  ShellInv
  OBVIOUS
<1>1. /\ at = "start" /\ cmd = 0 /\ inbox = <<0>> /\ printed = <<>> /\ pipe = <<>> /\ ended = FALSE
      /\ readers = {} /\ round = 0 /\ got = <<>> /\ NCmds \in Nat
  BY DEF Shell!Init, Shell!SessionAssumption
<1>2. Len(printed) = 0 /\ Len(pipe) = 0 /\ Len(got) = 0 /\ Len(inbox) = 1 /\ inbox[1] = 0
  BY <1>1
<1>3. ShellShape
  <2>1. <<0>> \in Seq(0..NCmds)
    BY <1>1
  <2>2. printed \in Seq(0..NCmds) /\ pipe \in Seq(Nat) /\ got \in Seq((0..NCmds) \X Nat)
    BY <1>1
  <2>3. /\ at \in {"write", "start", "wait", "closed"} /\ cmd \in 0..NCmds /\ ended \in BOOLEAN /\ round \in Nat
        /\ readers \subseteq Reader
    <3>1. at = "start" /\ cmd = 0 /\ ended = FALSE /\ readers = {} /\ round = 0 /\ NCmds \in Nat
      BY <1>1, Zenon
    <3>2. ended \in BOOLEAN
      BY <3>1, Zenon
    <3>3. cmd \in 0..NCmds /\ round \in Nat
      BY <3>1
    <3> QED BY <3>1, <3>2, <3>3, Zenon
  <2>4. inbox \in Seq(0..NCmds)
    BY <1>1, <2>1
  <2> QED BY <1>1, <2>2, <2>3, <2>4, Zenon DEF ShellShape
<1>4. ShellInOrder
  BY <1>1, <1>2, <1>3 DEF ShellInOrder, PipeIsTheRest, ReadersAreApart, GotInOrder, NothingOfLater
<1>5. NothingLeft
  BY <1>1, <1>2 DEF NothingLeft
<1> QED BY <1>4, <1>5 DEF ShellInv

-----------------------------------------------------------------------------
(* The device prints a piece of the answer, or has answered. *)
LEMMA DevicePrints ==
  ASSUME ShellInv, UNCHANGED Steadily, Len(inbox) > 0, ~ended,
         printed' = Append(printed, Head(inbox)), pipe' = Append(pipe, Len(printed')),
         UNCHANGED <<at, cmd, inbox, ended, readers, round, got>>
  PROVE  ShellInv'
<1>1. ShellShape /\ PipeIsTheRest /\ (\A r \in readers : TookInOrder(r)) /\ ReadersAreApart /\ GotInOrder /\ NothingOfLater
  BY DEF ShellInv, ShellInOrder
<1>2. Head(inbox) = inbox[1] /\ inbox[1] \in 0..NCmds /\ Len(inbox) \in Nat /\ 1 \in 1..Len(inbox)
  BY <1>1, First DEF ShellShape
<1>3. /\ printed' \in Seq(0..NCmds) /\ Len(printed') = Len(printed) + 1 /\ printed'[Len(printed) + 1] = inbox[1]
      /\ \A e \in 1..Len(printed) : printed'[e] = printed[e]
  BY <1>1, <1>2, Appending DEF ShellShape
<1>4. Len(printed) \in Nat /\ Len(pipe) \in Nat /\ Len(printed') \in Nat
  BY <1>1, <1>3 DEF ShellShape
<1>5. /\ pipe' \in Seq(Nat) /\ Len(pipe') = Len(pipe) + 1 /\ pipe'[Len(pipe) + 1] = Len(printed) + 1
      /\ \A i \in 1..Len(pipe) : pipe'[i] = pipe[i]
  BY <1>1, <1>3, <1>4, Appending DEF ShellShape
<1>6. Handed' = Handed /\ Handed \in 0..Len(printed)
  BY <1>1, <1>3, <1>4, <1>5 DEF Handed, PipeIsTheRest
<1>7. ShellShape'
  BY <1>1, <1>3, <1>5 DEF ShellShape
<1>8. PipeIsTheRest'
  BY <1>1, <1>3, <1>4, <1>5, <1>6 DEF PipeIsTheRest, Handed
<1>9. (\A r \in readers : TookInOrder(r)') /\ ReadersAreApart' /\ GotInOrder'
  BY <1>1, <1>6 DEF TookInOrder, ReadersAreApart, GotInOrder
<1>10. NothingOfLater'
  <2>1. \A e \in 1..Len(printed') : printed'[e] <= cmd
    BY <1>1, <1>2, <1>3, <1>4 DEF NothingOfLater
  <2>2. \A i \in 1..Len(got) : printed'[got[i][2]] = printed[got[i][2]]
    BY <1>1, <1>3, <1>4, <1>6 DEF GotInOrder
  <2> QED BY <1>1, <2>1, <2>2 DEF NothingOfLater
<1>11. ASSUME Steadily, NothingLeft
       PROVE  NothingLeft'
  <2>1. at \notin {"write", "closed"}
    BY <1>2, <1>11 DEF NothingLeft
  <2>2. \A i \in 1..Len(pipe') : printed'[pipe'[i]] = cmd
    <3>1. \A i \in 1..Len(pipe) : pipe[i] \in 1..Len(printed)
      BY <1>1, <1>4, <1>6 DEF PipeIsTheRest, Handed
    <3> QED BY <1>2, <1>3, <1>4, <1>5, <1>11, <3>1 DEF NothingLeft
  <2>3. at = "wait" => \A r \in readers : OfTheCommand(r)'
    BY <1>1, <1>3, <1>4, <1>6, <1>11 DEF NothingLeft, OfTheCommand, TookInOrder
  <2>4. \A r \in readers : OnlyAtTheEnd(r)'
    BY <1>11 DEF NothingLeft, OnlyAtTheEnd
  <2>5. \A i \in 1..Len(got) : printed'[got[i][2]] = printed[got[i][2]]
    BY <1>1, <1>3, <1>4, <1>6 DEF GotInOrder
  <2> QED BY <1>11, <2>1, <2>2, <2>3, <2>4, <2>5 DEF NothingLeft
<1>12. (\A r \in readers : TookInOrder(r))'
  BY <1>9
<1> QED BY <1>7, <1>8, <1>9, <1>10, <1>11, <1>12 DEF ShellInv, ShellInOrder

(* Steps that read nothing and return nothing. *)
LEMMA NothingIsRead ==
  ASSUME ShellInv, UNCHANGED Steadily, UNCHANGED <<printed, pipe, round, got>>,
         readers' \subseteq readers, ShellShape', cmd <= cmd',
         \A i \in 1..Len(inbox') : inbox'[i] <= cmd',
         Steadily /\ NothingLeft =>
           /\ cmd' # cmd => Len(pipe) = 0 /\ at' = "start"
           /\ ~ended' => ~ended /\ \A i \in 1..Len(inbox') : inbox'[i] = cmd'
           /\ at' \in {"write", "closed"} => Len(pipe) = 0 /\ (ended' \/ Len(inbox') = 0)
           /\ at' = "wait" => at = "wait" /\ cmd' = cmd
  PROVE  ShellInv'
<1>1. ShellShape /\ PipeIsTheRest /\ (\A r \in readers : TookInOrder(r)) /\ ReadersAreApart /\ GotInOrder /\ NothingOfLater
  BY DEF ShellInv, ShellInOrder
<1>2. Handed' = Handed
  BY DEF Handed
<1>3. PipeIsTheRest' /\ ReadersAreApart' /\ GotInOrder'
  BY <1>1, <1>2 DEF PipeIsTheRest, ReadersAreApart, GotInOrder
<1>4. (\A r \in readers : TookInOrder(r))'
  BY <1>1, <1>2 DEF TookInOrder
<1>5. NothingOfLater'
  <2>1. cmd \in Int /\ cmd' \in Int /\ \A e \in 1..Len(printed) : printed[e] \in Int
    <3>1. NCmds \in Nat /\ cmd \in 0..NCmds /\ cmd' \in 0..NCmds /\ printed \in Seq(0..NCmds)
      BY <1>1, Zenon DEF ShellShape
    <3> QED BY <3>1, ElementsAreIn
  <2> QED BY <1>1, <2>1 DEF NothingOfLater
<1>6. ASSUME Steadily, NothingLeft
      PROVE  NothingLeft'
  <2>1. /\ cmd' # cmd => Len(pipe) = 0 /\ at' = "start"
        /\ ~ended' => ~ended /\ \A i \in 1..Len(inbox') : inbox'[i] = cmd'
        /\ at' \in {"write", "closed"} => Len(pipe) = 0 /\ (ended' \/ Len(inbox') = 0)
        /\ at' = "wait" => at = "wait" /\ cmd' = cmd
    BY <1>6
  <2>2. \A i \in 1..Len(pipe) : printed[pipe[i]] = cmd'
    BY <1>6, <2>1 DEF NothingLeft
  <2>3. at' = "wait" => \A r \in readers' : OfTheCommand(r)'
    BY <1>6, <2>1 DEF NothingLeft, OfTheCommand
  <2>4. \A r \in readers' : OnlyAtTheEnd(r)'
    BY <1>6, <1>1, <2>1 DEF NothingLeft, OnlyAtTheEnd, ShellShape
  <2> QED BY <1>6, <2>1, <2>2, <2>3, <2>4 DEF NothingLeft
<1> QED BY <1>3, <1>4, <1>5, <1>6 DEF ShellInv, ShellInOrder

(* A round of drain begins: its goroutine has nothing yet. *)
LEMMA RoundsBegin ==
  ASSUME ShellInv, UNCHANGED Steadily, Shell!StartRead
  PROVE  ShellInv'
<1> DEFINE new == [round |-> round + 1, back |-> FALSE, took |-> <<>>]
<1>1. /\ at = "start" /\ at' = "wait" /\ round' = round + 1 /\ readers' = readers \cup {new}
      /\ UNCHANGED <<cmd, inbox, printed, pipe, ended, got>>
  BY DEF Shell!StartRead
<1>2. ShellShape /\ PipeIsTheRest /\ (\A r \in readers : TookInOrder(r)) /\ ReadersAreApart /\ GotInOrder /\ NothingOfLater
  BY DEF ShellInv, ShellInOrder
<1>3. round \in Nat /\ readers \subseteq Reader /\ Len(got) \in Nat
  BY <1>2, ElementsAreIn, Zenon DEF ShellShape
<1>4. new \in Reader /\ new.round = round + 1 /\ Len(new.took) = 0 /\ new.back = FALSE
  BY <1>3 DEF Reader
<1> HIDE DEF new
<1>5. ShellShape'
  <2>1. readers' \subseteq Reader /\ round' \in Nat
    BY <1>1, <1>3, <1>4
  <2> QED BY <1>1, <1>2, <2>1, Zenon DEF ShellShape
<1>6. Handed' = Handed
  BY <1>1 DEF Handed
<1>7. \A r \in readers : r.round \in 1..round /\ r.round # round'
  BY <1>1, <1>2, <1>3 DEF TookInOrder
<1>8. ASSUME NEW r \in readers'
      PROVE  TookInOrder(r)'
  <2>1. CASE r = new
    BY <1>1, <1>3, <1>4, <2>1 DEF TookInOrder
  <2>2. CASE r \in readers
    <3>1. TookInOrder(r) /\ r.round \in 1..round' /\ r.round # round'
      BY <1>1, <1>2, <1>3, <1>7, <2>2
    <3> QED BY <1>1, <1>6, <3>1 DEF TookInOrder
  <2> QED BY <1>1, <2>1, <2>2
<1>9. ReadersAreApart'
  BY <1>1, <1>2, <1>4, <1>7 DEF ReadersAreApart
<1>10. PipeIsTheRest' /\ GotInOrder' /\ NothingOfLater'
  BY <1>1, <1>2, <1>6 DEF PipeIsTheRest, GotInOrder, NothingOfLater
<1>11. ASSUME Steadily, NothingLeft
       PROVE  NothingLeft'
  <2>1. \A r \in readers' : OfTheCommand(r)'
    BY <1>1, <1>4, <1>7 DEF OfTheCommand
  <2>2. \A r \in readers' : OnlyAtTheEnd(r)'
    BY <1>1, <1>4, <1>11 DEF NothingLeft, OnlyAtTheEnd
  <2> QED BY <1>1, <1>11, <2>1, <2>2 DEF NothingLeft
<1>12. (\A r \in readers : TookInOrder(r))'
  BY <1>8
<1> QED BY <1>5, <1>9, <1>10, <1>11, <1>12 DEF ShellInv, ShellInOrder

(* A goroutine is back with the next pieces, whichever round it is of. *)
LEMMA PiecesAreRead ==
  ASSUME Shell!SessionAssumption, ShellInv, UNCHANGED Steadily, NEW r \in readers, Shell!Read(r)
  PROVE  ShellInv'
<1> DEFINE n == Shell!Taken
           full == [r EXCEPT !.back = TRUE, !.took = SubSeq(pipe, 1, n)]
<1>1. /\ ~r.back /\ (Len(pipe) > 0 \/ ended)
      /\ readers' = (readers \ {r}) \cup {full}
      /\ pipe' = SubSeq(pipe, n + 1, Len(pipe))
      /\ UNCHANGED <<at, cmd, inbox, printed, ended, round, got>>
  <2>1. ~r.back /\ (pipe # <<>> \/ ended)
    BY DEF Shell!Read
  <2>2. pipe # <<>> => Len(pipe) > 0
    BY DEF ShellInv, ShellInOrder, ShellShape
  <2> QED BY <2>1, <2>2 DEF Shell!Read
<1>2. ShellShape /\ PipeIsTheRest /\ (\A q \in readers : TookInOrder(q)) /\ ReadersAreApart /\ GotInOrder /\ NothingOfLater
  BY DEF ShellInv, ShellInOrder
<1>3. /\ pipe \in Seq(Nat) /\ Len(pipe) \in Nat /\ Len(printed) \in Nat /\ round \in Nat /\ r \in Reader /\ NCmds \in Nat
      /\ printed \in Seq(0..NCmds) /\ Len(got) \in Nat
  BY <1>2, ElementsAreIn, Zenon DEF ShellShape
<1>4. n \in 0..Len(pipe) /\ (Len(pipe) > 0 => n > 0)
  BY <1>3 DEF Shell!Taken, Shell!SessionAssumption
<1> HIDE DEF n
<1>5. /\ SubSeq(pipe, 1, n) \in Seq(Nat) /\ Len(SubSeq(pipe, 1, n)) = n
      /\ \A i \in 1..n : SubSeq(pipe, 1, n)[i] = pipe[i]
      /\ pipe' \in Seq(Nat) /\ Len(pipe') = Len(pipe) - n
      /\ \A i \in 1..(Len(pipe) - n) : pipe'[i] = pipe[n + i]
  BY <1>1, <1>3, <1>4, Cutting
<1>6. full \in Reader /\ full.round = r.round /\ full.back = TRUE /\ full.took = SubSeq(pipe, 1, n)
  BY <1>3, <1>5 DEF Reader
<1> HIDE DEF full
<1>7. Handed \in Nat /\ Handed' = Handed + n /\ Len(pipe) <= Len(printed)
  <2>1. Len(printed') = Len(printed) /\ Len(pipe') = Len(pipe) - n /\ n \in Nat
    BY <1>1, <1>3, <1>4, <1>5
  <2>2. Len(pipe) <= Len(printed)
    BY <1>2 DEF PipeIsTheRest
  <2> QED BY <1>3, <2>1, <2>2 DEF Handed
<1>8. Len(full.took) = n /\ \A i \in 1..n : full.took[i] = Handed + i
  BY <1>2, <1>3, <1>4, <1>5, <1>6 DEF PipeIsTheRest
<1>9. ShellShape'
  <2>1. readers' \subseteq Reader
    BY <1>1, <1>2, <1>6 DEF ShellShape
  <2> QED BY <1>1, <1>2, <1>5, <2>1, Zenon DEF ShellShape
<1>10. PipeIsTheRest'
  <2>1. Len(pipe') <= Len(printed') /\ Len(pipe') = Len(pipe) - n
    <3>1. Len(printed') = Len(printed) /\ Len(pipe') = Len(pipe) - n /\ n \in Nat
      BY <1>1, <1>3, <1>4, <1>5
    <3> QED BY <1>3, <1>7, <3>1
  <2>2. ASSUME NEW i \in 1..Len(pipe')
        PROVE  pipe'[i] = Handed' + i
    <3>1. n + i \in 1..Len(pipe) /\ pipe'[i] = pipe[n + i]
      <4>1. n \in Nat /\ Len(pipe) \in Nat
        BY <1>3, <1>4
      <4>2. i \in 1..Len(pipe) - n
        BY <1>5
      <4>3. n + i \in 1..Len(pipe)
        BY <4>1, <4>2
      <4> QED BY <1>5, <4>2, <4>3
    <3>2. pipe[n + i] = Handed + (n + i)
      BY <1>2, <3>1 DEF PipeIsTheRest
    <3> QED BY <1>3, <1>4, <1>7, <3>1, <3>2
  <2> QED BY <2>1, <2>2 DEF PipeIsTheRest
<1>11. ASSUME NEW q \in readers'
       PROVE  TookInOrder(q)'
  <2>1. CASE q = full
    <3>1. q.round \in 1..round /\ UNCHANGED <<round, got>>
      BY <1>1, <1>2, <1>6, <2>1 DEF TookInOrder
    <3>0. n \in Nat /\ Handed \in Nat /\ Handed' = Handed + n /\ \A i \in 1..n : q.took[i] = Handed + i
      BY <1>3, <1>4, <1>7, <1>8, <2>1
    <3>2. \A i \in 1..n : q.took[i] \in 1..Handed'
      <4> SUFFICES ASSUME NEW i \in 1..n
                   PROVE  q.took[i] \in 1..Handed'
        OBVIOUS
      <4> QED BY <3>0
    <3>3. \A i, k \in 1..n : i < k => q.took[i] < q.took[k]
      BY <3>0
    <3>4. \A i \in 1..Len(got), k \in 1..n : got[i][2] < q.took[k]
      <4>1. \A i \in 1..Len(got) : got[i][2] \in 1..Handed
        BY <1>2 DEF GotInOrder
      <4> SUFFICES ASSUME NEW i \in 1..Len(got), NEW k \in 1..n
                   PROVE  got[i][2] < q.took[k]
        OBVIOUS
      <4>2. q.took[k] = Handed + k /\ got[i][2] \in 1..Handed
        BY <3>0, <4>1
      <4> HIDE DEF Handed
      <4> QED BY <3>0, <4>2
    <3> QED BY <1>8, <2>1, <3>1, <3>2, <3>3, <3>4 DEF TookInOrder
  <2>2. CASE q \in readers
    <3>1. TookInOrder(q) /\ 1..Handed \subseteq 1..Handed'
      BY <1>2, <1>3, <1>4, <1>7, <2>2
    <3> QED BY <1>1, <3>1 DEF TookInOrder
  <2> QED BY <1>1, <2>1, <2>2
<1>12. ReadersAreApart'
  BY <1>1, <1>2, <1>6 DEF ReadersAreApart
<1>13. GotInOrder'
  <2>1. 1..Handed \subseteq 1..Handed'
    BY <1>3, <1>4, <1>7
  <2> QED BY <1>1, <1>2, <2>1 DEF GotInOrder
<1>14. NothingOfLater'
  BY <1>1, <1>2 DEF NothingOfLater
<1>15. ASSUME Steadily, NothingLeft
       PROVE  NothingLeft'
  <2>1. \A i \in 1..Len(pipe') : printed'[pipe'[i]] = cmd'
    <3>1. \A i \in 1..Len(pipe') : n + i \in 1..Len(pipe) /\ pipe'[i] = pipe[n + i]
      BY <1>3, <1>4, <1>5
    <3> QED BY <1>1, <1>15, <3>1 DEF NothingLeft
  <2>2. ASSUME at = "wait", NEW q \in readers'
        PROVE  OfTheCommand(q)'
    <3>1. CASE q = full
      <4>1. \A i \in 1..n : full.took[i] = pipe[i] /\ i \in 1..Len(pipe)
        BY <1>3, <1>4, <1>5, <1>6
      <4>2. \A i \in 1..n : printed[full.took[i]] = cmd
        BY <1>15, <4>1 DEF NothingLeft
      <4> QED BY <1>1, <1>8, <3>1, <4>2 DEF OfTheCommand
    <3>2. CASE q \in readers
      BY <1>1, <1>15, <2>2, <3>2 DEF NothingLeft, OfTheCommand
    <3> QED BY <1>1, <3>1, <3>2
  <2>3. ASSUME NEW q \in readers', q.back, Len(q.took) = 0
        PROVE  ended' /\ Len(pipe') = 0
    <3>1. CASE q = full
      BY <1>1, <1>3, <1>4, <1>5, <1>8, <2>3, <3>1
    <3>2. CASE q \in readers
      <4>1. ended /\ Len(pipe) = 0
        BY <1>15, <2>3, <3>2 DEF NothingLeft, OnlyAtTheEnd
      <4> QED BY <1>1, <1>4, <1>5, <4>1
    <3> QED BY <1>1, <3>1, <3>2
  <2>4. at \in {"write", "closed"} => Len(pipe') = 0
    BY <1>3, <1>4, <1>5, <1>15 DEF NothingLeft
  <2> QED BY <1>1, <1>15, <2>1, <2>2, <2>3, <2>4 DEF NothingLeft, OnlyAtTheEnd
<1>16. (\A q \in readers : TookInOrder(q))'
  BY <1>11
<1> QED BY <1>9, <1>10, <1>12, <1>13, <1>14, <1>15, <1>16 DEF ShellInv, ShellInOrder

(* The goroutine of this round is back: what it took is returned. *)
LEMMA RoundsEnd ==
  ASSUME ShellInv, UNCHANGED Steadily, Shell!ReadDone
  PROVE  ShellInv'
<1>1. PICK r \in readers :
        /\ r.round = round /\ r.back /\ at = "wait"
        /\ got' = got \o [i \in 1..Len(r.took) |-> <<cmd, r.took[i]>>]
        /\ readers' = readers \ {r}
        /\ at' = IF r.took = <<>> THEN "write" ELSE "start"
        /\ UNCHANGED <<cmd, inbox, printed, pipe, ended, round>>
  BY DEF Shell!ReadDone, Shell!Current
<1>2. ShellShape /\ PipeIsTheRest /\ (\A q \in readers : TookInOrder(q)) /\ ReadersAreApart /\ GotInOrder /\ NothingOfLater
  BY DEF ShellInv, ShellInOrder
<1> DEFINE n == Len(r.took)
           new == [i \in 1..n |-> <<cmd, r.took[i]>>]
           Pairs == (0..NCmds) \X Nat
<1>3. /\ r \in Reader /\ NCmds \in Nat /\ cmd \in 0..NCmds /\ got \in Seq(Pairs) /\ round \in Nat
      /\ printed \in Seq(0..NCmds) /\ Len(printed) \in Nat /\ Len(got) \in Nat /\ Len(pipe) \in Nat
  BY <1>2, ElementsAreIn, Zenon DEF ShellShape
<1>4. r.took \in Seq(Nat) /\ n \in Nat /\ \A i \in 1..n : r.took[i] \in Nat
  <2>1. r.took \in Seq(Nat)
    BY <1>3 DEF Reader
  <2> QED BY <2>1, ElementsAreIn
<1>5. new \in [1..n -> Pairs] /\ \A i \in 1..n : new[i][1] = cmd /\ new[i][2] = r.took[i]
  BY <1>3, <1>4
<1>6. /\ got' \in Seq(Pairs) /\ Len(got') = Len(got) + n
      /\ \A i \in 1..Len(got) : got'[i] = got[i]
      /\ \A i \in (Len(got) + 1)..(Len(got) + n) : got'[i] = new[i - Len(got)]
  <2> HIDE DEF n, new, Pairs
  <2>1. got' = got \o new
    BY <1>1 DEF n, new
  <2> QED BY <1>3, <1>4, <1>5, <2>1, Joining
<1> HIDE DEF n, new
<1>7. ASSUME NEW i \in 1..Len(got')
      PROVE  \/ i \in 1..Len(got) /\ got'[i] = got[i]
             \/ /\ i - Len(got) \in 1..n /\ i \in (Len(got) + 1)..(Len(got) + n)
                /\ got'[i][1] = cmd /\ got'[i][2] = r.took[i - Len(got)]
  <2>1. CASE i <= Len(got)
    <3>1. i \in 1..Len(got)
      BY <1>3, <1>4, <1>6, <2>1
    <3> QED BY <1>6, <3>1
  <2>2. CASE ~(i <= Len(got))
    <3>1. i - Len(got) \in 1..n /\ i \in (Len(got) + 1)..(Len(got) + n)
      BY <1>3, <1>4, <1>6, <2>2
    <3>2. got'[i] = new[i - Len(got)]
      BY <1>6, <3>1
    <3> QED BY <1>5, <3>1, <3>2
  <2> QED BY <2>1, <2>2
<1>8. TookInOrder(r) /\ Handed' = Handed /\ Handed \in Nat
  BY <1>1, <1>2, <1>3 DEF Handed, PipeIsTheRest
<1>9. /\ \A k \in 1..n : r.took[k] \in 1..Handed
      /\ \A i, k \in 1..n : i < k => r.took[i] < r.took[k]
      /\ \A i \in 1..Len(got), k \in 1..n : got[i][2] < r.took[k]
  BY <1>1, <1>8 DEF TookInOrder, n
<1>10. ShellShape'
  <2>1. at' \in {"write", "start", "wait", "closed"}
    BY <1>1
  <2>2. readers' \subseteq Reader
    BY <1>1, <1>2 DEF ShellShape
  <2>3. got' \in Seq((0..NCmds) \X Nat)
    BY <1>6
  <2> QED BY <1>1, <1>2, <2>1, <2>2, <2>3, Zenon DEF ShellShape
<1>11. PipeIsTheRest' /\ ReadersAreApart'
  BY <1>1, <1>2, <1>8 DEF PipeIsTheRest, ReadersAreApart
<1>12. ASSUME NEW q \in readers'
       PROVE  TookInOrder(q)'
  <2>1. TookInOrder(q) /\ q.round # round /\ UNCHANGED round
    BY <1>1, <1>2 DEF ReadersAreApart
  <2> QED BY <1>8, <2>1 DEF TookInOrder
<1>13. GotInOrder'
  <2>1. \A i \in 1..Len(got') : got'[i][2] \in 1..Handed'
    BY <1>2, <1>7, <1>8, <1>9 DEF GotInOrder
  <2>2. ASSUME NEW i \in 1..Len(got'), NEW k \in 1..Len(got'), i < k
        PROVE  got'[i][2] < got'[k][2]
    <3>1. CASE k \in 1..Len(got)
      <4>1. i \in 1..Len(got)
        BY <1>3, <2>2, <3>1
      <4>2. got'[i] = got[i] /\ got'[k] = got[k]
        BY <1>6, <3>1, <4>1
      <4> QED BY <1>2, <2>2, <3>1, <4>1, <4>2 DEF GotInOrder
    <3>2. CASE k \notin 1..Len(got)
      <4>1. k - Len(got) \in 1..n /\ got'[k][2] = r.took[k - Len(got)]
        BY <1>7, <3>2
      <4>2. CASE i \in 1..Len(got)
        <5>1. got'[i] = got[i]
          BY <1>6, <4>2
        <5> QED BY <1>9, <4>1, <4>2, <5>1
      <4>3. CASE i \notin 1..Len(got)
        <5>1. i - Len(got) \in 1..n /\ got'[i][2] = r.took[i - Len(got)]
          BY <1>7, <4>3
        <5>2. i - Len(got) < k - Len(got)
          BY <1>3, <1>4, <1>6, <2>2
        <5> QED BY <1>9, <4>1, <5>1, <5>2
      <4> QED BY <4>2, <4>3
    <3> QED BY <3>1, <3>2
  <2> QED BY <2>1, <2>2 DEF GotInOrder
<1>14. NothingOfLater'
  <2>1. \A e \in 1..Handed : e \in 1..Len(printed)
    BY <1>2, <1>3 DEF Handed, PipeIsTheRest
  <2>2. ASSUME NEW i \in 1..Len(got')
        PROVE  printed[got'[i][2]] <= got'[i][1]
    BY <1>2, <1>7, <1>9, <2>1 DEF NothingOfLater
  <2> QED BY <1>1, <1>2, <2>2 DEF NothingOfLater
<1>15. ASSUME Steadily, NothingLeft
       PROVE  NothingLeft'
  <2>1. \A i \in 1..n : printed[r.took[i]] = cmd
    BY <1>1, <1>15 DEF NothingLeft, OfTheCommand, n
  <2>2. \A i \in 1..Len(got') : printed[got'[i][2]] = got'[i][1]
    BY <1>7, <1>15, <2>1 DEF NothingLeft
  <2>3. at' # "wait" /\ (at' \in {"write", "closed"} => ended /\ Len(pipe) = 0)
    <3>1. at' = "write" => Len(r.took) = 0
      BY <1>1
    <3> QED BY <1>1, <1>15, <3>1 DEF NothingLeft, OnlyAtTheEnd
  <2>4. \A q \in readers' : OnlyAtTheEnd(q)'
    BY <1>1, <1>15 DEF NothingLeft, OnlyAtTheEnd
  <2> QED BY <1>1, <1>15, <2>2, <2>3, <2>4 DEF NothingLeft
<1>16. (\A q \in readers : TookInOrder(q))'
  BY <1>12
<1> QED BY <1>10, <1>11, <1>13, <1>14, <1>15, <1>16 DEF ShellInv, ShellInOrder

LEMMA ShellStays ==
  Shell!SessionAssumption /\ ShellInv /\ [Shell!Next]_(Shell!vars) /\ UNCHANGED Steadily => ShellInv'
<1> SUFFICES ASSUME Shell!SessionAssumption, ShellInv, [Shell!Next]_(Shell!vars), UNCHANGED Steadily
             PROVE  ShellInv'
  OBVIOUS
<1>1. ShellShape /\ NothingOfLater /\ (Steadily => NothingLeft)
  BY DEF ShellInv, ShellInOrder
<1>2. /\ NCmds \in Nat /\ cmd \in 0..NCmds /\ inbox \in Seq(0..NCmds) /\ Len(inbox) \in Nat
      /\ \A i \in 1..Len(inbox) : inbox[i] <= cmd
  BY <1>1, ElementsAreIn, Zenon DEF ShellShape, NothingOfLater
<1>3. Shell!Answer => ShellInv'
  <2> SUFFICES ASSUME Shell!Answer
               PROVE  ShellInv'
    OBVIOUS
  <2>1. ~ended /\ inbox # <<>> /\ UNCHANGED <<at, cmd, ended, readers, round, got>>
    BY DEF Shell!Answer
  <2>2. Len(inbox) > 0
    BY <1>2, <2>1
  <2>3. CASE printed' = Append(printed, Head(inbox)) /\ pipe' = Append(pipe, Len(printed')) /\ UNCHANGED inbox
    BY <2>1, <2>2, <2>3, DevicePrints
  <2>4. CASE inbox' = Tail(inbox) /\ UNCHANGED <<printed, pipe>>
    <3>1. /\ inbox' \in Seq(0..NCmds) /\ Len(inbox') = Len(inbox) - 1
          /\ \A i \in 1..Len(inbox') : inbox'[i] = inbox[i + 1] /\ i + 1 \in 1..Len(inbox)
      BY <1>2, <2>2, <2>4, First
    <3>2. ShellShape'
      BY <1>1, <2>1, <2>4, <3>1, Zenon DEF ShellShape
    <3>3. \A i \in 1..Len(inbox') : inbox'[i] <= cmd'
      BY <1>2, <2>1, <3>1
    <3>4. Steadily /\ NothingLeft =>
            /\ \A i \in 1..Len(inbox') : inbox'[i] = cmd'
            /\ at' \notin {"write", "closed"}
      <4>1. NothingLeft => /\ \A i \in 1..Len(inbox) : inbox[i] = cmd
                           /\ at \in {"write", "closed"} => Len(inbox) = 0
        BY <2>1 DEF NothingLeft
      <4> QED BY <2>1, <2>2, <3>1, <4>1
    <3>5. cmd <= cmd'
      BY <1>2, <2>1
    <3> QED BY <2>1, <2>4, <3>2, <3>3, <3>4, <3>5, NothingIsRead
  <2> QED BY <2>3, <2>4 DEF Shell!Answer
<1>4. Shell!WriteLine => ShellInv'
  <2> SUFFICES ASSUME Shell!WriteLine
               PROVE  ShellInv'
    OBVIOUS
  <2>1. /\ at = "write" /\ at' = "start" /\ cmd < NCmds /\ cmd' = cmd + 1 /\ inbox' = Append(inbox, cmd + 1)
        /\ UNCHANGED <<printed, pipe, ended, readers, round, got>>
    BY DEF Shell!WriteLine
  <2>2. cmd' \in 0..NCmds /\ cmd <= cmd'
    BY <1>2, <2>1
  <2>3. /\ inbox' \in Seq(0..NCmds) /\ Len(inbox') = Len(inbox) + 1 /\ inbox'[Len(inbox) + 1] = cmd'
        /\ \A i \in 1..Len(inbox) : inbox'[i] = inbox[i]
    BY <1>2, <2>1, <2>2, Appending
  <2>4. ShellShape'
    BY <1>1, <2>1, <2>2, <2>3 DEF ShellShape
  <2>5. \A i \in 1..Len(inbox') : inbox'[i] <= cmd'
    <3>1. \A i \in 1..Len(inbox) : inbox[i] \in 0..NCmds
      BY <1>2, ElementsAreIn
    <3> QED BY <1>2, <2>1, <2>2, <2>3, <3>1
  <2>6. Steadily /\ NothingLeft =>
          /\ Len(pipe) = 0
          /\ ~ended => \A i \in 1..Len(inbox') : inbox'[i] = cmd'
    BY <1>2, <2>1, <2>3 DEF NothingLeft
  <2> QED BY <2>1, <2>2, <2>4, <2>5, <2>6, NothingIsRead
<1>5. Shell!HangUp => ShellInv'
  <2> SUFFICES ASSUME Shell!HangUp
               PROVE  ShellInv'
    OBVIOUS
  <2>1. ended' = TRUE /\ UNCHANGED <<at, cmd, inbox, printed, pipe, readers, round, got>>
    BY DEF Shell!HangUp
  <2>2. ShellShape' /\ cmd <= cmd'
    BY <1>1, <1>2, <2>1 DEF ShellShape
  <2> QED BY <1>2, <2>1, <2>2, NothingIsRead DEF NothingLeft
<1>6. Shell!Idle => ShellInv'
  <2> SUFFICES ASSUME Shell!Idle
               PROVE  ShellInv'
    OBVIOUS
  <2>1. /\ at = "wait" /\ at' = "write" /\ (Steadily => inbox = <<>> /\ pipe = <<>>)
        /\ UNCHANGED <<cmd, inbox, printed, pipe, ended, readers, round, got>>
    BY DEF Shell!Idle, Shell!Quiet
  <2>2. ShellShape' /\ cmd <= cmd'
    BY <1>1, <1>2, <2>1 DEF ShellShape
  <2>3. Steadily => Len(inbox) = 0 /\ Len(pipe) = 0
    BY <2>1
  <2> QED BY <1>2, <2>1, <2>2, <2>3, NothingIsRead DEF NothingLeft
<1>7. Shell!Close => ShellInv'
  <2> SUFFICES ASSUME Shell!Close
               PROVE  ShellInv'
    OBVIOUS
  <2>1. at = "write" /\ at' = "closed" /\ ended' = TRUE /\ UNCHANGED <<cmd, inbox, printed, pipe, readers, round, got>>
    BY DEF Shell!Close
  <2>2. ShellShape' /\ cmd <= cmd'
    BY <1>1, <1>2, <2>1 DEF ShellShape
  <2> QED BY <1>2, <2>1, <2>2, NothingIsRead DEF NothingLeft
<1>8. (\E r \in readers : Shell!Drop(r)) \/ UNCHANGED Shell!vars => ShellInv'
  <2> SUFFICES ASSUME (\E r \in readers : Shell!Drop(r)) \/ UNCHANGED Shell!vars
               PROVE  ShellInv'
    OBVIOUS
  <2>1. readers' \subseteq readers /\ UNCHANGED <<at, cmd, inbox, printed, pipe, ended, round, got>>
    BY DEF Shell!Drop, Shell!vars
  <2>2. ShellShape' /\ cmd <= cmd'
    BY <1>1, <1>2, <2>1 DEF ShellShape
  <2> QED BY <1>2, <2>1, <2>2, NothingIsRead DEF NothingLeft
<1> QED BY <1>3, <1>4, <1>5, <1>6, <1>7, <1>8, RoundsBegin, PiecesAreRead, RoundsEnd DEF Shell!Next

LEMMA ShellSays == Shell!SessionAssumption /\ ShellInv => OutputIsOfTheCommand
<1> SUFFICES ASSUME ShellInv
             PROVE  OutputIsOfTheCommand
  OBVIOUS
<1>1. /\ ShellShape /\ PipeIsTheRest /\ (\A r \in readers : TookInOrder(r)) /\ GotInOrder /\ NothingOfLater
      /\ Steadily => NothingLeft
  BY DEF ShellInv, ShellInOrder
<1>2. /\ Len(printed) \in Nat /\ Len(pipe) \in Nat /\ Len(got) \in Nat /\ Len(pipe) <= Len(printed)
      /\ DOMAIN printed = 1..Len(printed) /\ DOMAIN pipe = 1..Len(pipe) /\ DOMAIN got = 1..Len(got)
      /\ got \in Seq((0..NCmds) \X Nat)
  <2>1. printed \in Seq(0..NCmds) /\ pipe \in Seq(Nat) /\ got \in Seq((0..NCmds) \X Nat)
    BY <1>1, Zenon DEF ShellShape
  <2> QED BY <1>1, <2>1 DEF PipeIsTheRest
<1>3. 1..Handed \subseteq 1..Len(printed) /\ \A i \in 1..Len(pipe) : Handed + i \in 1..Len(printed)
  BY <1>2 DEF Handed
<1>4. Shell!OutputInOrder
  BY <1>1, <1>2 DEF Shell!OutputInOrder, GotInOrder, NothingOfLater
<1>5. Shell!OwnOutputOnly
  BY <1>1, <1>2 DEF Shell!OwnOutputOnly, NothingLeft
<1>6. Shell!TypeOK
  <2>1. \A i \in DOMAIN pipe : pipe[i] \in DOMAIN printed
    BY <1>1, <1>2, <1>3 DEF PipeIsTheRest
  <2>2. \A r \in readers : r.round \in 1..round /\ \A i \in DOMAIN r.took : r.took[i] \in DOMAIN printed
    <3> SUFFICES ASSUME NEW r \in readers
                 PROVE  r.round \in 1..round /\ \A i \in DOMAIN r.took : r.took[i] \in DOMAIN printed
      OBVIOUS
    <3>1. r.took \in Seq(Nat)
      BY <1>1 DEF ShellShape, Reader
    <3>2. DOMAIN r.took = 1..Len(r.took)
      BY <3>1
    <3> QED BY <1>1, <1>2, <1>3, <3>2 DEF TookInOrder
  <2>3. \A i \in DOMAIN got : got[i][1] \in 0..NCmds /\ got[i][2] \in DOMAIN printed
    <3>1. \A i \in 1..Len(got) : got[i] \in (0..NCmds) \X Nat
      BY <1>2, ElementsAreIn
    <3> QED BY <1>1, <1>2, <1>3, <3>1 DEF GotInOrder
  <2> QED BY <1>1, <2>1, <2>2, <2>3, SteadyOrNot, Zenon DEF Shell!TypeOK, Shell!Cmd, ShellShape
<1> QED BY <1>4, <1>5, <1>6 DEF OutputIsOfTheCommand

-----------------------------------------------------------------------------
(* MCOperations: the monitor and the work on devices, each by its own steps. *)
(* A store that answers is one of the stores there may be. *)
LEMMA ReliableToo == TypeOK /\ Reliable!Next => Unbounded
<1> SUFFICES ASSUME TypeOK, Reliable!Next PROVE Unbounded
  OBVIOUS
<1>1. Reliable!Loop => Loop
  <2>1. Reliable!GetConfig => GetConfig
    BY DEF Reliable!GetConfig, GetConfig, settings, env, cycle, Reliable!settings, Reliable!env, Reliable!cycle
  <2>2. Reliable!ListDevices => ListDevices
    BY DEF Reliable!ListDevices, ListDevices, Reliable!Listed, Listed, settings, env, cycle, Reliable!settings,
       Reliable!env, Reliable!cycle, Reliable!NoResults, NoResults
  <2>3. /\ Reliable!Start => Start
        /\ Reliable!Idle => Idle
        /\ Reliable!Sleep => Sleep
    BY DEF Reliable!Start, Start, Reliable!Idle, Idle, Reliable!Sleep, Sleep, settings, env, cycle, Reliable!settings,
       Reliable!env, Reliable!cycle
  <2>4. \A d \in Devices : (Reliable!Acquire(d) => Acquire(d)) /\ (Reliable!Probe(d) => Probe(d))
    BY DEF Reliable!Acquire, Acquire, Reliable!Probe, Probe, Reliable!Waiting, Waiting, Reliable!Cardinality, Cardinality,
       settings, env, Reliable!settings, Reliable!env
  <2>5. /\ Reliable!Expire => Expire
        /\ Reliable!Merge => Merge
    BY DEF Reliable!Expire, Expire, Reliable!Merge, Merge, Reliable!Waiting, Waiting, Reliable!Cardinality, Cardinality,
       settings, env, cycle, Reliable!settings, Reliable!env, Reliable!cycle
  <2> QED BY <2>1, <2>2, <2>3, <2>4, <2>5, Zenon DEF Reliable!Loop, Loop
<1>2. Reliable!Environment => Changing
  BY DEF TypeOK, Reliable!Environment, Reliable!Change, Changing, settings, Reliable!settings
<1>3. \A s \in Savers : (Reliable!SaveConfig(s) => Saving(s)) /\ (Reliable!Wake(s) => Wake(s))
  BY DEF Reliable!SaveConfig, Saving, Reliable!Wake, Wake, env, cycle, Reliable!env, Reliable!cycle
<1> QED BY <1>1, <1>2, <1>3, Zenon DEF Reliable!Next, Unbounded

WorkInv == IInv /\ TriageInv /\ JobsInv /\ ShellInv

LEMMA WorkFirst == OperationsInit => WorkInv
<1>1. OperationsInit => Init /\ Global!Init /\ Tasks!Init /\ Shell!Init
  BY HandlersAreKinds, Zenon DEF OperationsInit
<1>2. Global!TriageAssumption /\ Tasks!JobsAssumption /\ Shell!SessionAssumption
  BY OperationsAreRight, Zenon
<1> QED BY <1>1, <1>2, InitHolds, TriageBegins, JobsBegin, ShellBegins DEF WorkInv

LEMMA WorkStep ==
  ASSUME WorkInv, [OperationsNext]_operationsVars
  PROVE  /\ UNCHANGED <<TriageByTurns, Handlers, Steadily>>
         /\ [Unbounded]_vars
         /\ [Global!Next]_(Global!vars) /\ [Tasks!Next]_(Tasks!vars) /\ [Shell!Next]_(Shell!vars)
<1>1. \/ UNCHANGED <<area, triageVars, jobVars, sessionVars>> /\ [Unbounded]_vars
      \/ UNCHANGED <<area, vars, jobVars, sessionVars>> /\ Global!Next
      \/ UNCHANGED <<area, vars, triageVars, sessionVars>> /\ Tasks!Next
      \/ UNCHANGED <<area, vars, triageVars, jobVars>> /\ Shell!Next
  <2>1. CASE Monitor
    <3>1. UNCHANGED <<area, workVars, tableVars>> /\ (Next \/ Reliable!Next)
      BY <2>1, Zenon DEF Monitor
    <3>2. Unbounded
      BY <3>1, BoundsOnlyForbid, ReliableToo DEF WorkInv, IInv
    <3> QED BY <3>1, <3>2 DEF workVars
  <2>2. CASE Work
    <3>1. /\ UNCHANGED <<area, vars, tableVars>>
          /\ \/ Global!Next /\ UNCHANGED <<jobVars, sessionVars, scanVars>>
             \/ Tasks!Next /\ UNCHANGED <<triageVars, sessionVars, scanVars>>
             \/ Shell!Next /\ UNCHANGED <<triageVars, jobVars, scanVars>>
             \/ UNCHANGED <<triageVars, jobVars, sessionVars>>
      BY <2>2, Zenon DEF Work
    <3> QED BY <3>1
  <2>3. CASE Tables
    <3>1. UNCHANGED <<area, vars, workVars>>
      BY <2>3, Zenon DEF Tables
    <3> QED BY <3>1 DEF workVars
  <2>4. CASE UNCHANGED operationsVars
    BY <2>4 DEF operationsVars, workVars
  <2> QED BY <2>1, <2>2, <2>3, <2>4 DEF OperationsNext
<1>2. UNCHANGED <<TriageByTurns, Handlers, Steadily>>
  BY <1>1, Zenon DEF TriageByTurns, Handlers, Steadily
<1>3. UNCHANGED triageVars => UNCHANGED Global!vars
  BY <1>2 DEF triageVars, Global!vars
<1>4. UNCHANGED jobVars => UNCHANGED Tasks!vars
  BY <1>2 DEF jobVars, Tasks!vars
<1>5. UNCHANGED sessionVars => UNCHANGED Shell!vars
  BY <1>2 DEF sessionVars, Shell!vars
<1> QED BY <1>1, <1>2, <1>3, <1>4, <1>5

LEMMA WorkStays == WorkInv /\ [OperationsNext]_operationsVars => WorkInv'
<1>1. Global!TriageAssumption /\ Tasks!JobsAssumption /\ Shell!SessionAssumption
  BY OperationsAreRight, Zenon
<1> QED BY <1>1, WorkStep, MonitorStays, TriageStays, JobsStay, ShellStays DEF WorkInv

LEMMA WorkInvariance == OperationsSpec => []WorkInv
BY WorkFirst, WorkStays, PTL DEF OperationsSpec

(***************************************************************************)
(* The run operations, for any devices, requests, hosts and commands: the  *)
(* triage record is idle when no batch is left, and by turns tells how far *)
(* the one batch is; the progress of a job is the hosts recorded, and one  *)
(* that says done has all and changes no more; commands return output in   *)
(* order, nothing twice and nothing of a later one, and of their own from  *)
(* a device that never pauses.                                             *)
(***************************************************************************)
THEOREM WorkIsRight == OperationsSpec => WorkIsTrue
<1>1. WorkInv => TypeOK /\ TriageIsTrue /\ JobsAreTrue /\ OutputIsOfTheCommand
  <2>1. Global!TriageAssumption /\ Tasks!JobsAssumption /\ Shell!SessionAssumption
    BY OperationsAreRight, Zenon
  <2> QED BY <2>1, TriageSays, JobsSay, ShellSays DEF WorkInv, IInv
<1>2. WorkInv /\ [OperationsNext]_operationsVars =>
        [\A j \in DOMAIN jobs : jobs[j].status = "done" => jobs'[j] = jobs[j]]_(Tasks!vars)
  <2>1. Tasks!JobsAssumption
    BY OperationsAreRight, Zenon
  <2> QED BY <2>1, WorkStep, DoneJobsRest DEF WorkInv
<1> QED BY <1>1, <1>2, WorkInvariance, PTL DEF OperationsSpec, WorkIsTrue, Tasks!DoneIsFinal

(***************************************************************************)
(* The run operations: settings saved are never slept over, also by a      *)
(* monitor whose store answers.                                            *)
(***************************************************************************)
THEOREM NoWakeIsLost == OperationsSpec => []NoLostWake
<1>1. WorkInv => NoLostWake
  BY DEF WorkInv, IInv
<1> QED BY <1>1, WorkInvariance, PTL

(***************************************************************************)
(* The run operations: a device that answers is up after the cycle, while  *)
(* fewer are silent than there are slots.                                  *)
(***************************************************************************)
THEOREM AnsweringIsShownUp == OperationsSpec => []AnsweringIsUp
<1>1. WorkInv => AnsweringIsUp
  BY DEF WorkInv, IInv, ShownIsUp, AnsweringIsUp
<1> QED BY <1>1, WorkInvariance, PTL

-----------------------------------------------------------------------------
(***************************************************************************)
(* MCCorrelation, for any events, flows and limits of the faulty           *)
(* correlator: each part keeps the inductive invariant of its component,   *)
(* proved there for all its constants, and leaves the other one alone.     *)
(***************************************************************************)
CorrelationInv ==
  /\ part \in {"timely", "faulty", "unordered", "cut", "ordered", "operated"}
  /\ part = "timely" => Timely!TypeOK /\ Timely!EmergeInv /\ Timely!PrunedInv /\ Timely!FreshInv
  /\ part = "faulty" => Faulty!TypeOK /\ Faulty!FreshInv
  /\ part = "unordered" => AnyOrder!IncidentsInv
  /\ part = "cut" => CutOff!IncidentsInv
  /\ part = "ordered" => InTime!IncidentsInv /\ InTime!OrderedInv
  /\ part = "operated" => Operated!IncidentsInv

LEMMA TimelyLimits ==
  /\ Timely!CorrelatorAssumption /\ Cardinality(Events) <= Cardinality(Events)
  /\ Lookback <= Lookback /\ \A s \in {1 - Lookback, 0} : s <= 0
<1>1. Timely!CorrelatorAssumption
  BY ConstantsAreRight
<1>2. IsFiniteSet(Events) /\ Lookback \in Nat \ {0}
  BY <1>1 DEF Timely!CorrelatorAssumption, Timely!IsFiniteSet, IsFiniteSet
<1> QED BY <1>1, <1>2, FS_CardinalityType

LEMMA CorrelationFirst == MCInit => CorrelationInv
<1> SUFFICES ASSUME MCInit PROVE CorrelationInv
  OBVIOUS
<1>1. part \in {"timely", "faulty", "unordered", "cut", "ordered", "operated"} /\ Faulty!Init
  BY DEF MCInit
<1>2. Timely!Init
  BY <1>1 DEF Faulty!Init, Timely!Init
<1>3. Faulty!TypeOK /\ Timely!TypeOK
  BY <1>1, <1>2, ConstantsAreRight, Faulty!TypesHoldFirst, Timely!TypesHoldFirst
<1>4. Timely!EmergeInv /\ Timely!PrunedInv /\ Timely!FreshInv /\ Faulty!FreshInv
  BY <1>1, <1>2, ConstantsAreRight, Timely!EmergingFirst, Timely!PrunedFirst, Timely!FreshFirst, Faulty!FreshFirst
<1>5. part # "operated" => AnyOrder!Init
  BY DEF MCInit
<1>6. AnyOrder!Init => CutOff!Init /\ InTime!Init
  BY DEF AnyOrder!Init, CutOff!Init, InTime!Init, AnyOrder!None, CutOff!None, InTime!None
<1>7. part # "operated" => AnyOrder!IncidentsInv
  BY <1>5, ConstantsAreRight, AnyOrder!IncidentsInvFirst
<1>8. part # "operated" => CutOff!IncidentsInv
  BY <1>5, <1>6, ConstantsAreRight, CutOff!IncidentsInvFirst
<1>9. part # "operated" => InTime!IncidentsInv /\ InTime!OrderedInv
  BY <1>5, <1>6, ConstantsAreRight, InTime!IncidentsInvFirst
<1>10. part = "operated" => Operated!IncidentsInv
  BY ConstantsAreRight, Operated!IncidentsInvFirst DEF MCInit
<1> QED BY <1>1, <1>3, <1>4, <1>7, <1>8, <1>9, <1>10 DEF CorrelationInv

(* A step is one of the part's, and the other component rests. *)
LEMMA PartsStep ==
  ASSUME [MCNext]_MCVars
  PROVE  /\ part' = part
         /\ part = "timely" => [Timely!Next]_(Timely!vars)
         /\ part = "faulty" => [Faulty!Next]_(Faulty!vars)
         /\ part = "unordered" => [AnyOrder!Next]_(AnyOrder!vars)
         /\ part = "cut" => [CutOff!Next]_(CutOff!vars)
         /\ part = "ordered" => [InTime!Next]_(InTime!vars)
         /\ part = "operated" => [Operated!Next]_(Operated!vars)
         /\ part \in {"timely", "faulty"} => UNCHANGED incidentVars
         /\ part \notin {"timely", "faulty"} => UNCHANGED correlatorVars
<1>1. CASE MCNext
  BY <1>1 DEF MCNext
<1>2. CASE UNCHANGED MCVars
  <2>1. UNCHANGED <<part, correlatorVars, incidentVars>>
    BY <1>2 DEF MCVars
  <2>2. UNCHANGED <<Timely!vars, Faulty!vars>>
    BY <2>1 DEF correlatorVars, Timely!vars, Timely!cycleVars, Faulty!vars, Faulty!cycleVars
  <2>3. UNCHANGED <<AnyOrder!vars, CutOff!vars>>
    BY <2>1 DEF incidentVars, AnyOrder!vars, AnyOrder!work, AnyOrder!bounds, CutOff!vars, CutOff!work, CutOff!bounds
  <2>4. UNCHANGED <<InTime!vars, Operated!vars>>
    BY <2>1 DEF incidentVars, InTime!vars, InTime!work, InTime!bounds, Operated!vars, Operated!work, Operated!bounds
  <2> QED BY <2>1, <2>2, <2>3, <2>4
<1> QED BY <1>1, <1>2

LEMMA CorrelationStays == CorrelationInv /\ [MCNext]_MCVars => CorrelationInv'
<1> SUFFICES ASSUME CorrelationInv, [MCNext]_MCVars PROVE CorrelationInv'
  OBVIOUS
<1>1. part' = part
  BY PartsStep
<1>2. part = "timely" => (Timely!TypeOK /\ Timely!EmergeInv /\ Timely!PrunedInv /\ Timely!FreshInv)'
  <2> SUFFICES ASSUME part = "timely"
               PROVE  (Timely!TypeOK /\ Timely!EmergeInv /\ Timely!PrunedInv /\ Timely!FreshInv)'
    OBVIOUS
  <2>1. /\ Timely!TypeOK /\ Timely!EmergeInv /\ Timely!PrunedInv /\ Timely!FreshInv
        /\ [Timely!Next]_(Timely!vars)
    BY PartsStep DEF CorrelationInv
  <2>2. Timely!TypeOK'
    BY <2>1, TimelyLimits, Timely!TypesAreKept
  <2>3. Timely!EmergeInv'
    BY <2>1, TimelyLimits, Timely!EmergingStays DEF Timely!Cardinality, Cardinality
  <2>4. Timely!PrunedInv'
    BY <2>1, TimelyLimits, Timely!PrunedStays
  <2>5. Timely!FreshInv'
    BY <2>1, TimelyLimits, Timely!FreshStays
  <2> QED BY <2>2, <2>3, <2>4, <2>5
<1>3. part = "faulty" => (Faulty!TypeOK /\ Faulty!FreshInv)'
  BY ConstantsAreRight, PartsStep, Faulty!TypesAreKept, Faulty!FreshStays DEF CorrelationInv
<1>4. part = "unordered" => AnyOrder!IncidentsInv'
  BY ConstantsAreRight, PartsStep, AnyOrder!IncidentsInvStays DEF CorrelationInv
<1>5. part = "cut" => CutOff!IncidentsInv'
  BY ConstantsAreRight, PartsStep, CutOff!IncidentsInvStays DEF CorrelationInv
<1>6. part = "ordered" => InTime!IncidentsInv'
  BY ConstantsAreRight, PartsStep, InTime!IncidentsInvStays DEF CorrelationInv
<1>7. part = "ordered" => InTime!OrderedInv'
  BY ConstantsAreRight, PartsStep, InTime!OrderedInvStays DEF CorrelationInv
<1>8. part = "operated" => Operated!IncidentsInv'
  BY ConstantsAreRight, PartsStep, Operated!IncidentsInvStays DEF CorrelationInv
<1> QED BY <1>1, <1>2, <1>3, <1>4, <1>5, <1>6, <1>7, <1>8 DEF CorrelationInv

(***************************************************************************)
(* If nothing is lost and no cycle is full, a severe event that the cycle  *)
(* after it looks back to is an anomaly soon and an event with a late flow *)
(* is correlated with it, and what was resolved and deleted stays away, if *)
(* no stamp is ahead; and an event with a stamp older than the lookback is *)
(* never an anomaly, also where queries fail and writes are lost.          *)
(***************************************************************************)
THEOREM AnomaliesEmerge == MCSpec => []EventsEmergeInTime
<1>1. CorrelationInv => EventsEmergeInTime
  <2>1. part = "timely" /\ CorrelationInv => Timely!HighSeverityEmerges /\ Timely!LateFlowIsCorrelated
    BY TimelyLimits, Timely!Emerged DEF CorrelationInv
  <2>2. part = "timely" /\ CorrelationInv => Timely!NoResurrection
    BY DEF CorrelationInv, Timely!PrunedInv
  <2>3. part = "timely" /\ CorrelationInv => Timely!StaleStampsAreMissed
    BY Timely!FreshOnly DEF CorrelationInv
  <2>4. part = "faulty" /\ CorrelationInv => Faulty!StaleStampsAreMissed
    BY Faulty!FreshOnly DEF CorrelationInv
  <2> QED BY <2>1, <2>2, <2>3, <2>4 DEF EventsEmergeInTime
<1> QED BY <1>1, CorrelationFirst, CorrelationStays, PTL DEF MCSpec

(***************************************************************************)
(* The totals, the span and the gaps of incidents are those of their       *)
(* evidence, but for the rows that groupings cut off did not count.        *)
(***************************************************************************)
THEOREM EvidenceIsFollowed == MCSpec => []IncidentsFollowEvidence
<1>1. CorrelationInv => IncidentsFollowEvidence
  <2> SUFFICES ASSUME CorrelationInv PROVE IncidentsFollowEvidence
    OBVIOUS
  <2>1. (part = "timely" => Timely!TypeOK) /\ (part = "faulty" => Faulty!TypeOK)
    BY DEF CorrelationInv
  <2>2. part = "unordered" => AnyOrder!FollowsEvidence
    BY ConstantsAreRight, AnyOrder!InvSays DEF CorrelationInv
  <2>3. part = "cut" => CutOff!FollowsEvidence
    BY ConstantsAreRight, CutOff!InvSays DEF CorrelationInv
  <2>4. part = "ordered" => InTime!FollowsEvidence
    BY ConstantsAreRight, InTime!InvSays DEF CorrelationInv
  <2>5. part = "ordered" => InTime!GapKept
    BY ConstantsAreRight, InTime!OrderSays DEF CorrelationInv
  <2>6. part = "operated" => Operated!FollowsEvidence
    BY ConstantsAreRight, Operated!InvSays DEF CorrelationInv
  <2> QED BY <2>1, <2>2, <2>3, <2>4, <2>5, <2>6 DEF IncidentsFollowEvidence
<1> QED BY <1>1, CorrelationFirst, CorrelationStays, PTL DEF MCSpec

(***************************************************************************)
(* Cause and conclusion of an incident follow the evidence that stands,    *)
(* unless no grouping came in time for a retraction, and one conclusion is *)
(* current, but for statements that failed.                                *)
(***************************************************************************)
THEOREM ConclusionsAreRight == MCSpec => []ConclusionsStand
<1>1. CorrelationInv => ConclusionsStand
  <2> SUFFICES ASSUME CorrelationInv PROVE ConclusionsStand
    OBVIOUS
  <2>1. part = "unordered" => AnyOrder!Concludes
    BY ConstantsAreRight, AnyOrder!InvSays DEF CorrelationInv
  <2>2. part = "cut" => CutOff!Concludes
    BY ConstantsAreRight, CutOff!InvSays DEF CorrelationInv
  <2>3. part = "ordered" => InTime!Concludes
    BY ConstantsAreRight, InTime!InvSays DEF CorrelationInv
  <2>4. part = "operated" => Operated!Concludes
    BY ConstantsAreRight, Operated!InvSays DEF CorrelationInv
  <2> QED BY <2>1, <2>2, <2>3, <2>4 DEF ConclusionsStand
<1> QED BY <1>1, CorrelationFirst, CorrelationStays, PTL DEF MCSpec

(* What every part's steps leave of anomalies, decisions and links. *)
LEMMA AnomaliesStand ==
  ASSUME CorrelationInv, [MCNext]_MCVars PROVE [\A k \in DOMAIN rows : Faulty!Stands(k)]_rows
<1>1. CASE part = "timely"
  <2>1. Timely!TypeOK /\ [Timely!Next]_(Timely!vars)
    BY <1>1, PartsStep DEF CorrelationInv
  <2>2. \A k \in DOMAIN rows : Timely!Stands(k)
    BY <2>1, Timely!StepsStand
  <2> QED BY <2>2 DEF Timely!Stands, Faulty!Stands, Timely!allowedTransitions, Faulty!allowedTransitions
<1>2. CASE part = "faulty"
  <2>1. Faulty!TypeOK /\ [Faulty!Next]_(Faulty!vars)
    BY <1>2, PartsStep DEF CorrelationInv
  <2> QED BY <2>1, Faulty!StepsStand
<1>3. CASE part \notin {"timely", "faulty"}
  <2>1. UNCHANGED correlatorVars
    BY <1>3, PartsStep
  <2> QED BY <2>1 DEF correlatorVars
<1> QED BY <1>1, <1>2, <1>3

(* A step of the incidents, of any part: all parts name the same rows. *)
IncidentStep == [AnyOrder!LinksStay /\ AnyOrder!StatusMoves]_(AnyOrder!vars)

LEMMA IncidentsStand == ASSUME CorrelationInv, [MCNext]_MCVars PROVE IncidentStep
<1>1. CASE part \in {"timely", "faulty"}
  <2>1. UNCHANGED incidentVars
    BY <1>1, PartsStep
  <2>2. UNCHANGED AnyOrder!vars
    BY <2>1 DEF incidentVars, AnyOrder!vars, AnyOrder!work, AnyOrder!bounds
  <2> QED BY <2>2 DEF IncidentStep
<1>2. CASE part = "unordered"
  BY <1>2, ConstantsAreRight, PartsStep, AnyOrder!StepsSay DEF CorrelationInv, IncidentStep
<1>3. CASE part = "cut"
  <2>1. [CutOff!LinksStay /\ CutOff!StatusMoves]_(CutOff!vars)
    BY <1>3, ConstantsAreRight, PartsStep, CutOff!StepsSay DEF CorrelationInv
  <2>2. UNCHANGED CutOff!vars => UNCHANGED AnyOrder!vars
    BY DEF AnyOrder!vars, AnyOrder!work, AnyOrder!bounds, CutOff!vars, CutOff!work, CutOff!bounds
  <2>3. CutOff!LinksStay => AnyOrder!LinksStay
    BY DEF CutOff!LinksStay, AnyOrder!LinksStay
  <2>4. CutOff!StatusMoves => AnyOrder!StatusMoves
    BY DEF CutOff!StatusMoves, AnyOrder!StatusMoves, CutOff!allowedTransitions, AnyOrder!allowedTransitions
  <2> QED BY <2>1, <2>2, <2>3, <2>4 DEF IncidentStep
<1>4. CASE part = "ordered"
  <2>1. [InTime!LinksStay /\ InTime!StatusMoves]_(InTime!vars)
    BY <1>4, ConstantsAreRight, PartsStep, InTime!StepsSay DEF CorrelationInv
  <2>2. UNCHANGED InTime!vars => UNCHANGED AnyOrder!vars
    BY DEF AnyOrder!vars, AnyOrder!work, AnyOrder!bounds, InTime!vars, InTime!work, InTime!bounds
  <2>3. InTime!LinksStay => AnyOrder!LinksStay
    BY DEF InTime!LinksStay, AnyOrder!LinksStay
  <2>4. InTime!StatusMoves => AnyOrder!StatusMoves
    BY DEF InTime!StatusMoves, AnyOrder!StatusMoves, InTime!allowedTransitions, AnyOrder!allowedTransitions
  <2> QED BY <2>1, <2>2, <2>3, <2>4 DEF IncidentStep
<1>5. CASE part = "operated"
  <2>1. [Operated!LinksStay /\ Operated!StatusMoves]_(Operated!vars)
    BY <1>5, ConstantsAreRight, PartsStep, Operated!StepsSay DEF CorrelationInv
  <2>2. UNCHANGED Operated!vars => UNCHANGED AnyOrder!vars
    BY DEF AnyOrder!vars, AnyOrder!work, AnyOrder!bounds, Operated!vars, Operated!work, Operated!bounds
  <2>3. Operated!LinksStay => AnyOrder!LinksStay
    BY DEF Operated!LinksStay, AnyOrder!LinksStay
  <2>4. Operated!StatusMoves => AnyOrder!StatusMoves
    BY DEF Operated!StatusMoves, AnyOrder!StatusMoves, Operated!allowedTransitions, AnyOrder!allowedTransitions
  <2> QED BY <2>1, <2>2, <2>3, <2>4 DEF IncidentStep
<1> QED BY <1>1, <1>2, <1>3, <1>4, <1>5 DEF CorrelationInv

(***************************************************************************)
(* What an operator decided is never undone, only resolved anomalies are   *)
(* deleted, and evidence once linked stays, in every part.                 *)
(***************************************************************************)
THEOREM DecisionsAreKept == MCSpec => NothingIsUndone
<1>1. CorrelationInv /\ [MCNext]_MCVars => [\A k \in DOMAIN rows : Faulty!Stands(k)]_rows
  BY AnomaliesStand
<1>2. CorrelationInv /\ [MCNext]_MCVars => [AnyOrder!LinksStay]_(AnyOrder!vars)
  BY IncidentsStand DEF IncidentStep
<1>3. CorrelationInv /\ [MCNext]_MCVars => [Operated!StatusMoves]_(Operated!vars)
  <2>1. UNCHANGED AnyOrder!vars => UNCHANGED Operated!vars
    BY DEF AnyOrder!vars, AnyOrder!work, AnyOrder!bounds, Operated!vars, Operated!work, Operated!bounds
  <2>2. AnyOrder!StatusMoves => Operated!StatusMoves
    BY DEF Operated!StatusMoves, AnyOrder!StatusMoves, Operated!allowedTransitions, AnyOrder!allowedTransitions
  <2> QED BY <2>1, <2>2, IncidentsStand DEF IncidentStep
<1> QED BY <1>1, <1>2, <1>3, CorrelationFirst, CorrelationStays, PTL
        DEF MCSpec, NothingIsUndone, Faulty!DecisionsStand, Faulty!Stands, AnyOrder!LinkedForGood, Operated!DecisionsStand
=============================================================================
