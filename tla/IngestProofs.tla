------------------------------ MODULE IngestProofs ------------------------------
(***************************************************************************)
(* Proofs about the stages of the UDP ingestion, for any number of         *)
(* consumers, addresses, tenants, datagrams, templates and data sets and   *)
(* any ttl, queue, cache and interval, and then about the stages side by   *)
(* side as MCIngest has them.                                              *)
(***************************************************************************)
EXTENDS MCIngest, FiniteSetTheorems, TLAPS

-----------------------------------------------------------------------------
(***************************************************************************)
(* TenantResolver.  BoundedStaleness speaks of returned calls only; the    *)
(* invariant adds what the cache promises to the next caller               *)
(* (CachedWasTrue) and what a caller knows between its query and its write *)
(* (FoundIsTrue).                                                          *)
(***************************************************************************)
(* The inventory as it is now is an answer a query could give now. *)
InventoryIsTrue == \A i \in IPs : <<i, clock, inventory[i]>> \in truth

(* A call began in the past. *)
NowIsPast == \A c \in Callers : now[c] <= clock

(* The entry of an address was a right answer at its time or after. *)
CachedWasTrue ==
  \A i \in IPs : \A e \in cached[i] :
    \E t \in Time : e.at <= t /\ <<i, t, e.answer>> \in truth

(* What a query found was a right answer after the call began. *)
FoundIsTrue ==
  \A c \in Callers : pc[c] = "store" =>
    \E t \in Time : now[c] <= t /\ <<ip[c], t, answer[c]>> \in truth

IInv ==
  /\ TypeOK
  /\ InventoryIsTrue
  /\ NowIsPast
  /\ CachedWasTrue
  /\ FoundIsTrue
  /\ BoundedStaleness

-----------------------------------------------------------------------------
LEMMA InitHolds == Init => IInv
BY ResolverAssumption
   DEF Init, IInv, TypeOK, InventoryIsTrue, NowIsPast, CachedWasTrue,
       FoundIsTrue, BoundedStaleness, Time, Answers, cachedTenant

(***************************************************************************)
(* Answers once true stay in truth, so the four parts of the invariant     *)
(* that look something up in it survive whatever leaves the looked-up      *)
(* values alone.                                                           *)
(***************************************************************************)
LEMMA StepKeepsInvariant == IInv /\ [Next]_vars => IInv'
<1> SUFFICES ASSUME IInv, [Next]_vars PROVE IInv'
  OBVIOUS
<1> USE ResolverAssumption DEF IInv, Answers
<1>1. ASSUME NEW c \in Callers, NEW i \in IPs, Call(c, i) PROVE IInv'
  BY <1>1 DEF Call, TypeOK, InventoryIsTrue, NowIsPast, CachedWasTrue,
              FoundIsTrue, BoundedStaleness, Time
<1>2. ASSUME NEW c \in Callers, Hit(c) PROVE IInv'
  <2>1. PICK e \in cached[ip[c]] :
          /\ Fresh(e, now[c])
          /\ answer' = [answer EXCEPT ![c] = e.answer]
    BY <1>2 DEF Hit
  <2>2. e \in cachedTenant /\ ip[c] \in IPs /\ now[c] \in Time
    BY DEF TypeOK
  <2>3. PICK t \in Time : e.at <= t /\ <<ip[c], t, e.answer>> \in truth
    BY <2>2 DEF CachedWasTrue
  <2>4. now[c] < t + TTL
    BY <2>1, <2>2, <2>3 DEF Fresh, cachedTenant, Time
  <2>5. BoundedStaleness'
    <3> SUFFICES ASSUME NEW d \in Callers, pc'[d] = "returned"
                 PROVE  \E u \in Time : /\ now'[d] < u + TTL
                                        /\ <<ip'[d], u, answer'[d]>> \in truth'
      BY DEF BoundedStaleness
    <3>1. CASE d = c
      <4>1. answer'[d] = e.answer
        BY <2>1, <3>1 DEF TypeOK
      <4> QED
        BY <1>2, <2>3, <2>4, <3>1, <4>1 DEF Hit
    <3>2. CASE d # c
      <4>1. pc[d] = "returned"
        BY <1>2, <3>2 DEF Hit, TypeOK
      <4>2. answer'[d] = answer[d]
        BY <2>1, <3>2 DEF TypeOK
      <4> QED
        BY <1>2, <4>1, <4>2 DEF Hit, BoundedStaleness
    <3> QED
      BY <3>1, <3>2
  <2>6. TypeOK'
    BY <1>2, <2>1, <2>2 DEF Hit, TypeOK, cachedTenant
  <2>7. FoundIsTrue'
    <3> SUFFICES ASSUME NEW d \in Callers, pc'[d] = "store"
                 PROVE  \E u \in Time : /\ now'[d] <= u
                                        /\ <<ip'[d], u, answer'[d]>> \in truth'
      BY DEF FoundIsTrue
    <3>1. d # c /\ pc[d] = "store"
      BY <1>2 DEF Hit, TypeOK
    <3>2. answer'[d] = answer[d]
      BY <2>1, <3>1 DEF TypeOK
    <3> QED
      BY <1>2, <3>1, <3>2 DEF Hit, FoundIsTrue
  <2> QED
    BY <1>2, <2>5, <2>6, <2>7 DEF Hit, InventoryIsTrue, NowIsPast, CachedWasTrue
<1>3. ASSUME NEW c \in Callers, Miss(c) PROVE IInv'
  BY <1>3 DEF Miss, TypeOK, InventoryIsTrue, NowIsPast, CachedWasTrue,
              FoundIsTrue, BoundedStaleness
<1>4. ASSUME NEW c \in Callers, Query(c) PROVE IInv'
  <2>1. truth \subseteq truth' /\ <<ip[c], clock, answer'[c]>> \in truth'
    BY <1>4 DEF Query, TypeOK, InventoryIsTrue
  <2>2. TypeOK'
    <3>1. answer' \in [Callers -> Answers]
      BY <1>4 DEF Query, TypeOK
    <3>3. <<ip[c], clock, Unknown>> \in IPs \X Time \X Answers
      BY DEF TypeOK
    <3>4. truth' \subseteq IPs \X Time \X Answers
      BY <1>4, <3>3 DEF Query, TypeOK
    <3>2. asked' \in [Callers -> [IPs -> SUBSET Time]]
      BY <1>4 DEF Query, TypeOK
    <3> QED
      BY <1>4, <3>1, <3>2, <3>4 DEF Query, TypeOK
  <2>3. FoundIsTrue'
    <3> SUFFICES ASSUME NEW d \in Callers, pc'[d] = "store"
                 PROVE  \E t \in Time : /\ now'[d] <= t
                                        /\ <<ip'[d], t, answer'[d]>> \in truth'
      BY DEF FoundIsTrue
    <3>1. CASE d = c
      BY <1>4, <2>1, <3>1 DEF Query, NowIsPast, TypeOK
    <3>2. CASE d # c
      BY <1>4, <2>1, <3>2 DEF Query, FoundIsTrue, TypeOK
    <3> QED
      BY <3>1, <3>2
  <2>4. CachedWasTrue'
    BY <1>4, <2>1 DEF Query, CachedWasTrue
  <2>5. BoundedStaleness'
    BY <1>4, <2>1 DEF Query, BoundedStaleness, TypeOK
  <2> QED
    BY <1>4, <2>1, <2>2, <2>3, <2>4, <2>5 DEF Query, InventoryIsTrue, NowIsPast
<1>5. ASSUME NEW c \in Callers, Store(c) PROVE IInv'
  <2>1. PICK t \in Time : now[c] <= t /\ <<ip[c], t, answer[c]>> \in truth
    BY <1>5 DEF Store, FoundIsTrue
  <2>9. now[c] \in Nat /\ t \in Nat
    BY DEF TypeOK, Time
  <2>2. now[c] < t + TTL
    BY <2>1, <2>9
  <2> DEFINE new == [answer |-> answer[c], at |-> now[c]]
  <2>3. new \in cachedTenant /\ cached' = [cached EXCEPT ![ip[c]] = {new}]
    BY <1>5 DEF Store, TypeOK, cachedTenant
  <2>4. new.at = now[c] /\ new.answer = answer[c]
    OBVIOUS
  <2> HIDE DEF new
  <2>5. TypeOK'
    BY <1>5, <2>3 DEF Store, TypeOK
  <2>6. CachedWasTrue'
    <3> SUFFICES ASSUME NEW i \in IPs, NEW e \in cached'[i]
                 PROVE  \E u \in Time : e.at <= u /\ <<i, u, e.answer>> \in truth'
      BY DEF CachedWasTrue
    <3>1. CASE i = ip[c]
      <4>1. cached'[i] = {new}
        BY <2>3, <3>1 DEF TypeOK
      <4>2. e.at = now[c] /\ e.answer = answer[c]
        BY <4>1, <2>4
      <4>3. truth' = truth
        BY <1>5 DEF Store
      <4> QED
        BY <2>1, <3>1, <4>2, <4>3
    <3>2. CASE i # ip[c]
      BY <1>5, <2>3, <3>2 DEF Store, CachedWasTrue, TypeOK
    <3> QED
      BY <3>1, <3>2
  <2>7. BoundedStaleness'
    <3> SUFFICES ASSUME NEW d \in Callers, pc'[d] = "returned"
                 PROVE  \E u \in Time : /\ now'[d] < u + TTL
                                        /\ <<ip'[d], u, answer'[d]>> \in truth'
      BY DEF BoundedStaleness
    <3>1. CASE d = c
      BY <1>5, <2>1, <2>2, <3>1 DEF Store
    <3>2. CASE d # c
      BY <1>5, <3>2 DEF Store, BoundedStaleness, TypeOK
    <3> QED
      BY <3>1, <3>2
  <2>8. FoundIsTrue'
    BY <1>5 DEF Store, FoundIsTrue, TypeOK
  <2> QED
    BY <1>5, <2>5, <2>6, <2>7, <2>8 DEF Store, InventoryIsTrue, NowIsPast
<1>6. ASSUME NEW i \in IPs, NEW a \in Answers, InventoryChange(i, a) PROVE IInv'
  <2>1. truth \subseteq truth'
    BY <1>6 DEF InventoryChange
  <2>2. TypeOK'
    <3>1. truth' \subseteq IPs \X Time \X Answers
      BY <1>6 DEF InventoryChange, TypeOK
    <3> QED
      BY <1>6, <3>1 DEF InventoryChange, TypeOK
  <2>3. InventoryIsTrue'
    BY <1>6 DEF InventoryChange, InventoryIsTrue, TypeOK
  <2>4. CachedWasTrue'
    BY <1>6, <2>1 DEF InventoryChange, CachedWasTrue
  <2>5. FoundIsTrue'
    BY <1>6, <2>1 DEF InventoryChange, FoundIsTrue
  <2>6. BoundedStaleness'
    BY <1>6, <2>1 DEF InventoryChange, BoundedStaleness
  <2> QED
    BY <1>6, <2>2, <2>3, <2>4, <2>5, <2>6 DEF InventoryChange, NowIsPast
<1>7. CASE Tick
  <2>1. truth \subseteq truth' /\ InventoryIsTrue'
    BY <1>7 DEF Tick, InventoryIsTrue
  <2>2. TypeOK'
    BY <1>7 DEF Tick, TypeOK, Time
  <2>3. NowIsPast'
    BY <1>7 DEF Tick, NowIsPast, TypeOK, Time
  <2>4. CachedWasTrue'
    BY <1>7, <2>1 DEF Tick, CachedWasTrue
  <2>5. FoundIsTrue'
    BY <1>7, <2>1 DEF Tick, FoundIsTrue
  <2>6. BoundedStaleness'
    BY <1>7, <2>1 DEF Tick, BoundedStaleness
  <2> QED
    BY <2>1, <2>2, <2>3, <2>4, <2>5, <2>6
<1>8. CASE UNCHANGED vars
  BY <1>8 DEF vars, TypeOK, InventoryIsTrue, NowIsPast, CachedWasTrue,
              FoundIsTrue, BoundedStaleness
<1> QED
  BY <1>1, <1>2, <1>3, <1>4, <1>5, <1>6, <1>7, <1>8 DEF Next, TenantForIP

(***************************************************************************)
(* tenantCacheTTL (sink.go:46): for any number of concurrent consumers, an *)
(* answer is less than ttl older than its call.                            *)
(***************************************************************************)
THEOREM AnswersAreFresh == Spec => [](TypeOK /\ BoundedStaleness)
<1>1. IInv => TypeOK /\ BoundedStaleness
  BY DEF IInv
<1> QED
  BY InitHolds, StepKeepsInvariant, <1>1, PTL DEF Spec

-----------------------------------------------------------------------------
(* What makes the safety properties inductive.  A datagram is read once, and *)
(* the line goes on in the order of reading.                                 *)
ReadOnce ==
  /\ Listener!Elems(arrived) \cap network = {}
  /\ lost \subseteq Listener!Elems(arrived)
  /\ \A i, j \in 1..Len(arrived) : i < j => arrived[i] # arrived[j]

(* Where the goroutines are, and Stop after them. *)
Goroutines ==
  /\ qclosed <=> reader = "exited"
  /\ IF consumer = "dispatch" THEN \E d \in Datagrams : current = <<d>> ELSE current = <<>>
  /\ consumer = "exited" => qclosed /\ queue = <<>>
  /\ stop = "drained" => consumer = "exited"

(* The last audit of an exporter is in the log, and the others came before. *)
LastAudits ==
  /\ \A e \in Exporters : \A t \in unknownAuditted[e] : t <= clock /\ <<e, t>> \in audits
  /\ \A a \in audits : a[2] <= clock /\ \E t \in unknownAuditted[a[1]] : a[2] <= t

ListenerInv ==
  /\ Listener!TypeOK /\ ReadOnce /\ Goroutines /\ LastAudits
  /\ Listener!ArrivalOrder /\ Listener!AuditsAreSpaced /\ Listener!QuarantineIsAudited

-----------------------------------------------------------------------------
LEMMA Appended ==
  ASSUME NEW S, NEW s \in Seq(S), NEW d \in S
  PROVE  /\ Append(s, d) \in Seq(S) /\ Len(Append(s, d)) = Len(s) + 1 /\ Len(s) \in Nat
         /\ \A i \in 1..Len(s) : Append(s, d)[i] = s[i]
         /\ Append(s, d)[Len(s) + 1] = d
         /\ Listener!Elems(Append(s, d)) = Listener!Elems(s) \cup {d}
<1>1. /\ Append(s, d) \in Seq(S) /\ Len(Append(s, d)) = Len(s) + 1 /\ Len(s) \in Nat
      /\ \A i \in 1..Len(s) : Append(s, d)[i] = s[i]
      /\ Append(s, d)[Len(s) + 1] = d
  OBVIOUS
<1>2. \A x : x \in Listener!Elems(Append(s, d)) <=> x \in Listener!Elems(s) \cup {d}
  BY <1>1 DEF Listener!Elems
<1> QED BY <1>1, <1>2

(* Passing a datagram on changes the hands, not the line. *)
LEMMA HandedOn ==
  ASSUME NEW S, NEW s \in Seq(S), NEW t \in Seq(S)
  PROVE  /\ s \o <<>> \o t = s \o t
         /\ t # <<>> => s \o <<Head(t)>> \o Tail(t) = s \o t
         /\ \A d \in S : Append(s, d) \o t = s \o <<d>> \o t
<1>1. s \o <<>> = s
  OBVIOUS
<1>2. t # <<>> => s \o <<Head(t)>> \o Tail(t) = s \o t
  OBVIOUS
<1>3. \A d \in S : Append(s, d) = s \o <<d>>
  OBVIOUS
<1> QED BY <1>1, <1>2, <1>3

LEMMA ListenerBegins == Listener!ListenerAssumption /\ Listener!Init => ListenerInv
<1> SUFFICES ASSUME Listener!ListenerAssumption, Listener!Init PROVE ListenerInv
  OBVIOUS
<1>1. Listener!TypeOK
  <2>1. /\ clock \in 0..ListenTime /\ todo \in 0..MaxRecords
        /\ queue \in Seq(Datagrams) /\ Len(queue) <= IngestQueueMax
        /\ current \in Seq(Datagrams) /\ Len(current) <= 1
        /\ arrived \in Seq(Datagrams) /\ handled \in Seq(Datagrams)
    BY DEF Listener!Init, Listener!ListenerAssumption
  <2>2. /\ unknownAuditted \in [Exporters -> SUBSET (0..ListenTime)]
        /\ written \in [Datagrams -> Nat] /\ quarantined \in [Datagrams -> Nat]
    BY DEF Listener!Init
  <2> QED BY <2>1, <2>2 DEF Listener!Init, Listener!TypeOK
<1>2. Listener!Elems(<<>>) = {} /\ Listener!Line = <<>>
  BY DEF Listener!Elems, Listener!Init, Listener!Line
<1>3. ReadOnce /\ Goroutines
  BY <1>2 DEF Listener!Init, ReadOnce, Goroutines
<1>4. Listener!ArrivalOrder
  BY <1>2 DEF Listener!Init, Listener!ArrivalOrder
<1>5. LastAudits /\ Listener!AuditsAreSpaced /\ Listener!QuarantineIsAudited
  BY DEF Listener!Init, LastAudits, Listener!AuditsAreSpaced, Listener!QuarantineIsAudited
<1> QED BY <1>1, <1>3, <1>4, <1>5 DEF ListenerInv
(* The order of the line hangs on the line and on the history alone. *)
LEMMA SameLine ==
  ASSUME Listener!ArrivalOrder, UNCHANGED <<arrived, lost>>, Listener!Line' = Listener!Line
  PROVE  Listener!ArrivalOrder'
<1>1. Listener!Elems(Listener!Line') = Listener!Elems(arrived') \ lost'
  BY DEF Listener!ArrivalOrder
<1>2. ASSUME NEW i \in 1..Len(Listener!Line'), NEW j \in 1..Len(Listener!Line'), i < j
      PROVE  \E m, n \in 1..Len(arrived') : m < n /\ arrived'[m] = Listener!Line'[i] /\ arrived'[n] = Listener!Line'[j]
  <2>1. i \in 1..Len(Listener!Line) /\ j \in 1..Len(Listener!Line) /\ Listener!Line'[i] = Listener!Line[i] /\ Listener!Line'[j] = Listener!Line[j]
    BY <1>2
  <2>2. Listener!ReadBefore(Listener!Line[i], Listener!Line[j])
    BY <1>2, <2>1 DEF Listener!ArrivalOrder
  <2> QED BY <2>1, <2>2 DEF Listener!ReadBefore
<1> QED BY <1>1, <1>2 DEF Listener!ArrivalOrder, Listener!ReadBefore


(***************************************************************************)
(* A datagram that is read joins the end of the line, or is lost.          *)
(***************************************************************************)
LEMMA ReadKeeps ==
  ASSUME Listener!ListenerAssumption, ListenerInv, NEW d \in Datagrams, Listener!Read(d)
  PROVE  ListenerInv'
<1>0. /\ reader = "read" /\ d \in network /\ network' = network \ {d}
      /\ arrived' = Append(arrived, d)
      /\ \/ Len(queue) < IngestQueueMax /\ queue' = Append(queue, d) /\ lost' = lost
         \/ queue' = queue /\ lost' = lost \cup {d}
      /\ UNCHANGED <<reader, qclosed, socket, stop, clock, consumer, current, todo, unknownAuditted,
                     handled, written, quarantined, audits>>
  BY DEF Listener!Read, Listener!consumerVars
<1>1. /\ arrived \in Seq(Datagrams) /\ queue \in Seq(Datagrams) /\ handled \in Seq(Datagrams)
      /\ current \in Seq(Datagrams) /\ Listener!Line \in Seq(Datagrams)
  BY DEF ListenerInv, Listener!TypeOK, Listener!Line
<1>2. /\ arrived' \in Seq(Datagrams) /\ Len(arrived') = Len(arrived) + 1 /\ Len(arrived) \in Nat
      /\ \A i \in 1..Len(arrived) : arrived'[i] = arrived[i]
      /\ arrived'[Len(arrived) + 1] = d
      /\ Listener!Elems(arrived') = Listener!Elems(arrived) \cup {d}
  BY <1>0, <1>1, Appended
<1>3. d \notin Listener!Elems(arrived) /\ d \notin lost
  BY <1>0 DEF ListenerInv, ReadOnce
<1>4. Listener!TypeOK'
  <2>1. queue' \in Seq(Datagrams) /\ Len(queue') <= IngestQueueMax
    <3>1. CASE Len(queue) < IngestQueueMax /\ queue' = Append(queue, d)
      BY <1>1, <3>1, Appended DEF Listener!ListenerAssumption
    <3>2. CASE queue' = queue
      BY <3>2 DEF ListenerInv, Listener!TypeOK
    <3> QED BY <1>0, <3>1, <3>2
  <2> QED BY <1>0, <1>2, <2>1 DEF ListenerInv, Listener!TypeOK
<1>5. ReadOnce'
  <2>1. \A i, j \in 1..Len(arrived') : i < j => arrived'[i] # arrived'[j]
    <3> SUFFICES ASSUME NEW i \in 1..Len(arrived'), NEW j \in 1..Len(arrived'), i < j
                 PROVE  arrived'[i] # arrived'[j]
      OBVIOUS
    <3>1. i \in 1..Len(arrived) /\ arrived'[i] = arrived[i] /\ arrived[i] \in Listener!Elems(arrived)
      BY <1>2 DEF Listener!Elems
    <3>2. CASE j = Len(arrived) + 1
      BY <1>2, <1>3, <3>1, <3>2
    <3>3. CASE j \in 1..Len(arrived)
      BY <1>2, <3>1, <3>3 DEF ListenerInv, ReadOnce
    <3> QED BY <1>2, <3>2, <3>3
  <2>2. Listener!Elems(arrived') \cap network' = {} /\ lost' \subseteq Listener!Elems(arrived')
    BY <1>0, <1>2 DEF ListenerInv, ReadOnce
  <2> QED BY <2>1, <2>2 DEF ReadOnce
<1>6. Goroutines' /\ LastAudits' /\ Listener!AuditsAreSpaced' /\ Listener!QuarantineIsAudited'
  BY <1>0 DEF ListenerInv, Goroutines, LastAudits, Listener!AuditsAreSpaced, Listener!QuarantineIsAudited
<1> DEFINE Before(a, b) == \E i, j \in 1..Len(arrived') : i < j /\ arrived'[i] = a /\ arrived'[j] = b
<1>7. \A a, b : Listener!ReadBefore(a, b) => Before(a, b)
  BY <1>2 DEF Listener!ReadBefore
<1>8. \A a \in Listener!Elems(arrived) : Before(a, d)
  <2> SUFFICES ASSUME NEW i \in 1..Len(arrived) PROVE Before(arrived[i], d)
    BY DEF Listener!Elems
  <2>1. i \in 1..Len(arrived') /\ Len(arrived) + 1 \in 1..Len(arrived') /\ i < Len(arrived) + 1
    BY <1>2
  <2>2. arrived'[i] = arrived[i]
    BY <1>2
  <2> QED BY <1>2, <2>1, <2>2
<1>9. Listener!ArrivalOrder'
  <2>1. CASE queue' = queue /\ lost' = lost \cup {d}
    <3>1. Listener!Line' = Listener!Line
      BY <1>0, <2>1 DEF Listener!Line
    <3>2. Listener!Elems(Listener!Line') = Listener!Elems(arrived') \ lost'
      BY <1>2, <1>3, <2>1, <3>1 DEF ListenerInv, Listener!ArrivalOrder
    <3>3. ASSUME NEW i \in 1..Len(Listener!Line'), NEW j \in 1..Len(Listener!Line'), i < j
          PROVE  Before(Listener!Line'[i], Listener!Line'[j])
      <4>1. i \in 1..Len(Listener!Line) /\ j \in 1..Len(Listener!Line) /\ Listener!Line'[i] = Listener!Line[i] /\ Listener!Line'[j] = Listener!Line[j]
        BY <3>1, <3>3
      <4>2. Listener!ReadBefore(Listener!Line[i], Listener!Line[j])
        BY <3>3, <4>1 DEF ListenerInv, Listener!ArrivalOrder
      <4> HIDE DEF Before
      <4> QED BY <1>7, <4>1, <4>2
    <3> QED BY <3>2, <3>3 DEF Listener!ArrivalOrder, Listener!ReadBefore
  <2>2. CASE queue' = Append(queue, d) /\ lost' = lost
    <3>1. Listener!Line' = Append(Listener!Line, d)
      <4>1. \A s \in Seq(Datagrams), t \in Seq(Datagrams) : s \o Append(t, d) = Append(s \o t, d)
        OBVIOUS
      <4>2. handled \o current \in Seq(Datagrams)
        BY <1>1
      <4> QED BY <1>0, <1>1, <2>2, <4>1, <4>2 DEF Listener!Line
    <3>2. /\ Len(Listener!Line') = Len(Listener!Line) + 1 /\ Len(Listener!Line) \in Nat
          /\ \A i \in 1..Len(Listener!Line) : Listener!Line'[i] = Listener!Line[i]
          /\ Listener!Line'[Len(Listener!Line) + 1] = d /\ Listener!Elems(Listener!Line') = Listener!Elems(Listener!Line) \cup {d}
      BY <1>1, <3>1, Appended
    <3>3. Listener!Elems(Listener!Line') = Listener!Elems(arrived') \ lost'
      BY <1>2, <1>3, <2>2, <3>2 DEF ListenerInv, Listener!ArrivalOrder
    <3>4. ASSUME NEW i \in 1..Len(Listener!Line'), NEW j \in 1..Len(Listener!Line'), i < j
          PROVE  Before(Listener!Line'[i], Listener!Line'[j])
      <4>1. i \in 1..Len(Listener!Line) /\ Listener!Line'[i] = Listener!Line[i]
        BY <3>2, <3>4
      <4>2. CASE j \in 1..Len(Listener!Line)
        BY <1>7, <3>2, <3>4, <4>1, <4>2 DEF ListenerInv, Listener!ArrivalOrder
      <4>3. CASE j = Len(Listener!Line) + 1
        <5>1. Listener!Line[i] \in Listener!Elems(arrived)
          BY <4>1 DEF Listener!Elems, ListenerInv, Listener!ArrivalOrder
        <5> QED BY <1>8, <3>2, <4>1, <4>3, <5>1
      <4> QED BY <3>2, <4>2, <4>3
    <3> QED BY <3>3, <3>4 DEF Listener!ArrivalOrder, Listener!ReadBefore
  <2> QED BY <1>0, <2>1, <2>2
<1> QED BY <1>4, <1>5, <1>6, <1>9 DEF ListenerInv

(* The other steps of readLoop and those of Stop leave the line alone. *)
LEMMA EndsKeep ==
  ASSUME Listener!ListenerAssumption, ListenerInv, Listener!ReadFails \/ Listener!CloseQueue \/ Listener!Stop \/ Listener!Tick
  PROVE  ListenerInv'
<1>0. /\ UNCHANGED <<network, arrived, lost, queue, consumer, current, todo, unknownAuditted, handled,
                     written, quarantined, audits>>
      /\ clock \in Nat /\ clock' \in 0..ListenTime /\ clock <= clock'
  BY DEF Listener!ReadFails, Listener!CloseQueue, Listener!Stop, Listener!StopCloses, Listener!StopDrained, Listener!StopGivesUp, Listener!Tick, Listener!readerVars, Listener!consumerVars,
         ListenerInv, Listener!TypeOK, Listener!ListenerAssumption
<1>1. Listener!TypeOK'
  BY <1>0 DEF ListenerInv, Listener!TypeOK, Listener!ReadFails, Listener!CloseQueue, Listener!Stop, Listener!StopCloses, Listener!StopDrained, Listener!StopGivesUp, Listener!Tick, Listener!readerVars
<1>2. ReadOnce'
  BY <1>0 DEF ListenerInv, ReadOnce
<1>3. Goroutines'
  BY <1>0 DEF ListenerInv, Goroutines, Listener!ReadFails, Listener!CloseQueue, Listener!Stop, Listener!StopCloses, Listener!StopDrained, Listener!StopGivesUp, Listener!Tick, Listener!readerVars
<1>4. LastAudits' /\ Listener!AuditsAreSpaced'
  BY <1>0 DEF ListenerInv, Listener!TypeOK, LastAudits, Listener!AuditsAreSpaced
<1>5. Listener!QuarantineIsAudited'
  BY <1>0 DEF ListenerInv, Listener!TypeOK, Listener!QuarantineIsAudited
<1>6. Listener!ArrivalOrder'
  <2>1. Listener!Line' = Listener!Line
    BY <1>0 DEF Listener!Line
  <2> QED BY <1>0, <2>1, SameLine DEF ListenerInv
<1> QED BY <1>1, <1>2, <1>3, <1>4, <1>5, <1>6 DEF ListenerInv

(* A datagram goes from the queue to the hands and from there to the handled. *)
LEMMA PassingKeeps ==
  ASSUME Listener!ListenerAssumption, ListenerInv, Listener!DispatchEnd \/ Listener!ReceiveEnd \/ \E n \in 0..MaxRecords : Listener!Receive(n)
  PROVE  ListenerInv'
<1>0. /\ UNCHANGED <<network, reader, qclosed, arrived, lost, unknownAuditted, written, quarantined, audits,
                     socket, stop, clock>>
  BY DEF Listener!DispatchEnd, Listener!ReceiveEnd, Listener!Receive, Listener!readerVars
<1>1. /\ queue \in Seq(Datagrams) /\ handled \in Seq(Datagrams) /\ <<>> \in Seq(Datagrams)
  BY DEF ListenerInv, Listener!TypeOK
<1>2. Listener!TypeOK' /\ Goroutines' /\ Listener!Line' = Listener!Line
  <2>1. ASSUME NEW n \in 0..MaxRecords, Listener!Receive(n) PROVE Listener!TypeOK' /\ Goroutines' /\ Listener!Line' = Listener!Line
    <3>1. /\ consumer = "receive" /\ queue # <<>> /\ current = <<>> /\ current' = <<Head(queue)>>
          /\ queue' = Tail(queue) /\ todo' = n /\ consumer' = "dispatch" /\ handled' = handled
      BY <2>1 DEF Listener!Receive, ListenerInv, Goroutines
    <3>2. /\ Head(queue) \in Datagrams /\ queue' \in Seq(Datagrams) /\ Len(queue') <= IngestQueueMax
          /\ current' \in Seq(Datagrams) /\ Len(current') <= 1
      BY <1>1, <3>1 DEF ListenerInv, Listener!TypeOK, Listener!ListenerAssumption
    <3>3. Listener!TypeOK'
      BY <1>0, <3>1, <3>2 DEF ListenerInv, Listener!TypeOK
    <3>4. Goroutines'
      BY <1>0, <3>1, <3>2 DEF ListenerInv, Goroutines
    <3>5. Listener!Line' = Listener!Line
      BY <1>1, <3>1, HandedOn DEF Listener!Line
    <3> QED BY <3>3, <3>4, <3>5
  <2>2. CASE Listener!ReceiveEnd
    <3>1. /\ consumer = "receive" /\ queue = <<>> /\ qclosed /\ consumer' = "exited"
          /\ UNCHANGED <<current, todo, handled, queue>>
      BY <2>2 DEF Listener!ReceiveEnd
    <3>2. Listener!TypeOK' /\ Listener!Line' = Listener!Line
      BY <1>0, <3>1 DEF ListenerInv, Listener!TypeOK, Listener!Line
    <3>3. Goroutines'
      BY <1>0, <3>1 DEF ListenerInv, Goroutines
    <3> QED BY <3>2, <3>3
  <2>3. CASE Listener!DispatchEnd
    <3>1. /\ consumer = "dispatch" /\ handled' = Append(handled, current[1]) /\ current' = <<>>
          /\ consumer' = "receive" /\ UNCHANGED <<todo, queue>>
      BY <2>3 DEF Listener!DispatchEnd
    <3>2. PICK d \in Datagrams : current = <<d>>
      BY <3>1 DEF ListenerInv, Goroutines
    <3>3. current[1] = d /\ handled' = Append(handled, d) /\ handled' \in Seq(Datagrams)
      BY <1>1, <3>1, <3>2
    <3>4. Listener!TypeOK'
      BY <1>0, <1>1, <3>1, <3>3 DEF ListenerInv, Listener!TypeOK
    <3>5. Goroutines'
      BY <1>0, <3>1 DEF ListenerInv, Goroutines
    <3>6. Listener!Line' = Listener!Line
      <4>1. handled' \o <<>> \o queue = handled' \o queue
        BY <1>1, <3>3, HandedOn
      <4>2. handled' \o queue = handled \o <<d>> \o queue
        BY <1>1, <3>3, HandedOn
      <4> QED BY <3>1, <3>2, <4>1, <4>2 DEF Listener!Line
    <3> QED BY <3>4, <3>5, <3>6
  <2> QED BY <2>1, <2>2, <2>3
<1>3. ReadOnce' /\ LastAudits' /\ Listener!AuditsAreSpaced' /\ Listener!QuarantineIsAudited'
  BY <1>0 DEF ListenerInv, ReadOnce, LastAudits, Listener!AuditsAreSpaced, Listener!QuarantineIsAudited
<1>4. Listener!ArrivalOrder'
  BY <1>0, <1>2, SameLine DEF ListenerInv
<1> QED BY <1>2, <1>3, <1>4 DEF ListenerInv

(* A refused record is in the audit log with it, or with an earlier one. *)
LEMMA DispatchKeeps ==
  ASSUME Listener!ListenerAssumption, ListenerInv, NEW reply \in Listener!Answers, Listener!Dispatch(reply)
  PROVE  ListenerInv'
<1>0. /\ consumer = "dispatch" /\ todo > 0 /\ todo' = todo - 1
      /\ UNCHANGED <<network, reader, qclosed, arrived, lost, queue, consumer, current, handled, socket, stop, clock>>
  BY DEF Listener!Dispatch, Listener!readerVars
<1>1. PICK d \in Datagrams : current = <<d>>
  BY <1>0 DEF ListenerInv, Goroutines
<1>2. current[1] = d
  BY <1>1
<1> DEFINE e == SourceOf[d]
<1>3. \/ /\ written' = [written EXCEPT ![d] = @ + 1]
         /\ UNCHANGED <<quarantined, audits, unknownAuditted>>
      \/ /\ quarantined' = [quarantined EXCEPT ![d] = @ + 1] /\ written' = written
         /\ Listener!shouldAudit(e) /\ audits' = audits \cup {<<e, clock>>}
         /\ unknownAuditted' = [unknownAuditted EXCEPT ![e] = {clock}]
      \/ /\ quarantined' = [quarantined EXCEPT ![d] = @ + 1] /\ written' = written
         /\ ~Listener!shouldAudit(e) /\ UNCHANGED <<audits, unknownAuditted>>
  BY <1>2 DEF Listener!Dispatch, Listener!Audit
<1>4. e \in Exporters /\ clock \in 0..ListenTime /\ ListenTime \in Nat /\ AuditInterval \in Nat
  BY DEF ListenerInv, Listener!TypeOK, Listener!ListenerAssumption
<1>5. Listener!TypeOK'
  <2>1. todo' \in 0..MaxRecords
    BY <1>0 DEF ListenerInv, Listener!TypeOK, Listener!ListenerAssumption
  <2>2. written \in [Datagrams -> Nat] /\ quarantined \in [Datagrams -> Nat]
    BY DEF ListenerInv, Listener!TypeOK
  <2>3. written' \in [Datagrams -> Nat] /\ quarantined' \in [Datagrams -> Nat]
    <3>1. [written EXCEPT ![d] = @ + 1] \in [Datagrams -> Nat] /\ [quarantined EXCEPT ![d] = @ + 1] \in [Datagrams -> Nat]
      BY <2>2
    <3> QED BY <1>3, <2>2, <3>1
  <2>4. audits \subseteq Exporters \X (0..ListenTime) /\ unknownAuditted \in [Exporters -> SUBSET (0..ListenTime)]
    BY DEF ListenerInv, Listener!TypeOK
  <2>5. /\ audits \cup {<<e, clock>>} \subseteq Exporters \X (0..ListenTime)
        /\ [unknownAuditted EXCEPT ![e] = {clock}] \in [Exporters -> SUBSET (0..ListenTime)]
    BY <1>4, <2>4
  <2>6. audits' \subseteq Exporters \X (0..ListenTime) /\ unknownAuditted' \in [Exporters -> SUBSET (0..ListenTime)]
    BY <1>3, <2>4, <2>5
  <2> QED BY <1>0, <2>1, <2>3, <2>6 DEF ListenerInv, Listener!TypeOK
<1>6. ReadOnce' /\ Goroutines' /\ Listener!ArrivalOrder'
  <2>1. Listener!Line' = Listener!Line
    BY <1>0 DEF Listener!Line
  <2>2. ReadOnce' /\ Goroutines'
    BY <1>0 DEF ListenerInv, ReadOnce, Goroutines
  <2> QED BY <1>0, <2>1, <2>2, SameLine DEF ListenerInv
<1>7. CASE UNCHANGED <<audits, unknownAuditted>>
  <2>1. LastAudits' /\ Listener!AuditsAreSpaced'
    BY <1>0, <1>7 DEF ListenerInv, LastAudits, Listener!AuditsAreSpaced
  <2>2. ~Listener!shouldAudit(e) => \E t \in 0..clock : <<e, t>> \in audits
    BY <1>4 DEF Listener!shouldAudit, ListenerInv, Listener!TypeOK, LastAudits
  <2>3. Listener!QuarantineIsAudited'
    <3> SUFFICES ASSUME NEW x \in Datagrams, quarantined'[x] > 0
                 PROVE  \E t \in 0..clock : <<SourceOf[x], t>> \in audits
      BY <1>0, <1>7 DEF Listener!QuarantineIsAudited
    <3>1. CASE quarantined'[x] = quarantined[x]
      BY <3>1 DEF ListenerInv, Listener!QuarantineIsAudited
    <3>2. CASE quarantined'[x] # quarantined[x]
      <4>1. quarantined' = [quarantined EXCEPT ![d] = @ + 1]
        BY <1>3, <3>2
      <4>2. x = d
        BY <3>2, <4>1 DEF ListenerInv, Listener!TypeOK
      <4>3. CASE ~Listener!shouldAudit(e)
        BY <2>2, <4>2, <4>3
      <4>4. CASE Listener!shouldAudit(e)
        <5>1. audits = audits \cup {<<e, clock>>}
          BY <1>3, <1>7, <3>2, <4>4
        <5> QED BY <1>4, <4>2, <5>1
      <4> QED BY <4>3, <4>4
    <3> QED BY <3>1, <3>2
  <2> QED BY <1>5, <1>6, <2>1, <2>3 DEF ListenerInv
<1>8. CASE Listener!shouldAudit(e) /\ audits' = audits \cup {<<e, clock>>}
           /\ unknownAuditted' = [unknownAuditted EXCEPT ![e] = {clock}]
  <2>1. unknownAuditted'[e] = {clock} /\ \A x \in Exporters \ {e} : unknownAuditted'[x] = unknownAuditted[x]
    BY <1>4, <1>8 DEF ListenerInv, Listener!TypeOK
  <2>2. LastAudits'
    <3>1. ASSUME NEW x \in Exporters, NEW t \in unknownAuditted'[x] PROVE t <= clock /\ <<x, t>> \in audits'
      BY <1>4, <1>8, <2>1, <3>1 DEF ListenerInv, LastAudits
    <3>2. ASSUME NEW a \in audits' PROVE a[2] <= clock /\ \E t \in unknownAuditted'[a[1]] : a[2] <= t
      <4>1. CASE a = <<e, clock>>
        BY <1>4, <2>1, <4>1
      <4>2. CASE a \in audits
        <5>1. a[1] \in Exporters /\ a[2] <= clock /\ \E t \in unknownAuditted[a[1]] : a[2] <= t
          BY <4>2 DEF ListenerInv, Listener!TypeOK, LastAudits
        <5> QED BY <2>1, <5>1
      <4> QED BY <1>8, <3>2, <4>1, <4>2
    <3> QED BY <1>0, <3>1, <3>2 DEF LastAudits
  <2>3. Listener!AuditsAreSpaced'
    <3> SUFFICES ASSUME NEW a \in audits', NEW b \in audits', a[1] = b[1], a[2] < b[2]
                 PROVE  b[2] - a[2] >= AuditInterval
      BY DEF Listener!AuditsAreSpaced
    <3>1. CASE a \in audits /\ b \in audits
      BY <3>1 DEF ListenerInv, Listener!AuditsAreSpaced
    <3>2. CASE a = <<e, clock>>
      <4>1. a[2] = clock /\ b[2] <= clock /\ b[2] \in Nat
        BY <1>0, <1>5, <2>2, <3>2 DEF Listener!TypeOK, LastAudits
      <4> QED BY <1>4, <4>1
    <3>3. CASE a \in audits /\ b = <<e, clock>>
      <4>1. PICK t \in unknownAuditted[e] : a[2] <= t
        BY <3>3 DEF ListenerInv, LastAudits
      <4>2. clock - t >= AuditInterval /\ t \in 0..ListenTime /\ a[2] \in 0..ListenTime
        BY <1>4, <1>8, <3>3, <4>1 DEF Listener!shouldAudit, ListenerInv, Listener!TypeOK
      <4> QED BY <1>4, <3>3, <4>1, <4>2
    <3> QED BY <1>8, <3>1, <3>2, <3>3
  <2>4. Listener!QuarantineIsAudited'
    <3> SUFFICES ASSUME NEW x \in Datagrams, quarantined'[x] > 0
                 PROVE  \E t \in 0..clock : <<SourceOf[x], t>> \in audits'
      BY <1>0 DEF Listener!QuarantineIsAudited
    <3>1. CASE x = d
      BY <1>4, <1>8, <3>1
    <3>2. CASE x # d
      <4>1. quarantined'[x] = quarantined[x]
        BY <1>3, <3>2 DEF ListenerInv, Listener!TypeOK
      <4> QED BY <1>8, <4>1 DEF ListenerInv, Listener!QuarantineIsAudited
    <3> QED BY <3>1, <3>2
  <2> QED BY <1>5, <1>6, <2>2, <2>3, <2>4 DEF ListenerInv
<1> QED BY <1>3, <1>7, <1>8

LEMMA ListenerKeeps == Listener!ListenerAssumption /\ ListenerInv /\ [Listener!Next]_(Listener!vars) => ListenerInv'
<1> SUFFICES ASSUME Listener!ListenerAssumption, ListenerInv, [Listener!Next]_(Listener!vars) PROVE ListenerInv'
  OBVIOUS
<1>1. CASE UNCHANGED Listener!vars
  <2>1. /\ UNCHANGED <<network, reader, qclosed, arrived, lost, socket, queue, stop, clock>>
        /\ UNCHANGED <<consumer, current, todo, unknownAuditted, handled, written, quarantined, audits>>
    BY <1>1 DEF Listener!vars, Listener!readerVars, Listener!consumerVars
  <2>2. Listener!TypeOK' /\ ReadOnce'
    BY <2>1 DEF ListenerInv, Listener!TypeOK, ReadOnce
  <2>3. Goroutines' /\ LastAudits' /\ Listener!AuditsAreSpaced' /\ Listener!QuarantineIsAudited'
    BY <2>1 DEF ListenerInv, Goroutines, LastAudits, Listener!AuditsAreSpaced, Listener!QuarantineIsAudited
  <2>4. Listener!Line' = Listener!Line
    BY <2>1 DEF Listener!Line
  <2> QED BY <2>1, <2>2, <2>3, <2>4, SameLine DEF ListenerInv
<1>2. CASE Listener!readLoop
  BY <1>2, ReadKeeps, EndsKeep DEF Listener!readLoop
<1>3. CASE Listener!consumeLoop
  BY <1>3, PassingKeeps, DispatchKeeps DEF Listener!consumeLoop
<1>4. CASE Listener!Stop \/ Listener!Tick
  BY <1>4, EndsKeep
<1> QED BY <1>1, <1>2, <1>3, <1>4 DEF Listener!Next

(* When both goroutines are gone, the line is what was handled. *)
LEMMA DrainedIsHandled == ListenerInv => Listener!DrainedMeansHandled
<1> SUFFICES ASSUME ListenerInv, stop = "drained" PROVE Listener!Elems(arrived) = Listener!Elems(handled) \cup lost
  BY DEF Listener!DrainedMeansHandled
<1>1. queue = <<>> /\ current = <<>> /\ handled \in Seq(Datagrams)
  BY DEF ListenerInv, Listener!TypeOK, Goroutines
<1>2. Listener!Line = handled
  BY <1>1 DEF Listener!Line
<1> QED BY <1>2 DEF ListenerInv, Listener!ArrivalOrder, ReadOnce

(***************************************************************************)
(* udp.go, readLoop, consumeLoop, dispatch and Stop, for any datagrams,    *)
(* queue and interval: what is dispatched is what was read, in its order,  *)
(* but for what the full queue refused; a drained Stop left none behind;   *)
(* and every exporter with refused records is audited, once in a while.    *)
(***************************************************************************)
THEOREM ListenerIsOrderly ==
  Listener!Spec =>
    [](/\ Listener!TypeOK /\ Listener!ArrivalOrder /\ Listener!DrainedMeansHandled
       /\ Listener!QuarantineIsAudited /\ Listener!AuditsAreSpaced)
<1>1. ListenerInv => /\ Listener!TypeOK /\ Listener!ArrivalOrder /\ Listener!DrainedMeansHandled
                     /\ Listener!QuarantineIsAudited /\ Listener!AuditsAreSpaced
  BY DrainedIsHandled DEF ListenerInv
<1>2. Listener!ListenerAssumption
  BY ConstantsAreRight
<1> QED BY <1>1, <1>2, ListenerBegins, ListenerKeeps, PTL DEF Listener!Spec

-----------------------------------------------------------------------------
(***************************************************************************)
(* TemplateDecoder.  Data sets are followed from place to place: what      *)
(* consumers have in hand, what waits, what is decoded.                    *)
(***************************************************************************)
Handed == UNION {Decoder!Elems(work[c]) : c \in Consumers}

(* What a consumer has in hand fits where it is, and what waits for a key *)
(* needs that key.                                                        *)
HandsInv ==
  /\ work \in [Consumers -> Seq(Sets)] /\ pending \in [Keys -> Seq(Sets)]
  /\ \A c \in Consumers :
       /\ at[c] = "next" => work[c] = <<>>
       /\ at[c] \in {"lookup", "buffer"} => \E s \in Sets : work[c] = <<s>> /\ KeyOf[s] \in Serves[c]
       /\ at[c] = "decode" => layout[c] \in 1..MaxAnnouncements
  /\ \A k \in Keys : \A s \in Decoder!Elems(pending[k]) : KeyOf[s] = k

(* Each set is in one place only. *)
OnePlaceOf(s, A, B, C, E, F) ==
  \/ s \in A /\ s \notin B /\ s \notin C /\ s \notin E /\ s \notin F
  \/ s \notin A /\ s \in B /\ s \notin C /\ s \notin E /\ s \notin F
  \/ s \notin A /\ s \notin B /\ s \in C /\ s \notin E /\ s \notin F
  \/ s \notin A /\ s \notin B /\ s \notin C /\ s \in E /\ s \notin F
  \/ s \notin A /\ s \notin B /\ s \notin C /\ s \notin E /\ s \in F

PlacesInv ==
  /\ \A s \in Sets : OnePlaceOf(s, unsent, dropped, Handed, Decoder!Waiting, Decoder!DecodedSets)
  /\ \A b, c \in Consumers : b # c => Decoder!Elems(work[b]) \cap Decoder!Elems(work[c]) = {}
  /\ \A k \in Keys : Len(pending[k]) = Cardinality(Decoder!Elems(pending[k]))
  /\ \A d, e \in decoded : d[1] = e[1] => d = e
  /\ Decoder!PendingCounted

(* What is cached is the last announcement, and no set is ahead of it. *)
VersionsInv ==
  /\ \A k \in DOMAIN templates : templates[k].version = announced[k] /\ templates[k].created = lastAt[k]
  /\ \A k \in Keys : lastAt[k] <= clock
  /\ \A s \in Sets : arrivedAt[s] <= announced[KeyOf[s]]
  /\ \A c \in Consumers : at[c] = "decode" => \A s \in Decoder!Elems(work[c]) : arrivedAt[s] <= layout[c]
  /\ Decoder!NoOutdatedLayout

(* A consumer that is alone with a key puts a set aside only while the key  *)
(* has no template: nobody else can store one.                              *)
AwaitingInv ==
  /\ Decoder!PendingAwaitsTemplate
  /\ \A c \in Consumers : at[c] = "buffer" =>
       \A s \in Decoder!Elems(work[c]) :
         Decoder!OneConsumer(KeyOf[s]) /\ KeyOf[s] \in DOMAIN templates => Decoder!Expired(KeyOf[s])

DecoderInv ==
  Decoder!TypeOK /\ HandsInv /\ PlacesInv /\ VersionsInv /\ AwaitingInv /\ Decoder!RecentTemplateSurvives

LEMMA ElemsFacts ==
  /\ Decoder!Elems(<<>>) = {}
  /\ \A s : Decoder!Elems(<<s>>) = {s}
  /\ \A q \in Seq(Sets) : \A s \in Sets :
       /\ Append(q, s) \in Seq(Sets) /\ Len(Append(q, s)) = Len(q) + 1
       /\ Decoder!Elems(Append(q, s)) = Decoder!Elems(q) \cup {s}
  /\ \A q \in Seq(Sets) : Decoder!Elems(q) \subseteq Sets /\ IsFiniteSet(Decoder!Elems(q)) /\ Len(q) \in Nat
<1>1. Decoder!Elems(<<>>) = {}
  BY DEF Decoder!Elems
<1>2. ASSUME NEW s PROVE Decoder!Elems(<<s>>) = {s}
  <2>1. Len(<<s>>) = 1 /\ <<s>>[1] = s
    OBVIOUS
  <2> QED BY <2>1 DEF Decoder!Elems
<1>3. ASSUME NEW q \in Seq(Sets), NEW s \in Sets
      PROVE  /\ Append(q, s) \in Seq(Sets) /\ Len(Append(q, s)) = Len(q) + 1
             /\ Decoder!Elems(Append(q, s)) = Decoder!Elems(q) \cup {s}
  <2>1. \A r : Decoder!Elems(r) = Listener!Elems(r)
    BY DEF Decoder!Elems, Listener!Elems
  <2> QED BY <2>1, Appended
<1>4. ASSUME NEW q \in Seq(Sets) PROVE Decoder!Elems(q) \subseteq Sets /\ IsFiniteSet(Decoder!Elems(q)) /\ Len(q) \in Nat
  <2>1. Decoder!Elems(q) \subseteq Sets /\ Len(q) \in Nat
    BY DEF Decoder!Elems
  <2>2. IsFiniteSet(Sets)
    BY ConstantsAreRight DEF Decoder!DecoderAssumption, Decoder!IsFiniteSet, IsFiniteSet
  <2> QED BY <2>1, <2>2, FS_Subset
<1> QED BY <1>1, <1>2, <1>3, <1>4

(* The hands of one consumer change. *)
LEMMA HandsChange ==
  ASSUME HandsInv, PlacesInv, NEW c \in Consumers, NEW q \in Seq(Sets),
         work' = [work EXCEPT ![c] = q], Decoder!Elems(q) \cap (Handed \ Decoder!Elems(work[c])) = {}
  PROVE  /\ Handed' = (Handed \ Decoder!Elems(work[c])) \cup Decoder!Elems(q)
         /\ work' \in [Consumers -> Seq(Sets)] /\ work'[c] = q
         /\ \A b \in Consumers \ {c} : work'[b] = work[b]
         /\ \A a, b \in Consumers : a # b => Decoder!Elems(work'[a]) \cap Decoder!Elems(work'[b]) = {}
<1>1. /\ work' \in [Consumers -> Seq(Sets)] /\ work'[c] = q
      /\ \A b \in Consumers \ {c} : work'[b] = work[b]
  BY DEF HandsInv
<1>2. \A x : x \in Handed' <=> \E b \in Consumers : x \in Decoder!Elems(work'[b])
  BY DEF Handed, Decoder!Elems
<1>3. \A x : x \in Handed <=> \E b \in Consumers : x \in Decoder!Elems(work[b])
  BY DEF Handed
<1>4. \A b \in Consumers \ {c} : Decoder!Elems(work[b]) \cap Decoder!Elems(work[c]) = {}
  BY DEF PlacesInv
<1>5. ASSUME NEW x PROVE x \in Handed' <=> x \in (Handed \ Decoder!Elems(work[c])) \cup Decoder!Elems(q)
  <2>1. x \in Handed' <=> (x \in Decoder!Elems(q) \/ \E b \in Consumers \ {c} : x \in Decoder!Elems(work[b]))
    BY <1>1, <1>2
  <2>2. (\E b \in Consumers \ {c} : x \in Decoder!Elems(work[b])) <=> x \in Handed /\ x \notin Decoder!Elems(work[c])
    BY <1>3, <1>4
  <2> QED BY <2>1, <2>2
<1>6. ASSUME NEW a \in Consumers, NEW b \in Consumers, a # b
      PROVE  Decoder!Elems(work'[a]) \cap Decoder!Elems(work'[b]) = {}
  <2>1. CASE a # c /\ b # c
    BY <1>1, <1>6, <2>1 DEF PlacesInv
  <2>2. ASSUME NEW d \in Consumers \ {c} PROVE Decoder!Elems(q) \cap Decoder!Elems(work[d]) = {}
    <3>1. Decoder!Elems(work[d]) \subseteq Handed \ Decoder!Elems(work[c])
      BY <1>3, <1>4
    <3> QED BY <3>1
  <2> QED BY <1>1, <1>6, <2>1, <2>2
<1> QED BY <1>1, <1>5, <1>6

(* The line of one key changes. *)
LEMMA LineChanges ==
  ASSUME HandsInv, NEW k \in Keys, NEW q \in Seq(Sets),
         pending' = [pending EXCEPT ![k] = q], \A s \in Decoder!Elems(q) : KeyOf[s] = k
  PROVE  /\ Decoder!Waiting' = (Decoder!Waiting \ Decoder!Elems(pending[k])) \cup Decoder!Elems(q)
         /\ pending' \in [Keys -> Seq(Sets)] /\ pending'[k] = q
         /\ \A j \in Keys \ {k} : pending'[j] = pending[j]
         /\ \A j \in Keys : \A s \in Decoder!Elems(pending'[j]) : KeyOf[s] = j
<1>1. /\ pending' \in [Keys -> Seq(Sets)] /\ pending'[k] = q
      /\ \A j \in Keys \ {k} : pending'[j] = pending[j]
  BY DEF HandsInv
<1>2. \A x : x \in Decoder!Waiting' <=> \E j \in Keys : x \in Decoder!Elems(pending'[j])
  BY DEF Decoder!Waiting, Decoder!Elems
<1>3. \A x : x \in Decoder!Waiting <=> \E j \in Keys : x \in Decoder!Elems(pending[j])
  BY DEF Decoder!Waiting
<1>4. \A j \in Keys : \A s \in Decoder!Elems(pending[j]) : KeyOf[s] = j
  BY DEF HandsInv
<1>5. ASSUME NEW x PROVE x \in Decoder!Waiting' <=> x \in (Decoder!Waiting \ Decoder!Elems(pending[k])) \cup Decoder!Elems(q)
  <2>1. x \in Decoder!Waiting' <=> (x \in Decoder!Elems(q) \/ \E j \in Keys \ {k} : x \in Decoder!Elems(pending[j]))
    BY <1>1, <1>2
  <2>2. (\E j \in Keys \ {k} : x \in Decoder!Elems(pending[j])) <=> x \in Decoder!Waiting /\ x \notin Decoder!Elems(pending[k])
    BY <1>3, <1>4
  <2> QED BY <2>1, <2>2
<1>6. \A j \in Keys : \A s \in Decoder!Elems(pending'[j]) : KeyOf[s] = j
  BY <1>1, <1>4
<1> QED BY <1>1, <1>5, <1>6

(* evictLocked: what stays is unchanged, and what goes is expired or is older *)
(* than all that stays, which then is as much as there may be.                *)
LEMMA EvictedFacts ==
  ASSUME NEW t, IsFiniteSet(DOMAIN t), NEW u \in Decoder!Evicted(t)
  PROVE  /\ DOMAIN u \subseteq DOMAIN t /\ \A k \in DOMAIN u : u[k] = t[k]
         /\ Cardinality(DOMAIN u) <= MaxTemplates
         /\ \A k \in DOMAIN t \ DOMAIN u :
              \/ ~(clock <= t[k].created + TemplateTTL)
              \/ /\ Cardinality(DOMAIN u) = MaxTemplates
                 /\ \A j \in DOMAIN u : t[k].created <= t[j].created
<1> DEFINE live == {k \in DOMAIN t : clock <= t[k].created + TemplateTTL}
           oldestFirst(K) == \A j \in live \ K, k \in K : t[j].created <= t[k].created
           Chosen == {S \in Decoder!kSubset(MaxTemplates, live) : oldestFirst(S)}
<1>0. /\ MaxTemplates \in Nat /\ \A S : Decoder!Cardinality(S) = Cardinality(S)
      /\ \A S : Decoder!Restrict(t, S) = [x \in S |-> t[x]]
  BY ConstantsAreRight DEF Decoder!DecoderAssumption, Decoder!Cardinality, Cardinality, Decoder!Restrict
<1>1. live \subseteq DOMAIN t /\ IsFiniteSet(live)
  BY FS_Subset
<1>2. CASE Cardinality(DOMAIN t) <= MaxTemplates
  <2>1. u = t
    BY <1>0, <1>2 DEF Decoder!Evicted
  <2> QED BY <1>2, <2>1
<1>3. CASE ~(Cardinality(DOMAIN t) <= MaxTemplates) /\ Cardinality(live) <= MaxTemplates
  <2>1. u = [x \in live |-> t[x]]
    BY <1>0, <1>3 DEF Decoder!Evicted
  <2>2. DOMAIN u = live /\ \A k \in live : u[k] = t[k]
    BY <2>1
  <2> QED BY <1>1, <1>3, <2>2
<1>4. CASE ~(Cardinality(DOMAIN t) <= MaxTemplates) /\ ~(Cardinality(live) <= MaxTemplates)
  <2>1. u \in {Decoder!Restrict(t, K) : K \in Chosen}
    BY <1>0, <1>4 DEF Decoder!Evicted
  <2>2. PICK K \in Chosen : u = Decoder!Restrict(t, K)
    BY <2>1
  <2>3. K \subseteq live /\ Cardinality(K) = MaxTemplates
    BY <1>0, <2>2 DEF Decoder!kSubset
  <2>4. oldestFirst(K)
    BY <2>2
  <2>5. DOMAIN u = K /\ \A k \in K : u[k] = t[k]
    BY <1>0, <2>2
  <2> HIDE DEF Chosen
  <2> QED BY <1>0, <1>1, <2>3, <2>4, <2>5
<1> QED BY <1>2, <1>3, <1>4

LEMMA DecoderBegins == Decoder!Init => DecoderInv
<1> SUFFICES ASSUME Decoder!Init PROVE DecoderInv
  OBVIOUS
<1>0. Decoder!DecoderAssumption
  BY ConstantsAreRight
<1>1. /\ DOMAIN templates = {} /\ pending = [k \in Keys |-> <<>>] /\ pendingN = 0
      /\ at = [c \in Consumers |-> "next"] /\ work = [c \in Consumers |-> <<>>]
      /\ layout = [c \in Consumers |-> 0] /\ clock = 0 /\ unsent = Sets
      /\ announced = [k \in Keys |-> 0] /\ lastAt = [k \in Keys |-> 0]
      /\ arrivedAt = [s \in Sets |-> 0] /\ decoded = {} /\ dropped = {}
  BY DEF Decoder!Init
<1>2. /\ MaxTemplates \in Nat /\ MaxPendingSets \in Nat /\ MaxAnnouncements \in Nat /\ DecodeTime \in Nat
      /\ KeyOf \in [Sets -> Keys]
  BY <1>0 DEF Decoder!DecoderAssumption
<1>3. Cardinality({}) = 0 /\ Decoder!Cardinality({}) = Cardinality({})
  BY FS_EmptySet DEF Decoder!Cardinality, Cardinality
<1>4. <<>> \in Seq(Sets) /\ Len(<<>>) = 0
  OBVIOUS
<1>5. Decoder!TypeOK
  BY <1>1, <1>2, <1>3, <1>4 DEF Decoder!TypeOK
<1>6. \A c \in Consumers : work[c] = <<>> /\ Decoder!Elems(work[c]) = {}
  BY <1>1, ElemsFacts
<1>7. \A k \in Keys : pending[k] = <<>> /\ Decoder!Elems(pending[k]) = {}
  BY <1>1, ElemsFacts
<1>8. HandsInv
  BY <1>1, <1>4, <1>6, <1>7 DEF HandsInv
<1>9. Handed = {} /\ Decoder!Waiting = {} /\ Decoder!DecodedSets = {}
  BY <1>1, <1>6, <1>7 DEF Handed, Decoder!Waiting, Decoder!DecodedSets
<1>10. Decoder!PendingCounted
  BY <1>1, <1>3, <1>9 DEF Decoder!PendingCounted
<1>11. PlacesInv
  BY <1>1, <1>3, <1>4, <1>6, <1>7, <1>9, <1>10 DEF PlacesInv, OnePlaceOf
<1>12. VersionsInv
  BY <1>1, <1>2 DEF VersionsInv, Decoder!NoOutdatedLayout
<1>13. AwaitingInv
  BY <1>1 DEF AwaitingInv, Decoder!PendingAwaitsTemplate
<1>14. Decoder!RecentTemplateSurvives
  BY <1>1 DEF Decoder!RecentTemplateSurvives
<1> QED BY <1>5, <1>8, <1>11, <1>12, <1>13, <1>14 DEF DecoderInv

-----------------------------------------------------------------------------
(* What every step of the decoder rests on. *)
LEMMA DecoderFacts ==
  ASSUME DecoderInv
  PROVE  /\ MaxTemplates \in Nat \ {0} /\ MaxPendingSets \in Nat /\ MaxAnnouncements \in Nat
         /\ TemplateTTL \in Nat /\ DecodeTime \in Nat /\ clock \in Nat
         /\ KeyOf \in [Sets -> Keys] /\ Serves \in [Consumers -> SUBSET Keys]
         /\ IsFiniteSet(Sets) /\ IsFiniteSet(Keys) /\ IsFiniteSet(DOMAIN templates)
         /\ at \in [Consumers -> {"next", "lookup", "buffer", "decode"}]
         /\ layout \in [Consumers -> 0..MaxAnnouncements] /\ arrivedAt \in [Sets -> 0..MaxAnnouncements]
         /\ announced \in [Keys -> 0..MaxAnnouncements] /\ lastAt \in [Keys -> 0..DecodeTime]
         /\ \A c \in Consumers : Decoder!Elems(work[c]) \subseteq Sets /\ Decoder!Elems(work[c]) \subseteq Handed
         /\ \A k \in Keys : /\ Decoder!Elems(pending[k]) \subseteq Sets /\ IsFiniteSet(Decoder!Elems(pending[k]))
                            /\ Decoder!Elems(pending[k]) \subseteq Decoder!Waiting
         /\ Decoder!Waiting \subseteq Sets /\ IsFiniteSet(Decoder!Waiting)
         /\ pendingN \in Nat /\ pendingN = Cardinality(Decoder!Waiting)
         /\ \A S : Decoder!Cardinality(S) = Cardinality(S)
<1>1. Decoder!DecoderAssumption /\ (Decoder!IsFiniteSet(Sets) => IsFiniteSet(Sets)) /\ (Decoder!IsFiniteSet(Keys) => IsFiniteSet(Keys))
  BY ConstantsAreRight DEF Decoder!IsFiniteSet, IsFiniteSet
<1>2. /\ MaxTemplates \in Nat \ {0} /\ MaxPendingSets \in Nat /\ MaxAnnouncements \in Nat
      /\ TemplateTTL \in Nat /\ DecodeTime \in Nat
      /\ KeyOf \in [Sets -> Keys] /\ Serves \in [Consumers -> SUBSET Keys]
      /\ IsFiniteSet(Sets) /\ IsFiniteSet(Keys)
  BY <1>1 DEF Decoder!DecoderAssumption
<1>3. IsFiniteSet(DOMAIN templates)
  BY <1>2, FS_Subset DEF DecoderInv, Decoder!TypeOK
<1>4. \A c \in Consumers : Decoder!Elems(work[c]) \subseteq Sets /\ Decoder!Elems(work[c]) \subseteq Handed
  BY ElemsFacts DEF DecoderInv, HandsInv, Handed
<1>5. \A k \in Keys : /\ Decoder!Elems(pending[k]) \subseteq Sets /\ IsFiniteSet(Decoder!Elems(pending[k]))
                      /\ Decoder!Elems(pending[k]) \subseteq Decoder!Waiting
  BY ElemsFacts DEF DecoderInv, HandsInv, Decoder!Waiting
<1>6. Decoder!Waiting \subseteq Sets
  BY <1>5 DEF Decoder!Waiting
<1>7. IsFiniteSet(Decoder!Waiting)
  BY <1>2, <1>6, FS_Subset
<1>8. \A S : Decoder!Cardinality(S) = Cardinality(S)
  BY DEF Decoder!Cardinality, Cardinality
<1>9. pendingN = Cardinality(Decoder!Waiting)
  BY <1>8 DEF DecoderInv, PlacesInv, Decoder!PendingCounted
<1> QED BY <1>2, <1>3, <1>4, <1>5, <1>6, <1>7, <1>8, <1>9 DEF DecoderInv, Decoder!TypeOK

(* Where the sets are, what waits and what is decoded is all PlacesInv needs. *)
LEMMA SameLines ==
  ASSUME DecoderInv, UNCHANGED <<pending, pendingN>>
  PROVE  /\ Decoder!Waiting' = Decoder!Waiting /\ Decoder!PendingCounted'
         /\ \A k \in Keys : Len(pending'[k]) = Cardinality(Decoder!Elems(pending'[k]))
         /\ pending' \in [Keys -> Seq(Sets)]
         /\ \A k \in Keys : \A s \in Decoder!Elems(pending'[k]) : KeyOf[s] = k
<1>1. Decoder!Waiting' = Decoder!Waiting
  BY DEF Decoder!Waiting, Decoder!Elems
<1>2. Decoder!PendingCounted'
  BY <1>1 DEF DecoderInv, PlacesInv, Decoder!PendingCounted, Decoder!Cardinality, Cardinality
<1> QED BY <1>1, <1>2 DEF DecoderInv, PlacesInv, HandsInv

LEMMA SameHands ==
  ASSUME UNCHANGED work PROVE Handed' = Handed
BY DEF Handed, Decoder!Elems

LEMMA ArrivingPlaces ==
  ASSUME DecoderInv, NEW c \in Consumers, NEW s \in Sets, Decoder!DataSet(c, s)
  PROVE  Decoder!TypeOK' /\ HandsInv' /\ PlacesInv'
<1>1. /\ at[c] = "next" /\ s \in unsent /\ KeyOf[s] \in Serves[c]
      /\ at' = [at EXCEPT ![c] = "lookup"] /\ work' = [work EXCEPT ![c] = <<s>>]
      /\ unsent' = unsent \ {s} /\ arrivedAt' = [arrivedAt EXCEPT ![s] = announced[KeyOf[s]]]
      /\ UNCHANGED <<clock, templates, pending, pendingN, layout, announced, lastAt, decoded, dropped>>
  BY DEF Decoder!DataSet
<1>2. work[c] = <<>> /\ Decoder!Elems(work[c]) = {} /\ Decoder!Elems(<<s>>) = {s} /\ <<s>> \in Seq(Sets)
  BY <1>1, ElemsFacts DEF DecoderInv, HandsInv
<1>3. s \notin Handed /\ s \notin Decoder!Waiting /\ s \notin Decoder!DecodedSets /\ s \notin dropped
  BY <1>1 DEF DecoderInv, PlacesInv, OnePlaceOf
<1>4. /\ Handed' = Handed \cup {s}
      /\ work' \in [Consumers -> Seq(Sets)] /\ work'[c] = <<s>>
      /\ \A b \in Consumers \ {c} : work'[b] = work[b]
      /\ \A a, b \in Consumers : a # b => Decoder!Elems(work'[a]) \cap Decoder!Elems(work'[b]) = {}
  <2>1. HandsInv /\ PlacesInv
    BY DEF DecoderInv
  <2>2. Decoder!Elems(<<s>>) \cap (Handed \ Decoder!Elems(work[c])) = {}
    BY <1>2, <1>3
  <2>3. work' = [work EXCEPT ![c] = <<s>>]
    BY <1>1
  <2>4. Handed' = (Handed \ Decoder!Elems(work[c])) \cup Decoder!Elems(<<s>>)
    BY <1>2, <2>1, <2>2, <2>3, HandsChange
  <2>5. /\ work' \in [Consumers -> Seq(Sets)] /\ work'[c] = <<s>>
        /\ \A b \in Consumers \ {c} : work'[b] = work[b]
        /\ \A a, b \in Consumers : a # b => Decoder!Elems(work'[a]) \cap Decoder!Elems(work'[b]) = {}
    BY <1>2, <2>1, <2>2, <2>3, HandsChange
  <2> QED BY <1>2, <2>4, <2>5
<1>5. /\ at'[c] = "lookup" /\ \A b \in Consumers \ {c} : at'[b] = at[b]
      /\ at' \in [Consumers -> {"next", "lookup", "buffer", "decode"}]
  BY <1>1, DecoderFacts
<1>6. Decoder!TypeOK'
  <2>1. arrivedAt' \in [Sets -> 0..MaxAnnouncements]
    BY <1>1, DecoderFacts
  <2> QED BY <1>1, <1>4, <1>5, <2>1 DEF DecoderInv, Decoder!TypeOK
<1>7. HandsInv'
  BY <1>1, <1>4, <1>5, SameLines DEF DecoderInv, HandsInv
<1>8. Decoder!DecodedSets' = Decoder!DecodedSets
  BY <1>1 DEF Decoder!DecodedSets
<1>9. \A x \in Sets : OnePlaceOf(x, unsent', dropped', Handed', Decoder!Waiting', Decoder!DecodedSets')
  BY <1>1, <1>3, <1>4, <1>8, SameLines DEF DecoderInv, PlacesInv, OnePlaceOf
<1>10. PlacesInv'
  BY <1>1, <1>4, <1>9, SameLines DEF DecoderInv, PlacesInv
<1> QED BY <1>6, <1>7, <1>10

LEMMA LookingUpPlaces ==
  ASSUME DecoderInv, NEW c \in Consumers, Decoder!template(c)
  PROVE  Decoder!TypeOK' /\ HandsInv' /\ PlacesInv'
<1>1. PICK s \in Sets : work[c] = <<s>> /\ KeyOf[s] \in Serves[c]
  BY DEF Decoder!template, DecoderInv, HandsInv
<1>2. work[c][1] = s /\ KeyOf[s] \in Keys
  BY <1>1, DecoderFacts
<1>3. /\ at[c] = "lookup" /\ (Decoder!TemplateFound(c, KeyOf[s]) \/ Decoder!TemplateMissing(c, KeyOf[s]))
      /\ UNCHANGED <<clock, pending, pendingN, work, decoded, dropped, unsent, announced, lastAt, arrivedAt>>
  BY <1>2 DEF Decoder!template, Decoder!historyVars
<1>4. /\ \A b \in Consumers \ {c} : at'[b] = at[b] /\ layout'[b] = layout[b]
      /\ at' \in [Consumers -> {"next", "lookup", "buffer", "decode"}]
      /\ layout' \in [Consumers -> 0..MaxAnnouncements]
      /\ at'[c] \in {"buffer", "decode"} /\ (at'[c] = "decode" => layout'[c] \in 1..MaxAnnouncements)
      /\ DOMAIN templates' \subseteq DOMAIN templates
      /\ \A k \in DOMAIN templates' : templates'[k] = templates[k]
  <2>1. CASE Decoder!TemplateFound(c, KeyOf[s])
    <3>1. templates[KeyOf[s]] \in Decoder!Template /\ UNCHANGED templates
      BY <2>1 DEF Decoder!TemplateFound, DecoderInv, Decoder!TypeOK
    <3>2. templates[KeyOf[s]].version \in 1..MaxAnnouncements
      BY <3>1 DEF Decoder!Template
    <3> QED BY <2>1, <3>1, <3>2, DecoderFacts DEF Decoder!TemplateFound
  <2>2. CASE Decoder!TemplateMissing(c, KeyOf[s])
    <3>1. templates' = [k \in DOMAIN templates \ {KeyOf[s]} |-> templates[k]]
      BY <2>2 DEF Decoder!TemplateMissing, Decoder!Restrict
    <3> QED BY <2>2, <3>1, DecoderFacts DEF Decoder!TemplateMissing
  <2> QED BY <1>3, <2>1, <2>2
<1>5. Decoder!TypeOK'
  <2>1. Cardinality(DOMAIN templates') <= Cardinality(DOMAIN templates)
    BY <1>4, DecoderFacts, FS_Subset
  <2>2. Cardinality(DOMAIN templates) \in Nat /\ Cardinality(DOMAIN templates') \in Nat
    BY <1>4, DecoderFacts, FS_Subset, FS_CardinalityType
  <2>3. Decoder!Cardinality(DOMAIN templates') <= MaxTemplates
    BY <2>1, <2>2, DecoderFacts DEF DecoderInv, Decoder!TypeOK
  <2>4. DOMAIN templates' \subseteq Keys /\ \A k \in DOMAIN templates' : templates'[k] \in Decoder!Template
    BY <1>4 DEF DecoderInv, Decoder!TypeOK
  <2> QED BY <1>3, <1>4, <2>3, <2>4 DEF DecoderInv, Decoder!TypeOK, Decoder!Template, Decoder!Cardinality
<1>6. HandsInv'
  BY <1>1, <1>3, <1>4, SameLines DEF DecoderInv, HandsInv
<1>7. PlacesInv'
  BY <1>3, SameLines, SameHands DEF DecoderInv, PlacesInv, Decoder!DecodedSets
<1> QED BY <1>5, <1>6, <1>7

LEMMA PuttingAsidePlaces ==
  ASSUME DecoderInv, NEW c \in Consumers, Decoder!bufferPending(c)
  PROVE  Decoder!TypeOK' /\ HandsInv' /\ PlacesInv'
<1>1. PICK s \in Sets : work[c] = <<s>> /\ KeyOf[s] \in Serves[c]
  BY DEF Decoder!bufferPending, DecoderInv, HandsInv
<1>2. work[c][1] = s /\ KeyOf[s] \in Keys /\ Decoder!Elems(work[c]) = {s}
  BY <1>1, DecoderFacts, ElemsFacts
<1>3. /\ at' = [at EXCEPT ![c] = "next"] /\ work' = [work EXCEPT ![c] = <<>>]
      /\ UNCHANGED <<clock, templates, layout, decoded, unsent, announced, lastAt, arrivedAt>>
      /\ \/ /\ pendingN < MaxPendingSets
            /\ pending' = [pending EXCEPT ![KeyOf[s]] = Append(pending[KeyOf[s]], s)]
            /\ pendingN' = pendingN + 1 /\ dropped' = dropped
         \/ dropped' = dropped \cup {s} /\ pending' = pending /\ pendingN' = pendingN
  BY <1>2 DEF Decoder!bufferPending, Decoder!historyVars, Decoder!HasRoom
<1>4. s \in Handed /\ s \notin unsent /\ s \notin Decoder!Waiting /\ s \notin Decoder!DecodedSets /\ s \notin dropped
  BY <1>2, DecoderFacts DEF DecoderInv, PlacesInv, OnePlaceOf
<1>5. /\ Handed' = Handed \ {s}
      /\ work' \in [Consumers -> Seq(Sets)] /\ work'[c] = <<>>
      /\ \A b \in Consumers \ {c} : work'[b] = work[b]
      /\ \A a, b \in Consumers : a # b => Decoder!Elems(work'[a]) \cap Decoder!Elems(work'[b]) = {}
  <2>1. HandsInv /\ PlacesInv
    BY DEF DecoderInv
  <2>2. <<>> \in Seq(Sets) /\ Decoder!Elems(<<>>) = {}
    BY ElemsFacts
  <2>3. Decoder!Elems(<<>>) \cap (Handed \ Decoder!Elems(work[c])) = {} /\ work' = [work EXCEPT ![c] = <<>>]
    BY <1>3, <2>2
  <2>4. Handed' = (Handed \ Decoder!Elems(work[c])) \cup Decoder!Elems(<<>>)
    BY <2>1, <2>2, <2>3, HandsChange
  <2>5. /\ work' \in [Consumers -> Seq(Sets)] /\ work'[c] = <<>>
        /\ \A b \in Consumers \ {c} : work'[b] = work[b]
        /\ \A a, b \in Consumers : a # b => Decoder!Elems(work'[a]) \cap Decoder!Elems(work'[b]) = {}
    BY <2>1, <2>2, <2>3, HandsChange
  <2> QED BY <1>2, <2>2, <2>4, <2>5
<1>6. /\ at'[c] = "next" /\ \A b \in Consumers \ {c} : at'[b] = at[b]
      /\ at' \in [Consumers -> {"next", "lookup", "buffer", "decode"}]
  BY <1>3, DecoderFacts
<1>7. Decoder!DecodedSets' = Decoder!DecodedSets
  BY <1>3 DEF Decoder!DecodedSets
<1>8. CASE dropped' = dropped \cup {s} /\ pending' = pending /\ pendingN' = pendingN
  <2>1. Decoder!TypeOK'
    BY <1>3, <1>5, <1>6, <1>8 DEF DecoderInv, Decoder!TypeOK, Decoder!Template, Decoder!Cardinality
  <2>2. HandsInv'
    BY <1>3, <1>5, <1>6, <1>8, SameLines DEF DecoderInv, HandsInv
  <2>3. \A x \in Sets : OnePlaceOf(x, unsent', dropped', Handed', Decoder!Waiting', Decoder!DecodedSets')
    BY <1>3, <1>4, <1>5, <1>7, <1>8, SameLines DEF DecoderInv, PlacesInv, OnePlaceOf
  <2>4. PlacesInv'
    BY <1>3, <1>5, <1>8, <2>3, SameLines DEF DecoderInv, PlacesInv
  <2> QED BY <2>1, <2>2, <2>4
<1>9. CASE /\ pendingN < MaxPendingSets
           /\ pending' = [pending EXCEPT ![KeyOf[s]] = Append(pending[KeyOf[s]], s)]
           /\ pendingN' = pendingN + 1 /\ dropped' = dropped
  <2> DEFINE k == KeyOf[s]
             q == Append(pending[k], s)
  <2>1. /\ k \in Keys /\ q \in Seq(Sets) /\ Len(q) = Len(pending[k]) + 1
        /\ Decoder!Elems(q) = Decoder!Elems(pending[k]) \cup {s} /\ pending[k] \in Seq(Sets)
    BY <1>2, ElemsFacts DEF DecoderInv, HandsInv
  <2>2. HandsInv /\ pending' = [pending EXCEPT ![k] = q]
    BY <1>9 DEF DecoderInv
  <2>3. \A x \in Decoder!Elems(q) : KeyOf[x] = k
    BY <2>1, <2>2 DEF HandsInv
  <2> HIDE DEF q
  <2>4. /\ Decoder!Waiting' = (Decoder!Waiting \ Decoder!Elems(pending[k])) \cup Decoder!Elems(q)
        /\ pending' \in [Keys -> Seq(Sets)] /\ pending'[k] = q
        /\ \A j \in Keys \ {k} : pending'[j] = pending[j]
        /\ \A j \in Keys : \A x \in Decoder!Elems(pending'[j]) : KeyOf[x] = j
    BY <2>1, <2>2, <2>3, LineChanges
  <2>5. Decoder!Waiting' = Decoder!Waiting \cup {s}
    BY <2>1, <2>4, DecoderFacts
  <2>6. Decoder!PendingCounted'
    <3>1. Cardinality(Decoder!Waiting \cup {s}) = Cardinality(Decoder!Waiting) + 1
      BY <1>4, DecoderFacts, FS_AddElement
    <3>2. pendingN' = Decoder!Cardinality(Decoder!Waiting')
      BY <1>9, <2>5, <3>1, DecoderFacts
    <3> QED BY <3>2 DEF Decoder!PendingCounted, Decoder!Cardinality
  <2>7. \A j \in Keys : Len(pending'[j]) = Cardinality(Decoder!Elems(pending'[j]))
    <3>1. s \notin Decoder!Elems(pending[k]) /\ IsFiniteSet(Decoder!Elems(pending[k]))
      BY <1>4, <2>1, DecoderFacts
    <3>2. Cardinality(Decoder!Elems(q)) = Cardinality(Decoder!Elems(pending[k])) + 1
      BY <2>1, <3>1, FS_AddElement
    <3>3. Len(q) = Cardinality(Decoder!Elems(q))
      BY <2>1, <3>2 DEF DecoderInv, PlacesInv
    <3> QED BY <2>4, <3>3 DEF DecoderInv, PlacesInv
  <2>8. Decoder!TypeOK'
    <3>1. pendingN' \in 0..MaxPendingSets
      BY <1>9, DecoderFacts
    <3> QED BY <1>3, <1>5, <1>6, <1>9, <2>4, <3>1 DEF DecoderInv, Decoder!TypeOK, Decoder!Template, Decoder!Cardinality
  <2>9. HandsInv'
    BY <1>3, <1>5, <1>6, <2>4 DEF DecoderInv, HandsInv
  <2>10. \A x \in Sets : OnePlaceOf(x, unsent', dropped', Handed', Decoder!Waiting', Decoder!DecodedSets')
    BY <1>3, <1>4, <1>5, <1>7, <1>9, <2>5 DEF DecoderInv, PlacesInv, OnePlaceOf
  <2>11. PlacesInv'
    BY <1>3, <1>5, <2>6, <2>7, <2>10 DEF DecoderInv, PlacesInv
  <2> QED BY <2>8, <2>9, <2>11
<1> QED BY <1>3, <1>8, <1>9

LEMMA DecodingPlaces ==
  ASSUME DecoderInv, NEW c \in Consumers, Decoder!decodeDataSet(c)
  PROVE  Decoder!TypeOK' /\ HandsInv' /\ PlacesInv'
<1> DEFINE M == Decoder!Elems(work[c])
<1>1. /\ at[c] = "decode" /\ decoded' = decoded \cup {<<s, layout[c]>> : s \in M}
      /\ at' = [at EXCEPT ![c] = "next"] /\ work' = [work EXCEPT ![c] = <<>>]
      /\ UNCHANGED <<clock, templates, pending, pendingN, layout, dropped, unsent, announced, lastAt, arrivedAt>>
  BY DEF Decoder!decodeDataSet, Decoder!historyVars
<1>2. M \subseteq Handed /\ M \subseteq Sets /\ layout[c] \in 1..MaxAnnouncements
  BY <1>1, DecoderFacts DEF DecoderInv, HandsInv
<1>3. \A s \in M : s \notin unsent /\ s \notin Decoder!Waiting /\ s \notin Decoder!DecodedSets /\ s \notin dropped
  BY <1>2 DEF DecoderInv, PlacesInv, OnePlaceOf
<1>4. /\ Handed' = Handed \ M
      /\ work' \in [Consumers -> Seq(Sets)] /\ work'[c] = <<>>
      /\ \A b \in Consumers \ {c} : work'[b] = work[b]
      /\ \A a, b \in Consumers : a # b => Decoder!Elems(work'[a]) \cap Decoder!Elems(work'[b]) = {}
  <2>1. HandsInv /\ PlacesInv
    BY DEF DecoderInv
  <2>2. <<>> \in Seq(Sets) /\ Decoder!Elems(<<>>) = {}
    BY ElemsFacts
  <2>3. Decoder!Elems(<<>>) \cap (Handed \ Decoder!Elems(work[c])) = {} /\ work' = [work EXCEPT ![c] = <<>>]
    BY <1>1, <2>2
  <2>4. Handed' = (Handed \ Decoder!Elems(work[c])) \cup Decoder!Elems(<<>>)
    BY <2>1, <2>2, <2>3, HandsChange
  <2>5. /\ work' \in [Consumers -> Seq(Sets)] /\ work'[c] = <<>>
        /\ \A b \in Consumers \ {c} : work'[b] = work[b]
        /\ \A a, b \in Consumers : a # b => Decoder!Elems(work'[a]) \cap Decoder!Elems(work'[b]) = {}
    BY <2>1, <2>2, <2>3, HandsChange
  <2> QED BY <2>2, <2>4, <2>5
<1>5. /\ at'[c] = "next" /\ \A b \in Consumers \ {c} : at'[b] = at[b]
      /\ at' \in [Consumers -> {"next", "lookup", "buffer", "decode"}]
  BY <1>1, DecoderFacts
<1> HIDE DEF M
<1>6. Decoder!DecodedSets' = Decoder!DecodedSets \cup M
  <2>1. \A x : x \in Decoder!DecodedSets' <=> \E d \in decoded' : x = d[1]
    BY DEF Decoder!DecodedSets
  <2>2. \A x : x \in Decoder!DecodedSets <=> \E d \in decoded : x = d[1]
    BY DEF Decoder!DecodedSets
  <2>3. \A d \in {<<s, layout[c]>> : s \in M} : d[1] \in M
    OBVIOUS
  <2>4. \A x \in M : <<x, layout[c]>> \in decoded' /\ x = <<x, layout[c]>>[1]
    BY <1>1
  <2>5. \A x \in M : x \in Decoder!DecodedSets'
    BY <2>1, <2>4
  <2> QED BY <1>1, <2>1, <2>2, <2>3, <2>5
<1>7. \A d, e \in decoded' : d[1] = e[1] => d = e
  <2>1. \A d \in decoded : d[1] \notin M
    BY <1>3 DEF Decoder!DecodedSets
  <2>2. \A d \in {<<s, layout[c]>> : s \in M} : d[1] \in M /\ d = <<d[1], layout[c]>>
    OBVIOUS
  <2>3. \A d, e \in decoded : d[1] = e[1] => d = e
    BY DEF DecoderInv, PlacesInv
  <2> QED BY <1>1, <2>1, <2>2, <2>3
<1>8. Decoder!TypeOK'
  <2>1. decoded' \subseteq Sets \X (1..MaxAnnouncements)
    BY <1>1, <1>2 DEF DecoderInv, Decoder!TypeOK
  <2> QED BY <1>1, <1>4, <1>5, <2>1 DEF DecoderInv, Decoder!TypeOK, Decoder!Template, Decoder!Cardinality
<1>9. HandsInv'
  BY <1>1, <1>4, <1>5, SameLines DEF DecoderInv, HandsInv
<1>10. \A x \in Sets : OnePlaceOf(x, unsent', dropped', Handed', Decoder!Waiting', Decoder!DecodedSets')
  BY <1>1, <1>2, <1>3, <1>4, <1>6, SameLines DEF DecoderInv, PlacesInv, OnePlaceOf
<1>11. PlacesInv'
  BY <1>1, <1>4, <1>7, <1>10, SameLines DEF DecoderInv, PlacesInv
<1> QED BY <1>8, <1>9, <1>11

(* storeTemplate, taken apart. *)
LEMMA StoringFacts ==
  ASSUME DecoderInv, NEW c \in Consumers, NEW k \in Keys, Decoder!storeTemplate(c, k)
  PROVE  /\ at[c] = "next" /\ k \in Serves[c] /\ work[c] = <<>> /\ Decoder!Elems(work[c]) = {}
         /\ announced[k] < MaxAnnouncements
         /\ announced' = [announced EXCEPT ![k] = announced[k] + 1] /\ lastAt' = [lastAt EXCEPT ![k] = clock]
         /\ layout' = [layout EXCEPT ![c] = announced[k] + 1]
         /\ work' = [work EXCEPT ![c] = pending[k]] /\ pending' = [pending EXCEPT ![k] = <<>>]
         /\ pendingN' = pendingN - Len(pending[k]) /\ at' = [at EXCEPT ![c] = "decode"]
         /\ UNCHANGED <<clock, unsent, arrivedAt, decoded, dropped>>
         /\ DOMAIN templates' \subseteq DOMAIN templates \cup {k}
         /\ IsFiniteSet(DOMAIN templates') /\ Cardinality(DOMAIN templates') <= MaxTemplates
         /\ \A j \in DOMAIN templates' :
              /\ templates'[j] = IF j = k THEN [version |-> announced[k] + 1, created |-> clock] ELSE templates[j]
              /\ templates'[j].version = announced'[j] /\ templates'[j].created = lastAt'[j]
         /\ \A j \in DOMAIN templates \cup {k} : j \notin DOMAIN templates' =>
              \/ ~(clock <= lastAt'[j] + TemplateTTL)
              \/ /\ Cardinality(DOMAIN templates') = MaxTemplates
                 /\ \A i \in DOMAIN templates' : lastAt'[j] <= lastAt'[i]
<1> DEFINE entry == [version |-> announced[k] + 1, created |-> clock]
           with == Decoder!WithTemplate(k, entry)
<1>1. /\ at[c] = "next" /\ k \in Serves[c] /\ announced[k] < MaxAnnouncements
      /\ announced' = [announced EXCEPT ![k] = announced[k] + 1] /\ lastAt' = [lastAt EXCEPT ![k] = clock]
      /\ layout' = [layout EXCEPT ![c] = announced[k] + 1]
      /\ work' = [work EXCEPT ![c] = pending[k]] /\ pending' = [pending EXCEPT ![k] = <<>>]
      /\ pendingN' = pendingN - Len(pending[k]) /\ at' = [at EXCEPT ![c] = "decode"]
      /\ UNCHANGED <<clock, unsent, arrivedAt, decoded, dropped>>
      /\ templates' \in Decoder!Evicted(with)
  BY DEF Decoder!storeTemplate, Decoder!TakePending
<1>2. work[c] = <<>> /\ Decoder!Elems(work[c]) = {}
  BY <1>1, ElemsFacts DEF DecoderInv, HandsInv
<1>3. /\ DOMAIN with = DOMAIN templates \cup {k}
      /\ \A j \in DOMAIN templates \cup {k} : with[j] = IF j = k THEN entry ELSE templates[j]
  BY DEF Decoder!WithTemplate
<1>4. IsFiniteSet(DOMAIN with)
  <2>1. IsFiniteSet(DOMAIN templates)
    BY DecoderFacts
  <2>2. IsFiniteSet(DOMAIN templates \cup {k})
    BY <2>1, FS_AddElement
  <2> QED BY <1>3, <2>2
<1>5. /\ announced'[k] = announced[k] + 1 /\ lastAt'[k] = clock
      /\ \A j \in Keys \ {k} : announced'[j] = announced[j] /\ lastAt'[j] = lastAt[j]
  BY <1>1, DecoderFacts
<1>6. entry.version = announced[k] + 1 /\ entry.created = clock
  OBVIOUS
<1>7. DOMAIN templates \subseteq Keys
  BY DEF DecoderInv, Decoder!TypeOK
<1> HIDE DEF entry
<1>8. \A j \in DOMAIN with : with[j].version = announced'[j] /\ with[j].created = lastAt'[j]
  BY <1>3, <1>5, <1>6, <1>7 DEF DecoderInv, VersionsInv
<1> HIDE DEF with
<1>9. /\ DOMAIN templates' \subseteq DOMAIN with /\ \A j \in DOMAIN templates' : templates'[j] = with[j]
      /\ Cardinality(DOMAIN templates') <= MaxTemplates
      /\ \A j \in DOMAIN with \ DOMAIN templates' :
           \/ ~(clock <= with[j].created + TemplateTTL)
           \/ /\ Cardinality(DOMAIN templates') = MaxTemplates
              /\ \A i \in DOMAIN templates' : with[j].created <= with[i].created
  BY <1>1, <1>4, EvictedFacts
<1>10. IsFiniteSet(DOMAIN templates')
  BY <1>4, <1>9, FS_Subset
<1>11. \A j \in DOMAIN templates \cup {k} : j \notin DOMAIN templates' =>
              \/ ~(clock <= lastAt'[j] + TemplateTTL)
              \/ /\ Cardinality(DOMAIN templates') = MaxTemplates
                 /\ \A i \in DOMAIN templates' : lastAt'[j] <= lastAt'[i]
  BY <1>3, <1>8, <1>9
<1>12. \A j \in DOMAIN templates' :
              /\ templates'[j] = IF j = k THEN entry ELSE templates[j]
              /\ templates'[j].version = announced'[j] /\ templates'[j].created = lastAt'[j]
  BY <1>3, <1>8, <1>9
<1>13. DOMAIN templates' \subseteq DOMAIN templates \cup {k}
  BY <1>3, <1>9
<1> QED BY <1>1, <1>2, <1>9, <1>10, <1>11, <1>12, <1>13 DEF entry

LEMMA StoringPlaces ==
  ASSUME DecoderInv, NEW c \in Consumers, NEW k \in Keys, Decoder!storeTemplate(c, k)
  PROVE  Decoder!TypeOK' /\ HandsInv' /\ PlacesInv'
<1> DEFINE M == Decoder!Elems(pending[k])
<1>1. /\ announced' = [announced EXCEPT ![k] = announced[k] + 1] /\ lastAt' = [lastAt EXCEPT ![k] = clock]
      /\ layout' = [layout EXCEPT ![c] = announced[k] + 1] /\ announced[k] < MaxAnnouncements
      /\ work' = [work EXCEPT ![c] = pending[k]] /\ pending' = [pending EXCEPT ![k] = <<>>]
      /\ pendingN' = pendingN - Len(pending[k]) /\ at' = [at EXCEPT ![c] = "decode"]
      /\ UNCHANGED <<clock, unsent, arrivedAt, decoded, dropped>>
      /\ Decoder!Elems(work[c]) = {}
  BY StoringFacts
<1>2. /\ M \subseteq Decoder!Waiting /\ M \subseteq Sets /\ pending[k] \in Seq(Sets)
      /\ <<>> \in Seq(Sets) /\ Decoder!Elems(<<>>) = {} /\ IsFiniteSet(M) /\ Len(pending[k]) = Cardinality(M)
  BY DecoderFacts, ElemsFacts DEF DecoderInv, HandsInv, PlacesInv
<1>3. \A s \in M : s \notin unsent /\ s \notin Handed /\ s \notin Decoder!DecodedSets /\ s \notin dropped
  BY <1>2 DEF DecoderInv, PlacesInv, OnePlaceOf
<1>4. /\ Handed' = Handed \cup M
      /\ work' \in [Consumers -> Seq(Sets)]
      /\ \A b \in Consumers \ {c} : work'[b] = work[b]
      /\ \A a, b \in Consumers : a # b => Decoder!Elems(work'[a]) \cap Decoder!Elems(work'[b]) = {}
  <2>1. HandsInv /\ PlacesInv
    BY DEF DecoderInv
  <2>2. Decoder!Elems(pending[k]) \cap (Handed \ Decoder!Elems(work[c])) = {} /\ work' = [work EXCEPT ![c] = pending[k]]
    BY <1>1, <1>3
  <2>3. Handed' = (Handed \ Decoder!Elems(work[c])) \cup Decoder!Elems(pending[k])
    BY <1>2, <2>1, <2>2, HandsChange
  <2>4. /\ work' \in [Consumers -> Seq(Sets)]
        /\ \A b \in Consumers \ {c} : work'[b] = work[b]
        /\ \A a, b \in Consumers : a # b => Decoder!Elems(work'[a]) \cap Decoder!Elems(work'[b]) = {}
    BY <1>2, <2>1, <2>2, HandsChange
  <2> QED BY <1>1, <2>3, <2>4
<1>5. /\ at'[c] = "decode" /\ \A b \in Consumers \ {c} : at'[b] = at[b]
      /\ at' \in [Consumers -> {"next", "lookup", "buffer", "decode"}]
  BY <1>1, DecoderFacts
<1>6. /\ Decoder!Waiting' = Decoder!Waiting \ M
      /\ pending' \in [Keys -> Seq(Sets)] /\ pending'[k] = <<>>
      /\ \A j \in Keys \ {k} : pending'[j] = pending[j]
      /\ \A j \in Keys : \A x \in Decoder!Elems(pending'[j]) : KeyOf[x] = j
  <2>1. HandsInv /\ \A x \in Decoder!Elems(<<>>) : KeyOf[x] = k
    BY <1>2 DEF DecoderInv
  <2>2. Decoder!Waiting' = (Decoder!Waiting \ Decoder!Elems(pending[k])) \cup Decoder!Elems(<<>>)
    BY <1>1, <1>2, <2>1, LineChanges
  <2>3. /\ pending' \in [Keys -> Seq(Sets)] /\ pending'[k] = <<>>
        /\ \A j \in Keys \ {k} : pending'[j] = pending[j]
        /\ \A j \in Keys : \A x \in Decoder!Elems(pending'[j]) : KeyOf[x] = j
    BY <1>1, <1>2, <2>1, LineChanges
  <2> QED BY <1>2, <2>2, <2>3
<1>7. /\ layout'[c] \in 1..MaxAnnouncements /\ \A b \in Consumers \ {c} : layout'[b] = layout[b]
      /\ layout' \in [Consumers -> 0..MaxAnnouncements]
      /\ announced' \in [Keys -> 0..MaxAnnouncements] /\ lastAt' \in [Keys -> 0..DecodeTime]
  <2>1. announced[k] \in Nat /\ announced[k] + 1 \in 1..MaxAnnouncements
    BY <1>1, DecoderFacts
  <2>2. clock \in 0..DecodeTime
    BY DEF DecoderInv, Decoder!TypeOK
  <2> QED BY <1>1, <2>1, <2>2, DecoderFacts
<1> HIDE DEF M
<1>8. Cardinality(Decoder!Waiting \ M) = Cardinality(Decoder!Waiting) - Cardinality(M) /\ Cardinality(M) \in Nat
      /\ Cardinality(M) <= Cardinality(Decoder!Waiting)
  <2>1. Decoder!Waiting \cap M = M
    BY <1>2
  <2>2. IsFiniteSet(Decoder!Waiting)
    BY DecoderFacts
  <2>3. Cardinality(Decoder!Waiting \ M) = Cardinality(Decoder!Waiting) - Cardinality(Decoder!Waiting \cap M)
    BY <2>2, FS_Difference
  <2>4. Cardinality(M) <= Cardinality(Decoder!Waiting)
    BY <1>2, <2>2, FS_Subset
  <2>5. Cardinality(M) \in Nat
    BY <1>2, FS_CardinalityType
  <2> QED BY <2>1, <2>3, <2>4, <2>5
<1>9. Decoder!PendingCounted' /\ pendingN' \in 0..MaxPendingSets
  <2>1. pendingN' = Decoder!Cardinality(Decoder!Waiting')
    BY <1>1, <1>2, <1>6, <1>8, DecoderFacts
  <2>2. pendingN' \in 0..MaxPendingSets
    BY <1>1, <1>2, <1>8, DecoderFacts DEF DecoderInv, Decoder!TypeOK
  <2> QED BY <2>1, <2>2 DEF Decoder!PendingCounted, Decoder!Cardinality
<1>10. Decoder!TypeOK'
  <2>1. DOMAIN templates' \subseteq Keys /\ Decoder!Cardinality(DOMAIN templates') <= MaxTemplates
    BY StoringFacts, DecoderFacts DEF DecoderInv, Decoder!TypeOK
  <2>2. \A j \in DOMAIN templates' : templates'[j] \in Decoder!Template
    <3>1. announced[k] + 1 \in 1..MaxAnnouncements /\ clock \in 0..DecodeTime
      <4>1. announced[k] + 1 \in 1..MaxAnnouncements
        BY <1>1, DecoderFacts
      <4>2. clock \in 0..DecodeTime
        BY DEF DecoderInv, Decoder!TypeOK
      <4> QED BY <4>1, <4>2
    <3>2. [version |-> announced[k] + 1, created |-> clock] \in Decoder!Template
      BY <3>1 DEF Decoder!Template
    <3>3. \A j \in DOMAIN templates' : j # k => templates'[j] = templates[j] /\ templates[j] \in Decoder!Template
      BY StoringFacts DEF DecoderInv, Decoder!TypeOK
    <3>4. \A j \in DOMAIN templates' : j = k => templates'[j] = [version |-> announced[k] + 1, created |-> clock]
      BY StoringFacts
    <3> QED BY <3>2, <3>3, <3>4
  <2>3. /\ Decoder!Template' = Decoder!Template /\ \A j \in Keys : pending'[j] \in Seq(Sets)
        /\ \A b \in Consumers : work'[b] \in Seq(Sets)
    BY <1>4, <1>6 DEF Decoder!Template
  <2> QED BY <1>1, <1>5, <1>7, <1>9, <2>1, <2>2, <2>3 DEF DecoderInv, Decoder!TypeOK, Decoder!Cardinality
<1>11. HandsInv'
  <2>1. \A b \in Consumers :
          /\ at'[b] = "next" => work'[b] = <<>>
          /\ at'[b] \in {"lookup", "buffer"} => \E s \in Sets : work'[b] = <<s>> /\ KeyOf[s] \in Serves[b]
          /\ at'[b] = "decode" => layout'[b] \in 1..MaxAnnouncements
    BY <1>4, <1>5, <1>7 DEF DecoderInv, HandsInv
  <2> QED BY <1>4, <1>6, <2>1 DEF HandsInv
<1>12. Decoder!DecodedSets' = Decoder!DecodedSets
  BY <1>1 DEF Decoder!DecodedSets
<1>13. \A x \in Sets : OnePlaceOf(x, unsent', dropped', Handed', Decoder!Waiting', Decoder!DecodedSets')
  BY <1>1, <1>2, <1>3, <1>4, <1>6, <1>12 DEF DecoderInv, PlacesInv, OnePlaceOf
<1>14. \A j \in Keys : Len(pending'[j]) = Cardinality(Decoder!Elems(pending'[j]))
  <2>1. Len(<<>>) = 0 /\ Cardinality({}) = 0
    BY FS_EmptySet
  <2> QED BY <1>2, <1>6, <2>1 DEF DecoderInv, PlacesInv
<1>15. PlacesInv'
  BY <1>1, <1>4, <1>9, <1>13, <1>14 DEF DecoderInv, PlacesInv
<1> QED BY <1>10, <1>11, <1>15

(* The clock and the steps of other stages leave all in place. *)
LEMMA SamePlaces ==
  ASSUME DecoderInv, clock' \in 0..DecodeTime, UNCHANGED decoderVars
  PROVE  Decoder!TypeOK' /\ HandsInv' /\ PlacesInv'
<1>1. UNCHANGED <<templates, pending, pendingN, at, work, layout, unsent, announced, lastAt, arrivedAt, decoded, dropped>>
  BY DEF decoderVars
<1>2. Decoder!TypeOK'
  BY <1>1 DEF DecoderInv, Decoder!TypeOK, Decoder!Template, Decoder!Cardinality
<1>3. HandsInv'
  BY <1>1, SameLines DEF DecoderInv, HandsInv
<1>4. Decoder!DecodedSets' = Decoder!DecodedSets
  BY <1>1 DEF Decoder!DecodedSets
<1>5. PlacesInv'
  <2>1. Handed' = Handed
    BY <1>1, SameHands
  <2>2. /\ Decoder!Waiting' = Decoder!Waiting /\ Decoder!PendingCounted'
        /\ \A k \in Keys : Len(pending'[k]) = Cardinality(Decoder!Elems(pending'[k]))
    BY <1>1, SameLines
  <2>3. \A b, c \in Consumers : b # c => Decoder!Elems(work'[b]) \cap Decoder!Elems(work'[c]) = {}
    BY <1>1 DEF DecoderInv, PlacesInv
  <2> QED BY <1>1, <1>4, <2>1, <2>2, <2>3 DEF DecoderInv, PlacesInv
<1> QED BY <1>2, <1>3, <1>5

-----------------------------------------------------------------------------
(* Versions: no set is ahead of the announcements, and none is decoded with *)
(* an older version than the one it met.                                    *)
LEMMA StepVersions ==
  ASSUME DecoderInv, Decoder!Next
  PROVE  VersionsInv'
<1>0. /\ VersionsInv /\ HandsInv /\ Decoder!NoOutdatedLayout
  BY DEF DecoderInv, VersionsInv
<1>1. ASSUME NEW c \in Consumers, NEW s \in Sets, Decoder!DataSet(c, s) PROVE VersionsInv'
  <2>1. /\ at[c] = "next" /\ at' = [at EXCEPT ![c] = "lookup"] /\ work' = [work EXCEPT ![c] = <<s>>]
        /\ s \in unsent /\ arrivedAt' = [arrivedAt EXCEPT ![s] = announced[KeyOf[s]]]
        /\ UNCHANGED <<clock, templates, pending, pendingN, layout, announced, lastAt, decoded, dropped>>
    BY <1>1 DEF Decoder!DataSet
  <2>2. \A d \in decoded : d[1] # s
    BY <2>1 DEF DecoderInv, PlacesInv, OnePlaceOf, Decoder!DecodedSets
  <2>3. \A b \in Consumers : s \notin Decoder!Elems(work[b])
    BY <2>1, DecoderFacts DEF DecoderInv, PlacesInv, OnePlaceOf
  <2>4. /\ arrivedAt'[s] = announced[KeyOf[s]] /\ \A x \in Sets \ {s} : arrivedAt'[x] = arrivedAt[x]
        /\ announced[KeyOf[s]] \in Nat
    BY <2>1, DecoderFacts
  <2>5. \A b \in Consumers : at'[b] = "decode" =>
          at[b] = "decode" /\ work'[b] = work[b] /\ Decoder!Elems(work[b]) \subseteq Sets
    BY <2>1, DecoderFacts DEF HandsInv, DecoderInv
  <2>6. \A b \in Consumers : at'[b] = "decode" => \A x \in Decoder!Elems(work'[b]) : arrivedAt'[x] <= layout'[b]
    BY <1>0, <2>1, <2>3, <2>4, <2>5 DEF VersionsInv
  <2>7. \A x \in Sets : arrivedAt'[x] <= announced'[KeyOf[x]]
    BY <1>0, <2>1, <2>4 DEF VersionsInv
  <2>8. Decoder!NoOutdatedLayout'
    <3>1. \A d \in decoded : d[1] \in Sets
      BY DEF DecoderInv, Decoder!TypeOK
    <3> QED BY <1>0, <2>1, <2>2, <2>4, <3>1 DEF Decoder!NoOutdatedLayout
  <2> QED BY <1>0, <2>1, <2>6, <2>7, <2>8 DEF VersionsInv
<1>2. ASSUME NEW c \in Consumers, NEW k \in Keys, Decoder!storeTemplate(c, k) PROVE VersionsInv'
  <2>1. /\ announced' = [announced EXCEPT ![k] = announced[k] + 1] /\ lastAt' = [lastAt EXCEPT ![k] = clock]
        /\ layout' = [layout EXCEPT ![c] = announced[k] + 1]
        /\ work' = [work EXCEPT ![c] = pending[k]] /\ at' = [at EXCEPT ![c] = "decode"]
        /\ UNCHANGED <<clock, unsent, arrivedAt, decoded, dropped>>
        /\ \A j \in DOMAIN templates' : templates'[j].version = announced'[j] /\ templates'[j].created = lastAt'[j]
    BY <1>2, StoringFacts
  <2>2. \A j \in Keys : announced'[j] \in Nat /\ announced[j] \in Nat /\ announced'[j] >= announced[j] /\ lastAt'[j] <= clock
    BY <1>0, <2>1, DecoderFacts DEF VersionsInv
  <2>3. \A x \in Sets : arrivedAt[x] \in Nat /\ arrivedAt[x] <= announced'[KeyOf[x]]
    BY <1>0, <2>2, DecoderFacts DEF VersionsInv
  <2>4. \A x \in Decoder!Elems(pending[k]) : x \in Sets /\ KeyOf[x] = k /\ arrivedAt[x] <= announced[k] + 1
    BY <1>0, DecoderFacts DEF VersionsInv, HandsInv
  <2>5. /\ work'[c] = pending[k] /\ layout'[c] = announced[k] + 1
        /\ \A b \in Consumers \ {c} : work'[b] = work[b] /\ layout'[b] = layout[b] /\ at'[b] = at[b]
    BY <2>1, DecoderFacts DEF DecoderInv, HandsInv
  <2>6. \A b \in Consumers : at'[b] = "decode" => \A x \in Decoder!Elems(work'[b]) : arrivedAt'[x] <= layout'[b]
    BY <1>0, <2>1, <2>4, <2>5 DEF VersionsInv
  <2>7. Decoder!NoOutdatedLayout'
    BY <1>0, <2>1 DEF Decoder!NoOutdatedLayout
  <2> QED BY <1>0, <2>1, <2>2, <2>3, <2>6, <2>7 DEF VersionsInv
<1>3. ASSUME NEW c \in Consumers, Decoder!template(c) PROVE VersionsInv'
  <2>1. PICK s \in Sets : work[c] = <<s>>
    BY <1>3 DEF Decoder!template, HandsInv, DecoderInv
  <2>2. Decoder!Elems(work[c]) = {s} /\ work[c][1] = s
    BY <2>1, ElemsFacts
  <2>3. /\ UNCHANGED <<clock, work, decoded, announced, lastAt, arrivedAt>>
        /\ (Decoder!TemplateFound(c, KeyOf[s]) \/ Decoder!TemplateMissing(c, KeyOf[s]))
    BY <1>3, <2>2 DEF Decoder!template, Decoder!historyVars
  <2>4. CASE Decoder!TemplateFound(c, KeyOf[s])
    <3>1. /\ KeyOf[s] \in DOMAIN templates /\ layout' = [layout EXCEPT ![c] = templates[KeyOf[s]].version]
          /\ at' = [at EXCEPT ![c] = "decode"] /\ templates' = templates
      BY <2>4 DEF Decoder!TemplateFound
    <3>2. layout'[c] = announced[KeyOf[s]] /\ arrivedAt[s] <= layout'[c]
      BY <1>0, <3>1, DecoderFacts DEF VersionsInv
    <3>3. \A b \in Consumers : at'[b] = "decode" => \A x \in Decoder!Elems(work'[b]) : arrivedAt'[x] <= layout'[b]
      BY <1>0, <2>2, <2>3, <3>1, <3>2, DecoderFacts DEF VersionsInv
    <3> QED BY <1>0, <2>3, <3>1, <3>3 DEF VersionsInv, Decoder!NoOutdatedLayout
  <2>5. CASE Decoder!TemplateMissing(c, KeyOf[s])
    <3>1. /\ templates' = [k \in DOMAIN templates \ {KeyOf[s]} |-> templates[k]]
          /\ at' = [at EXCEPT ![c] = "buffer"] /\ layout' = layout
      BY <2>5 DEF Decoder!TemplateMissing, Decoder!Restrict
    <3> HIDE DEF Decoder!TemplateMissing
    <3>2. \A b \in Consumers : at'[b] = "decode" => at[b] = "decode"
      BY <3>1, DecoderFacts
    <3>3. \A b \in Consumers : at'[b] = "decode" => \A x \in Decoder!Elems(work'[b]) : arrivedAt'[x] <= layout'[b]
      BY <1>0, <2>3, <3>1, <3>2 DEF VersionsInv
    <3>4. \A k \in DOMAIN templates' : k \in DOMAIN templates /\ templates'[k] = templates[k]
      BY <3>1
    <3> QED BY <1>0, <2>3, <3>3, <3>4 DEF VersionsInv, Decoder!NoOutdatedLayout
  <2> QED BY <2>3, <2>4, <2>5
<1>4. ASSUME NEW c \in Consumers, Decoder!bufferPending(c) PROVE VersionsInv'
  <2>1. /\ at' = [at EXCEPT ![c] = "next"] /\ work' = [work EXCEPT ![c] = <<>>]
        /\ UNCHANGED <<clock, templates, layout, decoded, announced, lastAt, arrivedAt>>
    BY <1>4 DEF Decoder!bufferPending, Decoder!historyVars
  <2>2. \A b \in Consumers : at'[b] = "decode" => at[b] = "decode" /\ work'[b] = work[b]
    BY <2>1, DecoderFacts DEF DecoderInv, HandsInv
  <2>3. \A b \in Consumers : at'[b] = "decode" => \A x \in Decoder!Elems(work'[b]) : arrivedAt'[x] <= layout'[b]
    BY <1>0, <2>1, <2>2 DEF VersionsInv
  <2> QED BY <1>0, <2>1, <2>3 DEF VersionsInv, Decoder!NoOutdatedLayout
<1>5. ASSUME NEW c \in Consumers, Decoder!decodeDataSet(c) PROVE VersionsInv'
  <2>1. /\ at[c] = "decode" /\ at' = [at EXCEPT ![c] = "next"] /\ work' = [work EXCEPT ![c] = <<>>]
        /\ decoded' = decoded \cup {<<s, layout[c]>> : s \in Decoder!Elems(work[c])}
        /\ UNCHANGED <<clock, templates, layout, announced, lastAt, arrivedAt>>
    BY <1>5 DEF Decoder!decodeDataSet, Decoder!historyVars
  <2>2. \A b \in Consumers : at'[b] = "decode" => at[b] = "decode" /\ work'[b] = work[b]
    BY <2>1, DecoderFacts DEF DecoderInv, HandsInv
  <2>3. \A b \in Consumers : at'[b] = "decode" => \A x \in Decoder!Elems(work'[b]) : arrivedAt'[x] <= layout'[b]
    BY <1>0, <2>1, <2>2 DEF VersionsInv
  <2>4. \A s \in Decoder!Elems(work[c]) : s \in Sets /\ arrivedAt[s] \in Nat /\ layout[c] \in Nat /\ layout[c] >= arrivedAt[s]
    BY <1>0, <2>1, DecoderFacts DEF VersionsInv
  <2>5. \A d \in {<<s, layout[c]>> : s \in Decoder!Elems(work[c])} : d[2] >= arrivedAt[d[1]]
    BY <2>4
  <2>6. Decoder!NoOutdatedLayout'
    BY <1>0, <2>1, <2>5 DEF Decoder!NoOutdatedLayout
  <2> QED BY <1>0, <2>1, <2>3, <2>6 DEF VersionsInv
<1>6. ASSUME Decoder!Tick PROVE VersionsInv'
  <2>1. clock' = clock + 1 /\ UNCHANGED <<templates, at, work, layout, decoded, announced, lastAt, arrivedAt>>
    BY <1>6 DEF Decoder!Tick, Decoder!historyVars
  <2>2. \A k \in Keys : lastAt[k] \in Nat
    BY DecoderFacts
  <2>3. \A k \in Keys : lastAt'[k] <= clock'
    BY <1>0, <2>1, <2>2, DecoderFacts DEF VersionsInv
  <2> QED BY <1>0, <2>1, <2>3 DEF VersionsInv, Decoder!NoOutdatedLayout
<1> QED BY <1>1, <1>2, <1>3, <1>4, <1>5, <1>6 DEF Decoder!Next, Decoder!parseSets

(* A consumer alone with a key is the only one that stores its template. *)
LEMMA StepAwaiting ==
  ASSUME DecoderInv, Decoder!Next
  PROVE  AwaitingInv'
<1>0. /\ AwaitingInv /\ HandsInv /\ VersionsInv /\ Decoder!PendingAwaitsTemplate
  BY DEF DecoderInv, AwaitingInv
<1>1. ASSUME NEW c \in Consumers, NEW s \in Sets, Decoder!DataSet(c, s) PROVE AwaitingInv'
  <2>1. /\ at' = [at EXCEPT ![c] = "lookup"] /\ work' = [work EXCEPT ![c] = <<s>>]
        /\ UNCHANGED <<clock, templates, pending>>
    BY <1>1 DEF Decoder!DataSet
  <2>2. \A b \in Consumers : at'[b] = "buffer" => at[b] = "buffer" /\ work'[b] = work[b]
    BY <2>1, DecoderFacts DEF HandsInv, DecoderInv
  <2> QED BY <1>0, <2>1, <2>2 DEF AwaitingInv, Decoder!PendingAwaitsTemplate, Decoder!OneConsumer, Decoder!Expired
<1>2. ASSUME NEW c \in Consumers, NEW k \in Keys, Decoder!storeTemplate(c, k) PROVE AwaitingInv'
  <2>1. /\ at[c] = "next" /\ k \in Serves[c] /\ work' = [work EXCEPT ![c] = pending[k]]
        /\ pending' = [pending EXCEPT ![k] = <<>>] /\ at' = [at EXCEPT ![c] = "decode"] /\ clock' = clock
        /\ DOMAIN templates' \subseteq DOMAIN templates \cup {k}
        /\ \A j \in DOMAIN templates' : j # k => templates'[j] = templates[j]
    BY <1>2, StoringFacts
  <2>2. \A j \in DOMAIN templates' : j # k => j \in DOMAIN templates /\ (Decoder!Expired(j)' <=> Decoder!Expired(j))
    BY <2>1 DEF Decoder!Expired
  <2>3. \A j \in DOMAIN templates' : j \in Keys
    BY <2>1 DEF DecoderInv, Decoder!TypeOK
  <2>4. \A j \in DOMAIN templates' : Decoder!OneConsumer(j) => pending'[j] = <<>> \/ Decoder!Expired(j)'
    BY <1>0, <2>1, <2>2, <2>3 DEF Decoder!PendingAwaitsTemplate, HandsInv
  <2>5. Decoder!PendingAwaitsTemplate'
    BY <2>4 DEF Decoder!PendingAwaitsTemplate, Decoder!OneConsumer, Decoder!Expired
  <2>6. ASSUME NEW b \in Consumers, at'[b] = "buffer", NEW x \in Decoder!Elems(work'[b]),
               Decoder!OneConsumer(KeyOf[x]), KeyOf[x] \in DOMAIN templates'
        PROVE  Decoder!Expired(KeyOf[x])'
    <3>1. b # c /\ at[b] = "buffer" /\ work'[b] = work[b]
      BY <2>1, <2>6, DecoderFacts DEF HandsInv
    <3>2. KeyOf[x] \in Serves[b]
      <4>1. PICK s \in Sets : work[b] = <<s>> /\ KeyOf[s] \in Serves[b]
        BY <1>0, <3>1 DEF HandsInv
      <4>2. Decoder!Elems(work[b]) = {s}
        BY <4>1, ElemsFacts
      <4> QED BY <2>6, <3>1, <4>1, <4>2
    <3>3. KeyOf[x] # k
      BY <2>1, <2>6, <3>1, <3>2 DEF Decoder!OneConsumer
    <3>4. KeyOf[x] \in DOMAIN templates
      BY <2>2, <2>6, <3>3
    <3>5. Decoder!Expired(KeyOf[x])
      BY <1>0, <2>6, <3>1, <3>4 DEF AwaitingInv
    <3> QED BY <2>2, <2>6, <3>3, <3>5
  <2>7. \A b \in Consumers : at'[b] = "buffer" => \A x \in Decoder!Elems(work'[b]) :
          Decoder!OneConsumer(KeyOf[x]) /\ KeyOf[x] \in DOMAIN templates' => Decoder!Expired(KeyOf[x])'
    BY <2>6
  <2> QED BY <2>5, <2>7 DEF AwaitingInv, Decoder!OneConsumer, Decoder!Expired, Decoder!Elems
<1>3. ASSUME NEW c \in Consumers, Decoder!template(c) PROVE AwaitingInv'
  <2>1. PICK s \in Sets : work[c] = <<s>>
    BY <1>3 DEF Decoder!template, HandsInv, DecoderInv
  <2>2. Decoder!Elems(work[c]) = {s} /\ work[c][1] = s
    BY <2>1, ElemsFacts
  <2>3. /\ UNCHANGED <<clock, work, pending>>
        /\ (Decoder!TemplateFound(c, KeyOf[s]) \/ Decoder!TemplateMissing(c, KeyOf[s]))
    BY <1>3, <2>2 DEF Decoder!template, Decoder!historyVars
  <2>4. CASE Decoder!TemplateFound(c, KeyOf[s])
    <3>1. at' = [at EXCEPT ![c] = "decode"] /\ templates' = templates
      BY <2>4 DEF Decoder!TemplateFound
    <3>2. \A b \in Consumers : at'[b] = "buffer" => at[b] = "buffer"
      BY <3>1, DecoderFacts
    <3> QED BY <1>0, <2>3, <3>1, <3>2 DEF AwaitingInv, Decoder!PendingAwaitsTemplate, Decoder!OneConsumer, Decoder!Expired
  <2>5. CASE Decoder!TemplateMissing(c, KeyOf[s])
    <3>1. at' = [at EXCEPT ![c] = "buffer"] /\ templates' = [k \in DOMAIN templates \ {KeyOf[s]} |-> templates[k]]
      BY <2>5 DEF Decoder!TemplateMissing, Decoder!Restrict
    <3>2. /\ \A b \in Consumers : at'[b] = "buffer" => b = c \/ at[b] = "buffer"
          /\ KeyOf[s] \notin DOMAIN templates'
          /\ \A k \in DOMAIN templates' : k \in DOMAIN templates /\ templates'[k] = templates[k]
      BY <3>1, DecoderFacts
    <3>3. \A b \in Consumers : at'[b] = "buffer" => \A x \in Decoder!Elems(work'[b]) :
            Decoder!OneConsumer(KeyOf[x]) /\ KeyOf[x] \in DOMAIN templates' => Decoder!Expired(KeyOf[x])'
      BY <1>0, <2>2, <2>3, <3>2 DEF AwaitingInv, Decoder!Expired
    <3>4. \A k \in DOMAIN templates' : Decoder!OneConsumer(k) => pending'[k] = <<>> \/ Decoder!Expired(k)'
      BY <1>0, <2>3, <3>2 DEF Decoder!PendingAwaitsTemplate, Decoder!Expired
    <3> QED BY <3>3, <3>4 DEF AwaitingInv, Decoder!PendingAwaitsTemplate, Decoder!OneConsumer, Decoder!Expired, Decoder!Elems
  <2> QED BY <2>3, <2>4, <2>5
<1>4. ASSUME NEW c \in Consumers, Decoder!bufferPending(c) PROVE AwaitingInv'
  <2>1. PICK s \in Sets : work[c] = <<s>>
    BY <1>4 DEF Decoder!bufferPending, HandsInv, DecoderInv
  <2>2. Decoder!Elems(work[c]) = {s} /\ work[c][1] = s
    BY <2>1, ElemsFacts
  <2>3. /\ at[c] = "buffer" /\ at' = [at EXCEPT ![c] = "next"] /\ work' = [work EXCEPT ![c] = <<>>]
        /\ UNCHANGED <<clock, templates>>
        /\ (pending' = pending \/ pending' = [pending EXCEPT ![KeyOf[s]] = Append(pending[KeyOf[s]], s)])
    BY <1>4, <2>2 DEF Decoder!bufferPending
  <2>4. \A b \in Consumers : at'[b] = "buffer" => at[b] = "buffer" /\ work'[b] = work[b]
    BY <2>3, DecoderFacts DEF HandsInv, DecoderInv
  <2>5. \A k \in Keys \ {KeyOf[s]} : pending'[k] = pending[k]
    BY <2>3 DEF HandsInv, DecoderInv
  <2>6. Decoder!OneConsumer(KeyOf[s]) /\ KeyOf[s] \in DOMAIN templates => Decoder!Expired(KeyOf[s])
    BY <1>0, <2>2, <2>3 DEF AwaitingInv
  <2>7. DOMAIN templates \subseteq Keys
    BY DEF DecoderInv, Decoder!TypeOK
  <2>8. \A k \in DOMAIN templates : Decoder!OneConsumer(k) => pending'[k] = <<>> \/ Decoder!Expired(k)
    BY <1>0, <2>5, <2>6, <2>7 DEF Decoder!PendingAwaitsTemplate
  <2> QED BY <1>0, <2>3, <2>4, <2>8 DEF AwaitingInv, Decoder!PendingAwaitsTemplate, Decoder!OneConsumer, Decoder!Expired
<1>5. ASSUME NEW c \in Consumers, Decoder!decodeDataSet(c) PROVE AwaitingInv'
  <2>1. /\ at' = [at EXCEPT ![c] = "next"] /\ work' = [work EXCEPT ![c] = <<>>]
        /\ UNCHANGED <<clock, templates, pending>>
    BY <1>5 DEF Decoder!decodeDataSet
  <2>2. \A b \in Consumers : at'[b] = "buffer" => at[b] = "buffer" /\ work'[b] = work[b]
    BY <2>1, DecoderFacts DEF HandsInv, DecoderInv
  <2> QED BY <1>0, <2>1, <2>2 DEF AwaitingInv, Decoder!PendingAwaitsTemplate, Decoder!OneConsumer, Decoder!Expired
<1>6. ASSUME Decoder!Tick PROVE AwaitingInv'
  <2>1. clock' = clock + 1 /\ UNCHANGED <<templates, pending, at, work>>
    BY <1>6 DEF Decoder!Tick
  <2>2. \A k \in DOMAIN templates : templates[k].created \in Nat
    BY DEF DecoderInv, Decoder!TypeOK, Decoder!Template
  <2>3. \A k \in DOMAIN templates : Decoder!Expired(k) => Decoder!Expired(k)'
    BY <2>1, <2>2, DecoderFacts DEF Decoder!Expired
  <2> QED BY <1>0, <2>1, <2>3 DEF AwaitingInv, Decoder!PendingAwaitsTemplate, Decoder!OneConsumer, Decoder!Expired
<1> QED BY <1>1, <1>2, <1>3, <1>4, <1>5, <1>6 DEF Decoder!Next, Decoder!parseSets

(* The keys announced since the last announcement of k. *)
NewerThan(k) == {j \in Keys \ {k} : announced[j] > 0 /\ lastAt[j] >= lastAt[k]}

LEMMA SurvivesFacts ==
  ASSUME DecoderInv
  PROVE  /\ \A k \in Keys : announced[k] > 0 /\ clock <= lastAt[k] + TemplateTTL /\ k \notin DOMAIN templates
                           => Cardinality(NewerThan(k)) >= MaxTemplates
         /\ (\A k \in Keys : announced'[k] > 0 /\ clock' <= lastAt'[k] + TemplateTTL /\ k \notin DOMAIN templates'
                           => Cardinality(NewerThan(k)') >= MaxTemplates)
            => Decoder!RecentTemplateSurvives'
         /\ UNCHANGED <<clock, templates, announced, lastAt>> => Decoder!RecentTemplateSurvives'
<1>1. \A k \in Keys : announced[k] > 0 /\ clock <= lastAt[k] + TemplateTTL /\ k \notin DOMAIN templates
                         => Cardinality(NewerThan(k)) >= MaxTemplates
  BY DecoderFacts DEF DecoderInv, Decoder!RecentTemplateSurvives, NewerThan
<1>2. (\A k \in Keys : announced'[k] > 0 /\ clock' <= lastAt'[k] + TemplateTTL /\ k \notin DOMAIN templates'
                         => Cardinality(NewerThan(k)') >= MaxTemplates)
      => Decoder!RecentTemplateSurvives'
  BY DEF Decoder!RecentTemplateSurvives, NewerThan, Decoder!Cardinality, Cardinality
<1>3. ASSUME UNCHANGED <<clock, templates, announced, lastAt>> PROVE Decoder!RecentTemplateSurvives'
  <2>1. \A k \in Keys : NewerThan(k)' = NewerThan(k)
    BY <1>3 DEF NewerThan
  <2> QED BY <1>1, <1>2, <1>3, <2>1
<1> QED BY <1>1, <1>2, <1>3

LEMMA StepSurvives ==
  ASSUME DecoderInv, Decoder!Next
  PROVE  Decoder!RecentTemplateSurvives'
<1>0. /\ \A k \in Keys : announced[k] > 0 /\ clock <= lastAt[k] + TemplateTTL /\ k \notin DOMAIN templates
                         => Cardinality(NewerThan(k)) >= MaxTemplates
      /\ VersionsInv
  BY SurvivesFacts DEF DecoderInv
<1>1. (\A k \in Keys : announced'[k] > 0 /\ clock' <= lastAt'[k] + TemplateTTL /\ k \notin DOMAIN templates'
                         => Cardinality(NewerThan(k)') >= MaxTemplates)
      => Decoder!RecentTemplateSurvives'
  BY SurvivesFacts
<1>2. ASSUME UNCHANGED <<clock, templates, announced, lastAt>> PROVE Decoder!RecentTemplateSurvives'
  BY <1>2, SurvivesFacts
<1>3. ASSUME NEW c \in Consumers, NEW s \in Sets, Decoder!DataSet(c, s) PROVE Decoder!RecentTemplateSurvives'
  <2>1. UNCHANGED <<clock, templates, announced, lastAt>>
    BY <1>3 DEF Decoder!DataSet
  <2> QED BY <1>2, <2>1
<1>4. ASSUME NEW c \in Consumers, Decoder!bufferPending(c) PROVE Decoder!RecentTemplateSurvives'
  <2>1. UNCHANGED <<clock, templates, announced, lastAt>>
    BY <1>4 DEF Decoder!bufferPending, Decoder!historyVars
  <2> QED BY <1>2, <2>1
<1>5. ASSUME NEW c \in Consumers, Decoder!decodeDataSet(c) PROVE Decoder!RecentTemplateSurvives'
  <2>1. UNCHANGED <<clock, templates, announced, lastAt>>
    BY <1>5 DEF Decoder!decodeDataSet, Decoder!historyVars
  <2> QED BY <1>2, <2>1
<1>6. ASSUME Decoder!Tick PROVE Decoder!RecentTemplateSurvives'
  <2>1. clock' = clock + 1 /\ UNCHANGED <<templates, announced, lastAt>>
    BY <1>6 DEF Decoder!Tick, Decoder!historyVars
  <2>2. \A k \in Keys : NewerThan(k)' = NewerThan(k)
    BY <2>1 DEF NewerThan
  <2>3. \A k \in Keys : lastAt[k] \in Nat
    BY DecoderFacts
  <2>4. \A k \in Keys : clock + 1 <= lastAt[k] + TemplateTTL => clock <= lastAt[k] + TemplateTTL
    BY <2>3, DecoderFacts
  <2> QED BY <1>0, <1>1, <2>1, <2>2, <2>4
<1>7. ASSUME NEW c \in Consumers, Decoder!template(c) PROVE Decoder!RecentTemplateSurvives'
  <2>1. PICK s \in Sets : work[c] = <<s>>
    BY <1>7 DEF Decoder!template, HandsInv, DecoderInv
  <2>2. work[c][1] = s
    BY <2>1
  <2>3. /\ UNCHANGED <<clock, announced, lastAt>>
        /\ (Decoder!TemplateFound(c, KeyOf[s]) \/ Decoder!TemplateMissing(c, KeyOf[s]))
    BY <1>7, <2>2 DEF Decoder!template, Decoder!historyVars
  <2>4. CASE Decoder!TemplateFound(c, KeyOf[s])
    <3>1. templates' = templates
      BY <2>4 DEF Decoder!TemplateFound
    <3> QED BY <1>2, <2>3, <3>1
  <2>5. CASE Decoder!TemplateMissing(c, KeyOf[s])
    <3>1. /\ DOMAIN templates' = DOMAIN templates \ {KeyOf[s]}
          /\ KeyOf[s] \in DOMAIN templates => Decoder!Expired(KeyOf[s])
      BY <2>5 DEF Decoder!TemplateMissing, Decoder!Restrict
    <3>2. \A k \in Keys : lastAt[k] \in Nat
      BY DecoderFacts
    <3>3. KeyOf[s] \in DOMAIN templates => ~(clock <= lastAt[KeyOf[s]] + TemplateTTL)
      BY <1>0, <3>1, <3>2, DecoderFacts DEF Decoder!Expired, VersionsInv
    <3>4. \A k \in Keys : NewerThan(k)' = NewerThan(k)
      BY <2>3 DEF NewerThan
    <3> QED BY <1>0, <1>1, <2>3, <3>1, <3>3, <3>4
  <2> QED BY <2>3, <2>4, <2>5
<1>8. ASSUME NEW c \in Consumers, NEW n \in Keys, Decoder!storeTemplate(c, n) PROVE Decoder!RecentTemplateSurvives'
  <2>1. /\ announced' = [announced EXCEPT ![n] = announced[n] + 1] /\ lastAt' = [lastAt EXCEPT ![n] = clock]
        /\ clock' = clock /\ IsFiniteSet(DOMAIN templates')
        /\ \A j \in DOMAIN templates' : templates'[j].version = announced'[j]
        /\ \A j \in DOMAIN templates \cup {n} : j \notin DOMAIN templates' =>
              \/ ~(clock <= lastAt'[j] + TemplateTTL)
              \/ /\ Cardinality(DOMAIN templates') = MaxTemplates
                 /\ \A i \in DOMAIN templates' : lastAt'[j] <= lastAt'[i]
    BY <1>8, StoringFacts
  <2>2. /\ announced'[n] = announced[n] + 1 /\ lastAt'[n] = clock
        /\ \A j \in Keys \ {n} : announced'[j] = announced[j] /\ lastAt'[j] = lastAt[j]
        /\ \A j \in Keys : announced[j] \in Nat /\ lastAt[j] \in Nat /\ lastAt[j] <= clock
    BY <1>0, <2>1, DecoderFacts DEF VersionsInv
  <2>3. \A j \in DOMAIN templates' : j \in Keys /\ announced'[j] > 0
    <3>1. Decoder!TypeOK'
      BY <1>8, StoringPlaces
    <3>2. \A j \in DOMAIN templates' : j \in Keys /\ templates'[j].version \in Nat \ {0}
      BY <3>1, DecoderFacts DEF Decoder!TypeOK, Decoder!Template
    <3> QED BY <2>1, <3>2
  <2>4. \A k \in Keys : /\ IsFiniteSet(NewerThan(k)) /\ IsFiniteSet(NewerThan(k)')
                        /\ Cardinality(NewerThan(k)) \in Nat /\ Cardinality(NewerThan(k)') \in Nat
    <3>1. \A k \in Keys : NewerThan(k) \subseteq Keys /\ NewerThan(k)' \subseteq Keys
      BY DEF NewerThan
    <3> QED BY <3>1, DecoderFacts, FS_Subset, FS_CardinalityType
  <2>5. ASSUME NEW k \in Keys, announced'[k] > 0, clock' <= lastAt'[k] + TemplateTTL, k \notin DOMAIN templates'
        PROVE  Cardinality(NewerThan(k)') >= MaxTemplates
    <3>1. CASE k \in DOMAIN templates \cup {n}
      <4>1. /\ Cardinality(DOMAIN templates') = MaxTemplates
            /\ \A i \in DOMAIN templates' : lastAt'[k] <= lastAt'[i]
        BY <2>1, <2>5, <3>1
      <4>2. \A i \in DOMAIN templates' : i \in Keys \ {k} /\ announced'[i] > 0 /\ lastAt'[i] >= lastAt'[k]
        BY <2>3, <2>5, <4>1
      <4>3. DOMAIN templates' \subseteq NewerThan(k)'
        BY <4>2 DEF NewerThan
      <4>4. Cardinality(DOMAIN templates') <= Cardinality(NewerThan(k)')
        BY <2>4, <4>3, FS_Subset
      <4> QED BY <2>4, <4>1, <4>4, DecoderFacts
    <3>2. CASE k \notin DOMAIN templates \cup {n}
      <4>1. announced[k] > 0 /\ clock <= lastAt[k] + TemplateTTL /\ k \notin DOMAIN templates /\ lastAt'[k] = lastAt[k]
        BY <2>1, <2>2, <2>5, <3>2
      <4>2. Cardinality(NewerThan(k)) >= MaxTemplates
        BY <1>0, <4>1
      <4>3. ASSUME NEW j \in NewerThan(k) PROVE j \in NewerThan(k)'
        <5>1. j \in Keys \ {k} /\ announced[j] > 0 /\ lastAt[j] >= lastAt[k]
          BY DEF NewerThan
        <5>2. announced'[j] > 0 /\ lastAt'[j] >= lastAt'[k]
          BY <2>2, <4>1, <5>1
        <5> QED BY <5>1, <5>2 DEF NewerThan
      <4>4. Cardinality(NewerThan(k)) <= Cardinality(NewerThan(k)')
        BY <2>4, <4>3, FS_Subset
      <4> QED BY <2>4, <4>2, <4>4, DecoderFacts
    <3> QED BY <3>1, <3>2
  <2> QED BY <1>1, <2>5
<1> QED BY <1>3, <1>4, <1>5, <1>6, <1>7, <1>8 DEF Decoder!Next, Decoder!parseSets

-----------------------------------------------------------------------------
LEMMA DecoderStep == DecoderInv /\ Decoder!Next => DecoderInv'
<1> SUFFICES ASSUME DecoderInv, Decoder!Next PROVE DecoderInv'
  OBVIOUS
<1>1. ASSUME NEW c \in Consumers, Decoder!parseSets(c) PROVE Decoder!TypeOK' /\ HandsInv' /\ PlacesInv'
  BY <1>1, ArrivingPlaces, StoringPlaces, LookingUpPlaces, PuttingAsidePlaces, DecodingPlaces DEF Decoder!parseSets
<1>2. ASSUME Decoder!Tick PROVE Decoder!TypeOK' /\ HandsInv' /\ PlacesInv'
  <2>1. clock' \in 0..DecodeTime
    BY <1>2, DecoderFacts DEF Decoder!Tick
  <2>2. UNCHANGED decoderVars
    BY <1>2 DEF Decoder!Tick, Decoder!historyVars, decoderVars
  <2> QED BY <2>1, <2>2, SamePlaces
<1>3. Decoder!TypeOK' /\ HandsInv' /\ PlacesInv'
  BY <1>1, <1>2 DEF Decoder!Next
<1>4. VersionsInv' /\ AwaitingInv' /\ Decoder!RecentTemplateSurvives'
  BY StepVersions, StepAwaiting, StepSurvives
<1> QED BY <1>3, <1>4 DEF DecoderInv

LEMMA DecoderRests == DecoderInv /\ UNCHANGED Decoder!vars => DecoderInv'
<1> SUFFICES ASSUME DecoderInv, UNCHANGED Decoder!vars PROVE DecoderInv'
  OBVIOUS
<1>1. UNCHANGED <<clock, templates, pending, pendingN, at, work, layout, unsent, announced, lastAt, arrivedAt,
                  decoded, dropped>>
  BY DEF Decoder!vars
<1>2. clock' \in 0..DecodeTime /\ UNCHANGED decoderVars
  BY <1>1 DEF DecoderInv, Decoder!TypeOK, decoderVars
<1>3. Decoder!TypeOK' /\ HandsInv' /\ PlacesInv'
  BY <1>2, SamePlaces
<1>4. VersionsInv'
  BY <1>1 DEF DecoderInv, VersionsInv, Decoder!NoOutdatedLayout, Decoder!Elems
<1>5. AwaitingInv'
  BY <1>1 DEF DecoderInv, AwaitingInv, Decoder!PendingAwaitsTemplate, Decoder!OneConsumer, Decoder!Expired, Decoder!Elems
<1>6. Decoder!RecentTemplateSurvives'
  BY <1>1, SurvivesFacts
<1> QED BY <1>3, <1>4, <1>5, <1>6 DEF DecoderInv

(* A set of at most one element, and of none. *)
LEMMA FewOrNone ==
  ASSUME NEW S PROVE /\ (\E x : S = {x}) => Cardinality(S) = 1
                     /\ S = {} => Cardinality(S) = 0
BY FS_Singleton, FS_EmptySet

(* Being in one place of PlacesInv is what EachSetOnce counts. *)
LEMMA OnceEach == DecoderInv => Decoder!EachSetOnce
<1> SUFFICES ASSUME DecoderInv PROVE Decoder!EachSetOnce
  OBVIOUS
<1>1. ASSUME NEW s \in Sets
      PROVE Decoder!Cardinality({c \in Consumers : s \in Decoder!Elems(work[c])})
            + Decoder!Cardinality({k \in Keys : s \in Decoder!Elems(pending[k])})
            + Decoder!Cardinality({v \in 1..MaxAnnouncements : <<s, v>> \in decoded})
            + Decoder!Cardinality({s} \cap unsent) + Decoder!Cardinality({s} \cap dropped) = 1
  <2> DEFINE hands == {c \in Consumers : s \in Decoder!Elems(work[c])}
             lines == {k \in Keys : s \in Decoder!Elems(pending[k])}
             versions == {v \in 1..MaxAnnouncements : <<s, v>> \in decoded}
             coming == {s} \cap unsent
             gone == {s} \cap dropped
  <2>1. /\ s \notin Handed => hands = {}
        /\ s \in Handed => \E x : hands = {x}
    <3>1. s \in Handed <=> \E c \in Consumers : s \in Decoder!Elems(work[c])
      BY DEF Handed
    <3>2. \A b, c \in hands : b = c
      BY DEF DecoderInv, PlacesInv
    <3>3. ASSUME s \in Handed PROVE \E x : hands = {x}
      <4>1. PICK c \in Consumers : s \in Decoder!Elems(work[c])
        BY <3>1, <3>3
      <4>2. hands = {c}
        BY <3>2, <4>1
      <4> QED BY <4>2
    <3> QED BY <3>1, <3>3
  <2>2. /\ s \notin Decoder!Waiting => lines = {}
        /\ s \in Decoder!Waiting => \E x : lines = {x}
    <3>1. s \in Decoder!Waiting <=> \E k \in Keys : s \in Decoder!Elems(pending[k])
      BY DEF Decoder!Waiting
    <3>2. \A k \in lines : k = KeyOf[s]
      BY DEF DecoderInv, HandsInv
    <3>3. ASSUME s \in Decoder!Waiting PROVE \E x : lines = {x}
      <4>1. PICK k \in Keys : s \in Decoder!Elems(pending[k])
        BY <3>1, <3>3
      <4>2. lines = {k}
        BY <3>2, <4>1
      <4> QED BY <4>2
    <3> QED BY <3>1, <3>3
  <2>3. /\ s \notin Decoder!DecodedSets => versions = {}
        /\ s \in Decoder!DecodedSets => \E x : versions = {x}
    <3>1. s \in Decoder!DecodedSets <=> \E d \in decoded : s = d[1]
      BY DEF Decoder!DecodedSets
    <3>2. \A d \in decoded : d = <<d[1], d[2]>> /\ d[2] \in 1..MaxAnnouncements
      BY DEF DecoderInv, Decoder!TypeOK
    <3>3. \A v, w \in versions : v = w
      <4>1. \A v, w : <<s, v>> \in decoded /\ <<s, w>> \in decoded => <<s, v>> = <<s, w>>
        BY DEF DecoderInv, PlacesInv
      <4> QED BY <4>1
    <3>4. ASSUME s \in Decoder!DecodedSets PROVE \E x : versions = {x}
      <4>1. PICK d \in decoded : s = d[1]
        BY <3>1, <3>4
      <4>2. d[2] \in versions
        BY <3>2, <4>1
      <4>3. versions = {d[2]}
        BY <3>3, <4>2
      <4> QED BY <4>3
    <3>5. ASSUME s \notin Decoder!DecodedSets PROVE versions = {}
      <4>1. \A v : <<s, v>> \notin decoded
        BY <3>1, <3>5
      <4> QED BY <4>1
    <3> QED BY <3>4, <3>5
  <2>4. /\ s \notin unsent => coming = {}
        /\ s \in unsent => \E x : coming = {x}
        /\ s \notin dropped => gone = {}
        /\ s \in dropped => \E x : gone = {x}
    <3>1. s \in unsent => coming = {s}
      OBVIOUS
    <3>2. s \in dropped => gone = {s}
      OBVIOUS
    <3> QED BY <3>1, <3>2
  <2>5. OnePlaceOf(s, unsent, dropped, Handed, Decoder!Waiting, Decoder!DecodedSets)
    BY DEF DecoderInv, PlacesInv
  <2> HIDE DEF hands, lines, versions, coming, gone
  <2>6. /\ Cardinality(hands) = IF s \in Handed THEN 1 ELSE 0
        /\ Cardinality(lines) = IF s \in Decoder!Waiting THEN 1 ELSE 0
        /\ Cardinality(versions) = IF s \in Decoder!DecodedSets THEN 1 ELSE 0
        /\ Cardinality(coming) = IF s \in unsent THEN 1 ELSE 0
        /\ Cardinality(gone) = IF s \in dropped THEN 1 ELSE 0
    BY <2>1, <2>2, <2>3, <2>4, FewOrNone
  <2>7. Cardinality(hands) + Cardinality(lines) + Cardinality(versions) + Cardinality(coming) + Cardinality(gone) = 1
    BY <2>5, <2>6 DEF OnePlaceOf
  <2>8. Decoder!Cardinality(hands) + Decoder!Cardinality(lines) + Decoder!Cardinality(versions) + Decoder!Cardinality(coming) + Decoder!Cardinality(gone) = 1
    BY <2>7, DecoderFacts
  <2> QED BY <2>8 DEF hands, lines, versions, coming, gone
<1>2. \A k \in Keys : Len(pending[k]) = Decoder!Cardinality(Decoder!Elems(pending[k]))
  BY DecoderFacts DEF DecoderInv, PlacesInv
<1> QED BY <1>1, <1>2 DEF Decoder!EachSetOnce

(* What the property of the runs says of the decoder. *)
DecoderIsRight ==
  /\ Decoder!TypeOK /\ Decoder!EachSetOnce /\ Decoder!PendingCounted /\ Decoder!PendingAwaitsTemplate
  /\ Decoder!RecentTemplateSurvives /\ Decoder!NoOutdatedLayout

LEMMA DecoderIsRightThen == DecoderInv => DecoderIsRight
<1>1. DecoderInv => Decoder!TypeOK /\ PlacesInv /\ VersionsInv /\ AwaitingInv /\ Decoder!RecentTemplateSurvives
  BY DEF DecoderInv
<1>2. PlacesInv => Decoder!PendingCounted
  BY DEF PlacesInv
<1>3. VersionsInv => Decoder!NoOutdatedLayout
  BY DEF VersionsInv
<1>4. AwaitingInv => Decoder!PendingAwaitsTemplate
  BY DEF AwaitingInv
<1> QED BY <1>1, <1>2, <1>3, <1>4, OnceEach DEF DecoderIsRight

(***************************************************************************)
(* For any number of consumers, keys and data sets, and caches of any      *)
(* size: every data set is in one place and decoded or dropped once, what  *)
(* waits is counted and does not wait for a template that is there, a      *)
(* recent template gives way to enough newer ones only, and no set is      *)
(* decoded with a layout replaced before it came.                          *)
(***************************************************************************)
THEOREM TemplatesServeEachSet == Decoder!Spec => []DecoderIsRight
<1>1. DecoderInv /\ [Decoder!Next]_(Decoder!vars) => DecoderInv'
  BY DecoderStep, DecoderRests
<1>2. Decoder!Spec => []DecoderInv
  BY DecoderBegins, <1>1, PTL DEF Decoder!Spec
<1> QED BY <1>2, DecoderIsRightThen, PTL

-----------------------------------------------------------------------------
(* The stages side by side.  A query by a lone caller is remembered by the  *)
(* cache, or about to be, and no call gets as far as a query while what is  *)
(* remembered is fresh.                                                     *)
LoneInv ==
  /\ \A i \in IPs : \A s, t \in asked[c1][i] : s = t
  /\ \A i \in IPs : \A t \in asked[c1][i] :
       \/ pc[c1] = "store" /\ ip[c1] = i
       \/ \E e \in cached[i] : e.at = t
  /\ pc[c1] = "store" => \A t \in asked[c1][ip[c1]] : t = now[c1]
  /\ pc[c1] = "query" => \A e \in cached[ip[c1]] : ~Fresh(e, now[c1])

LoneStep ==
  \/ TenantForIP(c1)
  \/ \E i \in IPs, a \in Answers : InventoryChange(i, a)
  \/ Tick
  \/ UNCHANGED vars

StagesInv ==
  /\ part \in {"resolver", "lone"} => IInv
  /\ part = "lone" => LoneInv
  /\ part = "listener" => ListenerInv
  /\ part = "decoder" => DecoderInv
  /\ part # "listener" => audits = {} /\ \A d \in Datagrams : quarantined[d] = 0

LEMMA StagesBegin == MCInit => StagesInv
<1> SUFFICES ASSUME MCInit PROVE StagesInv
  OBVIOUS
<1>1. Init /\ Listener!Init /\ Decoder!Init
  BY DEF MCInit
<1>2. IInv
  BY <1>1, InitHolds
<1>3. LoneInv
  BY <1>1, ConstantsAreRight DEF Init, LoneInv
<1>4. ListenerInv
  BY <1>1, ConstantsAreRight, ListenerBegins
<1>5. audits = {} /\ \A d \in Datagrams : quarantined[d] = 0
  BY <1>1 DEF Listener!Init
<1>6. DecoderInv
  BY <1>1, DecoderBegins
<1> QED BY <1>2, <1>3, <1>4, <1>5, <1>6 DEF StagesInv

(* What a step is for each of the stages. *)
LEMMA StepsOfTheStages ==
  ASSUME [MCNext]_all
  PROVE  /\ part' = part
         /\ part \in {"resolver", "lone"} => [Next]_vars
         /\ part = "lone" => LoneStep
         /\ part = "listener" => [Listener!Next]_(Listener!vars)
         /\ part = "decoder" => [Decoder!Next]_(Decoder!vars)
         /\ part # "listener" => UNCHANGED <<quarantined, audits>>
<1>1. CASE UNCHANGED all
  <2>1. part' = part /\ UNCHANGED <<clock, resolverVars, listenerVars, decoderVars>>
    BY <1>1 DEF all
  <2>2. UNCHANGED vars
    BY <2>1 DEF vars, resolverVars
  <2>3. UNCHANGED (Listener!vars) /\ UNCHANGED <<quarantined, audits>>
    BY <2>1 DEF listenerVars, Listener!vars, Listener!readerVars, Listener!consumerVars
  <2>4. UNCHANGED (Decoder!vars)
    BY <2>1 DEF decoderVars, Decoder!vars
  <2> QED BY <2>1, <2>2, <2>3, <2>4 DEF LoneStep
<1>2. CASE part = "resolver" /\ Resolve(Callers)
  <2>1. Next
    BY <1>2 DEF Resolve, Next
  <2>2. part' = part /\ UNCHANGED <<quarantined, audits>>
    BY <1>2 DEF Resolve, listenerVars
  <2> QED BY <1>2, <2>1, <2>2
<1>3. CASE part = "lone" /\ Resolve({c1})
  <2>1. LoneStep
    BY <1>3 DEF Resolve, LoneStep
  <2>2. [Next]_vars
    BY <2>1, ConstantsAreRight DEF LoneStep, Next
  <2>3. part' = part /\ UNCHANGED <<quarantined, audits>>
    BY <1>3 DEF Resolve, listenerVars
  <2> QED BY <1>3, <2>1, <2>2, <2>3
<1>4. CASE part = "listener" /\ Listen
  BY <1>4 DEF Listen
<1>5. CASE part = "decoder" /\ Decode
  BY <1>5 DEF Decode, listenerVars
<1> QED BY <1>1, <1>2, <1>3, <1>4, <1>5 DEF MCNext

LEMMA LoneKeeps ==
  ASSUME IInv, LoneInv, LoneStep
  PROVE  LoneInv' /\ (UNCHANGED asked \/ SpacedQueries(c1))
<1>0. /\ c1 \in Callers /\ ip[c1] \in IPs /\ now[c1] \in Nat
      /\ pc \in [Callers -> {"idle", "look", "query", "store", "returned"}]
      /\ asked \in [Callers -> [IPs -> SUBSET Time]] /\ cached \in [IPs -> SUBSET cachedTenant]
      /\ now \in [Callers -> Time] /\ ip \in [Callers -> IPs]
  BY ConstantsAreRight DEF IInv, TypeOK, Time
<1>1. ASSUME NEW i \in IPs, Call(c1, i) PROVE LoneInv' /\ UNCHANGED asked
  <2>1. pc'[c1] = "look" /\ pc[c1] # "store" /\ UNCHANGED <<cached, asked>>
    BY <1>0, <1>1 DEF Call
  <2> QED BY <2>1 DEF LoneInv
<1>2. CASE Hit(c1)
  <2>1. pc'[c1] = "returned" /\ pc[c1] # "store" /\ UNCHANGED <<cached, asked>>
    BY <1>0, <1>2 DEF Hit
  <2> QED BY <2>1 DEF LoneInv
<1>3. CASE Miss(c1)
  <2>1. /\ pc'[c1] = "query" /\ pc[c1] # "store" /\ UNCHANGED <<cached, asked, ip, now>>
        /\ \A e \in cached[ip[c1]] : ~Fresh(e, now[c1])
    BY <1>0, <1>3 DEF Miss
  <2> QED BY <2>1 DEF LoneInv
<1>4. CASE Query(c1)
  <2>1. /\ pc[c1] = "query" /\ pc'[c1] = "store" /\ UNCHANGED <<cached, ip, now>>
        /\ asked'[c1][ip[c1]] = {now[c1]}
        /\ \A i \in IPs \ {ip[c1]} : asked'[c1][i] = asked[c1][i]
    BY <1>0, <1>4 DEF Query
  <2>2. LoneInv'
    <3>1. ASSUME NEW i \in IPs PROVE \A s, t \in asked'[c1][i] : s = t
      BY <2>1 DEF LoneInv
    <3>2. ASSUME NEW i \in IPs, NEW t \in asked'[c1][i]
          PROVE  (pc'[c1] = "store" /\ ip'[c1] = i) \/ \E e \in cached'[i] : e.at = t
      BY <2>1 DEF LoneInv
    <3> QED BY <2>1, <3>1, <3>2 DEF LoneInv
  <2>3. SpacedQueries(c1)
    <3> SUFFICES ASSUME NEW i \in IPs, NEW last \in asked[c1][i], NEW next \in asked'[c1][i], next # last
                 PROVE  last + TTL <= next
      BY DEF SpacedQueries
    <3>1. CASE i = ip[c1]
      <4>1. PICK e \in cached[i] : e.at = last
        BY <2>1, <3>1 DEF LoneInv
      <4>2. ~(now[c1] < e.at + TTL)
        BY <2>1, <3>1 DEF LoneInv, Fresh
      <4>3. e.at \in Nat /\ TTL \in Nat /\ next = now[c1]
        BY <1>0, <2>1, <3>1, ResolverAssumption DEF cachedTenant, Time
      <4> QED BY <1>0, <4>1, <4>2, <4>3
    <3>2. CASE i # ip[c1]
      BY <2>1, <3>2 DEF LoneInv
    <3> QED BY <3>1, <3>2
  <2> QED BY <2>2, <2>3
<1>5. CASE Store(c1)
  <2> DEFINE new == [answer |-> answer[c1], at |-> now[c1]]
  <2>1. /\ pc[c1] = "store" /\ pc'[c1] = "returned" /\ UNCHANGED asked
        /\ cached'[ip[c1]] = {new}
        /\ \A i \in IPs \ {ip[c1]} : cached'[i] = cached[i]
    BY <1>0, <1>5 DEF Store
  <2>2. new.at = now[c1]
    OBVIOUS
  <2> HIDE DEF new
  <2>3. ASSUME NEW i \in IPs, NEW t \in asked'[c1][i] PROVE \E e \in cached'[i] : e.at = t
    <3>1. CASE i = ip[c1]
      BY <2>1, <2>2, <2>3, <3>1 DEF LoneInv
    <3>2. CASE i # ip[c1]
      BY <2>1, <2>3, <3>2 DEF LoneInv
    <3> QED BY <3>1, <3>2
  <2> QED BY <2>1, <2>3 DEF LoneInv
<1>6. CASE (\E i \in IPs, a \in Answers : InventoryChange(i, a)) \/ Tick \/ UNCHANGED vars
  <2>1. UNCHANGED <<pc, ip, now, cached, asked>>
    BY <1>6 DEF InventoryChange, Tick, vars
  <2> QED BY <2>1 DEF LoneInv
<1> QED BY <1>1, <1>2, <1>3, <1>4, <1>5, <1>6 DEF LoneStep, TenantForIP

LEMMA StagesStep == StagesInv /\ [MCNext]_all => StagesInv'
<1> SUFFICES ASSUME StagesInv, [MCNext]_all PROVE StagesInv'
  OBVIOUS
<1>1. part' = part
  BY StepsOfTheStages
<1>2. CASE part \in {"resolver", "lone"}
  <2>1. IInv'
    BY <1>2, StepsOfTheStages, StepKeepsInvariant DEF StagesInv
  <2>2. part = "lone" => LoneInv'
    BY StepsOfTheStages, LoneKeeps DEF StagesInv
  <2>3. audits' = {} /\ \A d \in Datagrams : quarantined'[d] = 0
    BY <1>2, StepsOfTheStages DEF StagesInv
  <2> QED BY <1>1, <1>2, <2>1, <2>2, <2>3 DEF StagesInv
<1>3. CASE part = "listener"
  <2>1. ListenerInv'
    BY <1>3, StepsOfTheStages, ListenerKeeps, ConstantsAreRight DEF StagesInv
  <2> QED BY <1>1, <1>3, <2>1 DEF StagesInv
<1>4. CASE part = "decoder"
  <2>1. DecoderInv'
    BY <1>4, StepsOfTheStages, DecoderStep, DecoderRests DEF StagesInv
  <2>2. audits' = {} /\ \A d \in Datagrams : quarantined'[d] = 0
    BY <1>4, StepsOfTheStages DEF StagesInv
  <2> QED BY <1>1, <1>4, <2>1, <2>2 DEF StagesInv
<1>5. CASE part \notin {"resolver", "lone", "listener", "decoder"}
  BY <1>1, <1>5, StepsOfTheStages DEF StagesInv
<1> QED BY <1>2, <1>3, <1>4, <1>5

(***************************************************************************)
(* udp.go: in the stages side by side as well, datagrams are dispatched in *)
(* order, a drained Stop left none behind, and audits are never missing.   *)
(***************************************************************************)
THEOREM StagesDispatchInOrder == MCSpec => []DispatchedInOrder
<1>1. StagesInv => DispatchedInOrder
  <2> SUFFICES ASSUME StagesInv PROVE DispatchedInOrder
    OBVIOUS
  <2>1. CASE part = "listener"
    BY <2>1, DrainedIsHandled DEF StagesInv, ListenerInv, DispatchedInOrder
  <2>2. CASE part # "listener"
    <3>1. Listener!QuarantineIsAudited /\ Listener!AuditsAreSpaced
      BY <2>2 DEF StagesInv, Listener!QuarantineIsAudited, Listener!AuditsAreSpaced
    <3> QED BY <2>2, <3>1 DEF DispatchedInOrder
  <2> QED BY <2>1, <2>2
<1> QED BY <1>1, StagesBegin, StagesStep, PTL DEF MCSpec

(***************************************************************************)
(* ipfix.go, template, bufferPending, storeTemplate and evictLocked: in    *)
(* the stages side by side as well, every data set is decoded or dropped   *)
(* once, with the template it met or a newer one.                          *)
(***************************************************************************)
THEOREM StagesKeepTemplates == MCSpec => []TemplatesAreKept
<1>1. StagesInv => TemplatesAreKept
  BY DecoderIsRightThen DEF StagesInv, DecoderIsRight, TemplatesAreKept
<1> QED BY <1>1, StagesBegin, StagesStep, PTL DEF MCSpec

(***************************************************************************)
(* tenantCacheTTL (sink.go:46-47): a goroutine that is the only caller     *)
(* queries the inventory for an address once per ttl at most.              *)
(***************************************************************************)
THEOREM LoneCallersWait == MCSpec => LoneQueriesAreSpaced
<1>1. StagesInv /\ [MCNext]_all => [part = "lone" => SpacedQueries(c1)]_<<part, asked>>
  <2> SUFFICES ASSUME StagesInv, [MCNext]_all, part = "lone"
               PROVE  SpacedQueries(c1) \/ UNCHANGED <<part, asked>>
    OBVIOUS
  <2>1. part' = part /\ LoneStep /\ IInv /\ LoneInv
    BY StepsOfTheStages DEF StagesInv
  <2> QED BY <2>1, LoneKeeps
<1> QED BY <1>1, StagesBegin, StagesStep, PTL DEF MCSpec, LoneQueriesAreSpaced
=============================================================================
