---------------------------- MODULE TenantResolver ----------------------------
(***************************************************************************)
(* storeResolver (internal/observability/sink.go): which tenant an         *)
(* exporter belongs to, asked for every decoded record.  The answer comes  *)
(* from the inventory or from a cache entry younger than ttl.  A call      *)
(* reads the clock, looks in the cache, queries the inventory and writes   *)
(* the cache at four different moments, the two accesses to the cache      *)
(* under a lock that is released in between; the consumers of all          *)
(* listeners call it at the same time.                                     *)
(***************************************************************************)
EXTENDS Naturals, FiniteSets

CONSTANTS
  Callers,   \* the consumer goroutines of the listeners
  IPs,       \* exporter addresses
  Tenants,   \* what a device of the inventory may have as tenant
  Unknown,   \* the answer ("", false)
  TTL,       \* tenantCacheTTL
  MaxTime    \* bound of the clock

ASSUME ResolverAssumption ==
  /\ IsFiniteSet(Callers) /\ IsFiniteSet(IPs)
  /\ Unknown \notin Tenants
  /\ TTL \in Nat \ {0}
  /\ MaxTime \in Nat

Answers == Tenants \cup {Unknown}

Time == 0..MaxTime

(* An entry of the cache: what was answered, and the time it counts from. *)
cachedTenant == [answer : Answers, at : Time]

VARIABLES
  clock,
  inventory,  \* inventory[ip]: the tenant of that device, Unknown for none
  cached,     \* cached[ip]: no entry or one, as a set
  pc,         \* where each caller is
  ip,         \* the address it asked for
  now,        \* the time it read first
  answer,     \* what it found
  truth,      \* history: <<ip, t, a>> if a query at time t could answer a
  asked       \* history: asked[c][i]: the time of c's last query for i, as a set

vars == <<clock, inventory, cached, pc, ip, now, answer, truth, asked>>

Init ==
  /\ clock = 0
  /\ inventory \in [IPs -> Answers]
  /\ cached = [i \in IPs |-> {}]
  /\ pc = [c \in Callers |-> "idle"]
  /\ ip \in [Callers -> IPs]
  /\ now = [c \in Callers |-> 0]
  /\ answer = [c \in Callers |-> Unknown]
  /\ truth = {<<i, 0, inventory[i]>> : i \in IPs}
  /\ asked = [c \in Callers |-> [i \in IPs |-> {}]]

-----------------------------------------------------------------------------
(***************************************************************************)
(* TenantForIP(i), first line: the time is read before anything else.      *)
(***************************************************************************)
Call(c, i) ==
  /\ pc[c] \in {"idle", "returned"}
  /\ pc' = [pc EXCEPT ![c] = "look"]
  /\ ip' = [ip EXCEPT ![c] = i]
  /\ now' = [now EXCEPT ![c] = clock]
  /\ UNCHANGED <<clock, inventory, cached, answer, truth, asked>>

(* Entry e is good for a call that began at t. *)
Fresh(e, t) == t < e.at + TTL

(***************************************************************************)
(* First critical section: a fresh entry is the answer.                    *)
(***************************************************************************)
Hit(c) ==
  /\ pc[c] = "look"
  /\ \E e \in cached[ip[c]] :
       Fresh(e, now[c]) /\ answer' = [answer EXCEPT ![c] = e.answer]
  /\ pc' = [pc EXCEPT ![c] = "returned"]
  /\ UNCHANGED <<clock, inventory, cached, ip, now, truth, asked>>

Miss(c) ==
  /\ pc[c] = "look"
  /\ \A e \in cached[ip[c]] : ~Fresh(e, now[c])
  /\ pc' = [pc EXCEPT ![c] = "query"]
  /\ UNCHANGED <<clock, inventory, cached, ip, now, answer, truth, asked>>

(***************************************************************************)
(* GetDevice: the inventory as it is now.  A query that fails is an        *)
(* unknown device like one that finds nothing.                             *)
(***************************************************************************)
Query(c) ==
  /\ pc[c] = "query"
  /\ \/ /\ answer' = [answer EXCEPT ![c] = inventory[ip[c]]]
        /\ UNCHANGED truth
     \/ /\ answer' = [answer EXCEPT ![c] = Unknown]
        /\ truth' = truth \cup {<<ip[c], clock, Unknown>>}
  /\ asked' = [asked EXCEPT ![c][ip[c]] = {now[c]}]
  /\ pc' = [pc EXCEPT ![c] = "store"]
  /\ UNCHANGED <<clock, inventory, cached, ip, now>>

(***************************************************************************)
(* Fault: the entry counts from the moment it is written, not from the     *)
(* moment before the query.                                                *)
(***************************************************************************)
StoreStampedLate(c) ==
  /\ pc[c] = "store"
  /\ cached' = [cached EXCEPT ![ip[c]] =
                  {[answer |-> answer[c], at |-> clock]}]
  /\ pc' = [pc EXCEPT ![c] = "returned"]
  /\ UNCHANGED <<clock, inventory, ip, now, answer, truth, asked>>

(***************************************************************************)
(* Fault: only devices of the inventory are remembered.                    *)
(***************************************************************************)
StoreKnownOnly(c) ==
  /\ pc[c] = "store"
  /\ cached' = IF answer[c] = Unknown THEN cached
               ELSE [cached EXCEPT ![ip[c]] =
                       {[answer |-> answer[c], at |-> now[c]]}]
  /\ pc' = [pc EXCEPT ![c] = "returned"]
  /\ UNCHANGED <<clock, inventory, ip, now, answer, truth, asked>>

(***************************************************************************)
(* Second critical section: the entry is replaced whatever it has become,  *)
(* with the time read before the query.                                    *)
(***************************************************************************)
Store(c) ==
  /\ pc[c] = "store"
  /\ cached' = [cached EXCEPT ![ip[c]] =
                  {[answer |-> answer[c], at |-> now[c]]}]
  /\ pc' = [pc EXCEPT ![c] = "returned"]
  /\ UNCHANGED <<clock, inventory, ip, now, answer, truth, asked>>

TenantForIP(c) == (\E i \in IPs : Call(c, i)) \/ Hit(c) \/ Miss(c) \/ Query(c) \/ Store(c)

-----------------------------------------------------------------------------
(***************************************************************************)
(* The rest of the program adds, moves and removes devices; time passes.   *)
(***************************************************************************)
InventoryChange(i, a) ==
  /\ a # inventory[i]
  /\ inventory' = [inventory EXCEPT ![i] = a]
  /\ truth' = truth \cup {<<i, clock, a>>}
  /\ UNCHANGED <<clock, cached, pc, ip, now, answer, asked>>

Tick ==
  /\ clock < MaxTime
  /\ clock' = clock + 1
  /\ truth' = truth \cup {<<i, clock + 1, inventory[i]>> : i \in IPs}
  /\ UNCHANGED <<inventory, cached, pc, ip, now, answer, asked>>

Next ==
  \/ \E c \in Callers : TenantForIP(c)
  \/ \E i \in IPs, a \in Answers : InventoryChange(i, a)
  \/ Tick

Spec == Init /\ [][Next]_vars

-----------------------------------------------------------------------------
(***************************************************************************)
(* The variables keep their types, at most one entry per address.          *)
(***************************************************************************)
TypeOK ==
  /\ clock \in Time
  /\ inventory \in [IPs -> Answers]
  /\ cached \in [IPs -> SUBSET cachedTenant]
  /\ \A i \in IPs : \A e, f \in cached[i] : e = f
  /\ pc \in [Callers -> {"idle", "look", "query", "store", "returned"}]
  /\ ip \in [Callers -> IPs]
  /\ now \in [Callers -> Time]
  /\ answer \in [Callers -> Answers]
  /\ truth \subseteq IPs \X Time \X Answers
  /\ asked \in [Callers -> [IPs -> SUBSET Time]]

(***************************************************************************)
(* sink.go:54-57, "un device appena aggiunto viene riconosciuto entro un   *)
(* minuto": an answer is never older than the ttl, counted from the moment *)
(* the call began, although a slow caller may put back an entry that a     *)
(* faster one has already replaced, and although every caller trusts what  *)
(* the others stored.                                                      *)
(***************************************************************************)
BoundedStaleness ==
  \A c \in Callers : pc[c] = "returned" =>
    \E t \in Time : now[c] < t + TTL /\ <<ip[c], t, answer[c]>> \in truth

(***************************************************************************)
(* sink.go:46-47, "limita la frequenza delle query di inventario": one     *)
(* goroutine queries the inventory for one address, known or unknown, at   *)
(* most once per ttl.  True when it is the only caller; two callers can    *)
(* undo each other's newer entries.                                        *)
(***************************************************************************)
SpacedQueries(c) ==
  \A i \in IPs : \A last \in asked[c][i], next \in asked'[c][i] :
    next # last => last + TTL <= next
=============================================================================
