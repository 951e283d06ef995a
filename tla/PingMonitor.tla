------------------------------ MODULE PingMonitor ------------------------------
(***************************************************************************)
(* The ping monitor (internal/pingmon/monitor.go): one loop that reads its *)
(* settings, probes every device of the inventory, at most Slots at a time *)
(* and all within one deadline, and then sleeps until it is woken or the   *)
(* interval is over.  Whoever saves settings writes them and then wakes it *)
(* through a channel that holds one token.  Nothing stops the loop.        *)
(***************************************************************************)
EXTENDS Naturals, FiniteSets

CONSTANTS
  Devices,        \* devices there may be
  Savers,         \* requests that save settings
  Slots,          \* probes at a time (50)
  StartedByApp,   \* TRUE: somebody calls Start
  MayFail,        \* TRUE: the store may fail to answer
  MaxSaves,       \* bound: settings saved
  MaxChanges      \* bound: changes of the inventory or of what answers

ASSUME PingMonitorAssumption ==
  /\ IsFiniteSet(Devices)
  /\ Slots \in Nat \ {0} /\ StartedByApp \in BOOLEAN /\ MayFail \in BOOLEAN
  /\ MaxSaves \in Nat /\ MaxChanges \in Nat

VARIABLES
  enabled,     \* the settings row
  saver,       \* saver[s]: the request is between its two steps
  wakeCh,      \* tokens in wakeCh
  pc,          \* where the loop is
  cfg,         \* the settings the loop has read
  inventory,   \* devices in the inventory
  answers,     \* devices that answer
  ips,         \* the devices of this cycle
  probing,     \* probes that hold a slot
  results,     \* results[d]: "none", "up" or "down" in this cycle
  expired,     \* the deadline of this cycle is over
  state,       \* state[d]: what the monitor shows, "unknown", "up" or "down"
  steady,      \* history: devices that answered during the whole cycle
  saves,       \* settings saved so far
  changes      \* changes so far

env == <<inventory, answers, changes>>
cycle == <<ips, probing, results, expired, steady>>
settings == <<enabled, saver, saves>>
vars == <<settings, wakeCh, pc, cfg, env, cycle, state>>

NoResults == [d \in Devices |-> "none"]

Init ==
  /\ enabled = FALSE /\ saver = [s \in Savers |-> "free"] /\ saves = 0
  /\ wakeCh = 0 /\ pc = "off" /\ cfg = FALSE
  /\ inventory \in SUBSET Devices /\ answers \in SUBSET Devices /\ changes = 0
  /\ ips = {} /\ probing = {} /\ results = NoResults /\ expired = FALSE /\ steady = {}
  /\ state = [d \in Devices |-> "unknown"]

-----------------------------------------------------------------------------
(* SaveConfig: the row first, then the token, unless one is there already. *)
SaveConfig(s) ==
  /\ saver[s] = "free" /\ saves < MaxSaves
  /\ enabled' \in BOOLEAN
  /\ saves' = saves + 1
  /\ saver' = [saver EXCEPT ![s] = "saved"]
  /\ UNCHANGED <<wakeCh, pc, cfg, env, cycle, state>>

(* Fault: the token is handed over only to a loop that waits for it. *)
WakeUnbuffered(s) ==
  /\ saver[s] = "saved"
  /\ wakeCh' = IF pc \in {"idle", "sleep"} THEN 1 ELSE wakeCh
  /\ saver' = [saver EXCEPT ![s] = "free"]
  /\ UNCHANGED <<enabled, saves, pc, cfg, env, cycle, state>>

Wake(s) ==
  /\ saver[s] = "saved"
  /\ wakeCh' = 1
  /\ saver' = [saver EXCEPT ![s] = "free"]
  /\ UNCHANGED <<enabled, saves, pc, cfg, env, cycle, state>>

(* Start; nothing in the program calls it at this commit. *)
Start ==
  /\ pc = "off" /\ StartedByApp
  /\ pc' = "config"
  /\ UNCHANGED <<settings, wakeCh, cfg, env, cycle, state>>

-----------------------------------------------------------------------------
(* The settings; they are the defaults, disabled, when they cannot be read. *)
GetConfig ==
  /\ pc = "config"
  /\ cfg' \in {enabled} \cup (IF MayFail THEN {FALSE} ELSE {})
  /\ pc' = IF cfg' THEN "list" ELSE "idle"
  /\ UNCHANGED <<settings, wakeCh, env, cycle, state>>

(* Disabled: two seconds, or a token. *)
Idle ==
  /\ pc = "idle"
  /\ wakeCh' \in {0, wakeCh}
  /\ pc' = "config"
  /\ UNCHANGED <<settings, cfg, env, cycle, state>>

(* Fault: answers of the cycle before are still in the channel. *)
ListedAgain ==
  /\ pc = "list"
  /\ ips' = inventory /\ steady' = inventory \cap answers
  /\ probing' = {} /\ expired' = FALSE
  /\ \/ inventory = {} /\ state' = [d \in Devices |-> "unknown"] /\ pc' = "sleep"
     \/ inventory # {} /\ UNCHANGED state /\ pc' = "probe"
  /\ UNCHANGED <<settings, wakeCh, cfg, env, results>>

Listed ==
  /\ pc = "list"
  /\ ips' = inventory /\ steady' = inventory \cap answers
  /\ probing' = {} /\ results' = NoResults /\ expired' = FALSE
  /\ \/ inventory = {} /\ state' = [d \in Devices |-> "unknown"] /\ pc' = "sleep"
     \/ inventory # {} /\ UNCHANGED state /\ pc' = "probe"
  /\ UNCHANGED <<settings, wakeCh, cfg, env>>

(***************************************************************************)
(* The inventory is read; without devices the state is thrown away, and    *)
(* when it cannot be read the cycle is left out.                           *)
(***************************************************************************)
ListDevices ==
  \/ /\ pc = "list" /\ MayFail /\ pc' = "sleep"
     /\ UNCHANGED <<settings, wakeCh, cfg, env, cycle, state>>
  \/ Listed

Waiting == {d \in ips : results[d] = "none" /\ d \notin probing}

(* A probe takes a slot, in any order of the devices. *)
Acquire(d) ==
  /\ pc = "probe" /\ d \in Waiting /\ Cardinality(probing) < Slots
  /\ probing' = probing \cup {d}
  /\ UNCHANGED <<settings, wakeCh, pc, cfg, env, ips, results, expired, steady, state>>

(* Fault: the slot of a device that answers is not given back. *)
ProbeKeepsSlot(d) ==
  /\ pc = "probe" /\ d \in probing /\ results[d] = "none"
  /\ \/ d \in answers /\ ~expired /\ results' = [results EXCEPT ![d] = "up"] /\ UNCHANGED probing
     \/ /\ expired /\ results' = [results EXCEPT ![d] = "down"]
        /\ probing' = probing \ {d}
  /\ UNCHANGED <<settings, wakeCh, pc, cfg, env, ips, expired, steady, state>>

(* Ping: an answer comes at once; silence lasts longer than the deadline. *)
Probe(d) ==
  /\ pc = "probe" /\ d \in probing
  /\ \/ d \in answers /\ ~expired /\ results' = [results EXCEPT ![d] = "up"]
     \/ expired /\ results' = [results EXCEPT ![d] = "down"]
  /\ probing' = probing \ {d}
  /\ UNCHANGED <<settings, wakeCh, pc, cfg, env, ips, expired, steady, state>>

(* Five seconds: nothing that could answer is still in a slot or able to take one. *)
Expire ==
  /\ pc = "probe" /\ ~expired
  /\ probing # {} /\ probing \cap answers = {}
  /\ Waiting = {} \/ Cardinality(probing) = Slots
  /\ expired' = TRUE
  /\ UNCHANGED <<settings, wakeCh, pc, cfg, env, ips, probing, results, steady, state>>

(* All probes are back: the state is merged in one critical section. *)
Merge ==
  /\ pc = "probe" /\ \A d \in ips : results[d] # "none"
  /\ state' = [d \in Devices |-> IF d \in ips THEN results[d] ELSE "unknown"]
  /\ pc' = "sleep"
  /\ UNCHANGED <<settings, wakeCh, cfg, env, cycle>>

(* The interval is over, or there is a token. *)
Sleep ==
  /\ pc = "sleep"
  /\ wakeCh' \in {0, wakeCh}
  /\ pc' = "config"
  /\ UNCHANGED <<settings, cfg, env, cycle, state>>

-----------------------------------------------------------------------------
Change(in, up) ==
  /\ changes < MaxChanges /\ changes' = changes + 1
  /\ inventory' = in /\ answers' = up
  /\ steady' = steady \cap up
  /\ UNCHANGED <<settings, wakeCh, pc, cfg, ips, probing, results, expired, state>>

Environment ==
  \E d \in Devices :
    \/ Change(inventory \cup {d}, answers) \/ Change(inventory \ {d}, answers)
    \/ Change(inventory, answers \cup {d}) \/ Change(inventory, answers \ {d})

Loop ==
  \/ Start \/ GetConfig \/ Idle \/ ListDevices
  \/ \E d \in Devices : Acquire(d) \/ Probe(d)
  \/ Expire \/ Merge \/ Sleep

Next ==
  \/ Loop \/ Environment
  \/ \E s \in Savers : SaveConfig(s) \/ Wake(s)

(* The loop is a goroutine that never blocks for ever; a request ends. *)
Fairness == WF_vars(Loop) /\ \A s \in Savers : WF_vars(Wake(s))

Spec == Init /\ [][Next]_vars
FairSpec == Spec /\ Fairness

-----------------------------------------------------------------------------
TypeOK ==
  /\ enabled \in BOOLEAN /\ cfg \in BOOLEAN /\ wakeCh \in 0..1
  /\ saver \in [Savers -> {"free", "saved"}]
  /\ pc \in {"off", "config", "idle", "list", "probe", "sleep"}
  /\ inventory \subseteq Devices /\ answers \subseteq Devices /\ ips \subseteq Devices
  /\ probing \subseteq ips /\ Cardinality(probing) <= Slots /\ expired \in BOOLEAN
  /\ results \in [Devices -> {"none", "up", "down"}]
  /\ state \in [Devices -> {"unknown", "up", "down"}]

(***************************************************************************)
(* No settings are slept over: while the loop of an enabled monitor works  *)
(* or sleeps with settings other than those in the store, a token is there *)
(* or on its way, however many requests saved at whatever moment.          *)
(***************************************************************************)
NoLostWake ==
  pc \in {"list", "probe", "sleep"} /\ cfg # enabled =>
    wakeCh = 1 \/ \E s \in Savers : saver[s] = "saved"

(* Slots enough for the devices that did not answer all the time. *)
FewSilent == Cardinality(ips \ steady) < Slots

(***************************************************************************)
(* A device that answered all the time is not shown as down after the      *)
(* cycle, as long as fewer devices than Slots are silent: silent ones      *)
(* hold their slots until the deadline, and what waits behind them is      *)
(* shown as down without a probe.                                          *)
(***************************************************************************)
AnsweringIsUp ==
  pc = "sleep" /\ FewSilent => \A d \in steady : state[d] = "up"

(* A monitor that stays enabled goes round and round: it is continuous. *)
EnabledMonitorRuns == <>[]enabled => []<>(pc = "list")

(* One that stays disabled comes to rest. *)
DisabledMonitorRests == <>[]~enabled => <>[](pc \in {"off", "config", "idle"})
=============================================================================
