--------------------------- MODULE ListenerManager ---------------------------
(***************************************************************************)
(* The observability manager (internal/observability/manager.go) and the   *)
(* handler that saves its settings (handleObsSetConfig in                  *)
(* internal/api/observability_handlers.go).  A request reads the saved     *)
(* settings, changes one listener, saves them and calls Apply, which stops *)
(* what has to go and starts what is missing.  Apply holds Manager.mu only *)
(* around its accesses to the maps: stopping and binding happen outside,   *)
(* and net/http runs any number of requests at once.  Shutdown comes from  *)
(* main when the process ends.                                             *)
(*                                                                         *)
(* A listener setting is the port it should bind, or Off; the bind address *)
(* and the general switch are part of it.                                  *)
(***************************************************************************)
EXTENDS Naturals, FiniteSets, TLAPS

LOCAL INSTANCE Functions

CONSTANTS
  Requests,    \* requests to change the settings, each served once
  Names,       \* the listeners: "ipfix", "netflow", "sflow", "syslog"
  Ports,
  Off,         \* the setting of a disabled listener
  Concurrent   \* FALSE: a request and Shutdown wait for the one before

ManagerAssumption ==
  /\ IsFiniteSet(Requests) /\ IsFiniteSet(Names) /\ IsFiniteSet(Ports)
  /\ Off \notin Ports
  /\ Concurrent \in BOOLEAN
  /\ {"none", "unseen", "inactive", "error"} \cap (Names \cup Ports) = {}

None == "none"

Settings == [Names -> Ports \cup {Off}]

VARIABLES
  setting,    \* the saved settings
  listeners,  \* Manager.listeners and current: name -> port, for those running
  status,     \* Manager.status: "unseen", "inactive", "error" or the active port
  tasks,      \* the periodic tasks: "none", "running" or "cancelled"
  open,       \* open[p]: the listener whose socket has port p, or None
  pc,         \* where each request is
  edited,     \* the listener a request changes
  want,       \* the settings it saves and applies
  toStop,     \* ports of the listeners it has to stop
  todo,       \* listeners its second loop has not reached
  name,       \* the listener that loop is at
  running,    \* what it found about it under the lock
  bound,      \* the bind succeeded
  main,       \* Shutdown: "up", "empty", "stop", "wait", "down"
  mainStop    \* ports of the listeners Shutdown has to stop

managerVars == <<listeners, status, tasks>>
requestVars == <<edited, want, toStop, todo, name, running, bound>>
mainVars == <<main, mainStop>>
vars == <<setting, managerVars, open, pc, requestVars, mainVars>>

Init ==
  /\ setting = [n \in Names |-> Off]
  /\ listeners = <<>> /\ status = [n \in Names |-> "unseen"] /\ tasks = "none"
  /\ open = [p \in Ports |-> None]
  /\ pc = [r \in Requests |-> "new"]
  /\ edited \in [Requests -> Names]
  /\ want = [r \in Requests |-> setting]
  /\ toStop = [r \in Requests |-> {}]
  /\ todo = [r \in Requests |-> {}]
  /\ name = edited
  /\ running = [r \in Requests |-> FALSE]
  /\ bound = [r \in Requests |-> FALSE]
  /\ main = "up" /\ mainStop = {}

InProgress(r) == pc[r] \notin {"new", "done"}

MayBegin == Concurrent \/ \A r \in Requests : ~InProgress(r)

Goto(r, label) == pc' = [pc EXCEPT ![r] = label]

-----------------------------------------------------------------------------
(***************************************************************************)
(* handleObsSetConfig: the saved settings with the fields of the payload.  *)
(* The server accepts requests until Shutdown is over.                     *)
(***************************************************************************)
ReadConfig(r, value) ==
  /\ pc[r] = "new" /\ MayBegin
  /\ main = "up" \/ (Concurrent /\ main # "down")
  /\ want' = [want EXCEPT ![r] = [setting EXCEPT ![edited[r]] = value]]
  /\ Goto(r, "save")
  /\ UNCHANGED <<setting, managerVars, open, edited, toStop, todo, name,
                 running, bound, mainVars>>

SaveConfig(r) ==
  /\ pc[r] = "save"
  /\ setting' = want[r]
  /\ Goto(r, "apply")
  /\ UNCHANGED <<managerVars, open, requestVars, mainVars>>

(***************************************************************************)
(* The listeners Apply takes out of the map: no longer wanted, or wanted   *)
(* elsewhere.                                                              *)
(***************************************************************************)
Obsolete(r) == {n \in DOMAIN listeners : want[r][n] # listeners[n]}

(***************************************************************************)
(* Fault: the listeners taken out of the map are not stopped.              *)
(***************************************************************************)
ReplaceWithoutStopping(r) ==
  /\ pc[r] = "apply"
  /\ listeners' = Restrict(listeners, DOMAIN listeners \ Obsolete(r))
  /\ status' = [n \in Names |-> IF n \in Obsolete(r) /\ want[r][n] = Off
                                THEN "inactive" ELSE status[n]]
  /\ todo' = [todo EXCEPT ![r] = Names]
  /\ Goto(r, "stop")
  /\ UNCHANGED <<setting, tasks, open, edited, want, toStop, name, running,
                 bound, mainVars>>

(***************************************************************************)
(* Apply, first loop, under the lock.                                      *)
(***************************************************************************)
Replace(r) ==
  /\ pc[r] = "apply"
  /\ toStop' = [toStop EXCEPT ![r] = {listeners[n] : n \in Obsolete(r)}]
  /\ listeners' = Restrict(listeners, DOMAIN listeners \ Obsolete(r))
  /\ status' = [n \in Names |-> IF n \in Obsolete(r) /\ want[r][n] = Off
                                THEN "inactive" ELSE status[n]]
  /\ todo' = [todo EXCEPT ![r] = Names]
  /\ Goto(r, "stop")
  /\ UNCHANGED <<setting, tasks, open, edited, want, name, running, bound,
                 mainVars>>

(***************************************************************************)
(* Listener.Stop closes the socket, whatever it waits for afterwards.      *)
(***************************************************************************)
StopListener(r) ==
  /\ pc[r] = "stop"
  /\ \/ \E p \in toStop[r] :
          /\ open' = [open EXCEPT ![p] = None]
          /\ toStop' = [toStop EXCEPT ![r] = @ \ {p}]
          /\ UNCHANGED pc
     \/ /\ toStop[r] = {}
        /\ Goto(r, "next")
        /\ UNCHANGED <<open, toStop>>
  /\ UNCHANGED <<setting, managerVars, edited, want, todo, name, running,
                 bound, mainVars>>

(***************************************************************************)
(* Second loop: the listeners in the order of a Go map, any order.  Under  *)
(* the lock only the question whether it is running.                       *)
(***************************************************************************)
LookAt(r, n) ==
  /\ pc[r] = "next" /\ n \in todo[r]
  /\ todo' = [todo EXCEPT ![r] = @ \ {n}]
  /\ name' = [name EXCEPT ![r] = n]
  /\ running' = [running EXCEPT ![r] = n \in DOMAIN listeners]
  /\ Goto(r, CASE want[r][n] = Off -> "off"
               [] want[r][n] # Off /\ n \in DOMAIN listeners -> "next"
               [] OTHER -> "bind")
  /\ UNCHANGED <<setting, managerVars, open, edited, want, toStop, bound,
                 mainVars>>

(***************************************************************************)
(* A listener that is off: its status changes if it was running or was     *)
(* never set, an old bind error stays.                                     *)
(***************************************************************************)
SwitchedOff(r) ==
  /\ pc[r] = "off"
  /\ status' = IF status[name[r]] = "unseen" \/ running[r]
               THEN [status EXCEPT ![name[r]] = "inactive"] ELSE status
  /\ Goto(r, "next")
  /\ UNCHANGED <<setting, listeners, tasks, open, requestVars, mainVars>>

(***************************************************************************)
(* ingest.Start: the port is free, or the bind fails; it may also fail     *)
(* because of another program.                                             *)
(***************************************************************************)
Bind(r) ==
  /\ pc[r] = "bind"
  /\ LET p == want[r][name[r]] IN
       \/ /\ open[p] = None
          /\ open' = [open EXCEPT ![p] = name[r]]
          /\ bound' = [bound EXCEPT ![r] = TRUE]
       \/ /\ bound' = [bound EXCEPT ![r] = FALSE]
          /\ UNCHANGED open
  /\ Goto(r, "record")
  /\ UNCHANGED <<setting, managerVars, edited, want, toStop, todo, name,
                 running, mainVars>>

Record(r) ==
  /\ pc[r] = "record"
  /\ LET n == name[r]
         p == want[r][n]
     IN  \/ /\ bound[r]
            /\ listeners' = [m \in DOMAIN listeners \cup {n} |->
                               IF m = n THEN p ELSE listeners[m]]
            /\ status' = [status EXCEPT ![n] = p]
         \/ /\ ~bound[r]
            /\ status' = [status EXCEPT ![n] = "error"]
            /\ UNCHANGED listeners
  /\ Goto(r, "next")
  /\ UNCHANGED <<setting, tasks, open, requestVars, mainVars>>

(***************************************************************************)
(* The tasks start, once, with the first settings whose general switch is  *)
(* on: on for certain when a listener is on.                               *)
(***************************************************************************)
ApplyEnd(r) ==
  /\ pc[r] = "next" /\ todo[r] = {}
  /\ \/ tasks = "none" /\ tasks' = "running"
     \/ /\ tasks = "none" => \A n \in Names : want[r][n] = Off
        /\ UNCHANGED tasks
  /\ Goto(r, "done")
  /\ UNCHANGED <<setting, listeners, status, open, requestVars, mainVars>>

Apply(r) ==
  \/ Replace(r) \/ StopListener(r)
  \/ \E n \in Names : LookAt(r, n)
  \/ SwitchedOff(r) \/ Bind(r) \/ Record(r) \/ ApplyEnd(r)

handleObsSetConfig(r) ==
  (\E value \in Ports \cup {Off} : ReadConfig(r, value)) \/ SaveConfig(r) \/ Apply(r)

-----------------------------------------------------------------------------
(***************************************************************************)
(* Shutdown, called by main before it stops the HTTP server.  The tasks    *)
(* are cancelled if they were started, without the lock.                   *)
(***************************************************************************)
ShutdownCancels ==
  /\ main = "up" /\ MayBegin
  /\ tasks' = IF tasks = "running" THEN "cancelled" ELSE tasks
  /\ main' = "empty"
  /\ UNCHANGED <<setting, listeners, status, open, pc, requestVars, mainStop>>

(***************************************************************************)
(* The map is emptied under the lock, the listeners are stopped outside.   *)
(***************************************************************************)
ShutdownEmpties ==
  /\ main = "empty"
  /\ mainStop' = {listeners[n] : n \in DOMAIN listeners}
  /\ listeners' = <<>>
  /\ status' = [n \in Names |-> IF n \in DOMAIN listeners THEN "inactive" ELSE status[n]]
  /\ main' = "stop"
  /\ UNCHANGED <<setting, tasks, open, pc, requestVars>>

ShutdownStops ==
  /\ main = "stop"
  /\ \/ \E p \in mainStop :
          /\ open' = [open EXCEPT ![p] = None]
          /\ mainStop' = mainStop \ {p}
          /\ UNCHANGED main
     \/ /\ mainStop = {}
        /\ main' = "wait"
        /\ UNCHANGED <<open, mainStop>>
  /\ UNCHANGED <<setting, managerVars, pc, requestVars>>

(***************************************************************************)
(* Fault: Shutdown waits for tasks that never started.                     *)
(***************************************************************************)
TasksEndOnlyIfCancelled ==
  /\ main = "wait" /\ tasks = "cancelled"
  /\ main' = "down"
  /\ UNCHANGED <<setting, managerVars, open, pc, requestVars, mainStop>>

(***************************************************************************)
(* tasksWG.Wait: the loops of cancelled tasks end, those of running tasks  *)
(* do not.                                                                 *)
(***************************************************************************)
TasksEnd ==
  /\ main = "wait" /\ tasks # "running"
  /\ main' = "down"
  /\ UNCHANGED <<setting, managerVars, open, pc, requestVars, mainStop>>

Shutdown == ShutdownCancels \/ ShutdownEmpties \/ ShutdownStops \/ TasksEnd

Over == main = "down" /\ \A r \in Requests : ~InProgress(r)

Next ==
  \/ \E r \in Requests : handleObsSetConfig(r)
  \/ Shutdown
  \/ Over /\ UNCHANGED vars

Spec == Init /\ [][Next]_vars

(***************************************************************************)
(* Goroutines that have begun are scheduled.                               *)
(***************************************************************************)
FairSpec ==
  /\ Spec
  /\ \A r \in Requests : WF_vars(SaveConfig(r) \/ Apply(r))
  /\ WF_vars(ShutdownEmpties \/ ShutdownStops \/ TasksEnd)

-----------------------------------------------------------------------------
(***************************************************************************)
(* The variables keep their types.                                         *)
(***************************************************************************)
TypeOK ==
  /\ setting \in Settings
  /\ DOMAIN listeners \subseteq Names
  /\ \A n \in DOMAIN listeners : listeners[n] \in Ports
  /\ status \in [Names -> {"unseen", "inactive", "error"} \cup Ports]
  /\ tasks \in {"none", "running", "cancelled"}
  /\ open \in [Ports -> Names \cup {None}]
  /\ pc \in [Requests -> {"new", "save", "apply", "stop", "next", "off", "bind",
                          "record", "done"}]
  /\ edited \in [Requests -> Names] /\ name \in [Requests -> Names]
  /\ want \in [Requests -> Settings]
  /\ toStop \in [Requests -> SUBSET Ports]
  /\ todo \in [Requests -> SUBSET Names]
  /\ running \in [Requests -> BOOLEAN] /\ bound \in [Requests -> BOOLEAN]
  /\ main \in {"up", "empty", "stop", "wait", "down"} /\ mainStop \subseteq Ports

Quiet == \A r \in Requests : ~InProgress(r)

(***************************************************************************)
(* manager.go:151-168 and 202: a listener in the map has its socket open,  *)
(* whatever requests overlap: it is taken out before it is stopped and put *)
(* in after it is bound.                                                   *)
(***************************************************************************)
MapIsOpen == \A n \in DOMAIN listeners : open[listeners[n]] = n

(***************************************************************************)
(* Status (manager.go:86): between requests, a listener shown as active on *)
(* a port is in the map with that port, whatever requests overlapped.      *)
(***************************************************************************)
ActiveIsListening ==
  Quiet => \A n \in Names :
    status[n] \in Ports => n \in DOMAIN listeners /\ listeners[n] = status[n]

(* What the manager knows about itself is true, whatever requests overlap. *)
StateIsTrue == TypeOK /\ MapIsOpen /\ ActiveIsListening

(***************************************************************************)
(* ... and a listener in the map is shown as active.  Needs requests that  *)
(* do not overlap: a failed second bind overwrites the status.             *)
(***************************************************************************)
ListeningIsActive ==
  Quiet => \A n \in DOMAIN listeners : status[n] = listeners[n]

(***************************************************************************)
(* "Apply porta lo stato live alla configurazione desiderata"              *)
(* (manager.go:139): between requests every listener runs on the port      *)
(* saved for it or shows an error, and none runs that is switched off.     *)
(***************************************************************************)
LiveIsSaved ==
  Quiet /\ main = "up" => \A n \in Names :
    IF n \in DOMAIN listeners THEN listeners[n] = setting[n]
    ELSE setting[n] = Off \/ status[n] = "error"

(***************************************************************************)
(* "Ferma i listener rimossi o con bind/porta cambiati" (manager.go:147):  *)
(* no socket stays open that the manager no longer knows, since nothing    *)
(* could ever close it.                                                    *)
(***************************************************************************)
NoLeak ==
  \A p \in Ports : open[p] # None =>
    \/ \E n \in DOMAIN listeners : listeners[n] = p
    \/ p \in mainStop
    \/ \E r \in Requests : \/ p \in toStop[r]
                           \/ pc[r] = "record" /\ bound[r] /\ want[r][name[r]] = p

(***************************************************************************)
(* "Shutdown ferma listener e task periodici" (manager.go:260): when it is *)
(* over and the last request is served, no socket is open and no task      *)
(* runs.                                                                   *)
(***************************************************************************)
ShutdownClosesAll ==
  Over => (\A p \in Ports : open[p] = None) /\ tasks # "running"

(***************************************************************************)
(* The process can end: Shutdown, which main calls without a deadline of   *)
(* its own, does not wait for ever for its tasks.                          *)
(***************************************************************************)
ShutdownReturns == main = "empty" ~> main = "down"

-----------------------------------------------------------------------------
(* What makes StateIsTrue inductive.  An open socket is in one hand at most: *)
(* the map's, that of a request or of Shutdown that will stop it, or that of *)
(* a request that has bound it and will record it.                           *)
Holds(r) == pc[r] = "record" /\ bound[r]
PortOf(r) == want[r][name[r]]
OutOfMap(p) == \A n \in DOMAIN listeners : listeners[n] # p

OneHand ==
  /\ MapIsOpen
  /\ \A r \in Requests : \A p \in toStop[r] : open[p] # None /\ p \notin mainStop /\ OutOfMap(p)
  /\ \A r, q \in Requests : r # q => toStop[r] \cap toStop[q] = {}
  /\ \A p \in mainStop : open[p] # None /\ OutOfMap(p)
  /\ \A r \in Requests : Holds(r) =>
       /\ open[PortOf(r)] = name[r] /\ PortOf(r) \notin mainStop /\ OutOfMap(PortOf(r))
       /\ \A q \in Requests : PortOf(r) \notin toStop[q] /\ (Holds(q) /\ q # r => PortOf(q) # PortOf(r))

BindsAPort == \A r \in Requests : pc[r] \in {"bind", "record"} => PortOf(r) \in Ports

(* A listener shown as active that is not in the map has been taken out by  *)
(* a request that is to start it elsewhere, and some request will decide.   *)
WillDecide(r, n) ==
  /\ want[r][n] # Off
  /\ \/ pc[r] \in {"stop", "next", "off", "bind", "record"} /\ n \in todo[r]
     \/ pc[r] \in {"bind", "record"} /\ name[r] = n

ShownIsDecided ==
  \A n \in Names : status[n] \in Ports =>
    \/ n \in DOMAIN listeners /\ listeners[n] = status[n]
    \/ n \notin DOMAIN listeners /\ \E r \in Requests : WillDecide(r, n)

IInv == TypeOK /\ OneHand /\ BindsAPort /\ ShownIsDecided

LEMMA StatusIsNoPort ==
  ASSUME ManagerAssumption
  PROVE  Off \notin Ports /\ None \notin Names
BY DEF ManagerAssumption, None

LEMMA InvIsTrue == IInv => StateIsTrue
<1> SUFFICES ASSUME IInv PROVE ActiveIsListening
  BY DEF IInv, OneHand, StateIsTrue
<1>1. Quiet => \A r \in Requests, n \in Names : ~WillDecide(r, n) \/ (pc[r] \in {"new", "done"})
  BY DEF Quiet, InProgress
<1> QED BY <1>1 DEF IInv, ShownIsDecided, ActiveIsListening, Quiet, WillDecide, InProgress

LEMMA InitHolds == ManagerAssumption /\ Init => IInv
<1> SUFFICES ASSUME ManagerAssumption, Init PROVE IInv
  OBVIOUS
<1>1. TypeOK
  BY DEF ManagerAssumption, Init, TypeOK, Settings, None
<1>2. OneHand
  BY DEF Init, OneHand, MapIsOpen, Holds, OutOfMap
<1>3. BindsAPort /\ ShownIsDecided
  BY DEF ManagerAssumption, Init, BindsAPort, ShownIsDecided
<1> QED BY <1>1, <1>2, <1>3 DEF IInv

-----------------------------------------------------------------------------
(* A request that reads or saves settings has nothing in its hands yet. *)
LEMMA HandlingKeeps ==
  ASSUME ManagerAssumption, IInv, NEW r \in Requests,
         SaveConfig(r) \/ \E value \in Ports \cup {Off} : ReadConfig(r, value)
  PROVE  IInv'
<1>1. TypeOK'
  <2>1. CASE SaveConfig(r)
    BY <2>1 DEF IInv, TypeOK, SaveConfig, Goto, managerVars, requestVars, mainVars
  <2>2. ASSUME NEW value \in Ports \cup {Off}, ReadConfig(r, value) PROVE TypeOK'
    <3>1. [setting EXCEPT ![edited[r]] = value] \in Settings
      BY DEF IInv, TypeOK, Settings
    <3>2. want' \in [Requests -> Settings]
      BY <2>2, <3>1 DEF IInv, TypeOK, ReadConfig
    <3> QED BY <2>2, <3>2 DEF IInv, TypeOK, ReadConfig, Goto, managerVars, mainVars
  <2> QED BY <2>1, <2>2
<1>2. /\ UNCHANGED <<listeners, status, open, toStop, mainStop, todo, name, bound>>
      /\ pc[r] \in {"new", "save"} /\ pc'[r] \in {"save", "apply"}
      /\ \A q \in Requests \ {r} : pc'[q] = pc[q] /\ want'[q] = want[q]
  BY DEF IInv, TypeOK, SaveConfig, ReadConfig, Goto, managerVars, requestVars, mainVars
<1>3. OneHand'
  BY <1>2 DEF IInv, OneHand, MapIsOpen, Holds, PortOf, OutOfMap
<1>4. BindsAPort'
  BY <1>2 DEF IInv, BindsAPort, PortOf
<1>5. ShownIsDecided'
  BY <1>2 DEF IInv, ShownIsDecided, WillDecide
<1> QED BY <1>1, <1>3, <1>4, <1>5 DEF IInv

(* The first loop hands the ports it takes out of the map to the request. *)
LEMMA ReplaceKeeps ==
  ASSUME ManagerAssumption, IInv, NEW r \in Requests, Replace(r)
  PROVE  IInv'
<1>0. /\ pc' = [pc EXCEPT ![r] = "stop"] /\ pc[r] = "apply"
      /\ listeners' = [n \in DOMAIN listeners \ Obsolete(r) |-> listeners[n]]
      /\ Obsolete(r) \subseteq DOMAIN listeners
      /\ toStop' = [toStop EXCEPT ![r] = {listeners[n] : n \in Obsolete(r)}]
      /\ todo' = [todo EXCEPT ![r] = Names]
      /\ status' = [n \in Names |-> IF n \in Obsolete(r) /\ want[r][n] = Off
                                    THEN "inactive" ELSE status[n]]
      /\ UNCHANGED <<setting, tasks, open, edited, want, name, running, bound, main, mainStop>>
  BY DEF Replace, Goto, Restrict, Obsolete, mainVars
<1>1. TypeOK'
  BY <1>0 DEF IInv, TypeOK
<1>2. OneHand'
  <2>1. \A p \in toStop'[r] : \E n \in Obsolete(r) : p = listeners[n] /\ open[p] = n /\ n \in Names
    BY <1>0 DEF IInv, TypeOK, OneHand, MapIsOpen
  <2>2. \A p \in toStop'[r] : open[p] # None /\ p \notin mainStop /\ OutOfMap(p)'
    BY <1>0, <2>1, StatusIsNoPort DEF IInv, OneHand, MapIsOpen, OutOfMap
  <2>3. \A q \in Requests \ {r} : toStop'[q] = toStop[q] /\ toStop[q] \cap toStop'[r] = {}
    BY <1>0, <2>1 DEF IInv, TypeOK, OneHand, OutOfMap
  <2>4. MapIsOpen' /\ \A p : OutOfMap(p) => OutOfMap(p)'
    BY <1>0 DEF IInv, OneHand, MapIsOpen, OutOfMap
  <2>5. \A q \in Requests : Holds(q)' => Holds(q) /\ q # r /\ PortOf(q)' = PortOf(q)
    BY <1>0 DEF IInv, TypeOK, Holds, PortOf
  <2>6. \A q \in Requests : Holds(q) => PortOf(q) \notin toStop'[r]
    BY <1>0, <2>1 DEF IInv, OneHand, OutOfMap
  <2> QED BY <1>0, <2>2, <2>3, <2>4, <2>5, <2>6 DEF IInv, OneHand
<1>3. BindsAPort'
  BY <1>0 DEF IInv, TypeOK, BindsAPort, PortOf
<1>4. ShownIsDecided'
  <2> SUFFICES ASSUME NEW n \in Names, status'[n] \in Ports
               PROVE  \/ n \in DOMAIN listeners' /\ listeners'[n] = status'[n]
                      \/ n \notin DOMAIN listeners' /\ \E q \in Requests : WillDecide(q, n)'
    BY DEF ShownIsDecided
  <2>1. status'[n] = status[n] /\ ~(n \in Obsolete(r) /\ want[r][n] = Off)
    BY <1>0 DEF ManagerAssumption
  <2>2. CASE n \in Obsolete(r)
    BY <1>0, <2>1, <2>2 DEF IInv, TypeOK, WillDecide
  <2>3. CASE n \notin Obsolete(r)
    <3>1. \A q \in Requests : WillDecide(q, n) => WillDecide(q, n)'
      BY <1>0 DEF IInv, TypeOK, WillDecide
    <3> QED BY <1>0, <2>1, <2>3, <3>1 DEF IInv, ShownIsDecided
  <2> QED BY <2>2, <2>3
<1> QED BY <1>1, <1>2, <1>3, <1>4 DEF IInv

(* A socket that is closed is in no other hand. *)
LEMMA StopListenerKeeps ==
  ASSUME ManagerAssumption, IInv, NEW r \in Requests, StopListener(r)
  PROVE  IInv'
<1>0. /\ pc[r] = "stop" /\ pc' \in {pc, [pc EXCEPT ![r] = "next"]}
      /\ UNCHANGED <<setting, listeners, status, tasks, edited, want, todo, name, running, bound,
                     main, mainStop>>
  BY DEF StopListener, Goto, managerVars, mainVars
<1>1. TypeOK'
  BY <1>0 DEF IInv, TypeOK, StopListener
<1>2. OneHand'
  <2>0. \A q \in Requests : Holds(q)' <=> Holds(q)
    BY <1>0 DEF IInv, TypeOK, Holds
  <2>1. CASE UNCHANGED <<open, toStop>>
    BY <1>0, <2>0, <2>1 DEF IInv, OneHand, MapIsOpen, OutOfMap, PortOf
  <2>2. ASSUME NEW p \in toStop[r], open' = [open EXCEPT ![p] = None],
               toStop' = [toStop EXCEPT ![r] = @ \ {p}]
        PROVE  OneHand'
    <3>1. /\ p \in Ports /\ p \notin mainStop /\ OutOfMap(p)
          /\ \A q \in Requests \ {r} : toStop'[q] = toStop[q] /\ p \notin toStop[q]
          /\ toStop'[r] = toStop[r] \ {p}
      BY <2>2 DEF IInv, TypeOK, OneHand
    <3>2. \A x \in Ports \ {p} : open'[x] = open[x]
      BY <2>2 DEF IInv, TypeOK
    <3>3. MapIsOpen' /\ \A x : OutOfMap(x)' <=> OutOfMap(x)
      BY <1>0, <3>1, <3>2 DEF IInv, TypeOK, OneHand, MapIsOpen, OutOfMap
    <3>4. \A q \in Requests : Holds(q) => PortOf(q) # p /\ PortOf(q) \in Ports
      BY DEF IInv, OneHand, BindsAPort, Holds
    <3>5. \A q \in Requests : toStop'[q] \subseteq toStop[q] \ {p} /\ PortOf(q)' = PortOf(q) /\ name'[q] = name[q]
      BY <1>0, <3>1 DEF PortOf
    <3>6. \A q \in Requests : \A x \in toStop'[q] : open'[x] # None /\ x \notin mainStop' /\ OutOfMap(x)'
      BY <1>0, <3>2, <3>3, <3>5 DEF IInv, TypeOK, OneHand
    <3>7. \A x \in mainStop' : open'[x] # None /\ OutOfMap(x)'
      BY <1>0, <3>1, <3>2, <3>3 DEF IInv, TypeOK, OneHand
    <3>8. \A q, s \in Requests : q # s => toStop'[q] \cap toStop'[s] = {}
      BY <3>5 DEF IInv, OneHand
    <3>9. \A q \in Requests : Holds(q)' =>
            /\ open'[PortOf(q)'] = name'[q] /\ PortOf(q)' \notin mainStop' /\ OutOfMap(PortOf(q))'
            /\ \A s \in Requests : PortOf(q)' \notin toStop'[s] /\ (Holds(s)' /\ s # q => PortOf(s)' # PortOf(q)')
      BY <1>0, <2>0, <3>2, <3>3, <3>4, <3>5 DEF IInv, OneHand
    <3> QED BY <3>3, <3>6, <3>7, <3>8, <3>9 DEF OneHand
  <2> QED BY <2>1, <2>2 DEF StopListener
<1>3. BindsAPort'
  BY <1>0 DEF IInv, TypeOK, BindsAPort, PortOf
<1>4. ShownIsDecided'
  <2>1. \A q \in Requests, n \in Names : WillDecide(q, n) => WillDecide(q, n)'
    BY <1>0 DEF IInv, TypeOK, WillDecide
  <2> QED BY <1>0, <2>1 DEF IInv, ShownIsDecided
<1> QED BY <1>1, <1>2, <1>3, <1>4 DEF IInv

(* Looking at a listener keeps the request the one that decides about it. *)
LEMMA LookAtKeeps ==
  ASSUME ManagerAssumption, IInv, NEW r \in Requests, NEW n \in Names, LookAt(r, n)
  PROVE  IInv'
<1>0. /\ pc[r] = "next" /\ n \in todo[r]
      /\ pc' = [pc EXCEPT ![r] = CASE want[r][n] = Off -> "off"
                                   [] want[r][n] # Off /\ n \in DOMAIN listeners -> "next"
                                   [] OTHER -> "bind"]
      /\ todo' = [todo EXCEPT ![r] = todo[r] \ {n}]
      /\ name' = [name EXCEPT ![r] = n]
      /\ running' = [running EXCEPT ![r] = n \in DOMAIN listeners]
      /\ UNCHANGED <<setting, listeners, status, tasks, open, edited, want, toStop, bound, main, mainStop>>
  BY DEF LookAt, Goto, managerVars, mainVars
<1>1. pc'[r] \in {"off", "next", "bind"} /\ \A q \in Requests \ {r} : pc'[q] = pc[q] /\ name'[q] = name[q] /\ todo'[q] = todo[q]
  BY <1>0 DEF IInv, TypeOK
<1>2. name'[r] = n /\ todo'[r] = todo[r] \ {n}
  BY <1>0 DEF IInv, TypeOK
<1>3. pc'[r] = "bind" <=> (want[r][n] # Off /\ n \notin DOMAIN listeners)
  BY <1>0 DEF IInv, TypeOK
<1>4. TypeOK'
  BY <1>0, <1>1 DEF IInv, TypeOK
<1>5. OneHand'
  <2>1. \A q \in Requests : (Holds(q)' <=> Holds(q)) /\ (Holds(q) => PortOf(q)' = PortOf(q) /\ name'[q] = name[q])
    BY <1>0, <1>1 DEF Holds, PortOf
  <2> QED BY <1>0, <2>1 DEF IInv, OneHand, MapIsOpen, OutOfMap
<1>6. BindsAPort'
  BY <1>0, <1>1, <1>2, <1>3 DEF IInv, TypeOK, Settings, BindsAPort, PortOf
<1>7. ShownIsDecided'
  <2> SUFFICES ASSUME NEW m \in Names, m \notin DOMAIN listeners, NEW q \in Requests, WillDecide(q, m)
               PROVE  WillDecide(q, m)'
    BY <1>0 DEF IInv, ShownIsDecided
  <2> QED BY <1>0, <1>1, <1>2, <1>3 DEF WillDecide
<1> QED BY <1>4, <1>5, <1>6, <1>7 DEF IInv

LEMMA SwitchedOffKeeps ==
  ASSUME ManagerAssumption, IInv, NEW r \in Requests, SwitchedOff(r)
  PROVE  IInv'
<1>0. /\ pc[r] = "off" /\ pc' = [pc EXCEPT ![r] = "next"]
      /\ status' \in {status, [status EXCEPT ![name[r]] = "inactive"]}
      /\ UNCHANGED <<setting, listeners, tasks, open, edited, want, toStop, todo, name, running,
                     bound, main, mainStop>>
  BY DEF SwitchedOff, Goto, requestVars, mainVars
<1>1. TypeOK'
  BY <1>0 DEF IInv, TypeOK
<1>2. \A q \in Requests : Holds(q)' <=> Holds(q)
  BY <1>0 DEF IInv, TypeOK, Holds
<1>3. OneHand'
  BY <1>0, <1>2 DEF IInv, OneHand, MapIsOpen, OutOfMap, PortOf
<1>4. BindsAPort'
  BY <1>0 DEF IInv, TypeOK, BindsAPort, PortOf
<1>5. ShownIsDecided'
  <2>1. \A n \in Names : status'[n] \in Ports => status'[n] = status[n]
    BY <1>0 DEF IInv, TypeOK, ManagerAssumption
  <2>2. \A q \in Requests, n \in Names : WillDecide(q, n) => WillDecide(q, n)'
    BY <1>0 DEF IInv, TypeOK, WillDecide
  <2> QED BY <1>0, <2>1, <2>2 DEF IInv, ShownIsDecided
<1> QED BY <1>1, <1>3, <1>4, <1>5 DEF IInv

(* A port that can be bound is free, so it is in no hand. *)
LEMMA BindKeeps ==
  ASSUME ManagerAssumption, IInv, NEW r \in Requests, Bind(r)
  PROVE  IInv'
<1> DEFINE p == PortOf(r)
<1>0. /\ pc[r] = "bind" /\ pc' = [pc EXCEPT ![r] = "record"]
      /\ UNCHANGED <<setting, listeners, status, tasks, edited, want, toStop, todo, name, running,
                     main, mainStop>>
      /\ \/ open[p] = None /\ open' = [open EXCEPT ![p] = name[r]]
            /\ bound' = [bound EXCEPT ![r] = TRUE]
         \/ bound' = [bound EXCEPT ![r] = FALSE] /\ open' = open
  BY DEF Bind, Goto, managerVars, mainVars, PortOf
<1>1. p \in Ports /\ name[r] \in Names
  BY <1>0 DEF IInv, TypeOK, BindsAPort
<1>2. TypeOK'
  BY <1>0, <1>1 DEF IInv, TypeOK
<1>3. \A q \in Requests : PortOf(q)' = PortOf(q) /\ (q # r => (Holds(q)' <=> Holds(q)))
  BY <1>0 DEF IInv, TypeOK, Holds, PortOf
<1>4. OneHand'
  <2>1. CASE bound' = [bound EXCEPT ![r] = FALSE] /\ open' = open
    <3>1. ~Holds(r)'
      BY <2>1 DEF IInv, TypeOK, Holds
    <3> QED BY <1>0, <1>3, <2>1, <3>1 DEF IInv, OneHand, MapIsOpen, OutOfMap
  <2>2. CASE open[p] = None /\ open' = [open EXCEPT ![p] = name[r]]
    <3>1. \A x \in Ports \ {p} : open'[x] = open[x]
      BY <2>2 DEF IInv, TypeOK
    <3>2. open'[p] = name[r] /\ name[r] # None
      BY <1>1, <2>2, StatusIsNoPort DEF IInv, TypeOK
    <3>3. /\ OutOfMap(p) /\ p \notin mainStop
          /\ \A q \in Requests : p \notin toStop[q] /\ (Holds(q) => PortOf(q) # p)
      BY <1>1, <2>2, StatusIsNoPort DEF IInv, TypeOK, OneHand, MapIsOpen, OutOfMap
    <3>4. MapIsOpen' /\ \A x : OutOfMap(x)' <=> OutOfMap(x)
      BY <1>0, <3>1, <3>3 DEF IInv, TypeOK, OneHand, MapIsOpen, OutOfMap
    <3>5. \A q \in Requests : \A x \in toStop'[q] : open'[x] # None /\ x \notin mainStop' /\ OutOfMap(x)'
      BY <1>0, <3>1, <3>2, <3>4 DEF IInv, TypeOK, OneHand
    <3>6. \A x \in mainStop' : open'[x] # None /\ OutOfMap(x)'
      BY <1>0, <3>1, <3>2, <3>4 DEF IInv, TypeOK, OneHand
    <3>7. \A q \in Requests : Holds(q) => PortOf(q) \in Ports
      BY DEF IInv, BindsAPort, Holds
    <3>8. \A q \in Requests : Holds(q)' =>
            /\ open'[PortOf(q)'] = name'[q] /\ PortOf(q)' \notin mainStop' /\ OutOfMap(PortOf(q))'
            /\ \A s \in Requests : PortOf(q)' \notin toStop'[s] /\ (Holds(s)' /\ s # q => PortOf(s)' # PortOf(q)')
      <4> SUFFICES ASSUME NEW q \in Requests, Holds(q)'
                   PROVE  /\ open'[PortOf(q)] = name[q] /\ PortOf(q) \notin mainStop /\ OutOfMap(PortOf(q))'
                          /\ \A s \in Requests : PortOf(q) \notin toStop[s] /\ (Holds(s)' /\ s # q => PortOf(s) # PortOf(q))
        BY <1>0, <1>3
      <4>1. CASE q = r
        BY <1>3, <3>2, <3>3, <3>4, <4>1
      <4>2. CASE q # r
        BY <1>3, <3>1, <3>3, <3>4, <3>7, <4>2 DEF IInv, OneHand
      <4> QED BY <4>1, <4>2
    <3>9. \A q, s \in Requests : q # s => toStop'[q] \cap toStop'[s] = {}
      BY <1>0 DEF IInv, OneHand
    <3> QED BY <3>4, <3>5, <3>6, <3>8, <3>9 DEF OneHand
  <2> QED BY <1>0, <2>1, <2>2
<1>5. BindsAPort'
  BY <1>0, <1>1, <1>3 DEF IInv, TypeOK, BindsAPort
<1>6. ShownIsDecided'
  <2>1. \A q \in Requests, n \in Names : WillDecide(q, n) => WillDecide(q, n)'
    BY <1>0 DEF IInv, TypeOK, WillDecide
  <2> QED BY <1>0, <2>1 DEF IInv, ShownIsDecided
<1> QED BY <1>2, <1>4, <1>5, <1>6 DEF IInv

(* A bound socket goes from the hand of the request into the map. *)
LEMMA RecordKeeps ==
  ASSUME ManagerAssumption, IInv, NEW r \in Requests, Record(r)
  PROVE  IInv'
<1> DEFINE n == name[r]
           p == PortOf(r)
<1>0. /\ pc[r] = "record" /\ pc' = [pc EXCEPT ![r] = "next"]
      /\ UNCHANGED <<setting, tasks, open, edited, want, toStop, todo, name, running, bound,
                     main, mainStop>>
      /\ \/ /\ bound[r] /\ status' = [status EXCEPT ![n] = p]
            /\ listeners' = [m \in DOMAIN listeners \cup {n} |-> IF m = n THEN p ELSE listeners[m]]
         \/ ~bound[r] /\ status' = [status EXCEPT ![n] = "error"] /\ listeners' = listeners
  BY DEF Record, Goto, requestVars, mainVars, PortOf
<1>1. p \in Ports /\ n \in Names
  BY <1>0 DEF IInv, TypeOK, BindsAPort
<1>2. TypeOK'
  BY <1>0, <1>1 DEF IInv, TypeOK
<1>3. \A q \in Requests : PortOf(q)' = PortOf(q) /\ (Holds(q)' <=> Holds(q) /\ q # r)
  BY <1>0 DEF IInv, TypeOK, Holds, PortOf
<1>4. OneHand'
  <2>1. CASE listeners' = listeners
    BY <1>0, <1>3, <2>1 DEF IInv, OneHand, MapIsOpen, OutOfMap
  <2>2. CASE bound[r] /\ listeners' = [m \in DOMAIN listeners \cup {n} |-> IF m = n THEN p ELSE listeners[m]]
    <3>1. Holds(r)
      BY <1>0, <2>2 DEF Holds
    <3>2. MapIsOpen'
      BY <1>0, <2>2, <3>1 DEF IInv, OneHand, MapIsOpen
    <3>3. \A x : OutOfMap(x) /\ x # p => OutOfMap(x)'
      BY <2>2 DEF OutOfMap
    <3>4. /\ p \notin mainStop
          /\ \A q \in Requests : p \notin toStop[q] /\ (Holds(q) /\ q # r => PortOf(q) # p)
      BY <3>1 DEF IInv, OneHand
    <3> QED BY <1>0, <1>3, <3>2, <3>3, <3>4 DEF IInv, OneHand
  <2> QED BY <1>0, <2>1, <2>2
<1>5. BindsAPort'
  BY <1>0, <1>3 DEF IInv, TypeOK, BindsAPort
<1>6. ShownIsDecided'
  <2> SUFFICES ASSUME NEW m \in Names, status'[m] \in Ports
               PROVE  \/ m \in DOMAIN listeners' /\ listeners'[m] = status'[m]
                      \/ m \notin DOMAIN listeners' /\ \E q \in Requests : WillDecide(q, m)'
    BY DEF ShownIsDecided
  <2>1. CASE m = n
    BY <1>0, <1>1, <2>1 DEF IInv, TypeOK, ManagerAssumption
  <2>2. CASE m # n
    <3>1. status'[m] = status[m] /\ (m \in DOMAIN listeners' <=> m \in DOMAIN listeners)
          /\ (m \in DOMAIN listeners => listeners'[m] = listeners[m])
      BY <1>0, <1>1, <2>2 DEF IInv, TypeOK
    <3>2. \A q \in Requests : WillDecide(q, m) => WillDecide(q, m)'
      BY <1>0, <2>2 DEF IInv, TypeOK, WillDecide
    <3> QED BY <3>1, <3>2 DEF IInv, ShownIsDecided
  <2> QED BY <2>1, <2>2
<1> QED BY <1>2, <1>4, <1>5, <1>6 DEF IInv

LEMMA ApplyEndKeeps ==
  ASSUME ManagerAssumption, IInv, NEW r \in Requests, ApplyEnd(r)
  PROVE  IInv'
<1>0. /\ pc[r] = "next" /\ pc' = [pc EXCEPT ![r] = "done"] /\ todo[r] = {}
      /\ tasks' \in {tasks, "running"}
      /\ UNCHANGED <<setting, listeners, status, open, edited, want, toStop, todo, name, running,
                     bound, main, mainStop>>
  BY DEF ApplyEnd, Goto, requestVars, mainVars
<1>1. TypeOK'
  BY <1>0 DEF IInv, TypeOK
<1>2. \A q \in Requests : Holds(q)' <=> Holds(q)
  BY <1>0 DEF IInv, TypeOK, Holds
<1>3. OneHand'
  BY <1>0, <1>2 DEF IInv, OneHand, MapIsOpen, OutOfMap, PortOf
<1>4. BindsAPort'
  BY <1>0 DEF IInv, TypeOK, BindsAPort, PortOf
<1>5. ShownIsDecided'
  <2>1. \A q \in Requests, n \in Names : WillDecide(q, n) => WillDecide(q, n)'
    BY <1>0 DEF IInv, TypeOK, WillDecide
  <2> QED BY <1>0, <2>1 DEF IInv, ShownIsDecided
<1> QED BY <1>1, <1>3, <1>4, <1>5 DEF IInv

(* Shutdown takes the ports of the map over, and closes them. *)
LEMMA ShutdownKeeps ==
  ASSUME ManagerAssumption, IInv, Shutdown
  PROVE  IInv'
<1>0. UNCHANGED <<setting, pc, requestVars>>
  BY DEF Shutdown, ShutdownCancels, ShutdownEmpties, ShutdownStops, TasksEnd
<1>1. BindsAPort'
  BY <1>0 DEF IInv, BindsAPort, PortOf, requestVars
<1>2. \A q \in Requests : (Holds(q)' <=> Holds(q)) /\ PortOf(q)' = PortOf(q)
  BY <1>0 DEF Holds, PortOf, requestVars
<1>3. \A q \in Requests, n \in Names : WillDecide(q, n)' <=> WillDecide(q, n)
  BY <1>0 DEF WillDecide, requestVars
<1>4. CASE ShutdownCancels \/ TasksEnd
  <2>1. UNCHANGED <<listeners, status, open, mainStop>>
    BY <1>4 DEF ShutdownCancels, TasksEnd, managerVars
  <2>2. TypeOK'
    BY <1>0, <1>4, <2>1 DEF IInv, TypeOK, requestVars, ShutdownCancels, TasksEnd, managerVars
  <2>3. OneHand'
    BY <1>0, <1>2, <2>1 DEF IInv, OneHand, MapIsOpen, OutOfMap, requestVars
  <2>4. ShownIsDecided'
    BY <1>3, <2>1 DEF IInv, ShownIsDecided
  <2> QED BY <1>1, <2>2, <2>3, <2>4 DEF IInv
<1>5. CASE ShutdownEmpties
  <2>1. /\ mainStop' = {listeners[n] : n \in DOMAIN listeners} /\ listeners' = <<>>
        /\ status' = [n \in Names |-> IF n \in DOMAIN listeners THEN "inactive" ELSE status[n]]
        /\ main' = "stop" /\ UNCHANGED <<tasks, open>>
    BY <1>5 DEF ShutdownEmpties
  <2>2. TypeOK'
    BY <1>0, <2>1 DEF IInv, TypeOK, requestVars
  <2>3. \A p \in mainStop' : \E n \in DOMAIN listeners : p = listeners[n] /\ open[p] = n /\ n \in Names
    BY <2>1 DEF IInv, TypeOK, OneHand, MapIsOpen
  <2>4. MapIsOpen' /\ \A p : OutOfMap(p)'
    BY <2>1 DEF MapIsOpen, OutOfMap
  <2>5. OneHand'
    BY <1>0, <1>2, <2>1, <2>3, <2>4, StatusIsNoPort DEF IInv, OneHand, OutOfMap, requestVars
  <2>6. ShownIsDecided'
    BY <1>3, <2>1 DEF IInv, ShownIsDecided, ManagerAssumption
  <2> QED BY <1>1, <2>2, <2>5, <2>6 DEF IInv
<1>6. CASE ShutdownStops
  <2>1. UNCHANGED <<listeners, status, tasks>> /\ TypeOK'
    BY <1>0, <1>6 DEF IInv, TypeOK, ShutdownStops, managerVars, requestVars
  <2>2. ShownIsDecided'
    BY <1>3, <2>1 DEF IInv, ShownIsDecided
  <2>3. OneHand'
    <3>1. CASE UNCHANGED <<open, mainStop>>
      BY <1>0, <1>2, <2>1, <3>1 DEF IInv, OneHand, MapIsOpen, OutOfMap, requestVars
    <3>2. ASSUME NEW p \in mainStop, open' = [open EXCEPT ![p] = None], mainStop' = mainStop \ {p}
          PROVE  OneHand'
      <4>1. /\ p \in Ports /\ OutOfMap(p) /\ \A x \in Ports \ {p} : open'[x] = open[x]
            /\ \A q \in Requests : p \notin toStop[q] /\ (Holds(q) => PortOf(q) # p /\ PortOf(q) \in Ports)
        BY <3>2 DEF IInv, TypeOK, OneHand, BindsAPort, Holds
      <4>2. MapIsOpen' /\ \A x : OutOfMap(x)' <=> OutOfMap(x)
        BY <2>1, <4>1 DEF IInv, TypeOK, OneHand, MapIsOpen, OutOfMap
      <4>3. \A q \in Requests : \A x \in toStop'[q] : open'[x] # None /\ x \notin mainStop' /\ OutOfMap(x)'
        BY <1>0, <3>2, <4>1, <4>2 DEF IInv, TypeOK, OneHand, requestVars
      <4>4. \A x \in mainStop' : open'[x] # None /\ OutOfMap(x)'
        BY <3>2, <4>1, <4>2 DEF IInv, TypeOK, OneHand
      <4> QED BY <1>0, <1>2, <3>2, <4>1, <4>2, <4>3, <4>4 DEF IInv, OneHand, requestVars
    <3> QED BY <1>6, <3>1, <3>2 DEF ShutdownStops
  <2> QED BY <1>1, <2>1, <2>2, <2>3 DEF IInv
<1> QED BY <1>4, <1>5, <1>6 DEF Shutdown

LEMMA StutterKeeps == IInv /\ UNCHANGED vars => IInv'
BY DEF IInv, TypeOK, OneHand, MapIsOpen, BindsAPort, ShownIsDecided, WillDecide, Holds, PortOf, OutOfMap,
       vars, managerVars, requestVars, mainVars

LEMMA NextKeeps ==
  ASSUME ManagerAssumption, IInv, [Next]_vars
  PROVE  IInv'
<1>1. CASE UNCHANGED vars
  BY <1>1, StutterKeeps
<1>2. CASE Shutdown
  BY <1>2, ShutdownKeeps
<1>3. ASSUME NEW r \in Requests, handleObsSetConfig(r) PROVE IInv'
  <2>1. CASE SaveConfig(r) \/ \E value \in Ports \cup {Off} : ReadConfig(r, value)
    BY <2>1, HandlingKeeps
  <2>2. CASE Apply(r)
    BY <2>2, ReplaceKeeps, StopListenerKeeps, LookAtKeeps, SwitchedOffKeeps, BindKeeps, RecordKeeps,
       ApplyEndKeeps DEF Apply
  <2> QED BY <1>3, <2>1, <2>2 DEF handleObsSetConfig
<1> QED BY <1>1, <1>2, <1>3 DEF Next

(* manager.go:86 and 139-202, for any number of requests, listeners and ports *)
(* and whatever overlaps: a listener in the map has its socket open, and      *)
(* between requests one shown as active on a port is in the map with it.      *)
THEOREM ManagerKnowsItself == ASSUME ManagerAssumption PROVE Spec => []StateIsTrue
<1>1. Init => IInv
  BY InitHolds
<1>2. IInv /\ [Next]_vars => IInv'
  BY NextKeeps
<1> QED BY <1>1, <1>2, InvIsTrue, PTL DEF Spec

-----------------------------------------------------------------------------
(* Requests in turn.  At most one is in progress, and none once Shutdown has *)
(* begun, so that nobody else touches the map while a request goes through   *)
(* the listeners: those it has taken out are being stopped, those it has     *)
(* passed run as they are saved, and the one it is at is not in the map.     *)
OneAtATime ==
  /\ \A r, q \in Requests : InProgress(r) /\ InProgress(q) => r = q
  /\ main # "up" => Quiet

HandsAreEmptied ==
  /\ \A r \in Requests : toStop[r] # {} => pc[r] = "stop"
  /\ mainStop # {} => main = "stop"
  /\ main \in {"stop", "wait", "down"} => DOMAIN listeners = {}
  /\ main # "up" => tasks # "running"

Applying(r) == pc[r] \in {"stop", "next", "off", "bind", "record"}
Starting(r, n) == pc[r] \in {"bind", "record"} /\ name[r] = n

AppliesTheSaved ==
  /\ \A r \in Requests : pc[r] = "apply" \/ Applying(r) => want[r] = setting
  /\ \A r \in Requests, n \in DOMAIN listeners : ~Starting(r, n)
  /\ \A r \in Requests : pc[r] = "off" => want[r][name[r]] = Off
  /\ \A r \in Requests : Applying(r) => \A n \in Names :
       IF n \in DOMAIN listeners THEN listeners[n] = setting[n]
       ELSE setting[n] = Off \/ status[n] = "error" \/ n \in todo[r] \/ Starting(r, n)

KnownIsShown == \A n \in DOMAIN listeners : status[n] = listeners[n]

TurnInv ==
  /\ IInv /\ OneAtATime /\ HandsAreEmptied /\ AppliesTheSaved /\ KnownIsShown
  /\ LiveIsSaved /\ NoLeak

TurnRest ==
  OneAtATime /\ HandsAreEmptied /\ AppliesTheSaved /\ KnownIsShown /\ LiveIsSaved /\ NoLeak

LEMMA NobodyElse ==
  ASSUME TurnInv, NEW r \in Requests, InProgress(r)
  PROVE  /\ main = "up" /\ mainStop = {}
         /\ \A q \in Requests \ {r} : pc[q] \in {"new", "done"} /\ toStop[q] = {}
BY DEF TurnInv, IInv, TypeOK, OneAtATime, HandsAreEmptied, Quiet, InProgress

(* A request begins when nobody else is in progress. *)
LEMMA TurnToHandle ==
  ASSUME ManagerAssumption, ~Concurrent, TurnInv, NEW r \in Requests,
         SaveConfig(r) \/ \E value \in Ports \cup {Off} : ReadConfig(r, value)
  PROVE  TurnRest'
<1>1. CASE SaveConfig(r)
  <2>0. /\ pc[r] = "save" /\ pc' = [pc EXCEPT ![r] = "apply"] /\ setting' = want[r]
        /\ UNCHANGED <<listeners, status, tasks, open, edited, want, toStop, todo, name, running, bound, main, mainStop>>
    BY <1>1 DEF SaveConfig, Goto, managerVars, requestVars, mainVars
  <2>1. /\ pc'[r] = "apply" /\ InProgress(r) /\ InProgress(r)'
        /\ \A q \in Requests \ {r} : pc'[q] = pc[q]
    BY <2>0 DEF TurnInv, IInv, TypeOK, InProgress
  <2>2. /\ main = "up" /\ mainStop = {}
        /\ \A q \in Requests \ {r} : pc[q] \in {"new", "done"} /\ toStop[q] = {}
    BY <2>1, NobodyElse
  <2>3. OneAtATime' /\ HandsAreEmptied' /\ KnownIsShown' /\ LiveIsSaved'
    BY <2>0, <2>1, <2>2 DEF TurnInv, OneAtATime, HandsAreEmptied, KnownIsShown, LiveIsSaved, Quiet, InProgress
  <2>4. AppliesTheSaved'
    BY <2>0, <2>1, <2>2 DEF AppliesTheSaved, Applying, Starting
  <2>5. NoLeak'
    BY <2>0, <2>1, <2>2 DEF TurnInv, NoLeak
  <2> QED BY <2>3, <2>4, <2>5 DEF TurnRest
<1>2. ASSUME NEW value \in Ports \cup {Off}, ReadConfig(r, value) PROVE TurnRest'
  <2>0. /\ pc[r] = "new" /\ pc' = [pc EXCEPT ![r] = "save"] /\ Quiet /\ main = "up"
        /\ UNCHANGED <<setting, listeners, status, tasks, open, edited, toStop, todo, name, running, bound, main, mainStop>>
        /\ \A q \in Requests \ {r} : want'[q] = want[q]
    BY <1>2 DEF ReadConfig, Goto, managerVars, mainVars, MayBegin, Quiet, TurnInv, IInv, TypeOK
  <2>1. /\ pc'[r] = "save" /\ \A q \in Requests \ {r} : pc'[q] = pc[q] /\ pc[q] \in {"new", "done"}
    BY <2>0 DEF TurnInv, IInv, TypeOK, InProgress, Quiet
  <2>2. OneAtATime' /\ HandsAreEmptied' /\ KnownIsShown' /\ LiveIsSaved'
    BY <2>0, <2>1 DEF TurnInv, OneAtATime, HandsAreEmptied, KnownIsShown, LiveIsSaved, Quiet, InProgress
  <2>3. AppliesTheSaved'
    BY <2>0, <2>1 DEF AppliesTheSaved, Applying, Starting
  <2>4. NoLeak'
    BY <2>0, <2>1 DEF TurnInv, NoLeak
  <2> QED BY <2>2, <2>3, <2>4 DEF TurnRest
<1> QED BY <1>1, <1>2

(* What is taken out of the map is in the hands of the request. *)
LEMMA TurnToReplace ==
  ASSUME ManagerAssumption, TurnInv, NEW r \in Requests, Replace(r)
  PROVE  TurnRest'
<1>0. /\ pc[r] = "apply" /\ pc' = [pc EXCEPT ![r] = "stop"]
      /\ listeners' = [n \in DOMAIN listeners \ Obsolete(r) |-> listeners[n]]
      /\ toStop' = [toStop EXCEPT ![r] = {listeners[n] : n \in Obsolete(r)}]
      /\ todo' = [todo EXCEPT ![r] = Names]
      /\ status' = [n \in Names |-> IF n \in Obsolete(r) /\ want[r][n] = Off
                                    THEN "inactive" ELSE status[n]]
      /\ UNCHANGED <<setting, tasks, open, edited, want, name, running, bound, main, mainStop>>
  BY DEF Replace, Goto, Restrict, Obsolete, mainVars
<1>1. /\ pc'[r] = "stop" /\ InProgress(r) /\ InProgress(r)' /\ todo'[r] = Names
      /\ toStop'[r] = {listeners[n] : n \in Obsolete(r)} /\ toStop[r] = {}
      /\ \A q \in Requests \ {r} : pc'[q] = pc[q] /\ toStop'[q] = toStop[q]
  BY <1>0 DEF TurnInv, IInv, TypeOK, InProgress, HandsAreEmptied
<1>2. /\ main = "up" /\ mainStop = {}
      /\ \A q \in Requests \ {r} : pc[q] \in {"new", "done"} /\ toStop[q] = {}
  BY <1>1, NobodyElse
<1>3. OneAtATime' /\ HandsAreEmptied' /\ LiveIsSaved'
  BY <1>0, <1>1, <1>2 DEF TurnInv, OneAtATime, HandsAreEmptied, LiveIsSaved, Quiet, InProgress
<1>4. \A n \in DOMAIN listeners' : n \in Names /\ n \in DOMAIN listeners /\ listeners'[n] = listeners[n]
                                   /\ listeners[n] = want[r][n] /\ status'[n] = status[n]
  BY <1>0 DEF TurnInv, IInv, TypeOK, Obsolete
<1>5. KnownIsShown'
  BY <1>4 DEF TurnInv, KnownIsShown
<1>6. AppliesTheSaved'
  <2>1. want[r] = setting
    BY <1>0 DEF TurnInv, AppliesTheSaved
  <2> QED BY <1>0, <1>1, <1>2, <1>4, <2>1 DEF AppliesTheSaved, Applying, Starting
<1>7. NoLeak'
  <2> SUFFICES ASSUME NEW p \in Ports, open[p] # None
               PROVE  (\E n \in DOMAIN listeners' : listeners'[n] = p) \/ p \in toStop'[r]
    BY <1>0 DEF NoLeak
  <2>1. \E n \in DOMAIN listeners : listeners[n] = p
    BY <1>0, <1>1, <1>2 DEF TurnInv, NoLeak
  <2> QED BY <1>0, <1>1, <2>1
<1> QED BY <1>3, <1>5, <1>6, <1>7 DEF TurnRest

LEMMA TurnToStop ==
  ASSUME ManagerAssumption, TurnInv, NEW r \in Requests, StopListener(r)
  PROVE  TurnRest'
<1>0. /\ pc[r] = "stop"
      /\ UNCHANGED <<setting, listeners, status, tasks, edited, want, todo, name, running, bound,
                     main, mainStop>>
      /\ \/ \E p \in toStop[r] : open' = [open EXCEPT ![p] = None]
                                 /\ toStop' = [toStop EXCEPT ![r] = @ \ {p}] /\ pc' = pc
         \/ toStop[r] = {} /\ pc' = [pc EXCEPT ![r] = "next"] /\ UNCHANGED <<open, toStop>>
  BY DEF StopListener, Goto, managerVars, mainVars
<1>1. /\ pc'[r] \in {"stop", "next"} /\ InProgress(r) /\ InProgress(r)'
      /\ \A q \in Requests \ {r} : pc'[q] = pc[q] /\ toStop'[q] = toStop[q]
      /\ toStop'[r] # {} => pc'[r] = "stop"
  BY <1>0 DEF TurnInv, IInv, TypeOK, InProgress
<1>2. /\ main = "up" /\ mainStop = {}
      /\ \A q \in Requests \ {r} : pc[q] \in {"new", "done"} /\ toStop[q] = {}
  BY <1>1, NobodyElse
<1>3. OneAtATime' /\ HandsAreEmptied' /\ LiveIsSaved' /\ KnownIsShown'
  BY <1>0, <1>1, <1>2 DEF TurnInv, OneAtATime, HandsAreEmptied, LiveIsSaved, KnownIsShown, Quiet, InProgress
<1>4. AppliesTheSaved'
  BY <1>0, <1>1, <1>2 DEF TurnInv, AppliesTheSaved, Applying, Starting
<1>5. NoLeak'
  <2> SUFFICES ASSUME NEW p \in Ports, open'[p] # None
               PROVE  (\E n \in DOMAIN listeners : listeners[n] = p) \/ p \in toStop'[r]
    BY <1>0 DEF NoLeak
  <2>1. open[p] # None /\ (p \in toStop[r] => p \in toStop'[r])
    BY <1>0 DEF TurnInv, IInv, TypeOK
  <2> QED BY <1>0, <1>2, <2>1 DEF TurnInv, NoLeak
<1> QED BY <1>3, <1>4, <1>5 DEF TurnRest

(* A listener that is to be bound is not in the map, nobody else puts it there. *)
LEMMA TurnToLook ==
  ASSUME ManagerAssumption, TurnInv, NEW r \in Requests, NEW n \in Names, LookAt(r, n)
  PROVE  TurnRest'
<1>0. /\ pc[r] = "next" /\ n \in todo[r]
      /\ pc' = [pc EXCEPT ![r] = CASE want[r][n] = Off -> "off"
                                   [] want[r][n] # Off /\ n \in DOMAIN listeners -> "next"
                                   [] OTHER -> "bind"]
      /\ todo' = [todo EXCEPT ![r] = todo[r] \ {n}]
      /\ name' = [name EXCEPT ![r] = n]
      /\ UNCHANGED <<setting, listeners, status, tasks, open, edited, want, toStop, bound, main, mainStop>>
  BY DEF LookAt, Goto, managerVars, mainVars
<1>1. /\ pc'[r] \in {"off", "next", "bind"} /\ InProgress(r) /\ InProgress(r)'
      /\ \A q \in Requests \ {r} : pc'[q] = pc[q] /\ name'[q] = name[q]
      /\ name'[r] = n /\ todo'[r] = todo[r] \ {n} /\ toStop[r] = {}
  BY <1>0 DEF TurnInv, IInv, TypeOK, InProgress, HandsAreEmptied
<1>2. /\ main = "up" /\ mainStop = {}
      /\ \A q \in Requests \ {r} : pc[q] \in {"new", "done"} /\ toStop[q] = {}
  BY <1>1, NobodyElse
<1>3. /\ pc'[r] = "bind" => n \notin DOMAIN listeners
      /\ pc'[r] = "off" => want[r][n] = Off
      /\ pc'[r] = "next" => n \in DOMAIN listeners
  BY <1>0 DEF TurnInv, IInv, TypeOK
<1>4. OneAtATime' /\ HandsAreEmptied' /\ LiveIsSaved' /\ KnownIsShown'
  BY <1>0, <1>1, <1>2 DEF TurnInv, OneAtATime, HandsAreEmptied, LiveIsSaved, KnownIsShown, Quiet, InProgress
<1>5. AppliesTheSaved'
  BY <1>0, <1>1, <1>2, <1>3 DEF TurnInv, AppliesTheSaved, Applying, Starting
<1>6. NoLeak'
  BY <1>0, <1>1, <1>2 DEF TurnInv, NoLeak
<1> QED BY <1>4, <1>5, <1>6 DEF TurnRest

LEMMA TurnToSwitchOff ==
  ASSUME ManagerAssumption, TurnInv, NEW r \in Requests, SwitchedOff(r)
  PROVE  TurnRest'
<1>0. /\ pc[r] = "off" /\ pc' = [pc EXCEPT ![r] = "next"]
      /\ status' \in {status, [status EXCEPT ![name[r]] = "inactive"]}
      /\ UNCHANGED <<setting, listeners, tasks, open, edited, want, toStop, todo, name, running,
                     bound, main, mainStop>>
  BY DEF SwitchedOff, Goto, requestVars, mainVars
<1>1. /\ pc'[r] = "next" /\ InProgress(r) /\ InProgress(r)' /\ toStop[r] = {}
      /\ \A q \in Requests \ {r} : pc'[q] = pc[q]
  BY <1>0 DEF TurnInv, IInv, TypeOK, InProgress, HandsAreEmptied
<1>2. /\ main = "up" /\ mainStop = {}
      /\ \A q \in Requests \ {r} : pc[q] \in {"new", "done"} /\ toStop[q] = {}
  BY <1>1, NobodyElse
<1>3. /\ name[r] \in Names /\ setting[name[r]] = Off /\ want[r] = setting
      /\ \A n \in Names \ {name[r]} : status'[n] = status[n]
  <2>1. name[r] \in Names /\ status = [n \in Names |-> status[n]]
    BY <1>0 DEF TurnInv, IInv, TypeOK
  <2>2. want[r] = setting /\ want[r][name[r]] = Off
    BY <1>0 DEF TurnInv, AppliesTheSaved, Applying
  <2>3. \A n \in Names \ {name[r]} : status'[n] = status[n]
    BY <1>0, <2>1
  <2> QED BY <2>1, <2>2, <2>3
<1>4. name[r] \notin DOMAIN listeners
  BY <1>0, <1>3 DEF TurnInv, IInv, TypeOK, AppliesTheSaved, Applying, ManagerAssumption
<1>5. OneAtATime' /\ HandsAreEmptied' /\ LiveIsSaved'
  BY <1>0, <1>1, <1>2 DEF TurnInv, OneAtATime, HandsAreEmptied, LiveIsSaved, Quiet, InProgress
<1>6. KnownIsShown'
  BY <1>0, <1>3, <1>4 DEF TurnInv, IInv, TypeOK, KnownIsShown
<1>7. AppliesTheSaved'
  BY <1>0, <1>1, <1>2, <1>3 DEF TurnInv, AppliesTheSaved, Applying, Starting
<1>8. NoLeak'
  BY <1>0, <1>1, <1>2 DEF TurnInv, NoLeak
<1> QED BY <1>5, <1>6, <1>7, <1>8 DEF TurnRest

(* A socket that was bound is in the hand of the request. *)
LEMMA TurnToBind ==
  ASSUME ManagerAssumption, TurnInv, NEW r \in Requests, Bind(r)
  PROVE  TurnRest'
<1> DEFINE p == PortOf(r)
<1>0. /\ pc[r] = "bind" /\ pc' = [pc EXCEPT ![r] = "record"]
      /\ UNCHANGED <<setting, listeners, status, tasks, edited, want, toStop, todo, name, running,
                     main, mainStop>>
      /\ \/ open' = [open EXCEPT ![p] = name[r]] /\ bound' = [bound EXCEPT ![r] = TRUE]
         \/ open' = open
  BY DEF Bind, Goto, managerVars, mainVars, PortOf
<1>1. /\ pc'[r] = "record" /\ InProgress(r) /\ InProgress(r)' /\ toStop[r] = {}
      /\ \A q \in Requests \ {r} : pc'[q] = pc[q]
  BY <1>0 DEF TurnInv, IInv, TypeOK, InProgress, HandsAreEmptied
<1>2. /\ main = "up" /\ mainStop = {}
      /\ \A q \in Requests \ {r} : pc[q] \in {"new", "done"} /\ toStop[q] = {}
  BY <1>1, NobodyElse
<1>3. OneAtATime' /\ HandsAreEmptied' /\ LiveIsSaved' /\ KnownIsShown'
  BY <1>0, <1>1, <1>2 DEF TurnInv, OneAtATime, HandsAreEmptied, LiveIsSaved, KnownIsShown, Quiet, InProgress
<1>4. AppliesTheSaved'
  BY <1>0, <1>1, <1>2 DEF TurnInv, AppliesTheSaved, Applying, Starting
<1>5. NoLeak'
  <2> SUFFICES ASSUME NEW x \in Ports, open'[x] # None
               PROVE  \/ \E n \in DOMAIN listeners : listeners[n] = x
                      \/ bound'[r] /\ want[r][name[r]] = x
    BY <1>0, <1>1 DEF NoLeak
  <2>1. open[x] # None => \E n \in DOMAIN listeners : listeners[n] = x
    BY <1>0, <1>1, <1>2 DEF TurnInv, NoLeak
  <2> QED BY <1>0, <2>1 DEF TurnInv, IInv, TypeOK, PortOf
<1> QED BY <1>3, <1>4, <1>5 DEF TurnRest

(* ... and goes from there into the map, where nothing is overwritten. *)
LEMMA TurnToRecord ==
  ASSUME ManagerAssumption, TurnInv, NEW r \in Requests, Record(r)
  PROVE  TurnRest'
<1> DEFINE n == name[r]
           p == PortOf(r)
<1>0. /\ pc[r] = "record" /\ pc' = [pc EXCEPT ![r] = "next"]
      /\ UNCHANGED <<setting, tasks, open, edited, want, toStop, todo, name, running, bound,
                     main, mainStop>>
      /\ \/ /\ bound[r] /\ status' = [status EXCEPT ![n] = p]
            /\ listeners' = [m \in DOMAIN listeners \cup {n} |-> IF m = n THEN p ELSE listeners[m]]
         \/ ~bound[r] /\ status' = [status EXCEPT ![n] = "error"] /\ listeners' = listeners
  BY DEF Record, Goto, requestVars, mainVars, PortOf
<1>1. /\ pc'[r] = "next" /\ InProgress(r) /\ InProgress(r)' /\ toStop[r] = {}
      /\ \A q \in Requests \ {r} : pc'[q] = pc[q]
  BY <1>0 DEF TurnInv, IInv, TypeOK, InProgress, HandsAreEmptied
<1>2. /\ main = "up" /\ mainStop = {}
      /\ \A q \in Requests \ {r} : pc[q] \in {"new", "done"} /\ toStop[q] = {}
  BY <1>1, NobodyElse
<1>3. /\ n \in Names /\ n \notin DOMAIN listeners /\ p = setting[n] /\ want[r] = setting
      /\ \A m \in Names \ {n} : status'[m] = status[m]
  BY <1>0 DEF TurnInv, IInv, TypeOK, AppliesTheSaved, Starting, Applying, PortOf
<1>4. OneAtATime' /\ HandsAreEmptied' /\ LiveIsSaved'
  BY <1>0, <1>1, <1>2 DEF TurnInv, OneAtATime, HandsAreEmptied, LiveIsSaved, Quiet, InProgress
<1>5. KnownIsShown'
  BY <1>0, <1>3 DEF TurnInv, IInv, TypeOK, KnownIsShown
<1>6. AppliesTheSaved'
  <2>1. \A m \in Names :
          IF m \in DOMAIN listeners' THEN listeners'[m] = setting[m]
          ELSE setting[m] = Off \/ status'[m] = "error" \/ m \in todo[r]
    <3>1. \A m \in Names :
            IF m \in DOMAIN listeners THEN listeners[m] = setting[m]
            ELSE setting[m] = Off \/ status[m] = "error" \/ m \in todo[r] \/ m = n
      BY <1>0 DEF TurnInv, AppliesTheSaved, Applying, Starting
    <3>2. CASE listeners' = listeners /\ status' = [status EXCEPT ![n] = "error"]
      BY <1>3, <3>1, <3>2 DEF TurnInv, IInv, TypeOK
    <3>3. CASE listeners' = [m \in DOMAIN listeners \cup {n} |-> IF m = n THEN p ELSE listeners[m]]
      BY <1>3, <3>1, <3>3
    <3> QED BY <1>0, <3>2, <3>3
  <2> QED BY <1>0, <1>1, <1>2, <1>3, <2>1 DEF AppliesTheSaved, Applying, Starting
<1>7. NoLeak'
  <2> SUFFICES ASSUME NEW x \in Ports, open[x] # None
               PROVE  \E m \in DOMAIN listeners' : listeners'[m] = x
    BY <1>0 DEF NoLeak
  <2>1. (\E m \in DOMAIN listeners : listeners[m] = x) \/ (bound[r] /\ p = x)
    BY <1>0, <1>1, <1>2 DEF TurnInv, NoLeak, PortOf
  <2> QED BY <1>0, <1>3, <2>1
<1> QED BY <1>4, <1>5, <1>6, <1>7 DEF TurnRest

(* When the last listener was looked at, what runs is what is saved. *)
LEMMA TurnToEnd ==
  ASSUME ManagerAssumption, TurnInv, NEW r \in Requests, ApplyEnd(r)
  PROVE  TurnRest'
<1>0. /\ pc[r] = "next" /\ pc' = [pc EXCEPT ![r] = "done"] /\ todo[r] = {}
      /\ UNCHANGED <<setting, listeners, status, open, edited, want, toStop, todo, name, running,
                     bound, main, mainStop>>
  BY DEF ApplyEnd, Goto, requestVars, mainVars
<1>1. /\ pc'[r] = "done" /\ InProgress(r) /\ toStop[r] = {}
      /\ \A q \in Requests \ {r} : pc'[q] = pc[q]
  BY <1>0 DEF TurnInv, IInv, TypeOK, InProgress, HandsAreEmptied
<1>2. /\ main = "up" /\ mainStop = {}
      /\ \A q \in Requests \ {r} : pc[q] \in {"new", "done"} /\ toStop[q] = {}
  BY <1>1, NobodyElse
<1>3. OneAtATime' /\ HandsAreEmptied' /\ KnownIsShown'
  BY <1>0, <1>1, <1>2 DEF TurnInv, OneAtATime, HandsAreEmptied, KnownIsShown, Quiet, InProgress
<1>4. LiveIsSaved'
  BY <1>0 DEF TurnInv, AppliesTheSaved, Applying, Starting, LiveIsSaved
<1>5. AppliesTheSaved'
  BY <1>0, <1>1, <1>2 DEF AppliesTheSaved, Applying, Starting
<1>6. NoLeak'
  BY <1>0, <1>1, <1>2 DEF TurnInv, NoLeak
<1> QED BY <1>3, <1>4, <1>5, <1>6 DEF TurnRest

(* Shutdown begins when nobody is in progress, and nobody begins after it. *)
LEMMA TurnToShutDown ==
  ASSUME ManagerAssumption, ~Concurrent, TurnInv, Shutdown
  PROVE  TurnRest'
<1>1. /\ main' # "up" /\ Quiet /\ UNCHANGED <<pc, want, setting, toStop, todo, name, bound>>
  BY DEF Shutdown, ShutdownCancels, ShutdownEmpties, ShutdownStops, TasksEnd, MayBegin, Quiet,
         TurnInv, OneAtATime, requestVars
<1>2. Quiet' /\ \A r \in Requests : pc[r] \in {"new", "done"} /\ toStop[r] = {}
  BY <1>1 DEF TurnInv, IInv, TypeOK, HandsAreEmptied, Quiet, InProgress
<1>3. OneAtATime' /\ LiveIsSaved' /\ AppliesTheSaved'
  BY <1>1, <1>2 DEF OneAtATime, LiveIsSaved, AppliesTheSaved, Applying, Starting, Quiet
<1>4. CASE ShutdownCancels \/ TasksEnd
  <2>1. UNCHANGED <<listeners, status, open, mainStop>>
    BY <1>4 DEF ShutdownCancels, TasksEnd, managerVars
  <2>2. KnownIsShown' /\ NoLeak'
    BY <1>1, <1>2, <2>1 DEF TurnInv, KnownIsShown, NoLeak
  <2>3. HandsAreEmptied'
    BY <1>1, <1>2, <1>4, <2>1 DEF TurnInv, IInv, TypeOK, HandsAreEmptied, ShutdownCancels, TasksEnd, managerVars
  <2> QED BY <1>3, <2>2, <2>3 DEF TurnRest
<1>5. CASE ShutdownEmpties
  <2>1. /\ mainStop' = {listeners[n] : n \in DOMAIN listeners} /\ DOMAIN listeners' = {}
        /\ main = "empty" /\ main' = "stop" /\ UNCHANGED <<tasks, open>>
    BY <1>5 DEF ShutdownEmpties
  <2>2. KnownIsShown' /\ HandsAreEmptied'
    BY <1>1, <1>2, <2>1 DEF TurnInv, KnownIsShown, HandsAreEmptied
  <2>3. NoLeak'
    BY <1>1, <1>2, <2>1 DEF TurnInv, NoLeak, HandsAreEmptied
  <2> QED BY <1>3, <2>2, <2>3 DEF TurnRest
<1>6. CASE ShutdownStops
  <2>1. /\ main = "stop" /\ UNCHANGED <<listeners, status, tasks>>
        /\ \/ \E p \in mainStop : open' = [open EXCEPT ![p] = None] /\ mainStop' = mainStop \ {p} /\ main' = "stop"
           \/ mainStop = {} /\ main' = "wait" /\ UNCHANGED <<open, mainStop>>
    BY <1>6 DEF ShutdownStops, managerVars
  <2>2. KnownIsShown' /\ HandsAreEmptied'
    BY <1>1, <1>2, <2>1 DEF TurnInv, KnownIsShown, HandsAreEmptied
  <2>3. NoLeak'
    <3> SUFFICES ASSUME NEW x \in Ports, open'[x] # None PROVE x \in mainStop'
      BY DEF NoLeak
    <3>1. open[x] # None => x \in mainStop
      BY <1>2, <2>1 DEF TurnInv, NoLeak, HandsAreEmptied
    <3> QED BY <2>1, <3>1 DEF TurnInv, IInv, TypeOK
  <2> QED BY <1>3, <2>2, <2>3 DEF TurnRest
<1> QED BY <1>4, <1>5, <1>6 DEF Shutdown

LEMMA TurnToStutter == TurnInv /\ UNCHANGED vars => TurnRest'
BY DEF TurnInv, TurnRest, OneAtATime, HandsAreEmptied, AppliesTheSaved, Applying, Starting, KnownIsShown, LiveIsSaved,
       NoLeak, Quiet, InProgress, vars, managerVars, requestVars, mainVars

LEMMA TurnsKeep ==
  ASSUME ManagerAssumption, ~Concurrent, TurnInv, [Next]_vars
  PROVE  TurnInv'
<1>1. IInv'
  BY NextKeeps DEF TurnInv
<1>2. ASSUME NEW r \in Requests, handleObsSetConfig(r) PROVE TurnRest'
  <2>1. CASE SaveConfig(r) \/ \E value \in Ports \cup {Off} : ReadConfig(r, value)
    BY <2>1, TurnToHandle
  <2>2. CASE Apply(r)
    BY <2>2, TurnToReplace, TurnToStop, TurnToLook, TurnToSwitchOff, TurnToBind, TurnToRecord, TurnToEnd DEF Apply
  <2> QED BY <1>2, <2>1, <2>2 DEF handleObsSetConfig
<1>3. TurnRest'
  BY <1>2, TurnToShutDown, TurnToStutter DEF Next
<1> QED BY <1>1, <1>3 DEF TurnInv, TurnRest

LEMMA TurnsBegin == ManagerAssumption /\ Init => TurnInv
<1> SUFFICES ASSUME ManagerAssumption, Init PROVE TurnInv
  OBVIOUS
<1>1. IInv /\ \A r \in Requests : pc[r] = "new" /\ toStop[r] = {}
  BY InitHolds DEF Init
<1>2. /\ DOMAIN listeners = {} /\ main = "up" /\ mainStop = {}
      /\ \A p \in Ports : open[p] = None
      /\ \A n \in Names : setting[n] = Off
  BY DEF Init
<1>3. tasks = "none"
  BY DEF Init
<1>4. OneAtATime /\ HandsAreEmptied
  BY <1>1, <1>2, <1>3 DEF OneAtATime, HandsAreEmptied, Quiet, InProgress
<1>5. AppliesTheSaved /\ KnownIsShown
  BY <1>1, <1>2 DEF AppliesTheSaved, Applying, Starting, KnownIsShown
<1>6. LiveIsSaved
  BY <1>2 DEF LiveIsSaved
<1>7. NoLeak
  BY <1>2 DEF NoLeak
<1> QED BY <1>1, <1>4, <1>5, <1>6, <1>7 DEF TurnInv

(* What in-turn requests and Shutdown leave behind. *)
LEMMA TurnsAreTrue == TurnInv => ListeningIsActive /\ LiveIsSaved /\ NoLeak /\ ShutdownClosesAll
<1> SUFFICES ASSUME TurnInv PROVE ListeningIsActive /\ ShutdownClosesAll
  BY DEF TurnInv
<1>1. ListeningIsActive
  BY DEF TurnInv, KnownIsShown, ListeningIsActive
<1>2. ASSUME Over PROVE (\A p \in Ports : open[p] = None) /\ tasks # "running"
  <2>1. main = "down" /\ mainStop = {} /\ DOMAIN listeners = {} /\ tasks # "running"
    BY <1>2 DEF Over, TurnInv, HandsAreEmptied
  <2>2. \A r \in Requests : toStop[r] = {} /\ pc[r] # "record"
    BY <1>2 DEF Over, InProgress, TurnInv, IInv, TypeOK, HandsAreEmptied
  <2> QED BY <2>1, <2>2 DEF TurnInv, NoLeak
<1> QED BY <1>1, <1>2 DEF ShutdownClosesAll

(***************************************************************************)
(* manager.go:139-202 and 260, for any number of requests in turn,         *)
(* listeners and ports: between requests every listener runs as it is      *)
(* saved or shows an error, and what runs is shown; no socket is open that *)
(* the manager does not know; and after Shutdown none is open at all.      *)
(***************************************************************************)
THEOREM InTurnLiveIsSaved ==
  ASSUME ManagerAssumption, ~Concurrent
  PROVE  Spec => [](LiveIsSaved /\ ListeningIsActive /\ NoLeak /\ ShutdownClosesAll)
BY TurnsBegin, TurnsKeep, TurnsAreTrue, PTL DEF Spec
=============================================================================
