------------------------------ MODULE MCServices ------------------------------
(***************************************************************************)
(* The services inside the server, for TLC, side by side: the writer of    *)
(* the observability store, the listener manager with overlapping requests *)
(* and with requests in turn, and the command relay in four settings.      *)
(* part says which of them runs while the others stay as they begin.       *)
(***************************************************************************)
EXTENDS ObsWriter

CONSTANTS r1, r2, p1, p2, ipfix, syslog, Off, s1, s2, a1, a2, b1

VARIABLES
  part,
  setting, listeners, status, tasks, open, pc, edited, want, toStop, todo, name,
  running, bound, main, mainStop,
  site, drawn, asked, jobs, requests, holds, work, report, faults, runs

managerVars == <<setting, listeners, status, tasks, open, pc, edited, want, toStop, todo,
                 name, running, bound, main, mainStop>>
relayVars == <<site, drawn, asked, jobs, requests, holds, work, report, faults, runs>>

(* Two requests and Shutdown, overlapping, and each after the other.       *)
Manager == INSTANCE ListenerManager WITH
  Requests <- {r1, r2}, Names <- {ipfix, syslog}, Ports <- {p1, p2}, Concurrent <- TRUE
InTurn == INSTANCE ListenerManager WITH
  Requests <- {r1, r2}, Names <- {ipfix, syslog}, Ports <- {p1, p2}, Concurrent <- FALSE

(* Two agents of one site, with requests lost or repeated, and without.    *)
TwoAgents == [a \in {a1, a2} |-> s1]
Faulty == INSTANCE CommandRelay WITH
  SiteIds <- {s1}, Agents <- {a1, a2}, Home <- TwoAgents, ClaimLimit <- 1,
  MaxJobs <- 2, MaxTokens <- 1, MaxRequests <- 2, MaxFaults <- 3, Admin <- FALSE
Reliable == INSTANCE CommandRelay WITH
  SiteIds <- {s1}, Agents <- {a1, a2}, Home <- TwoAgents, ClaimLimit <- 1,
  MaxJobs <- 2, MaxTokens <- 1, MaxRequests <- 2, MaxFaults <- 0, Admin <- FALSE

(* One more agent, of another site, and more jobs than a claim takes.      *)
ThreeAgents == [a \in {a1, a2, b1} |-> IF a = b1 THEN s2 ELSE s1]
Apart == INSTANCE CommandRelay WITH
  SiteIds <- {s1, s2}, Agents <- {a1, a2, b1}, Home <- ThreeAgents, ClaimLimit <- 1,
  MaxJobs <- 3, MaxTokens <- 2, MaxRequests <- 1, MaxFaults <- 0, Admin <- FALSE

(* One agent, and an administrator who does what he likes with its site.   *)
OneAgent == [a \in {a1} |-> s1]
Changing == INSTANCE CommandRelay WITH
  SiteIds <- {s1}, Agents <- {a1}, Home <- OneAgent, ClaimLimit <- 1,
  MaxJobs <- 1, MaxTokens <- 3, MaxRequests <- 2, MaxFaults <- 2, Admin <- TRUE

ASSUME ConstantsAreRight ==
  /\ Manager!ManagerAssumption
  /\ Faulty!RelayAssumption /\ Apart!RelayAssumption /\ Changing!RelayAssumption

-----------------------------------------------------------------------------
(* The listeners are alike, so that the first request may be about ipfix.  *)
MCInit ==
  /\ part \in {"writer", "listeners", "listeners in turn",
               "relay faulty", "relay reliable", "relay apart", "relay changing"}
  /\ Init
  /\ Manager!Init
  /\ edited[r1] = ipfix
  /\ part \notin {"listeners", "listeners in turn"} => edited[r2] = ipfix
  /\ CASE part = "relay apart" -> Apart!Init
       [] part = "relay changing" -> Changing!Init
       [] OTHER -> Faulty!Init

MCNext ==
  \/ part = "writer" /\ Next /\ UNCHANGED <<part, managerVars, relayVars>>
  \/ part = "listeners" /\ Manager!Next /\ UNCHANGED <<part, vars, relayVars>>
  \/ part = "listeners in turn" /\ InTurn!Next /\ UNCHANGED <<part, vars, relayVars>>
  \/ part = "relay faulty" /\ Faulty!Next /\ UNCHANGED <<part, vars, managerVars>>
  \/ part = "relay reliable" /\ Reliable!Next /\ UNCHANGED <<part, vars, managerVars>>
  \/ part = "relay apart" /\ Apart!Next /\ UNCHANGED <<part, vars, managerVars>>
  \/ part = "relay changing" /\ Changing!Next /\ UNCHANGED <<part, vars, managerVars>>

MCVars == <<part, vars, managerVars, relayVars>>

(* The fairness of each module, for the part that runs. *)
MCSpec ==
  /\ MCInit /\ [][MCNext]_MCVars
  /\ WF_vars(part = "writer" /\ writerLoop)
  /\ \A s \in Syncers : WF_vars(part = "writer" /\ (SyncReleased(s) \/ SyncClosed(s)))
  /\ \A r \in {r1, r2} :
       WF_managerVars(part = "listeners in turn" /\ (InTurn!SaveConfig(r) \/ InTurn!Apply(r)))
  /\ WF_managerVars(part = "listeners in turn"
                    /\ (InTurn!ShutdownEmpties \/ InTurn!ShutdownStops \/ InTurn!TasksEnd))
  /\ WF_relayVars(part = "relay reliable" /\ Reliable!EnqueueJob)
  /\ \A a \in {a1, a2} : /\ WF_relayVars(part = "relay reliable" /\ Reliable!SendPoll(a))
                         /\ WF_relayVars(part = "relay reliable" /\ Reliable!Execute(a))
                         /\ WF_relayVars(part = "relay reliable" /\ Reliable!SendResult(a))
  /\ \A a \in {a1, a2}, kind \in {"poll", "result"} :
       WF_relayVars(part = "relay reliable"
                    /\ \E r \in requests : /\ r.from = a /\ r.kind = kind
                                           /\ Reliable!Server(r) \/ Reliable!Receive(r))

-----------------------------------------------------------------------------
(* The properties of ListenerManager and CommandRelay, each where it applies. *)

(***************************************************************************)
(* The listeners the manager knows have their sockets, whatever overlaps.  *)
(* If requests come in turn, what runs is what is saved, and is shown as   *)
(* active; no socket stays open that the manager does not know, and none   *)
(* at all after Shutdown.                                                  *)
(***************************************************************************)
ListenersAreTrue ==
  /\ part = "listeners" => Manager!StateIsTrue
  /\ part = "listeners in turn" =>
       /\ InTurn!StateIsTrue /\ InTurn!LiveIsSaved /\ InTurn!ListeningIsActive
       /\ InTurn!NoLeak /\ InTurn!ShutdownClosesAll

(* NoLeak, for requests that overlap. *)
NoLeak == part = "listeners" => Manager!NoLeak

(***************************************************************************)
(* No command is executed twice, what the table says of a job is what      *)
(* happened, and a command reaches its own site only, the oldest first; an *)
(* outcome, once registered, stays; and a token that opens no site any     *)
(* more gets no request past the check.                                    *)
(***************************************************************************)
CommandsAreTrue ==
  /\ [](CASE part = "relay apart" -> Apart!TypeOK /\ Apart!OwnSiteOldestFirst
         [] part = "relay changing" -> Changing!TypeOK
         [] OTHER -> Faulty!TypeOK /\ Faulty!ExecutedAtMostOnce /\ Faulty!TableTellsTheTruth)
  /\ Faulty!OutcomeIsFinal
  /\ [][part = "relay changing" => Changing!LetInByLiveToken]_relayVars

(* A command is executed by an agent of the site it was enqueued for. *)
ExecutedWhereAsked == Changing!ExecutedWhereAsked

(***************************************************************************)
(* Every Sync and Close returns; Shutdown does not wait for ever for its   *)
(* tasks; and where nothing is lost, every command is executed and         *)
(* answered.                                                               *)
(***************************************************************************)
ServicesFinish ==
  /\ EveryCallEnds
  /\ part = "listeners in turn" => InTurn!ShutdownReturns
  /\ part = "relay reliable" => Reliable!CommandsFinish
=============================================================================
