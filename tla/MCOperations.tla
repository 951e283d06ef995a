----------------------------- MODULE MCOperations -----------------------------
(***************************************************************************)
(* What operators and administrators have the server do, for TLC, side by  *)
(* side: the ping monitor, triage, jobs, commands on a session, scans, the *)
(* table of sites and the table of users.  area says which of them runs,   *)
(* and under which conditions, while the others stay as they begin.        *)
(***************************************************************************)
EXTENDS PingMonitor, Sequences

CONSTANTS
  d1, d2, d3, c1, c2, central, s1, q1, q2, m1, m2, m3,
  SiteIds, Default, Admins, MaxTokens, Names, Requests, MaxServed,
  Clients, Groups, Concurrency, MaxBatches,
  Pollers, Hosts, Limit,
  NCmds, OutLen, MaxRead

VARIABLES
  area,
  triageStatus, asked, triage, started, waiting, visiting, live,
  jobs, next, busy, counting, found, writing,
  at, cmd, inbox, printed, pipe, ended, readers, round, got,
  network, ip, hosts, answer,
  sites, call, drawn, over, shown,
  users, request, served, registered

triageVars == <<triageStatus, asked, triage, started, waiting, visiting, live>>
jobVars == <<jobs, next, busy, counting, found, writing>>
sessionVars == <<at, cmd, inbox, printed, pipe, ended, readers, round, got>>
scanVars == <<network, ip, hosts, answer>>
siteVars == <<sites, call, drawn, over, shown>>
accountVars == <<users, request, served, registered>>
workVars == <<triageVars, jobVars, sessionVars, scanVars>>
tableVars == <<siteVars, accountVars>>

(* The monitor as the configuration has it, and one whose store answers.   *)
Reliable == INSTANCE PingMonitor WITH MayFail <- FALSE, MaxSaves <- 2, MaxChanges <- 1

(* A request of all devices, of two, of one and of none, two devices being *)
(* silent; and one by one.                                                 *)
Selections == {{d1, d2, d3}, {d1, d3}, {d3}, {}}
TriageByTurns == area = "triage by turns"
Global == INSTANCE Triage WITH
  pc <- triage, serial <- TriageByTurns, Silent <- {d1, d2}

(* Two jobs of three hosts, addresses as numbers, not in their order: bulk *)
(* commands, and a discovery or a verification next to them, two hosts     *)
(* being silent; and scans with every mask of five bits but the one of all *)
(* addresses.                                                              *)
Requested == <<<<20, 10, 30>>, <<30, 10, 20>>>>
Handlers ==
  [j \in DOMAIN Hosts |-> IF j = 1 THEN "bulk" ELSE IF area = "verify" THEN "verify" ELSE "discovery"]
Tasks == INSTANCE AsyncJobs WITH
  Clients <- Pollers, kind <- Handlers, Silent <- {10, 30}, Bits <- 5, MaxHosts <- 6, Masks <- 1..31

(* A banner of one piece, then answers of two pieces and of one in turn;   *)
(* from a device that pauses as it likes, and from one that never pauses.  *)
Answers == [c \in 0..NCmds |-> IF c % 2 = 1 THEN 2 ELSE 1]
Steadily == area = "steady"
Shell == INSTANCE CliSession WITH pc <- at, prompt <- Steadily

(* Two requests about two sites, or about three users: overlapping, and    *)
(* one by one.                                                             *)
ByTurns == area \in {"sites by turns", "accounts by turns"}
Registry == INSTANCE Sites WITH ended <- over, serial <- ByTurns
UserTable == INSTANCE Accounts WITH serial <- ByTurns

ASSUME OperationsAreRight ==
  /\ Global!TriageAssumption /\ Tasks!JobsAssumption /\ Shell!SessionAssumption /\ Tasks!ScanAssumption
  /\ Registry!SitesAssumption /\ UserTable!AccountsAssumption

-----------------------------------------------------------------------------
(* The devices are alike: it matters only how many there are to begin with. *)
(* The reliable monitor begins with none or with as many as it has slots,   *)
(* and one more may come.                                                   *)
OperationsInit ==
  /\ area \in {"monitor", "reliable monitor", "triage", "triage by turns", "discovery", "verify",
               "slow", "steady", "scan", "sites", "sites by turns", "accounts", "accounts by turns"}
  /\ Init
  /\ inventory \in {{}, {d1}, {d1, d2}, {d1, d2, d3}}
  /\ area = "reliable monitor" => inventory \in {{}, {d1, d2}}
  /\ area \notin {"monitor", "reliable monitor"} => inventory = {} /\ answers = {}
  /\ Global!Init /\ Tasks!Init /\ Shell!Init /\ Registry!Init /\ UserTable!Init
  /\ IF area = "scan" THEN Tasks!ScanInit
     ELSE network = [ip |-> 0, mask |-> 1] /\ ip = 0 /\ hosts = <<>> /\ answer = ""

Monitor ==
  /\ \/ area = "monitor" /\ Next
     \/ area = "reliable monitor" /\ Reliable!Next
  /\ UNCHANGED <<area, workVars, tableVars>>

Work ==
  /\ UNCHANGED <<area, vars, tableVars>>
  /\ \/ area \in {"triage", "triage by turns"} /\ Global!Next /\ UNCHANGED <<jobVars, sessionVars, scanVars>>
     \/ area \in {"discovery", "verify"} /\ Tasks!Next /\ UNCHANGED <<triageVars, sessionVars, scanVars>>
     \/ area \in {"slow", "steady"} /\ Shell!Next /\ UNCHANGED <<triageVars, jobVars, scanVars>>
     \/ area = "scan" /\ Tasks!ScanNext /\ UNCHANGED <<triageVars, jobVars, sessionVars>>

Tables ==
  /\ UNCHANGED <<area, vars, workVars>>
  /\ \/ area \in {"sites", "sites by turns"} /\ Registry!Next /\ UNCHANGED accountVars
     \/ area \in {"accounts", "accounts by turns"} /\ UserTable!Next /\ UNCHANGED siteVars

OperationsNext == Monitor \/ Work \/ Tables
operationsVars == <<area, vars, workVars, tableVars>>

(* The fairness of each module, for the area that runs. *)
OperationsFairness ==
  /\ WF_vars(area = "reliable monitor" /\ Reliable!Loop)
  /\ \A s \in Savers : WF_vars(area = "reliable monitor" /\ Reliable!Wake(s))
  /\ \A c \in Clients : /\ WF_triageVars(area = "triage" /\ Global!ListDevices(c))
                        /\ WF_triageVars(area = "triage" /\ Global!Start(c))
  /\ \A b \in Global!Batches : /\ WF_triageVars(area = "triage" /\ Global!Visit(b))
                               /\ WF_triageVars(area = "triage" /\ Global!Answered(b))
                               /\ WF_triageVars(area = "triage" /\ Global!Finish(b))
  /\ \A j \in Tasks!Jobs : /\ WF_jobVars(area = "discovery" /\ Tasks!Begin(j))
                           /\ WF_jobVars(area = "discovery" /\ Tasks!HandleInTime(j))
                           /\ SF_jobVars(area = "discovery" /\ Tasks!Count(j))
                           /\ SF_jobVars(area = "discovery" /\ Tasks!Finish(j))
  /\ \A c \in Pollers : WF_jobVars(area = "discovery" /\ Tasks!Answered(c))
  /\ WF_sessionVars(area = "slow" /\ Shell!Answer)
  /\ WF_sessionVars(area = "slow" /\ Shell!WriteLine)
  /\ WF_sessionVars(area = "slow" /\ Shell!StartRead)
  /\ WF_sessionVars(area = "slow" /\ Shell!ReadDone)
  /\ WF_sessionVars(area = "slow" /\ Shell!Idle)
  /\ WF_sessionVars(area = "slow" /\ Shell!Close)
  /\ WF_sessionVars(area = "slow" /\ \E r \in readers : Shell!Read(r))
  /\ WF_sessionVars(area = "slow" /\ \E r \in readers : Shell!Drop(r))
  /\ WF_scanVars(area = "scan" /\ Tasks!ScanNext)

OperationsSpec == OperationsInit /\ [][OperationsNext]_operationsVars /\ OperationsFairness

-----------------------------------------------------------------------------
(* The properties of the modules, each where it applies. *)

(***************************************************************************)
(* Triage: when nothing of it is left, the record says idle; if requests   *)
(* come by turns there is one batch at a time, and the record tells how    *)
(* far it is.                                                              *)
(***************************************************************************)
TriageIsTrue ==
  /\ Global!TypeOK /\ Global!IdleAgain
  /\ TriageByTurns => Global!OneBatch /\ Global!RecordTellsTheBatch

(***************************************************************************)
(* AsyncJobs: the progress of a job is the number of hosts recorded, each  *)
(* result there once, and a job that says done has every result.           *)
(***************************************************************************)
JobsAreTrue == Tasks!TypeOK /\ Tasks!ProgressIsHonest /\ Tasks!DoneIsComplete

(***************************************************************************)
(* CliSession: no output twice, out of order or of a later command; and    *)
(* from a device that never pauses, output of the command only.            *)
(***************************************************************************)
OutputIsOfTheCommand == Shell!TypeOK /\ Shell!OutputInOrder /\ Shell!OwnOutputOnly

(***************************************************************************)
(* What the work on devices says of itself: the monitor keeps to its       *)
(* types, triage, jobs and output are as above, and a job that says done   *)
(* changes no more.                                                        *)
(***************************************************************************)
WorkIsTrue ==
  /\ [](TypeOK /\ TriageIsTrue /\ JobsAreTrue /\ OutputIsOfTheCommand)
  /\ Tasks!DoneIsFinal

(***************************************************************************)
(* With a store that answers, the monitor follows its settings: one that   *)
(* stays enabled goes round and round, one that stays disabled comes to    *)
(* rest.  Every triage and every job ends, unless devices that are silent  *)
(* in the handshake hold it up, and then only once the others are done or  *)
(* all its goroutines are at silent ones; the goroutines left behind end   *)
(* with their session, and every scan is answered, with every usable       *)
(* address once and no other.                                              *)
(***************************************************************************)
EverythingEnds ==
  /\ area = "reliable monitor" => EnabledMonitorRuns /\ DisabledMonitorRests
  /\ area = "triage" => Global!TriageEnds
  /\ area = "discovery" => Tasks!JobsEnd
  /\ area = "slow" => Shell!ReadersEnd
  /\ area = "scan" => Tasks!ScanIsAnswered /\ [](Tasks!ScanTypeOK /\ Tasks!ScansTheNetwork)

(***************************************************************************)
(* The tables of sites and users: a token opens one site at most, and a    *)
(* site that is gone comes back only when it is created anew; if requests  *)
(* come by turns, a token that was ended opens nothing, the token shown    *)
(* last works, a central site keeps none, an active administrator is left  *)
(* and the first one is registered once.                                   *)
(***************************************************************************)
TablesAreTrue ==
  /\ [](Registry!TypeOK /\ Registry!TokenOpensOneSite /\ UserTable!TypeOK)
  /\ [](ByTurns =>
           /\ Registry!EndedTokenIsDead /\ Registry!ShownTokenWorks /\ Registry!CentralHasNoToken
           /\ UserTable!AdminLeft /\ UserTable!OneFirstAdmin)
  /\ Registry!DeletedStaysDeleted
=============================================================================
