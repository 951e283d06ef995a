------------------------------ MODULE CommandRelay ------------------------------
(***************************************************************************)
(* The relay of CLI commands to the agents of remote sites: the queue of   *)
(* jobs (internal/store/jobs.go), the handler that fills it                *)
(* (internal/api/sites_handlers.go), the handlers the agents call          *)
(* (internal/api/agent_handlers.go), and the agents themselves, which are  *)
(* another program and keep the contract stated there: poll, execute what  *)
(* a poll returned, post the outcome until it is answered.  The database   *)
(* has one connection, so each statement, and the transaction of a claim,  *)
(* is one step; a request may be lost, time out and be sent again, or be   *)
(* cut off by a restart of the server between any two of its statements.   *)
(***************************************************************************)
EXTENDS Naturals, Sequences, FiniteSetTheorems, TLAPS

CONSTANTS
  SiteIds,      \* the agent sites
  Agents,       \* agent processes
  Home,         \* Home[a]: the site agent a serves
  ClaimLimit,   \* the limit of ClaimPendingJobs
  MaxJobs,      \* bound: jobs ever enqueued
  MaxTokens,    \* bound: tokens ever generated
  MaxRequests,  \* bound: agents' requests under way at one time
  MaxFaults,    \* bound: requests lost, or sent again after a timeout
  Admin         \* TRUE: sites are deleted, created, rotated and made central

RelayAssumption ==
  /\ Home \in [Agents -> SiteIds]
  /\ IsFiniteSet(SiteIds) /\ Cardinality(SiteIds) <= MaxTokens
  /\ ClaimLimit \in Nat \ {0}
  /\ MaxJobs \in Nat /\ MaxTokens \in Nat /\ MaxRequests \in Nat
  /\ MaxFaults \in Nat /\ Admin \in BOOLEAN

Gone == "gone"
NoToken == 0
Token == NoToken..MaxTokens
Outcomes == {"done", "error", "other"}   \* what an agent may put in status
Stages == {"sent", "known", "seen", "answered"}

VARIABLES
  site,      \* site[s]: its mode, or Gone, its token, and its birth (history)
  drawn,     \* tokens generated so far
  asked,     \* commands whose site was checked and that are not enqueued yet
  jobs,      \* command_jobs in order of creation
  requests,  \* agents' requests under way
  holds,     \* holds[a]: the token agent a is configured with
  work,      \* work[a]: jobs a has received and not executed yet
  report,    \* report[a]: <<job, outcome>> executed and not yet acknowledged
  faults,    \* requests lost or timed out so far
  runs       \* history: runs[j], the outcomes of the executions of job j

vars == <<site, drawn, asked, jobs, requests, holds, work, report, faults, runs>>

JobIds == 1..MaxJobs
SiteState == [mode : {"central", "agent", Gone}, token : Token, born : Token]
CommandJob ==
  [site : SiteIds, born : Token, result : Outcomes \cup {""},
   status : {"pending", "running", "done", "error"}]

Request ==
  [kind : {"poll"}, from : Agents, token : Token, stage : Stages, got : SUBSET JobIds]
    \cup [kind : {"result"}, from : Agents, token : Token, stage : Stages,
          job : JobIds, outcome : Outcomes]

(* Every site starts as an agent site with a token of its own. *)
Init ==
  /\ \E t \in [SiteIds -> 1..Cardinality(SiteIds)] :
       /\ \A r, s \in SiteIds : t[r] = t[s] => r = s
       /\ site = [s \in SiteIds |-> [mode |-> "agent", token |-> t[s], born |-> t[s]]]
       /\ holds = [a \in Agents |-> t[Home[a]]]
  /\ drawn = Cardinality(SiteIds)
  /\ asked = {}
  /\ jobs = <<>>
  /\ requests = {}
  /\ work = [a \in Agents |-> {}]
  /\ report = [a \in Agents |-> {}]
  /\ faults = 0
  /\ runs = [j \in JobIds |-> <<>>]

-----------------------------------------------------------------------------
(***************************************************************************)
(* handleSiteCommand: the site is looked up and must be an agent site; the *)
(* job is inserted later, whatever has become of the site.                 *)
(***************************************************************************)
CheckSite(s) ==
  /\ site[s].mode = "agent"
  /\ Len(jobs) + Cardinality(asked) < MaxJobs
  /\ asked' = asked \cup {[site |-> s, born |-> site[s].born]}
  /\ UNCHANGED <<site, drawn, jobs, requests, holds, work, report, faults, runs>>

(* Jobs keep the order of insertion, that of `created` unless two commands *)
(* of the same site draw their times in the other order.                   *)
EnqueueJob ==
  /\ \E q \in asked :
       /\ jobs' = Append(jobs, [site |-> q.site, born |-> q.born,
                                status |-> "pending", result |-> ""])
       /\ asked' = asked \ {q}
  /\ UNCHANGED <<site, drawn, requests, holds, work, report, faults, runs>>

-----------------------------------------------------------------------------
(***************************************************************************)
(* The administrators' calls of Sites, each as one step here.              *)
(***************************************************************************)
DeleteSite(s) ==
  /\ Admin /\ site[s].mode # Gone
  /\ site' = [site EXCEPT ![s].mode = Gone, ![s].token = NoToken]
  /\ UNCHANGED <<drawn, asked, jobs, requests, holds, work, report, faults, runs>>

CreateSite(s) ==
  /\ Admin /\ site[s].mode = Gone /\ drawn < MaxTokens
  /\ drawn' = drawn + 1
  /\ site' = [site EXCEPT ![s] = [mode |-> "agent", token |-> drawn', born |-> drawn']]
  /\ UNCHANGED <<asked, jobs, requests, holds, work, report, faults, runs>>

RegenerateSiteToken(s) ==
  /\ Admin /\ site[s].mode = "agent" /\ drawn < MaxTokens
  /\ drawn' = drawn + 1
  /\ site' = [site EXCEPT ![s].token = drawn']
  /\ UNCHANGED <<asked, jobs, requests, holds, work, report, faults, runs>>

UpdateMode(s) ==
  /\ Admin
  /\ \/ site[s].mode = "agent" /\ site' = [site EXCEPT ![s].mode = "central",
                                                       ![s].token = NoToken]
     \/ site[s].mode = "central" /\ site' = [site EXCEPT ![s].mode = "agent"]
  /\ UNCHANGED <<drawn, asked, jobs, requests, holds, work, report, faults, runs>>

(* The token an administrator was shown is put into the agent. *)
Provision(a) ==
  /\ Admin
  /\ site[Home[a]].token \notin {NoToken, holds[a]}
  /\ holds' = [holds EXCEPT ![a] = site[Home[a]].token]
  /\ UNCHANGED <<site, drawn, asked, jobs, requests, work, report, faults, runs>>

-----------------------------------------------------------------------------
(***************************************************************************)
(* The agent.  It has one request of a kind under way, until it times out. *)
(***************************************************************************)
Waits(a, kind) == \E r \in requests : r.from = a /\ r.kind = kind

MaySend(a, kind) ==
  /\ Cardinality(requests) < MaxRequests
  /\ \/ ~Waits(a, kind) /\ UNCHANGED faults
     \/ Waits(a, kind) /\ faults < MaxFaults /\ faults' = faults + 1

SendPoll(a) ==
  /\ MaySend(a, "poll") /\ work[a] = {} /\ report[a] = {}
  /\ requests' = requests \cup {[kind |-> "poll", from |-> a, token |-> holds[a],
                                 stage |-> "sent", got |-> {}]}
  /\ UNCHANGED <<site, drawn, asked, jobs, holds, work, report, runs>>

Execute(a) ==
  /\ \E j \in work[a], o \in Outcomes :
       /\ work' = [work EXCEPT ![a] = @ \ {j}]
       /\ report' = [report EXCEPT ![a] = @ \cup {<<j, o>>}]
       /\ runs' = [runs EXCEPT ![j] = Append(@, o)]
  /\ UNCHANGED <<site, drawn, asked, jobs, requests, holds, faults>>

SendResult(a) ==
  /\ MaySend(a, "result")
  /\ \E p \in report[a] :
       requests' = requests \cup {[kind |-> "result", from |-> a, token |-> holds[a],
                                   stage |-> "sent", job |-> p[1], outcome |-> p[2]]}
  /\ UNCHANGED <<site, drawn, asked, jobs, holds, work, report, runs>>

(* The answer arrives: jobs to execute, or an outcome that is registered. *)
Receive(r) ==
  /\ r.stage = "answered"
  /\ requests' = requests \ {r}
  /\ \/ /\ r.kind = "poll"
        /\ work' = [work EXCEPT ![r.from] = @ \cup r.got]
        /\ UNCHANGED report
     \/ /\ r.kind = "result"
        /\ report' = [report EXCEPT ![r.from] = @ \ {<<r.job, r.outcome>>}]
        /\ UNCHANGED work
  /\ UNCHANGED <<site, drawn, asked, jobs, holds, faults, runs>>

(* The connection breaks or the server stops, at any stage of the request. *)
Lose(r) ==
  /\ faults < MaxFaults /\ faults' = faults + 1
  /\ requests' = requests \ {r}
  /\ UNCHANGED <<site, drawn, asked, jobs, holds, work, report, runs>>

-----------------------------------------------------------------------------
Step(r, stage) == requests' = (requests \ {r}) \cup {[r EXCEPT !.stage = stage]}

(***************************************************************************)
(* agentSite: AuthenticateSite finds the site the token opens, which must  *)
(* be the one in X-Site-Id; GetSite then only asks that the row exists.    *)
(***************************************************************************)
Authenticated(r) ==
  \E s \in SiteIds : /\ site[s].mode = "agent" /\ site[s].token # NoToken
                     /\ site[s].token = r.token
                     /\ s = Home[r.from]

AuthenticateSite(r) ==
  /\ r.stage = "sent"
  /\ Authenticated(r)
  /\ Step(r, "known")
  /\ UNCHANGED <<site, drawn, asked, jobs, holds, work, report, faults, runs>>

GetSite(r) ==
  /\ r.stage = "known"
  /\ site[Home[r.from]].mode # Gone
  /\ Step(r, "seen")
  /\ UNCHANGED <<site, drawn, asked, jobs, holds, work, report, faults, runs>>

(* 401 from either of the two. *)
Refuse(r) ==
  /\ \/ r.stage = "sent" /\ ~Authenticated(r)
     \/ r.stage = "known" /\ site[Home[r.from]].mode = Gone
  /\ requests' = requests \ {r}
  /\ UNCHANGED <<site, drawn, asked, jobs, holds, work, report, faults, runs>>

(***************************************************************************)
(* ClaimPendingJobs: the oldest pending jobs of the site become running    *)
(* and are the answer, in one transaction.                                 *)
(***************************************************************************)
Pending(s) == {j \in DOMAIN jobs : jobs[j].site = s /\ jobs[j].status = "pending"}

(* Fault: jobs left running by an agent that gave no answer are handed out again. *)
ClaimableAgain(s) ==
  LET P == {j \in DOMAIN jobs : jobs[j].site = s /\ jobs[j].status \in {"pending", "running"}}
  IN {j \in P : Cardinality({i \in P : i < j}) < ClaimLimit}

Claimable(s) ==
  {j \in Pending(s) : Cardinality({i \in Pending(s) : i < j}) < ClaimLimit}

ClaimPendingJobs(r) ==
  /\ r.kind = "poll" /\ r.stage = "seen"
  /\ LET C == Claimable(Home[r.from])
     IN /\ jobs' = [j \in DOMAIN jobs |->
                      IF j \in C THEN [jobs[j] EXCEPT !.status = "running"] ELSE jobs[j]]
        /\ requests' = (requests \ {r}) \cup {[r EXCEPT !.stage = "answered", !.got = C]}
  /\ UNCHANGED <<site, drawn, asked, holds, work, report, faults, runs>>

(***************************************************************************)
(* CompleteJob: the status, or done when it is not one of the two, for a   *)
(* job of the agent's own site, whatever its status was.                   *)
(***************************************************************************)
Status(o) == IF o \in {"done", "error"} THEN o ELSE "done"

CompleteJob(r) ==
  /\ r.kind = "result" /\ r.stage = "seen"
  /\ \/ /\ jobs[r.job].site = Home[r.from]
        /\ jobs' = [jobs EXCEPT ![r.job].status = Status(r.outcome),
                                ![r.job].result = r.outcome]
        /\ Step(r, "answered")
     \/ /\ jobs[r.job].site # Home[r.from]
        /\ requests' = requests \ {r}
        /\ UNCHANGED jobs
  /\ UNCHANGED <<site, drawn, asked, holds, work, report, faults, runs>>

-----------------------------------------------------------------------------
Server(r) ==
  \/ AuthenticateSite(r) \/ GetSite(r) \/ Refuse(r)
  \/ ClaimPendingJobs(r) \/ CompleteJob(r)

Next ==
  \/ \E s \in SiteIds : CheckSite(s)
  \/ EnqueueJob
  \/ \E s \in SiteIds :
       DeleteSite(s) \/ CreateSite(s) \/ RegenerateSiteToken(s) \/ UpdateMode(s)
  \/ \E a \in Agents : Provision(a) \/ SendPoll(a) \/ Execute(a) \/ SendResult(a)
  \/ \E r \in requests : Server(r) \/ Receive(r) \/ Lose(r)

Spec == Init /\ [][Next]_vars

(***************************************************************************)
(* Agents poll again and again, the server serves what arrives, a command  *)
(* that was checked is enqueued.                                           *)
(***************************************************************************)
FairSpec ==
  /\ Spec
  /\ WF_vars(EnqueueJob)
  /\ \A a \in Agents : WF_vars(SendPoll(a)) /\ WF_vars(Execute(a)) /\ WF_vars(SendResult(a))
  /\ \A a \in Agents, kind \in {"poll", "result"} :
       WF_vars(\E r \in requests : r.from = a /\ r.kind = kind /\ (Server(r) \/ Receive(r)))

-----------------------------------------------------------------------------
TypeOK ==
  /\ site \in [SiteIds -> SiteState]
  /\ drawn \in Token
  /\ asked \subseteq [site : SiteIds, born : Token]
  /\ jobs \in Seq(CommandJob) /\ Len(jobs) <= MaxJobs
  /\ requests \subseteq Request
  /\ holds \in [Agents -> Token]
  /\ work \in [Agents -> SUBSET JobIds]
  /\ report \in [Agents -> SUBSET (JobIds \X Outcomes)]
  /\ faults \in 0..MaxFaults
  /\ DOMAIN runs = JobIds /\ \A j \in JobIds : runs[j] \in Seq(Outcomes)

(***************************************************************************)
(* No command is executed twice, with two agents polling for one site,     *)
(* polls that time out and are sent again, and answers that are lost (the  *)
(* comment of ClaimPendingJobs).                                           *)
(***************************************************************************)
ExecutedAtMostOnce == \A j \in JobIds : Len(runs[j]) <= 1

(***************************************************************************)
(* What the table says of a job is what happened: a job with an outcome    *)
(* was executed with that outcome, one still pending was not executed and  *)
(* is in nobody's hands.                                                   *)
(***************************************************************************)
TableTellsTheTruth ==
  \A j \in DOMAIN jobs :
    /\ jobs[j].status \in {"done", "error"} =>
         /\ runs[j] # <<>> /\ jobs[j].result = runs[j][1]
         /\ jobs[j].status = "error" <=> runs[j][1] = "error"
    /\ jobs[j].status = "pending" =>
         /\ runs[j] = <<>>
         /\ \A a \in Agents : j \notin work[a]
         /\ \A r \in requests : r.kind = "poll" => j \notin r.got

(***************************************************************************)
(* An outcome, once registered, stays: a result that arrives twice or late *)
(* changes nothing, though CompleteJob does not look at the status.        *)
(***************************************************************************)
OutcomeIsFinal ==
  [][\A j \in DOMAIN jobs :
       jobs[j].status \in {"done", "error"} => jobs'[j] = jobs[j]]_vars

(***************************************************************************)
(* A command reaches only agents of the site it was enqueued for, and the  *)
(* oldest commands of a site reach its agents first.                       *)
(***************************************************************************)
OwnSiteOldestFirst ==
  \A r \in requests : r.kind = "poll" =>
    \A j \in r.got :
      /\ jobs[j].site = Home[r.from]
      /\ \A i \in 1..(j - 1) : jobs[i].site = jobs[j].site => jobs[i].status # "pending"

(***************************************************************************)
(* A token that opens no site when a request with it is sent gives access  *)
(* to nothing later: such a request never gets past AuthenticateSite.      *)
(***************************************************************************)
LetInByLiveToken ==
  \A r \in requests' \ requests : r.stage = "known" =>
    r.token \in {site[s].token : s \in SiteIds} \ {NoToken}

(***************************************************************************)
(* A command enqueued for a site is executed only by an agent of that      *)
(* site: not by one of a later site that was given the same id             *)
(* (TestClaimPendingJobsIsolatesSites).                                    *)
(***************************************************************************)
ExecutedWhereAsked ==
  [][\A j \in DOMAIN jobs, a \in Agents : j \in work'[a] \ work[a] =>
       site[Home[a]].mode = Gone \/ site[Home[a]].born = jobs[j].born]_vars

(***************************************************************************)
(* Every command that is enqueued is executed and its outcome registered.  *)
(***************************************************************************)
CommandsFinish ==
  \A j \in JobIds : j \in DOMAIN jobs ~> j \in DOMAIN jobs /\ jobs[j].status \in {"done", "error"}

-----------------------------------------------------------------------------
(* Where a job may be once it was claimed: in the answer of one poll, in    *)
(* the hands of one agent, or executed; never in two of these.              *)
Got(r) == IF r.kind = "poll" THEN r.got ELSE {}

Taken(j) ==
  \/ \E r \in requests : j \in Got(r)
  \/ \E a \in Agents : j \in work[a]
  \/ runs[j] # <<>>

OnePlace ==
  /\ \A r, q \in requests : r # q => Got(r) \cap Got(q) = {}
  /\ \A a, b \in Agents : a # b => work[a] \cap work[b] = {}
  /\ \A r \in requests, a \in Agents : Got(r) \cap work[a] = {}
  /\ \A j \in JobIds : runs[j] # <<>> => /\ \A r \in requests : j \notin Got(r)
                                         /\ \A a \in Agents : j \notin work[a]

TakenAreClaimed == \A j \in JobIds : Taken(j) => j \in DOMAIN jobs /\ jobs[j].status # "pending"

Bounded == IsFiniteSet(asked) /\ Len(jobs) + Cardinality(asked) <= MaxJobs

PlacesInv == OnePlace /\ TakenAreClaimed /\ ExecutedAtMostOnce
IInv == TypeOK /\ Bounded /\ PlacesInv

LEMMA TokensAreNumbers ==
  ASSUME RelayAssumption
  PROVE  /\ Token \subseteq Nat /\ NoToken \in Token /\ 1..Cardinality(SiteIds) \subseteq Token
         /\ Cardinality(SiteIds) \in Token /\ \A t \in Token : t < MaxTokens => t + 1 \in Token
BY FS_CardinalityType DEF RelayAssumption, Token, NoToken

LEMMA InitHolds == RelayAssumption /\ Init => IInv
<1> SUFFICES ASSUME RelayAssumption, Init PROVE IInv
  OBVIOUS
<1>1. jobs = <<>> /\ Len(jobs) = 0 /\ asked = {} /\ MaxJobs \in Nat /\ Cardinality({}) = 0 /\ IsFiniteSet({})
  BY FS_EmptySet DEF Init, RelayAssumption
<1>2. \A j \in JobIds : runs[j] = <<>> /\ Len(runs[j]) = 0
  BY DEF Init
<1>3. TypeOK
  <2>1. site \in [SiteIds -> SiteState] /\ holds \in [Agents -> Token] /\ drawn \in Token
    BY TokensAreNumbers DEF Init, RelayAssumption, SiteState
  <2>2. \A S : <<>> \in Seq(S)
    OBVIOUS
  <2>3. jobs \in Seq(CommandJob) /\ \A j \in JobIds : runs[j] \in Seq(Outcomes)
    BY <1>1, <1>2, <2>2, Zenon
  <2>4. DOMAIN runs = JobIds
    BY DEF Init
  <2> QED BY <1>1, <2>1, <2>3, <2>4 DEF Init, TypeOK, RelayAssumption
<1>4. Bounded
  BY <1>1 DEF Bounded
<1>5. PlacesInv
  BY <1>2 DEF Init, PlacesInv, OnePlace, TakenAreClaimed, Taken, Got, ExecutedAtMostOnce
<1> QED BY <1>3, <1>4, <1>5 DEF IInv

-----------------------------------------------------------------------------
(* Requests move on, jobs too: nothing is claimed, received or executed.    *)
NothingIsTaken ==
  /\ UNCHANGED <<work, runs>>
  /\ \A j \in DOMAIN jobs : j \in DOMAIN jobs' /\ (jobs'[j].status = "pending" => jobs[j].status = "pending")

LEMMA OneRequestMoves ==
  ASSUME IInv, NothingIsTaken, NEW r, NEW n,
         \A q \in requests' : q \in requests \/ q = n,
         Got(n) = {} \/ (r \in requests /\ Got(n) = Got(r) /\ (r \in requests' => r = n))
  PROVE  PlacesInv'
<1>1. \A q \in requests' : (q \in requests /\ q # n) \/ q = n
  OBVIOUS
<1>2. OnePlace'
  BY <1>1 DEF IInv, PlacesInv, OnePlace, NothingIsTaken
<1>3. TakenAreClaimed'
  BY <1>1 DEF IInv, PlacesInv, TakenAreClaimed, Taken, NothingIsTaken
<1>4. ExecutedAtMostOnce'
  BY DEF IInv, PlacesInv, ExecutedAtMostOnce, NothingIsTaken
<1> QED BY <1>2, <1>3, <1>4 DEF PlacesInv

LEMMA NoRequestMoves == ASSUME IInv, NothingIsTaken, requests' \subseteq requests PROVE PlacesInv'
<1> DEFINE n == [kind |-> "none"]
<1>1. Got(n) = {}
  BY DEF Got
<1> QED BY <1>1, OneRequestMoves

(* A request keeps what it is and what it has got. *)
LEMMA SteppingRequest ==
  ASSUME NEW r \in Request, NEW stage \in Stages
  PROVE  [r EXCEPT !.stage = stage] \in Request /\ Got([r EXCEPT !.stage = stage]) = Got(r)
<1>1. CASE r \in [kind : {"poll"}, from : Agents, token : Token, stage : Stages, got : SUBSET JobIds]
  BY <1>1 DEF Request, Got
<1>2. CASE r \in [kind : {"result"}, from : Agents, token : Token, stage : Stages, job : JobIds, outcome : Outcomes]
  BY <1>2 DEF Request, Got
<1> QED BY <1>1, <1>2 DEF Request

-----------------------------------------------------------------------------
(* Commands are asked for and enqueued. *)
LEMMA CheckingKeeps == ASSUME RelayAssumption, IInv, NEW s \in SiteIds, CheckSite(s) PROVE IInv'
<1> DEFINE q == [site |-> s, born |-> site[s].born]
<1>1. asked' = asked \cup {q} /\ Len(jobs) + Cardinality(asked) < MaxJobs
      /\ UNCHANGED <<site, drawn, jobs, requests, holds, work, report, faults, runs>>
  BY DEF CheckSite
<1>2. q \in [site : SiteIds, born : Token]
  BY DEF IInv, TypeOK, SiteState
<1>3. TypeOK'
  BY <1>1, <1>2 DEF IInv, TypeOK
<1>4. Bounded'
  <2>1. IsFiniteSet(asked) /\ MaxJobs \in Nat /\ jobs \in Seq(CommandJob)
    BY DEF IInv, Bounded, TypeOK, RelayAssumption
  <2>2. Cardinality(asked) \in Nat /\ Len(jobs) \in Nat
    BY <2>1, FS_CardinalityType
  <2>3. /\ IsFiniteSet(asked \cup {q})
        /\ Cardinality(asked \cup {q}) = Cardinality(asked) \/ Cardinality(asked \cup {q}) = Cardinality(asked) + 1
    BY <2>1, FS_AddElement
  <2> QED BY <1>1, <2>1, <2>2, <2>3 DEF Bounded
<1>5. PlacesInv'
  BY <1>1, NoRequestMoves DEF NothingIsTaken
<1> QED BY <1>3, <1>4, <1>5 DEF IInv

LEMMA EnqueueingKeeps == ASSUME RelayAssumption, IInv, EnqueueJob PROVE IInv'
<1>1. PICK q \in asked : /\ jobs' = Append(jobs, [site |-> q.site, born |-> q.born, status |-> "pending", result |-> ""])
                         /\ asked' = asked \ {q}
  BY DEF EnqueueJob
<1> DEFINE job == [site |-> q.site, born |-> q.born, status |-> "pending", result |-> ""]
<1>2. UNCHANGED <<site, drawn, requests, holds, work, report, faults, runs>>
  BY DEF EnqueueJob
<1>3. jobs \in Seq(CommandJob) /\ job \in CommandJob
  BY DEF IInv, TypeOK, CommandJob
<1> HIDE DEF job
<1>4. /\ Len(jobs) \in Nat /\ Len(jobs') = Len(jobs) + 1 /\ jobs' \in Seq(CommandJob)
      /\ DOMAIN jobs = 1..Len(jobs) /\ DOMAIN jobs' = 1..(Len(jobs) + 1)
      /\ \A j \in DOMAIN jobs : jobs'[j] = jobs[j]
  <2>1. jobs' = Append(jobs, job)
    BY <1>1 DEF job
  <2> QED BY <1>3, <2>1
<1>5. IsFiniteSet(asked') /\ Cardinality(asked') = Cardinality(asked) - 1 /\ Cardinality(asked') \in Nat
  BY <1>1, FS_RemoveElement, FS_CardinalityType DEF IInv, Bounded
<1>6. Cardinality(asked) \in Nat /\ MaxJobs \in Nat
  BY FS_CardinalityType DEF IInv, Bounded, RelayAssumption
<1>7. Bounded' /\ Len(jobs') <= MaxJobs
  BY <1>4, <1>5, <1>6 DEF IInv, Bounded
<1>8. TypeOK'
  BY <1>1, <1>2, <1>4, <1>7 DEF IInv, TypeOK
<1>9. PlacesInv'
  <2>1. OnePlace' /\ ExecutedAtMostOnce'
    BY <1>2 DEF IInv, PlacesInv, OnePlace, ExecutedAtMostOnce, Got
  <2>2. \A j \in JobIds : Taken(j)' <=> Taken(j)
    BY <1>2 DEF Taken, Got
  <2>3. TakenAreClaimed'
    BY <1>4, <2>2 DEF IInv, PlacesInv, TakenAreClaimed
  <2> QED BY <2>1, <2>3 DEF PlacesInv
<1> QED BY <1>7, <1>8, <1>9 DEF IInv

(* What the administrators do to the sites. *)
LEMMA AdministrationKeeps ==
  ASSUME RelayAssumption, IInv,
         \/ \E s \in SiteIds : DeleteSite(s) \/ CreateSite(s) \/ RegenerateSiteToken(s) \/ UpdateMode(s)
         \/ \E a \in Agents : Provision(a)
  PROVE  IInv'
<1>1. UNCHANGED <<asked, jobs, requests, work, report, faults, runs>>
  BY DEF DeleteSite, CreateSite, RegenerateSiteToken, UpdateMode, Provision
<1> DEFINE Typed == site \in [SiteIds -> SiteState] /\ holds \in [Agents -> Token] /\ drawn \in Token
<1>2. Typed'
  <2>1. ASSUME NEW s \in SiteIds, DeleteSite(s) \/ UpdateMode(s) PROVE Typed'
    <3>1. site[s] = [mode |-> site[s].mode, token |-> site[s].token, born |-> site[s].born]
          /\ site[s].token \in Token /\ site[s].born \in Token
      BY DEF IInv, TypeOK, SiteState
    <3>2. PICK m \in {"central", "agent", Gone}, t \in {NoToken, site[s].token} :
            site' = [site EXCEPT ![s] = [mode |-> m, token |-> t, born |-> site[s].born]]
      BY <2>1, <3>1 DEF IInv, TypeOK, DeleteSite, UpdateMode
    <3>3. [mode |-> m, token |-> t, born |-> site[s].born] \in SiteState
      BY <3>1, TokensAreNumbers DEF SiteState
    <3> QED BY <2>1, <3>2, <3>3 DEF IInv, TypeOK, DeleteSite, UpdateMode
  <2>2. ASSUME NEW s \in SiteIds, CreateSite(s) \/ RegenerateSiteToken(s) PROVE Typed'
    <3>1. drawn' \in Token
      BY <2>2, TokensAreNumbers DEF IInv, TypeOK, CreateSite, RegenerateSiteToken
    <3>2. CASE CreateSite(s)
      <4>1. [mode |-> "agent", token |-> drawn', born |-> drawn'] \in SiteState
        BY <3>1 DEF SiteState
      <4> QED BY <3>1, <3>2, <4>1 DEF IInv, TypeOK, CreateSite
    <3>3. CASE RegenerateSiteToken(s)
      <4>1. [site[s] EXCEPT !.token = drawn'] \in SiteState
        BY <3>1 DEF IInv, TypeOK, SiteState
      <4>2. site' = [site EXCEPT ![s] = [site[s] EXCEPT !.token = drawn']] /\ holds' = holds
        BY <3>3 DEF RegenerateSiteToken
      <4> QED BY <3>1, <4>1, <4>2 DEF IInv, TypeOK
    <3> QED BY <2>2, <3>2, <3>3
  <2>3. ASSUME NEW a \in Agents, Provision(a) PROVE Typed'
    BY <2>3 DEF IInv, TypeOK, SiteState, Provision, RelayAssumption
  <2> QED BY <2>1, <2>2, <2>3
<1>3. TypeOK' /\ Bounded'
  BY <1>1, <1>2 DEF IInv, TypeOK, Bounded
<1>4. PlacesInv'
  BY <1>1, NoRequestMoves DEF NothingIsTaken
<1> QED BY <1>3, <1>4 DEF IInv

-----------------------------------------------------------------------------
(* The agents. *)
LEMMA SendingKeeps ==
  ASSUME RelayAssumption, IInv, NEW a \in Agents, SendPoll(a) \/ SendResult(a)
  PROVE  IInv'
<1>1. UNCHANGED <<site, drawn, asked, jobs, holds, work, report, runs>> /\ faults' \in 0..MaxFaults
  BY DEF SendPoll, SendResult, MaySend, IInv, TypeOK, RelayAssumption
<1>2. PICK n \in Request : requests' = requests \cup {n} /\ Got(n) = {}
  <2>1. CASE SendPoll(a)
    <3> DEFINE n == [kind |-> "poll", from |-> a, token |-> holds[a], stage |-> "sent", got |-> {}]
    <3>1. n \in Request /\ Got(n) = {}
      BY DEF Request, Stages, Got, IInv, TypeOK
    <3> QED BY <2>1, <3>1 DEF SendPoll
  <2>2. CASE SendResult(a)
    <3>1. PICK p \in report[a] :
            requests' = requests \cup {[kind |-> "result", from |-> a, token |-> holds[a],
                                        stage |-> "sent", job |-> p[1], outcome |-> p[2]]}
      BY <2>2 DEF SendResult
    <3> DEFINE n == [kind |-> "result", from |-> a, token |-> holds[a], stage |-> "sent", job |-> p[1], outcome |-> p[2]]
    <3>2. p[1] \in JobIds /\ p[2] \in Outcomes
      BY DEF IInv, TypeOK
    <3>3. n \in Request /\ Got(n) = {}
      BY <3>2 DEF Request, Stages, Got, IInv, TypeOK
    <3> QED BY <3>1, <3>3
  <2> QED BY <2>1, <2>2
<1>3. TypeOK' /\ Bounded'
  BY <1>1, <1>2 DEF IInv, TypeOK, Bounded
<1>4. NothingIsTaken
  BY <1>1 DEF NothingIsTaken
<1>5. PlacesInv'
  BY <1>2, <1>4, OneRequestMoves
<1> QED BY <1>3, <1>5 DEF IInv

(* What is executed was in the hands of the agent, so never before. *)
LEMMA ExecutingKeeps == ASSUME RelayAssumption, IInv, NEW a \in Agents, Execute(a) PROVE IInv'
<1>1. PICK j \in work[a], o \in Outcomes :
        /\ work' = [work EXCEPT ![a] = @ \ {j}]
        /\ report' = [report EXCEPT ![a] = @ \cup {<<j, o>>}]
        /\ runs' = [runs EXCEPT ![j] = Append(@, o)]
  BY DEF Execute
<1>2. UNCHANGED <<site, drawn, asked, jobs, requests, holds, faults>>
  BY DEF Execute
<1>3. j \in JobIds /\ runs[j] \in Seq(Outcomes) /\ runs[j] = <<>>
  BY DEF IInv, TypeOK, PlacesInv, OnePlace
<1>4. Append(runs[j], o) \in Seq(Outcomes) /\ Len(Append(runs[j], o)) = 1
  BY <1>3
<1>5. \A i \in JobIds : runs'[i] = runs[i] \/ (i = j /\ runs'[i] \in Seq(Outcomes) /\ Len(runs'[i]) = 1)
  BY <1>1, <1>4 DEF IInv, TypeOK
<1>6. TypeOK' /\ Bounded'
  <2>1. work' \in [Agents -> SUBSET JobIds] /\ report' \in [Agents -> SUBSET (JobIds \X Outcomes)]
    BY <1>1, <1>3 DEF IInv, TypeOK
  <2>2. DOMAIN runs' = JobIds /\ \A i \in JobIds : runs'[i] \in Seq(Outcomes)
    BY <1>1, <1>5 DEF IInv, TypeOK
  <2> QED BY <1>2, <2>1, <2>2 DEF IInv, TypeOK, Bounded
<1>7. /\ \A b \in Agents : work'[b] \subseteq work[b]
      /\ j \notin work'[a] /\ \A r : Got(r)' = Got(r)
  BY <1>1 DEF IInv, TypeOK, Got
<1>8. OnePlace'
  BY <1>2, <1>5, <1>7 DEF IInv, PlacesInv, OnePlace
<1>9. \A i \in JobIds : Taken(i)' => Taken(i)
  BY <1>2, <1>5, <1>7 DEF Taken
<1>10. TakenAreClaimed' /\ ExecutedAtMostOnce'
  <2>1. TakenAreClaimed'
    BY <1>2, <1>9 DEF IInv, PlacesInv, TakenAreClaimed
  <2>2. ASSUME NEW i \in JobIds PROVE Len(runs'[i]) <= 1
    <3>1. CASE runs'[i] = runs[i]
      BY <3>1, Zenon DEF IInv, PlacesInv, ExecutedAtMostOnce
    <3>2. CASE Len(runs'[i]) = 1
      <4>1. 1 <= 1
        OBVIOUS
      <4> QED BY <3>2, <4>1, Zenon
    <3> QED BY <1>5, <3>1, <3>2
  <2> QED BY <2>1, <2>2 DEF ExecutedAtMostOnce
<1> QED BY <1>6, <1>8, <1>10 DEF IInv, PlacesInv

LEMMA ReceivingKeeps == ASSUME RelayAssumption, IInv, NEW r \in requests, Receive(r) PROVE IInv'
<1>1. requests' = requests \ {r} /\ UNCHANGED <<site, drawn, asked, jobs, holds, faults, runs>>
  BY DEF Receive
<1>2. r \in Request /\ r.from \in Agents
  BY DEF IInv, TypeOK, Request
<1>3. CASE r.kind = "poll"
  <2>1. work' = [work EXCEPT ![r.from] = @ \cup Got(r)] /\ report' = report
    BY <1>3 DEF Receive, Got
  <2>2. Got(r) \subseteq JobIds
    BY <1>2, <1>3 DEF Request, Got
  <2>3. TypeOK' /\ Bounded'
    BY <1>1, <2>1, <2>2 DEF IInv, TypeOK, Bounded
  <2>4. \A a \in Agents : work'[a] = IF a = r.from THEN work[a] \cup Got(r) ELSE work[a]
    BY <2>1 DEF IInv, TypeOK
  <2>5. OnePlace'
    BY <1>1, <1>2, <2>2, <2>4 DEF IInv, PlacesInv, OnePlace
  <2>6. \A j \in JobIds : Taken(j)' => Taken(j)
    BY <1>1, <1>2, <2>4 DEF Taken
  <2>7. TakenAreClaimed' /\ ExecutedAtMostOnce'
    BY <1>1, <2>6 DEF IInv, PlacesInv, TakenAreClaimed, ExecutedAtMostOnce
  <2> QED BY <2>3, <2>5, <2>7 DEF IInv, PlacesInv
<1>4. CASE r.kind # "poll"
  <2>1. work' = work /\ report' = [report EXCEPT ![r.from] = @ \ {<<r.job, r.outcome>>}]
    BY <1>4 DEF Receive
  <2>2. TypeOK' /\ Bounded'
    BY <1>1, <2>1 DEF IInv, TypeOK, Bounded
  <2>3. PlacesInv'
    BY <1>1, <2>1, NoRequestMoves DEF NothingIsTaken
  <2> QED BY <2>2, <2>3 DEF IInv
<1> QED BY <1>3, <1>4

-----------------------------------------------------------------------------
(* The server. *)
LEMMA DroppingKeeps ==
  ASSUME RelayAssumption, IInv, NEW r \in requests, Lose(r) \/ Refuse(r)
  PROVE  IInv'
<1>1. /\ requests' = requests \ {r} /\ UNCHANGED <<site, drawn, asked, jobs, holds, work, report, runs>>
      /\ faults' \in 0..MaxFaults
  BY DEF Lose, Refuse, IInv, TypeOK, RelayAssumption
<1>2. TypeOK' /\ Bounded'
  BY <1>1 DEF IInv, TypeOK, Bounded
<1>3. PlacesInv'
  BY <1>1, NoRequestMoves DEF NothingIsTaken
<1> QED BY <1>2, <1>3 DEF IInv

LEMMA SteppingPlaces ==
  ASSUME IInv, NEW r \in requests, NEW stage \in Stages, Step(r, stage), NothingIsTaken
  PROVE  requests' \subseteq Request /\ PlacesInv'
<1> DEFINE n == [r EXCEPT !.stage = stage]
<1>1. r \in Request
  BY DEF IInv, TypeOK
<1>2. n \in Request /\ Got(n) = Got(r) /\ requests' = (requests \ {r}) \cup {n}
  BY <1>1, SteppingRequest DEF Step
<1> HIDE DEF n
<1>3. requests' \subseteq Request
  BY <1>2 DEF IInv, TypeOK
<1> QED BY <1>2, <1>3, OneRequestMoves

LEMMA LettingInKeeps ==
  ASSUME RelayAssumption, IInv, NEW r \in requests, AuthenticateSite(r) \/ GetSite(r)
  PROVE  IInv'
<1>1. PICK stage \in Stages : Step(r, stage)
  BY DEF AuthenticateSite, GetSite, Stages
<1>2. UNCHANGED <<site, drawn, asked, jobs, holds, work, report, faults, runs>>
  BY DEF AuthenticateSite, GetSite
<1>3. requests' \subseteq Request /\ PlacesInv'
  BY <1>1, <1>2, SteppingPlaces DEF NothingIsTaken
<1>4. TypeOK' /\ Bounded'
  BY <1>2, <1>3 DEF IInv, TypeOK, Bounded
<1> QED BY <1>3, <1>4 DEF IInv

(* Only pending jobs are claimed, and nobody has one of these. *)
LEMMA ClaimingKeeps == ASSUME RelayAssumption, IInv, NEW r \in requests, ClaimPendingJobs(r) PROVE IInv'
<1> DEFINE C == Claimable(Home[r.from])
           n == [r EXCEPT !.stage = "answered", !.got = C]
<1>1. C \subseteq DOMAIN jobs /\ C \subseteq JobIds /\ \A j \in C : jobs[j].status = "pending"
  <2>1. DOMAIN jobs \subseteq JobIds
    BY DEF IInv, TypeOK, JobIds, RelayAssumption
  <2> QED BY <2>1 DEF Claimable, Pending
<1>2. r \in Request /\ r.kind = "poll"
  BY DEF IInv, TypeOK, ClaimPendingJobs
<1>3. n \in Request /\ Got(n) = C
  BY <1>1, <1>2 DEF Request, Got, Stages
<1> HIDE DEF n
<1>4. requests' = (requests \ {r}) \cup {n} /\ UNCHANGED <<site, drawn, asked, holds, work, report, faults, runs>>
  BY DEF ClaimPendingJobs, n
<1>5. jobs' = [j \in DOMAIN jobs |-> IF j \in C THEN [jobs[j] EXCEPT !.status = "running"] ELSE jobs[j]]
  BY DEF ClaimPendingJobs
<1> HIDE DEF C
<1>6. jobs' \in Seq(CommandJob) /\ Len(jobs') = Len(jobs)
  <2>1. jobs \in Seq(CommandJob) /\ Len(jobs) \in Nat /\ DOMAIN jobs = 1..Len(jobs)
    BY DEF IInv, TypeOK
  <2>2. \A j \in DOMAIN jobs : jobs[j] \in CommandJob
    BY <2>1
  <2>3. \A job \in CommandJob : [job EXCEPT !.status = "running"] \in CommandJob
    BY DEF CommandJob
  <2>4. \A j \in 1..Len(jobs) : jobs'[j] \in CommandJob
    BY <1>5, <2>1, <2>2, <2>3
  <2>5. DOMAIN jobs' = 1..Len(jobs)
    BY <1>5, <2>1
  <2>6. jobs' \in [1..Len(jobs) -> CommandJob]
    BY <1>5, <2>1, <2>4, <2>5
  <2>7. jobs' \in Seq(CommandJob)
    BY <2>1, <2>6
  <2> QED BY <2>1, <2>5, <2>7
<1>7. TypeOK' /\ Bounded'
  BY <1>3, <1>4, <1>6 DEF IInv, TypeOK, Bounded
<1>8. \A j \in C : ~Taken(j)
  BY <1>1 DEF IInv, PlacesInv, TakenAreClaimed
<1>9. OnePlace'
  BY <1>1, <1>3, <1>4, <1>8 DEF IInv, PlacesInv, OnePlace, Taken
<1>10. /\ DOMAIN jobs' = DOMAIN jobs
       /\ \A j \in C : j \in DOMAIN jobs' /\ jobs'[j].status # "pending"
       /\ \A j \in DOMAIN jobs \ C : jobs'[j] = jobs[j]
  <2>1. \A j \in DOMAIN jobs : jobs[j] \in CommandJob
    BY DEF IInv, TypeOK
  <2> QED BY <1>1, <1>5, <2>1 DEF CommandJob
<1>11. \A j \in JobIds : Taken(j)' => Taken(j) \/ j \in C
  BY <1>3, <1>4 DEF Taken
<1>12. TakenAreClaimed' /\ ExecutedAtMostOnce'
  BY <1>4, <1>10, <1>11 DEF IInv, PlacesInv, TakenAreClaimed, ExecutedAtMostOnce
<1> QED BY <1>7, <1>9, <1>12 DEF IInv, PlacesInv

LEMMA CompletingKeeps == ASSUME RelayAssumption, IInv, NEW r \in requests, CompleteJob(r) PROVE IInv'
<1>1. UNCHANGED <<site, drawn, asked, holds, work, report, faults, runs>>
  BY DEF CompleteJob
<1>2. CASE jobs' = jobs /\ requests' = requests \ {r}
  <2>1. TypeOK' /\ Bounded'
    BY <1>1, <1>2 DEF IInv, TypeOK, Bounded
  <2>2. PlacesInv'
    BY <1>1, <1>2, NoRequestMoves DEF NothingIsTaken
  <2> QED BY <2>1, <2>2 DEF IInv
<1>3. CASE /\ jobs' = [jobs EXCEPT ![r.job].status = Status(r.outcome), ![r.job].result = r.outcome]
           /\ Step(r, "answered")
  <2>1. jobs \in Seq(CommandJob) /\ Len(jobs) \in Nat /\ DOMAIN jobs = 1..Len(jobs)
    BY DEF IInv, TypeOK
  <2>2. r.outcome \in Outcomes
    <3>1. r \in Request /\ r.kind = "result"
      BY DEF IInv, TypeOK, CompleteJob
    <3> QED BY <3>1 DEF Request
  <2>3. \A job \in CommandJob :
          LET new == [[job EXCEPT !.status = Status(r.outcome)] EXCEPT !.result = r.outcome]
          IN  new \in CommandJob /\ new.status # "pending"
    BY <2>2 DEF CommandJob, Status, Outcomes
  <2>4. /\ DOMAIN jobs' = 1..Len(jobs)
        /\ \A j \in 1..Len(jobs) : jobs'[j] = jobs[j] \/ (jobs'[j] \in CommandJob /\ jobs'[j].status # "pending")
    <3>1. \A j \in 1..Len(jobs) : jobs[j] \in CommandJob
      BY <2>1
    <3> QED BY <1>3, <2>1, <2>3, <3>1
  <2>5. jobs' \in Seq(CommandJob) /\ Len(jobs') = Len(jobs)
    <3>1. \A j \in 1..Len(jobs) : jobs'[j] \in CommandJob
      BY <2>1, <2>4
    <3>2. jobs' \in [1..Len(jobs) -> CommandJob]
      BY <1>3, <2>4, <3>1
    <3>3. jobs' \in Seq(CommandJob)
      BY <2>1, <3>2
    <3> QED BY <2>1, <2>4, <3>3
  <2>6. NothingIsTaken
    BY <1>1, <2>1, <2>4 DEF NothingIsTaken
  <2>7. requests' \subseteq Request /\ PlacesInv'
    BY <1>3, <2>6, SteppingPlaces DEF Stages
  <2>8. TypeOK' /\ Bounded'
    BY <1>1, <2>5, <2>7 DEF IInv, TypeOK, Bounded
  <2> QED BY <2>7, <2>8 DEF IInv
<1> QED BY <1>2, <1>3 DEF CompleteJob

-----------------------------------------------------------------------------
LEMMA StepKeeps == RelayAssumption /\ IInv /\ [Next]_vars => IInv'
<1> SUFFICES ASSUME RelayAssumption, IInv, [Next]_vars PROVE IInv'
  OBVIOUS
<1>1. CASE UNCHANGED vars
  <2>1. PlacesInv'
    BY <1>1, NoRequestMoves DEF vars, NothingIsTaken
  <2> QED BY <1>1, <2>1 DEF vars, IInv, TypeOK, Bounded
<1>2. ASSUME NEW r \in requests, Server(r) \/ Receive(r) \/ Lose(r) PROVE IInv'
  BY <1>2, LettingInKeeps, DroppingKeeps, ClaimingKeeps, CompletingKeeps, ReceivingKeeps DEF Server
<1>3. ASSUME NEW a \in Agents, Provision(a) \/ SendPoll(a) \/ Execute(a) \/ SendResult(a) PROVE IInv'
  BY <1>3, AdministrationKeeps, SendingKeeps, ExecutingKeeps
<1> QED BY <1>1, <1>2, <1>3, CheckingKeeps, EnqueueingKeeps, AdministrationKeeps DEF Next

(***************************************************************************)
(* ClaimPendingJobs: for any number of sites, agents, commands, losses and *)
(* repetitions, and whatever the administrators do meanwhile, no command   *)
(* is executed twice.                                                      *)
(***************************************************************************)
THEOREM NoCommandTwice ==
  ASSUME RelayAssumption
  PROVE  Spec => [](TypeOK /\ ExecutedAtMostOnce)
<1>1. IInv => TypeOK /\ ExecutedAtMostOnce
  BY DEF IInv, PlacesInv
<1> QED BY InitHolds, StepKeeps, <1>1, PTL DEF Spec

-----------------------------------------------------------------------------
(* What an agent reports, what is on its way to the server and what the     *)
(* table says is the outcome the job was executed with.                     *)
Ran(j, o) == runs[j] # <<>> /\ runs[j][1] = o

Reported == \A a \in Agents : \A p \in report[a] : Ran(p[1], p[2])
Posted == \A r \in requests : r.kind = "result" => Ran(r.job, r.outcome)
Registered ==
  \A j \in DOMAIN jobs : jobs[j].status \in {"done", "error"} =>
    Ran(j, jobs[j].result) /\ jobs[j].status = Status(jobs[j].result)

TruthInv == IInv /\ Reported /\ Posted /\ Registered

(* What other actions than those of the agents and their requests leave alone. *)
LEMMA ElsewhereNothing ==
  ASSUME \/ \E s \in SiteIds : \/ CheckSite(s) \/ DeleteSite(s) \/ CreateSite(s)
                               \/ RegenerateSiteToken(s) \/ UpdateMode(s)
         \/ EnqueueJob \/ \E a \in Agents : Provision(a)
  PROVE  UNCHANGED <<requests, work, report, runs>>
<1>1. CASE EnqueueJob
  BY <1>1 DEF EnqueueJob
<1>2. ASSUME NEW s \in SiteIds, CheckSite(s) PROVE UNCHANGED <<requests, work, report, runs>>
  BY <1>2 DEF CheckSite
<1> QED BY <1>1, <1>2 DEF DeleteSite, CreateSite, RegenerateSiteToken, UpdateMode, Provision

LEMMA RequestsRunNothing == ASSUME NEW r, Server(r) \/ Receive(r) \/ Lose(r) PROVE runs' = runs
BY DEF Server, AuthenticateSite, GetSite, Refuse, ClaimPendingJobs, CompleteJob, Receive, Lose

LEMMA OnlyAnswersEndReports ==
  ASSUME IInv, NEW r \in requests, Server(r) \/ Receive(r) \/ Lose(r), NEW a \in Agents
  PROVE  report'[a] \subseteq report[a]
<1>1. CASE Receive(r)
  BY <1>1 DEF Receive, IInv, TypeOK
<1>2. CASE Server(r)
  BY <1>2 DEF Server, AuthenticateSite, GetSite, Refuse, ClaimPendingJobs, CompleteJob
<1>3. CASE Lose(r)
  BY <1>3 DEF Lose
<1> QED BY <1>1, <1>2, <1>3

(* Only three actions write the table of jobs. *)
LEMMA OthersLeaveTheTable ==
  ASSUME [Next]_vars, ~EnqueueJob, \A r \in requests : ~ClaimPendingJobs(r) /\ ~CompleteJob(r)
  PROVE  jobs' = jobs
<1>1. ASSUME NEW r \in requests, Server(r) \/ Receive(r) \/ Lose(r) PROVE jobs' = jobs
  BY <1>1 DEF Server, AuthenticateSite, GetSite, Refuse, Receive, Lose
<1>2. ASSUME NEW a \in Agents, Provision(a) \/ SendPoll(a) \/ Execute(a) \/ SendResult(a) PROVE jobs' = jobs
  BY <1>2 DEF Provision, SendPoll, Execute, SendResult
<1>3. ASSUME NEW s \in SiteIds, CheckSite(s) \/ DeleteSite(s) \/ CreateSite(s) \/ RegenerateSiteToken(s) \/ UpdateMode(s)
      PROVE  jobs' = jobs
  BY <1>3 DEF CheckSite, DeleteSite, CreateSite, RegenerateSiteToken, UpdateMode
<1> QED BY <1>1, <1>2, <1>3 DEF Next, vars

(* What was executed once is not executed again, so its outcome stays. *)
LEMMA OutcomesStay ==
  ASSUME IInv, [Next]_vars, NEW j \in JobIds, NEW o, Ran(j, o)
  PROVE  Ran(j, o)'
<1>1. CASE \E a \in Agents : Execute(a)
  <2> PICK a \in Agents : Execute(a)
    BY <1>1
  <2>1. PICK i \in work[a], p \in Outcomes : runs' = [runs EXCEPT ![i] = Append(@, p)]
    BY DEF Execute
  <2>2. runs[i] = <<>>
    BY <2>1 DEF IInv, TypeOK, PlacesInv, OnePlace
  <2>3. i # j
    BY <2>2 DEF Ran
  <2>4. runs'[j] = runs[j]
    BY <2>1, <2>3 DEF IInv, TypeOK
  <2> QED BY <2>4 DEF Ran
<1>2. CASE ~ \E a \in Agents : Execute(a)
  <2>1. runs' = runs
    <3>1. ASSUME NEW a \in Agents, SendPoll(a) \/ SendResult(a) PROVE runs' = runs
      BY <3>1 DEF SendPoll, SendResult
    <3>2. CASE UNCHANGED vars
      BY <3>2 DEF vars
    <3> QED BY <1>2, <3>1, <3>2, ElsewhereNothing, RequestsRunNothing DEF Next
  <2> QED BY <2>1 DEF Ran
<1> QED BY <1>1, <1>2

(* An agent reports what it executed. *)
LEMMA ReportsAreTrue == ASSUME IInv, Reported, [Next]_vars PROVE Reported'
<1> SUFFICES ASSUME NEW a \in Agents, NEW p \in report'[a] PROVE Ran(p[1], p[2])'
  BY DEF Reported
<1>1. CASE p \in report[a]
  <2>1. p[1] \in JobIds /\ Ran(p[1], p[2])
    BY <1>1 DEF IInv, TypeOK, Reported
  <2> QED BY <2>1, OutcomesStay
<1>2. CASE p \notin report[a]
  <2>1. PICK b \in Agents : Execute(b)
    <3>1. ASSUME NEW b \in Agents, SendPoll(b) \/ SendResult(b) PROVE report' = report
      BY <3>1 DEF SendPoll, SendResult
    <3>2. CASE UNCHANGED vars
      BY <1>2, <3>2 DEF vars
    <3> QED BY <1>2, <3>1, <3>2, ElsewhereNothing, OnlyAnswersEndReports DEF Next
  <2>2. PICK j \in work[b], o \in Outcomes :
          /\ report' = [report EXCEPT ![b] = @ \cup {<<j, o>>}]
          /\ runs' = [runs EXCEPT ![j] = Append(@, o)]
    BY <2>1 DEF Execute
  <2>3. p = <<j, o>> /\ j \in JobIds
    BY <1>2, <2>2 DEF IInv, TypeOK
  <2>4. runs[j] = <<>> /\ runs'[j] = Append(runs[j], o)
    BY <2>2, <2>3 DEF IInv, TypeOK, PlacesInv, OnePlace
  <2>5. runs'[j] = <<o>>
    BY <2>4
  <2> QED BY <2>3, <2>5 DEF Ran
<1> QED BY <1>1, <1>2

(* A request for a result carries what its agent reported. *)
LEMMA PostsAreTrue == ASSUME IInv, Reported, Posted, [Next]_vars PROVE Posted'
<1> SUFFICES ASSUME NEW r \in requests', r.kind = "result" PROVE Ran(r.job, r.outcome)'
  BY DEF Posted
<1>1. CASE \E q \in requests : q.kind = "result" /\ q.job = r.job /\ q.outcome = r.outcome
  <2>1. r.job \in JobIds /\ Ran(r.job, r.outcome)
    BY <1>1 DEF IInv, TypeOK, Posted, Request
  <2> QED BY <2>1, OutcomesStay
<1>2. CASE \E a \in Agents : \E p \in report[a] : r.job = p[1] /\ r.outcome = p[2]
  <2>1. r.job \in JobIds /\ Ran(r.job, r.outcome)
    BY <1>2 DEF IInv, TypeOK, Reported
  <2> QED BY <2>1, OutcomesStay
<1>3. CASE requests' \subseteq requests
  BY <1>1, <1>3
<1>4. ASSUME NEW a \in Agents, SendPoll(a) PROVE Ran(r.job, r.outcome)'
  BY <1>1, <1>4 DEF SendPoll
<1>5. ASSUME NEW a \in Agents, SendResult(a) PROVE Ran(r.job, r.outcome)'
  <2>1. PICK p \in report[a] :
          requests' = requests \cup {[kind |-> "result", from |-> a, token |-> holds[a],
                                      stage |-> "sent", job |-> p[1], outcome |-> p[2]]}
    BY <1>5 DEF SendResult
  <2> QED BY <1>1, <1>2, <2>1
<1>6. ASSUME NEW q \in requests, NEW stage \in Stages, Step(q, stage) PROVE Ran(r.job, r.outcome)'
  <2>1. q \in Request
    BY DEF IInv, TypeOK
  <2>2. r \in requests \/ r = [q EXCEPT !.stage = stage]
    BY <1>6 DEF Step
  <2>3. ASSUME r = [q EXCEPT !.stage = stage] PROVE q.kind = "result" /\ q.job = r.job /\ q.outcome = r.outcome
    BY <2>1, <2>3 DEF Request
  <2> QED BY <1>1, <2>2, <2>3
<1>7. ASSUME NEW q \in requests, ClaimPendingJobs(q) PROVE Ran(r.job, r.outcome)'
  <2>1. q \in Request /\ q.kind = "poll"
    BY <1>7 DEF IInv, TypeOK, ClaimPendingJobs
  <2> DEFINE C == Claimable(Home[q.from])
  <2>2. requests' = (requests \ {q}) \cup {[q EXCEPT !.stage = "answered", !.got = C]}
    BY <1>7 DEF ClaimPendingJobs
  <2>3. r \in requests
    BY <2>1, <2>2 DEF Request
  <2> QED BY <1>1, <2>3
<1>8. ASSUME NEW q \in requests, Server(q) \/ Receive(q) \/ Lose(q) PROVE Ran(r.job, r.outcome)'
  <2>1. \/ requests' = requests \ {q} \/ ClaimPendingJobs(q)
        \/ \E stage \in Stages : Step(q, stage)
    BY <1>8 DEF Server, AuthenticateSite, GetSite, Refuse, CompleteJob, Receive, Lose, Stages
  <2> QED BY <1>3, <1>6, <1>7, <2>1
<1>9. CASE \E a \in Agents : Execute(a)
  BY <1>3, <1>9 DEF Execute
<1>10. CASE UNCHANGED vars
  BY <1>3, <1>10 DEF vars
<1> QED BY <1>3, <1>4, <1>5, <1>8, <1>9, <1>10, ElsewhereNothing DEF Next

(* What the table says of a job it had from such a request. *)
LEMMA TableIsTrue == ASSUME RelayAssumption, TruthInv, [Next]_vars PROVE Registered'
<1> USE DEF TruthInv
<1> SUFFICES ASSUME NEW j \in DOMAIN jobs', jobs'[j].status \in {"done", "error"}
             PROVE  (Ran(j, jobs[j].result) /\ jobs[j].status = Status(jobs[j].result))'
  BY DEF Registered
<1>0. DOMAIN jobs \subseteq JobIds /\ \A i \in DOMAIN jobs : jobs[i] \in CommandJob
  BY DEF IInv, TypeOK, JobIds, RelayAssumption
<1>1. CASE j \in DOMAIN jobs /\ jobs'[j] = jobs[j]
  <2>1. Ran(j, jobs[j].result) /\ j \in JobIds
    BY <1>0, <1>1 DEF Registered
  <2>2. Ran(j, jobs[j].result)'
    BY <1>1, <2>1, OutcomesStay
  <2> QED BY <1>1, <2>2 DEF Registered, Status
<1>2. CASE jobs' = jobs
  BY <1>1, <1>2
<1>3. CASE EnqueueJob
  <2>1. PICK q \in asked : jobs' = Append(jobs, [site |-> q.site, born |-> q.born, status |-> "pending", result |-> ""])
    BY <1>3 DEF EnqueueJob
  <2> DEFINE job == [site |-> q.site, born |-> q.born, status |-> "pending", result |-> ""]
  <2>2. job.status = "pending"
    OBVIOUS
  <2> HIDE DEF job
  <2>3. jobs \in Seq(CommandJob) /\ jobs' = Append(jobs, job)
    BY <2>1 DEF IInv, TypeOK, job
  <2>4. j \in DOMAIN jobs \/ jobs'[j] = job
    BY <2>3
  <2>5. j \in DOMAIN jobs => jobs'[j] = jobs[j]
    BY <2>3
  <2> QED BY <1>1, <2>2, <2>4, <2>5
<1>4. ASSUME NEW r \in requests, ClaimPendingJobs(r) PROVE (Ran(j, jobs[j].result) /\ jobs[j].status = Status(jobs[j].result))'
  <2> DEFINE C == Claimable(Home[r.from])
  <2>1. jobs' = [i \in DOMAIN jobs |-> IF i \in C THEN [jobs[i] EXCEPT !.status = "running"] ELSE jobs[i]]
    BY <1>4 DEF ClaimPendingJobs
  <2> HIDE DEF C
  <2>2. j \in DOMAIN jobs /\ (j \in C => jobs'[j].status = "running")
    BY <1>0, <2>1 DEF CommandJob
  <2> QED BY <1>1, <2>1, <2>2
<1>5. ASSUME NEW r \in requests, CompleteJob(r) PROVE (Ran(j, jobs[j].result) /\ jobs[j].status = Status(jobs[j].result))'
  <2>1. r \in Request /\ r.kind = "result" /\ r.job \in JobIds /\ Ran(r.job, r.outcome)
    BY <1>5 DEF CompleteJob, IInv, TypeOK, Request, Posted
  <2>2. CASE jobs' = [jobs EXCEPT ![r.job].status = Status(r.outcome), ![r.job].result = r.outcome]
    <3>1. j \in DOMAIN jobs /\ (j # r.job => jobs'[j] = jobs[j])
      BY <2>2
    <3>2. ASSUME j = r.job PROVE jobs'[j].status = Status(r.outcome) /\ jobs'[j].result = r.outcome
      <4>1. jobs[j] \in CommandJob
        BY <1>0, <3>1
      <4> QED BY <2>2, <3>1, <3>2, <4>1 DEF CommandJob
    <3>3. Ran(r.job, r.outcome)'
      BY <2>1, OutcomesStay
    <3> QED BY <1>1, <3>1, <3>2, <3>3 DEF Ran
  <2> QED BY <1>2, <1>5, <2>2 DEF CompleteJob
<1> QED BY <1>2, <1>3, <1>4, <1>5, OthersLeaveTheTable

LEMMA TruthHoldsFirst == RelayAssumption /\ Init => TruthInv
<1> SUFFICES ASSUME RelayAssumption, Init PROVE TruthInv
  OBVIOUS
<1>1. IInv
  BY InitHolds
<1>2. DOMAIN jobs = {} /\ requests = {} /\ \A a \in Agents : report[a] = {}
  BY DEF Init
<1> QED BY <1>1, <1>2 DEF TruthInv, Reported, Posted, Registered

LEMMA TruthStays == RelayAssumption /\ TruthInv /\ [Next]_vars => TruthInv'
BY StepKeeps, ReportsAreTrue, PostsAreTrue, TableIsTrue DEF TruthInv

LEMMA TruthIsTold == RelayAssumption /\ TruthInv => TableTellsTheTruth
<1> SUFFICES ASSUME RelayAssumption, TruthInv, NEW j \in DOMAIN jobs PROVE
    /\ jobs[j].status \in {"done", "error"} =>
         /\ runs[j] # <<>> /\ jobs[j].result = runs[j][1]
         /\ jobs[j].status = "error" <=> runs[j][1] = "error"
    /\ jobs[j].status = "pending" =>
         /\ runs[j] = <<>>
         /\ \A a \in Agents : j \notin work[a]
         /\ \A r \in requests : r.kind = "poll" => j \notin r.got
  BY DEF TableTellsTheTruth
<1>1. j \in JobIds
  BY DEF TruthInv, IInv, TypeOK, JobIds, RelayAssumption
<1>2. jobs[j].status = "pending" => ~Taken(j)
  BY <1>1 DEF TruthInv, IInv, PlacesInv, TakenAreClaimed
<1>3. ASSUME jobs[j].status \in {"done", "error"} PROVE
         /\ runs[j] # <<>> /\ jobs[j].result = runs[j][1]
         /\ jobs[j].status = "error" <=> runs[j][1] = "error"
  BY <1>3 DEF TruthInv, Registered, Ran, Status
<1> QED BY <1>2, <1>3 DEF Taken, Got

(***************************************************************************)
(* CompleteJob, ClaimPendingJobs: whatever is lost, repeated or changed by *)
(* administrators, what the table says of a command is what happened to    *)
(* it: an outcome is that of its only execution, and what is still pending *)
(* was handed to nobody.                                                   *)
(***************************************************************************)
THEOREM TableIsHonest ==
  ASSUME RelayAssumption
  PROVE  Spec => []TableTellsTheTruth
BY TruthHoldsFirst, TruthStays, TruthIsTold, PTL DEF Spec

-----------------------------------------------------------------------------
(* Finality: a result that comes again is the outcome the table has. *)
LEMMA OutcomesAreFinal ==
  ASSUME RelayAssumption, TruthInv, [Next]_vars, NEW j \in DOMAIN jobs, jobs[j].status \in {"done", "error"}
  PROVE  jobs'[j] = jobs[j]
<1>0. j \in JobIds /\ jobs[j] \in CommandJob /\ jobs \in Seq(CommandJob)
  BY DEF TruthInv, IInv, TypeOK, JobIds, RelayAssumption
<1>1. CASE EnqueueJob
  <2>1. PICK job : jobs' = Append(jobs, job)
    BY <1>1 DEF EnqueueJob
  <2> QED BY <1>0, <2>1
<1>2. ASSUME NEW r \in requests, ClaimPendingJobs(r) PROVE jobs'[j] = jobs[j]
  <2> DEFINE C == Claimable(Home[r.from])
  <2>1. jobs' = [i \in DOMAIN jobs |-> IF i \in C THEN [jobs[i] EXCEPT !.status = "running"] ELSE jobs[i]]
    BY <1>2 DEF ClaimPendingJobs
  <2>2. j \notin C
    BY DEF Claimable, Pending
  <2> HIDE DEF C
  <2> QED BY <2>1, <2>2
<1>3. ASSUME NEW r \in requests, CompleteJob(r) PROVE jobs'[j] = jobs[j]
  <2>1. r \in Request /\ r.kind = "result" /\ Ran(r.job, r.outcome)
    BY <1>3 DEF CompleteJob, TruthInv, IInv, TypeOK, Posted
  <2>2. Ran(j, jobs[j].result) /\ jobs[j].status = Status(jobs[j].result)
    BY DEF TruthInv, Registered
  <2>3. CASE jobs' = [jobs EXCEPT ![r.job].status = Status(r.outcome), ![r.job].result = r.outcome]
    <3>1. CASE j # r.job
      BY <2>3, <3>1
    <3>2. CASE j = r.job
      <4>1. r.outcome = jobs[j].result
        BY <2>1, <2>2, <3>2 DEF Ran
      <4>2. jobs'[j] = [[jobs[j] EXCEPT !.status = jobs[j].status] EXCEPT !.result = jobs[j].result]
        BY <2>2, <2>3, <3>2, <4>1
      <4>3. \A job \in CommandJob : [[job EXCEPT !.status = job.status] EXCEPT !.result = job.result] = job
        BY DEF CommandJob
      <4> QED BY <1>0, <4>2, <4>3
    <3> QED BY <3>1, <3>2
  <2> QED BY <1>3, <2>3 DEF CompleteJob
<1> QED BY <1>1, <1>2, <1>3, OthersLeaveTheTable

(***************************************************************************)
(* CompleteJob: it does not look at the status of the job, and yet an      *)
(* outcome that is registered stays as it is, however often and however    *)
(* late a result arrives.                                                  *)
(***************************************************************************)
THEOREM NoOutcomeChanges ==
  ASSUME RelayAssumption
  PROVE  Spec => OutcomeIsFinal
<1>1. TruthInv /\ [Next]_vars =>
        [\A j \in DOMAIN jobs : jobs[j].status \in {"done", "error"} => jobs'[j] = jobs[j]]_vars
  BY OutcomesAreFinal
<1> QED BY TruthHoldsFirst, TruthStays, <1>1, PTL DEF Spec, OutcomeIsFinal

-----------------------------------------------------------------------------
(* A job stays where it was enqueued and for which site; once claimed it is *)
(* never pending again, and what is new in the table is behind it.          *)
LEMMA JobsGoOn ==
  ASSUME RelayAssumption, IInv, [Next]_vars, NEW j \in DOMAIN jobs
  PROVE  /\ j \in DOMAIN jobs' /\ jobs'[j].site = jobs[j].site
         /\ jobs[j].status # "pending" => jobs'[j].status # "pending"
         /\ \A i \in 1..j : i \in DOMAIN jobs
<1>0. jobs \in Seq(CommandJob) /\ DOMAIN jobs = 1..Len(jobs) /\ Len(jobs) \in Nat /\ jobs[j] \in CommandJob
  BY DEF IInv, TypeOK
<1>1. \A i \in 1..j : i \in DOMAIN jobs
  BY <1>0
<1>2. CASE jobs' = jobs
  BY <1>1, <1>2
<1>3. CASE EnqueueJob
  <2>1. PICK job : jobs' = Append(jobs, job)
    BY <1>3 DEF EnqueueJob
  <2>2. j \in DOMAIN jobs' /\ jobs'[j] = jobs[j]
    BY <1>0, <2>1
  <2> QED BY <1>1, <2>2
<1>4. ASSUME NEW r \in requests, ClaimPendingJobs(r)
      PROVE  j \in DOMAIN jobs' /\ jobs'[j].site = jobs[j].site
             /\ (jobs[j].status # "pending" => jobs'[j].status # "pending")
  <2> DEFINE C == Claimable(Home[r.from])
  <2>1. jobs' = [i \in DOMAIN jobs |-> IF i \in C THEN [jobs[i] EXCEPT !.status = "running"] ELSE jobs[i]]
    BY <1>4 DEF ClaimPendingJobs
  <2> HIDE DEF C
  <2> QED BY <1>0, <2>1 DEF CommandJob
<1>5. ASSUME NEW r \in requests, CompleteJob(r)
      PROVE  j \in DOMAIN jobs' /\ jobs'[j].site = jobs[j].site
             /\ (jobs[j].status # "pending" => jobs'[j].status # "pending")
  <2>1. CASE jobs' = [jobs EXCEPT ![r.job].status = Status(r.outcome), ![r.job].result = r.outcome]
    <3>1. Status(r.outcome) # "pending"
      BY DEF Status
    <3>2. \A job \in CommandJob :
            LET new == [[job EXCEPT !.status = Status(r.outcome)] EXCEPT !.result = r.outcome]
            IN  new.site = job.site /\ new.status # "pending"
      BY <3>1 DEF CommandJob
    <3> QED BY <1>0, <2>1, <3>2
  <2> QED BY <1>2, <1>5, <2>1 DEF CompleteJob
<1> QED BY <1>1, <1>2, <1>3, <1>4, <1>5, OthersLeaveTheTable

(* What the answer of a poll has, the request had before, or claims now. *)
LEMMA AnswersComeFromClaims ==
  ASSUME IInv, [Next]_vars, NEW r \in requests', r.kind = "poll", NEW j \in r.got
  PROVE  \/ \E q \in requests : q.kind = "poll" /\ q.from = r.from /\ j \in q.got
         \/ \E q \in requests : q.from = r.from /\ ClaimPendingJobs(q) /\ j \in Claimable(Home[q.from])
<1> DEFINE Before == \E q \in requests : q.kind = "poll" /\ q.from = r.from /\ j \in q.got
<1>1. CASE r \in requests
  BY <1>1
<1>2. ASSUME NEW a \in Agents, SendPoll(a) \/ SendResult(a) PROVE r \in requests
  BY <1>2 DEF SendPoll, SendResult
<1>3. ASSUME NEW q \in requests, NEW stage \in Stages, Step(q, stage) PROVE Before
  <2>1. q \in Request /\ (r \in requests \/ r = [q EXCEPT !.stage = stage])
    BY <1>3 DEF IInv, TypeOK, Step
  <2>2. ASSUME r = [q EXCEPT !.stage = stage] PROVE q.kind = "poll" /\ q.from = r.from /\ j \in q.got
    BY <2>1, <2>2 DEF Request
  <2> QED BY <2>1, <2>2
<1>4. ASSUME NEW q \in requests, ClaimPendingJobs(q)
      PROVE  r \in requests \/ (r.from = q.from /\ j \in Claimable(Home[q.from]))
  <2> DEFINE C == Claimable(Home[q.from])
  <2>1. q \in Request /\ q.kind = "poll" /\ requests' = (requests \ {q}) \cup {[q EXCEPT !.stage = "answered", !.got = C]}
    BY <1>4 DEF IInv, TypeOK, ClaimPendingJobs
  <2> HIDE DEF C
  <2>2. r \in requests \/ (r.from = q.from /\ j \in C)
    BY <2>1 DEF Request
  <2> QED BY <2>2 DEF C
<1>5. ASSUME NEW q \in requests, Server(q) \/ Receive(q) \/ Lose(q)
      PROVE  Before \/ (ClaimPendingJobs(q) /\ r.from = q.from /\ j \in Claimable(Home[q.from]))
  <2>1. \/ requests' = requests \ {q} \/ ClaimPendingJobs(q)
        \/ \E stage \in Stages : Step(q, stage)
    BY <1>5 DEF Server, AuthenticateSite, GetSite, Refuse, CompleteJob, Receive, Lose, Stages
  <2> QED BY <1>3, <1>4, <2>1
<1>6. CASE \E a \in Agents : Execute(a)
  BY <1>1, <1>6 DEF Execute
<1>7. CASE UNCHANGED vars
  BY <1>1, <1>7 DEF vars
<1> QED BY <1>1, <1>2, <1>5, <1>6, <1>7, ElsewhereNothing DEF Next

(* The limit leaves out the newest: with a job, the older ones are claimed. *)
LEMMA OlderAreClaimed ==
  ASSUME IInv, NEW s, NEW j \in Claimable(s), NEW i \in Pending(s), i < j, ClaimLimit \in Nat
  PROVE  i \in Claimable(s)
<1> DEFINE Older(k) == {h \in Pending(s) : h < k}
<1>1. jobs \in Seq(CommandJob) /\ Len(jobs) \in Nat /\ DOMAIN jobs = 1..Len(jobs)
  BY DEF IInv, TypeOK
<1>2. Pending(s) \subseteq 1..Len(jobs) /\ j \in Pending(s)
  BY <1>1 DEF Pending, Claimable
<1>3. IsFiniteSet(1..Len(jobs)) /\ Older(j) \subseteq 1..Len(jobs)
  BY <1>1, <1>2, FS_Interval
<1>4. Older(i) \subseteq Older(j)
  <2>1. ASSUME NEW h \in Pending(s), h < i PROVE h < j
    BY <1>1, <1>2, <2>1
  <2> QED BY <2>1
<1>5. IsFiniteSet(Older(j)) /\ IsFiniteSet(Older(i))
  BY <1>3, <1>4, FS_Subset
<1>6. Cardinality(Older(i)) <= Cardinality(Older(j))
  BY <1>4, <1>5, FS_Subset
<1>7. Cardinality(Older(i)) \in Nat /\ Cardinality(Older(j)) \in Nat /\ Cardinality(Older(j)) < ClaimLimit
  BY <1>5, FS_CardinalityType DEF Claimable
<1>8. Cardinality(Older(i)) < ClaimLimit
  BY <1>6, <1>7
<1> QED BY <1>8 DEF Claimable

OrderInv == IInv /\ OwnSiteOldestFirst

LEMMA OrderStays == ASSUME RelayAssumption, OrderInv, [Next]_vars PROVE OrderInv'
<1> USE DEF OrderInv
<1>1. IInv'
  BY StepKeeps
<1>2. ASSUME NEW r \in requests', r.kind = "poll", NEW j \in r.got PROVE
        /\ jobs'[j].site = Home[r.from]
        /\ \A i \in 1..(j - 1) : jobs'[i].site = jobs'[j].site => jobs'[i].status # "pending"
  <2>1. ASSUME NEW q \in requests, q.kind = "poll", q.from = r.from, j \in q.got PROVE
          /\ jobs'[j].site = Home[r.from]
          /\ \A i \in 1..(j - 1) : jobs'[i].site = jobs'[j].site => jobs'[i].status # "pending"
    <3>1. j \in JobIds /\ Got(q) = q.got
      BY <2>1 DEF IInv, TypeOK, Request, Got
    <3>2. j \in DOMAIN jobs /\ j \in Nat
      BY <2>1, <3>1 DEF IInv, PlacesInv, TakenAreClaimed, Taken, JobIds
    <3>3. \A i \in 1..(j - 1) : i \in DOMAIN jobs
      <4>1. \A i \in 1..(j - 1) : i \in 1..j
        BY <3>2
      <4> QED BY <3>2, <4>1, JobsGoOn
    <3>4. jobs[j].site = Home[r.from] /\ \A i \in 1..(j - 1) : jobs[i].site = jobs[j].site => jobs[i].status # "pending"
      BY <2>1 DEF OwnSiteOldestFirst
    <3> QED BY <3>2, <3>3, <3>4, JobsGoOn
  <2>2. ASSUME NEW q \in requests, q.from = r.from, ClaimPendingJobs(q), j \in Claimable(Home[q.from]) PROVE
          /\ jobs'[j].site = Home[r.from]
          /\ \A i \in 1..(j - 1) : jobs'[i].site = jobs'[j].site => jobs'[i].status # "pending"
    <3> DEFINE C == Claimable(Home[q.from])
    <3>1. jobs' = [i \in DOMAIN jobs |-> IF i \in C THEN [jobs[i] EXCEPT !.status = "running"] ELSE jobs[i]]
      BY <2>2 DEF ClaimPendingJobs
    <3>2. j \in DOMAIN jobs /\ j \in Nat /\ jobs[j].site = Home[r.from]
      BY <2>2 DEF Claimable, Pending, IInv, TypeOK
    <3>3. ASSUME NEW i \in 1..(j - 1), jobs'[i].site = jobs'[j].site PROVE jobs'[i].status # "pending"
      <4>1. i \in DOMAIN jobs /\ i < j /\ jobs[i] \in CommandJob
        <5>1. i \in 1..j /\ i < j
          BY <3>2
        <5>2. i \in DOMAIN jobs
          BY <3>2, <5>1, JobsGoOn
        <5> QED BY <5>1, <5>2 DEF IInv, TypeOK
      <4>2. jobs[i].site = Home[q.from]
        BY <2>2, <3>2, <3>3, <4>1, JobsGoOn
      <4>3. CASE jobs[i].status # "pending"
        BY <4>1, <4>3, JobsGoOn
      <4>4. CASE jobs[i].status = "pending"
        <5>1. i \in Pending(Home[q.from]) /\ ClaimLimit \in Nat
          BY <4>1, <4>2, <4>4 DEF Pending, RelayAssumption
        <5>2. i \in C
          BY <2>2, <4>1, <5>1, OlderAreClaimed
        <5> HIDE DEF C
        <5> QED BY <3>1, <4>1, <5>2 DEF CommandJob
      <4> QED BY <4>3, <4>4
    <3>4. jobs'[j].site = Home[r.from]
      BY <3>2, JobsGoOn
    <3> QED BY <3>3, <3>4
  <2> QED BY <1>2, <2>1, <2>2, AnswersComeFromClaims
<1> QED BY <1>1, <1>2 DEF OwnSiteOldestFirst

LEMMA OrderHoldsFirst == RelayAssumption /\ Init => OrderInv
<1>1. Init => OwnSiteOldestFirst
  BY DEF Init, OwnSiteOldestFirst
<1> QED BY <1>1, InitHolds DEF OrderInv

(***************************************************************************)
(* ClaimPendingJobs: for any limit, any number of sites and of agents that *)
(* poll at once, a poll is answered with commands of the agent's own site, *)
(* and while it is on its way no older command of that site is left behind.*)
(***************************************************************************)
THEOREM OldestFirst ==
  ASSUME RelayAssumption
  PROVE  Spec => []OwnSiteOldestFirst
<1>1. OrderInv => OwnSiteOldestFirst
  BY DEF OrderInv
<1> QED BY <1>1, OrderHoldsFirst, OrderStays, PTL DEF Spec

-----------------------------------------------------------------------------
(* Only AuthenticateSite lets a request in, by a token that is in use now. *)
LEMMA LetInNow == IInv /\ [Next]_vars => LetInByLiveToken
<1> SUFFICES ASSUME IInv, [Next]_vars, NEW r \in requests' \ requests, r.stage = "known"
             PROVE  r.token \in {site[s].token : s \in SiteIds} \ {NoToken}
  BY DEF LetInByLiveToken
<1>1. ASSUME NEW a \in Agents, SendPoll(a) PROVE FALSE
  <2>1. r.stage = "sent"
    BY <1>1 DEF SendPoll
  <2> QED BY <2>1
<1>2. ASSUME NEW a \in Agents, SendResult(a) PROVE FALSE
  <2>1. r.stage = "sent"
    BY <1>2 DEF SendResult
  <2> QED BY <2>1
<1>3. ASSUME NEW q \in requests, NEW stage \in Stages \ {"known"}, Step(q, stage) PROVE FALSE
  <2>1. q \in Request /\ r = [q EXCEPT !.stage = stage]
    BY <1>3 DEF IInv, TypeOK, Step
  <2>2. r.stage = stage
    BY <2>1 DEF Request
  <2> QED BY <2>2
<1>4. ASSUME NEW q \in requests, ClaimPendingJobs(q) PROVE FALSE
  <2> DEFINE C == Claimable(Home[q.from])
  <2>1. q \in Request /\ q.kind = "poll" /\ r = [q EXCEPT !.stage = "answered", !.got = C]
    BY <1>4 DEF IInv, TypeOK, ClaimPendingJobs
  <2> HIDE DEF C
  <2>2. r.stage = "answered"
    BY <2>1 DEF Request
  <2> QED BY <2>2
<1>5. ASSUME NEW q \in requests, AuthenticateSite(q)
      PROVE  r.token \in {site[s].token : s \in SiteIds} \ {NoToken}
  <2>1. q \in Request /\ r = [q EXCEPT !.stage = "known"]
    BY <1>5 DEF IInv, TypeOK, AuthenticateSite, Step
  <2>2. r.token = q.token
    BY <2>1 DEF Request
  <2> QED BY <1>5, <2>2 DEF AuthenticateSite, Authenticated
<1>6. ASSUME NEW q \in requests, Server(q) \/ Receive(q) \/ Lose(q), ~AuthenticateSite(q) PROVE FALSE
  <2>1. \/ requests' = requests \ {q} \/ ClaimPendingJobs(q)
        \/ \E stage \in Stages \ {"known"} : Step(q, stage)
    BY <1>6 DEF Server, GetSite, Refuse, CompleteJob, Receive, Lose, Stages
  <2> QED BY <1>3, <1>4, <2>1
<1>7. CASE \E a \in Agents : Execute(a)
  BY <1>7 DEF Execute
<1>8. CASE UNCHANGED vars
  BY <1>8 DEF vars
<1> QED BY <1>1, <1>2, <1>5, <1>6, <1>7, <1>8, ElsewhereNothing DEF Next

(***************************************************************************)
(* AuthenticateSite: whatever the administrators delete, create or renew   *)
(* meanwhile, a request gets past the check only in a step in which its    *)
(* token is the token of a site.                                           *)
(***************************************************************************)
THEOREM LetInOnlyByLiveToken ==
  ASSUME RelayAssumption
  PROVE  Spec => [][LetInByLiveToken]_vars
<1>1. IInv /\ [Next]_vars => [LetInByLiveToken]_vars
  BY LetInNow
<1> QED BY InitHolds, StepKeeps, <1>1, PTL DEF Spec
=============================================================================
