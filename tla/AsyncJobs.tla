-------------------------------- MODULE AsyncJobs --------------------------------
(***************************************************************************)
(* Asynchronous jobs (internal/api/jobs.go and command_handlers.go): bulk  *)
(* commands, subnet discovery and scan verification.  A job handles its    *)
(* hosts in a few goroutines at a time and reports in a record that all    *)
(* jobs keep under one lock; a client polls the record, and the handler    *)
(* holds the lock until the client has taken the answer.  At the end, on   *)
(* its own: which hosts a subnet scan hands to such a job (expandNetwork   *)
(* and handleScanSubnet).                                                  *)
(***************************************************************************)
EXTENDS Naturals, Sequences, FiniteSets, SequencesExt

CONSTANTS
  Hosts,      \* Hosts[j]: the hosts of job j in the order of the request
  Limit,      \* goroutines of a job at one time
  Silent,     \* hosts that may take the connection and never speak
  Clients,    \* clients that poll
  Bits,       \* of an address: 32 in the program
  MaxHosts,   \* of a scan: 1024 in the program
  Masks       \* the masks of the requests, as numbers

Jobs == DOMAIN Hosts

(* What the constants have to be. *)
JobsAssumption ==
  /\ \A j \in Jobs : Hosts[j] \in Seq(Nat)
  /\ Limit \in Nat \ {0}

Addresses == 0..(2^Bits - 1)
ScanAssumption == Bits \in Nat \ {0} /\ MaxHosts \in Nat /\ Masks \subseteq Addresses

Kinds == {"bulk", "discovery", "verify"}

VARIABLES
  jobs,      \* the records of the jobs created so far: a function
  next,      \* next[j]: how many hosts the loop of job j has handed out
  busy,      \* busy[j]: positions of the hosts its goroutines are at
  counting,  \* counting[j]: positions handled and not yet in the record
  found,     \* found[j]: what discovery or verify has put aside
  writing,   \* clients whose answer is being written, the lock held
  kind,      \* kind[j]: which handler is asked for job j; it stays so
  network,   \* the ipNet of a scan: [ip, mask], ip already masked
  ip,        \* the loop variable
  hosts,     \* what the loop has collected; in the end, what is scanned
  answer     \* "" while the loop runs, then "started" or why not

vars == <<jobs, next, busy, counting, found, writing, kind>>

Total(j) == Len(Hosts[j])

Init ==
  /\ jobs = <<>>
  /\ next = [j \in Jobs |-> 0]
  /\ busy = [j \in Jobs |-> {}] /\ counting = [j \in Jobs |-> {}]
  /\ found = [j \in Jobs |-> {}]
  /\ writing = {}
  /\ kind \in [Jobs -> Kinds]

-----------------------------------------------------------------------------
(* jobsMu is free. *)
Unlocked == writing = {}

(* newJob: the record, running and empty, and the goroutine of the job. *)
NewJob(j) ==
  /\ Unlocked
  /\ j \notin DOMAIN jobs
  /\ jobs' = [i \in DOMAIN jobs \cup {j} |->
                IF i = j THEN [status |-> "running", progress |-> 0, results |-> <<>>]
                ELSE jobs[i]]
  /\ UNCHANGED <<next, busy, counting, found, writing>>

Begin(j) ==
  /\ j \in DOMAIN jobs
  /\ next[j] < Total(j) /\ Cardinality(busy[j] \cup counting[j]) < Limit
  /\ next' = [next EXCEPT ![j] = @ + 1]
  /\ busy' = [busy EXCEPT ![j] = @ \cup {next'[j]}]
  /\ UNCHANGED <<jobs, counting, found, writing>>

(***************************************************************************)
(* The host answers or does not.  Discovery keeps the hosts that are up,   *)
(* verify keeps a row for each host.                                       *)
(***************************************************************************)
Handle(j) ==
  /\ \E p \in busy[j] :
       /\ busy' = [busy EXCEPT ![j] = @ \ {p}]
       /\ counting' = [counting EXCEPT ![j] = @ \cup {p}]
       /\ \/ kind[j] = "bulk" /\ UNCHANGED found
          \/ kind[j] = "discovery" /\ found' \in {found, [found EXCEPT ![j] = @ \cup {p}]}
          \/ kind[j] = "verify" /\ found' = [found EXCEPT ![j] = @ \cup {p}]
  /\ UNCHANGED <<jobs, next, writing>>

(* Fault: the record is read before the visit and written after it. *)
CountedLosing(j, p) ==
  [jobs[j] EXCEPT !.progress = Len(jobs[j].results) + 1,
                  !.results = IF kind[j] = "bulk" /\ counting[j] = {p} THEN Append(@, p) ELSE @]

(* updateJob: one more, and with bulk its result, in the order of arrival. *)
Counted(j, p) ==
  [jobs[j] EXCEPT !.progress = @ + 1,
                  !.results = IF kind[j] = "bulk" THEN Append(@, p) ELSE @]

Count(j) ==
  /\ Unlocked
  /\ \E p \in counting[j] :
       /\ counting' = [counting EXCEPT ![j] = @ \ {p}]
       /\ jobs' = [jobs EXCEPT ![j] = Counted(j, p)]
  /\ UNCHANGED <<next, busy, found, writing>>

(* Wait returns when every goroutine has ended. *)
AllEnded(j) ==
  /\ j \in DOMAIN jobs /\ jobs[j].status = "running"
  /\ next[j] = Total(j) /\ busy[j] \cup counting[j] = {}

(* The hosts found by their address: sort.Slice, which keeps no order of equals. *)
ByAddress(j) ==
  {s \in SetToSeqs(found[j]) : \A p, q \in DOMAIN s : p < q => Hosts[j][s[p]] <= Hosts[j][s[q]]}

(* A row for each host in the order of the request, 0 where none was put. *)
Rows(j) == [p \in 1..Total(j) |-> IF p \in found[j] THEN p ELSE 0]

(***************************************************************************)
(* The end: done, with the scans also the results, by address (discovery)  *)
(* or in the order of the request (verify), and the progress set to all.   *)
(***************************************************************************)
Finish(j) ==
  /\ Unlocked
  /\ AllEnded(j)
  /\ \/ /\ kind[j] = "bulk"
        /\ jobs' = [jobs EXCEPT ![j].status = "done"]
     \/ /\ kind[j] # "bulk"
        /\ \E results \in IF kind[j] = "verify" THEN {Rows(j)} ELSE ByAddress(j) :
             jobs' = [jobs EXCEPT ![j] = [status |-> "done", progress |-> Total(j), results |-> results]]
  /\ UNCHANGED <<next, busy, counting, found, writing>>

-----------------------------------------------------------------------------
(***************************************************************************)
(* handleJobStatus: the lock is taken again after the lookup and held      *)
(* while the record is encoded onto the connection.                        *)
(***************************************************************************)
Poll(c) ==
  /\ Unlocked
  /\ DOMAIN jobs # {}
  /\ writing' = {c}
  /\ UNCHANGED <<jobs, next, busy, counting, found>>

Answered(c) ==
  /\ c \in writing
  /\ writing' = {}
  /\ UNCHANGED <<jobs, next, busy, counting, found>>

Next ==
  /\ UNCHANGED kind
  /\ \/ \E j \in Jobs : NewJob(j) \/ Begin(j) \/ Handle(j) \/ Count(j) \/ Finish(j)
     \/ \E c \in Clients : Poll(c) \/ Answered(c)

Spec == Init /\ [][Next]_vars

(***************************************************************************)
(* Goroutines run on and hosts answer or time out, but for a silent host   *)
(* of which a job wants a session: the timeout of the host bounds the dial *)
(* alone, the handshake (ssh.NewClientConn) has no deadline.  Discovery    *)
(* pings and tries ports, all within its timeout.  The lock is fair to     *)
(* who waits for it (sync.Mutex).  Clients take their answers: one that    *)
(* stalls keeps the lock from every job, since no write has a deadline.    *)
(***************************************************************************)
MayHang(j, p) == kind[j] # "discovery" /\ Hosts[j][p] \in Silent
HandleInTime(j) == Handle(j) /\ \A p \in busy[j] \ busy'[j] : ~MayHang(j, p)

FairSpec ==
  /\ Spec
  /\ \A j \in Jobs : /\ WF_vars(Begin(j)) /\ WF_vars(HandleInTime(j))
                     /\ SF_vars(Count(j)) /\ SF_vars(Finish(j))
  /\ \A c \in Clients : WF_vars(Answered(c))

-----------------------------------------------------------------------------
TypeOK ==
  /\ DOMAIN jobs \subseteq Jobs
  /\ \A j \in DOMAIN jobs :
       /\ jobs[j].status \in {"running", "done"}
       /\ jobs[j].progress \in 0..Total(j)
       /\ jobs[j].results \in Seq(0..Total(j))
  /\ \A j \in Jobs : /\ next[j] \in 0..Total(j)
                     /\ busy[j] \cup counting[j] \cup found[j] \subseteq 1..next[j]
  /\ writing \subseteq Clients /\ Cardinality(writing) <= 1
  /\ kind \in [Jobs -> Kinds]

(***************************************************************************)
(* The progress shown is the number of hosts handled and recorded; of a    *)
(* bulk job each of them is in the results once.                           *)
(***************************************************************************)
ProgressIsHonest ==
  \A j \in DOMAIN jobs :
    /\ jobs[j].progress = next[j] - Cardinality(busy[j] \cup counting[j])
    /\ kind[j] = "bulk" =>
         /\ ToSet(jobs[j].results) = 1..next[j] \ (busy[j] \cup counting[j])
         /\ Len(jobs[j].results) = jobs[j].progress

(***************************************************************************)
(* A job that says done is: every host was handled, every result is there, *)
(* and nothing changes it any more, late goroutines included.              *)
(***************************************************************************)
DoneIsFinal ==
  [][\A j \in DOMAIN jobs : jobs[j].status = "done" => jobs'[j] = jobs[j]]_vars

DoneIsComplete ==
  \A j \in DOMAIN jobs : jobs[j].status = "done" =>
    /\ jobs[j].progress = Total(j)
    /\ kind[j] \in {"bulk", "verify"} => ToSet(jobs[j].results) = 1..Total(j)
    /\ kind[j] = "verify" => jobs[j].results = [p \in 1..Total(j) |-> p]

(* All that job j can still do is to wait for silent hosts. *)
HeldUp(j) ==
  /\ busy[j] # {} /\ counting[j] = {} /\ \A p \in busy[j] : MayHang(j, p)
  /\ next[j] = Total(j) \/ Cardinality(busy[j]) = Limit

(***************************************************************************)
(* Every job that was created ends, a discovery always, the others unless  *)
(* silent hosts hold them up; until there are as many of them as           *)
(* goroutines, every other host of the job is handled all the same.        *)
(***************************************************************************)
JobsEnd ==
  \A j \in Jobs : j \in DOMAIN jobs ~> j \in DOMAIN jobs /\ (jobs[j].status = "done" \/ HeldUp(j))
-----------------------------------------------------------------------------
(***************************************************************************)
(* A subnet scan: the loop goes from the network address upward while the  *)
(* address is in the network, on addresses that wrap around.  The size of  *)
(* the result is checked after the loop.                                   *)
(***************************************************************************)
scanVars == <<network, ip, hosts, answer>>

(* IP.Mask: the bits of an address that are ones of the mask too. *)
Ones(a) == {i \in 0..(Bits - 1) : (a \div 2^i) % 2 = 1}
Masked(a, m) == CHOOSE n \in Addresses : Ones(n) = Ones(a) \cap Ones(m)

InNetwork(a) == Ones(a) \cap Ones(network.mask) = Ones(network.ip)

ScanInit ==
  /\ \E a \in Addresses, m \in Masks : network = [ip |-> Masked(a, m), mask |-> m]
  /\ ip = network.ip
  /\ hosts = <<>>
  /\ answer = ""

(* incIP: the carry goes through all bytes and is lost after the first one. *)
Inc(a) == (a + 1) % 2^Bits

(* Bound: once around, hosts is no longer extended. *)
Collect ==
  /\ answer = "" /\ InNetwork(ip)
  /\ hosts' = IF Len(hosts) <= 2^Bits THEN Append(hosts, ip) ELSE hosts
  /\ ip' = Inc(ip)
  /\ UNCHANGED <<network, answer>>

(* Network and broadcast address go, except of /31 and /32. *)
Inner(h) == IF Len(h) > 2 THEN SubSeq(h, 2, Len(h) - 1) ELSE h

Decide ==
  /\ answer = "" /\ ~InNetwork(ip)
  /\ hosts' = Inner(hosts)
  /\ answer' = IF Len(hosts') > MaxHosts THEN "too large"
               ELSE IF hosts' = <<>> THEN "no host" ELSE "started"
  /\ UNCHANGED <<network, ip>>

ScanNext == Collect \/ Decide

(* The request is served on. *)
ScanSpec == ScanInit /\ [][ScanNext]_scanVars /\ WF_scanVars(ScanNext)

-----------------------------------------------------------------------------
Network == {a \in Addresses : InNetwork(a)}

(* A mask of ones followed by zeros, the only kind that CIDR notation gives. *)
Contiguous(m) == \E p \in 0..Bits : m = 2^Bits - 2^p

ScanTypeOK ==
  /\ network \in [ip : Addresses, mask : Masks]
  /\ ip \in Addresses
  /\ hosts \in Seq(Addresses)
  /\ answer \in {"", "started", "too large", "no host"}

(***************************************************************************)
(* A scan visits every usable address of the network once, at the top of   *)
(* the address range too, and nothing outside it; with a mask whose ones   *)
(* have gaps, only the first stretch.                                      *)
(***************************************************************************)
ScansTheNetwork ==
  answer # "" =>
    /\ Cardinality(ToSet(hosts)) = Len(hosts) /\ ToSet(hosts) \subseteq Network
    /\ Contiguous(network.mask) =>
         ToSet(hosts) =
           IF Cardinality(Network) <= 2 THEN Network
           ELSE {a \in Network : a - 1 \in Network /\ a + 1 \in Network}

(***************************************************************************)
(* Every request is answered, a network that is too large with an error    *)
(* (handleScanSubnet).                                                     *)
(***************************************************************************)
ScanIsAnswered == <>(answer # "")
=============================================================================
