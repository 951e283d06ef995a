-------------------------------- MODULE Accounts --------------------------------
(***************************************************************************)
(* User administration (internal/api/user_handlers.go, auth_handlers.go,   *)
(* middleware.go over internal/store/users.go).  A handler is a sequence   *)
(* of single statements: it looks at the caller, at the target and at the  *)
(* number of administrators, and then writes; other requests run between   *)
(* any two of them.                                                        *)
(***************************************************************************)
EXTENDS Naturals, FiniteSets

CONSTANTS
  Names,       \* user names
  Requests,    \* requests that can be under way at once
  MaxServed    \* bound: requests served

(* What the constants have to be. *)
AccountsAssumption == IsFiniteSet(Names) /\ MaxServed \in Nat

Roles == {"admin", "operator", "viewer"}
Absent == [role |-> "absent", disabled |-> FALSE]
Kinds == {"register", "create", "delete", "role", "disable"}

VARIABLES
  users,       \* users[n]: Absent, or the row [role, disabled]
  request,     \* request[r]: what it asks for and how far it is
  served,      \* requests begun so far
  registered,  \* history: the registrations that stored a user
  serial       \* TRUE: a request begins only when no other is being served; it stays so

vars == <<users, request, served, registered, serial>>

Free == [step |-> "free"]

Init ==
  /\ users = [n \in Names |-> Absent]
  /\ request = [r \in Requests |-> Free]
  /\ served = 0
  /\ registered = 0
  /\ serial \in BOOLEAN

Exists(n) == users[n] # Absent
ActiveAdmin(n) == Exists(n) /\ users[n].role = "admin" /\ ~users[n].disabled
AdminCount == Cardinality({n \in Names : ActiveAdmin(n)})
UserCount == Cardinality({n \in Names : Exists(n)})

Goto(r, step) == request' = [request EXCEPT ![r].step = step]
Answer(r) == request' = [request EXCEPT ![r] = Free]

-----------------------------------------------------------------------------
(* A request arrives. *)
Arrives(r) ==
  /\ request[r].step = "free" /\ served < MaxServed
  /\ serial => \A q \in Requests : request[q].step = "free"
  /\ served' = served + 1

(* The guard looks at the target first if the request may take away an administrator. *)
Asked(kind, target, role, disabled) ==
  [step |-> IF kind = "create" THEN "exists"
            ELSE IF kind = "delete" \/ disabled \/ (kind = "role" /\ role # "admin") THEN "target"
            ELSE "write",
   kind |-> kind, target |-> target, role |-> role, disabled |-> disabled]

(***************************************************************************)
(* requireAuth("admin"): the caller is an administrator when the request   *)
(* begins.  Nobody deletes or disables himself.                            *)
(***************************************************************************)
Begin(r) ==
  /\ Arrives(r)
  /\ \E kind \in Kinds \ {"register"}, by, target \in Names, role \in Roles, disabled \in BOOLEAN :
       /\ ActiveAdmin(by)
       /\ kind \in {"delete", "disable"} => target # by
       /\ kind # "disable" => ~disabled
       /\ kind \notin {"role", "create"} => role = "viewer"
       /\ request' = [request EXCEPT ![r] = Asked(kind, target, role, disabled)]
  /\ UNCHANGED <<users, registered>>

(* handleRegister: no user is there when it looks. *)
Register(r) ==
  /\ Arrives(r)
  /\ UserCount = 0
  /\ \E n \in Names :
       request' = [request EXCEPT ![r] = Asked("register", n, "admin", FALSE)]
  /\ UNCHANGED <<users, registered>>

(* handleCreateUser: the name is free when it looks. *)
FindName(r) ==
  /\ request[r].step = "exists"
  /\ \/ Exists(request[r].target) /\ Answer(r)
     \/ ~Exists(request[r].target) /\ Goto(r, "write")
  /\ UNCHANGED <<users, served, registered>>

(***************************************************************************)
(* guardLastAdmin: a target that is no active administrator needs no       *)
(* counting; otherwise another one must be left.                           *)
(***************************************************************************)
FindTarget(r) ==
  /\ request[r].step = "target"
  /\ Goto(r, IF ActiveAdmin(request[r].target) THEN "count" ELSE "write")
  /\ UNCHANGED <<users, served, registered>>

(* Fault: the one to go is counted as left. *)
CountOneTooMany(r) ==
  /\ request[r].step = "count"
  /\ \/ AdminCount < 1 /\ Answer(r)
     \/ AdminCount >= 1 /\ Goto(r, "write")
  /\ UNCHANGED <<users, served, registered>>

CountAdmins(r) ==
  /\ request[r].step = "count"
  /\ \/ AdminCount <= 1 /\ Answer(r)
     \/ AdminCount > 1 /\ Goto(r, "write")
  /\ UNCHANGED <<users, served, registered>>

-----------------------------------------------------------------------------
(* The statement itself; the name is the primary key. *)
Inserted(q) ==
  IF Exists(q.target) THEN users
  ELSE [users EXCEPT ![q.target] = [role |-> q.role, disabled |-> FALSE]]

Written(q) ==
  CASE q.kind \in {"register", "create"} -> Inserted(q)
    [] q.kind = "delete" -> [users EXCEPT ![q.target] = Absent]
    [] q.kind = "role" /\ Exists(q.target) -> [users EXCEPT ![q.target].role = q.role]
    [] q.kind = "disable" /\ Exists(q.target) -> [users EXCEPT ![q.target].disabled = q.disabled]
    [] OTHER -> users

Write(r) ==
  /\ request[r].step = "write"
  /\ users' = Written(request[r])
  /\ registered' = registered + (IF request[r].kind = "register" /\ users' # users THEN 1 ELSE 0)
  /\ Answer(r)
  /\ UNCHANGED served

Next ==
  /\ UNCHANGED serial
  /\ \E r \in Requests :
       \/ Begin(r) \/ Register(r) \/ FindName(r)
       \/ FindTarget(r) \/ CountAdmins(r) \/ Write(r)

Spec == Init /\ [][Next]_vars

-----------------------------------------------------------------------------
Row == [role : Roles, disabled : BOOLEAN]
Calls ==
  [step : {"exists", "target", "count", "write"}, kind : Kinds, target : Names,
   role : Roles, disabled : BOOLEAN]

TypeOK ==
  /\ users \in [Names -> Row \cup {Absent}]
  /\ request \in [Requests -> Calls \cup {Free}]
  /\ served \in 0..MaxServed /\ registered \in Nat
  /\ serial \in BOOLEAN

(***************************************************************************)
(* guardLastAdmin: once there are users, an active administrator is left,  *)
(* whatever is deleted, degraded or disabled.                              *)
(***************************************************************************)
AdminLeft == UserCount > 0 => AdminCount > 0

(* handleRegister makes the first administrator, and no second one. *)
OneFirstAdmin == registered <= 1
=============================================================================
