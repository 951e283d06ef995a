------------------------------ MODULE PagesProofs ------------------------------
(***************************************************************************)
(* Proofs about the pages of the web interface, side by side as in         *)
(* Pages: for any users, devices, tenants and bounds, and whatever is      *)
(* answered, in which order, and whatever fails.                           *)
(***************************************************************************)
EXTENDS Pages, WellFoundedInduction, FiniteSetTheorems, TLAPS

(* The first free place exists, where one is free. *)
LEMMA FirstFree ==
  ASSUME NEW n \in Nat, NEW cs, NEW k \in 1..n, cs[k].fn = "none"
  PROVE  \E i \in 1..n : cs[i].fn = "none" /\ \A j \in 1..(i - 1) : cs[j].fn # "none"
<1> DEFINE T == {i \in 1..n : cs[i].fn = "none"}
           R == OpToRel(<, Nat)
<1>1. T \subseteq Nat /\ T # {} OBVIOUS
<1>2. PICK i \in T : \A j \in T : <<j, i>> \notin R
  <2> HIDE DEF R
  <2>1. IsWellFoundedOn(R, Nat) BY NatLessThanWellFounded, Zenon DEF R
  <2> HIDE DEF T
  <2> QED BY <1>1, <2>1, WFMin
<1>3. \A j \in T : ~(j < i) BY <1>1, <1>2 DEF OpToRel
<1>4. \A j \in 1..(i - 1) : j \in 1..n /\ j < i BY <1>1
<1> QED BY <1>3, <1>4

-----------------------------------------------------------------------------
(* WebSession. *)
LEMMA DecidingIsInProgress ==
  Auth!InProgress({"status", "me", "logout"}) # {} <=> \E i \in Auth!Ids : Decides(calls[i])
BY DEF Auth!InProgress, Decides

LEMMA AskingIsACall ==
  ASSUME NEW fn, NEW arg
  PROVE  DOMAIN Auth!Asks(fn, arg) = CallFields /\ Auth!Asks(fn, arg).fn = fn
BY DEF Auth!Asks, CallFields

LEMMA CheckDecides ==
  ASSUME NEW then
  PROVE  DOMAIN Auth!Check(then) = CallFields /\ Decides(Auth!Check(then))
BY DEF Auth!Check, Auth!Asks, CallFields, Decides

(* A call is begun in a place that is free. *)
LEMMA BegunInAPlace ==
  ASSUME Auth!CallsAssumption, NEW cs, NEW c, NEW k \in Auth!Ids, cs[k].fn = Auth!None
  PROVE  \E i \in Auth!Ids : cs[i].fn = Auth!None /\ Auth!Begun(cs, c) = [cs EXCEPT ![i] = c]
BY FirstFree DEF Auth!Begun, Auth!Ids, Auth!None, Auth!CallsAssumption

-----------------------------------------------------------------------------
(* What the steps do to calls. *)
LEMMA AnsweringKeeps ==
  ASSUME SessionInv, NEW i \in Auth!Ids, Auth!Fails(i) \/ \E v : Auth!Answers(i, v),
         DOMAIN page' = SessionFields, UNCHANGED <<page.overlay, page.confirmed>>
  PROVE  SessionInv'
<1>1. DOMAIN calls' = Auth!Ids /\ \A j \in Auth!Ids : DOMAIN calls'[j] = CallFields /\ calls'[j].fn = calls[j].fn
  BY DEF SessionInv, SessionShape, Auth!Fails, Auth!Answers, Auth!IsBack, CallFields
<1> QED BY <1>1 DEF SessionInv, SessionShape, Auth!UnlockedIsConfirmed, Auth!InProgress

(* A call ends or goes on, and the overlay is up, or somebody will decide. *)
LEMMA GoingOnKeeps ==
  ASSUME SessionInv, NEW i \in Auth!Ids, NEW c, Auth!GoesOn(i, c), DOMAIN c = CallFields, DOMAIN page' = SessionFields,
         \/ page'.overlay \/ page'.confirmed \/ Decides(c)
         \/ ~Decides(calls[i]) /\ UNCHANGED <<page.overlay, page.confirmed>>
  PROVE  SessionInv'
<1>1. DOMAIN calls' = Auth!Ids /\ calls'[i] = c /\ \A j \in Auth!Ids \ {i} : calls'[j] = calls[j]
  BY DEF Auth!GoesOn, Auth!Moved, SessionInv, SessionShape
<1>2. SessionShape' BY <1>1 DEF SessionInv, SessionShape
<1>3. Auth!UnlockedIsConfirmed' BY <1>1 DEF SessionInv, Auth!UnlockedIsConfirmed, Auth!InProgress, Decides
<1> QED BY <1>2, <1>3 DEF SessionInv

LEMMA EndingKeeps ==
  ASSUME SessionInv, NEW i \in Auth!Ids, Auth!Ends(i), DOMAIN page' = SessionFields,
         \/ page'.overlay \/ page'.confirmed
         \/ ~Decides(calls[i]) /\ UNCHANGED <<page.overlay, page.confirmed>>
  PROVE  SessionInv'
<1>1. Auth!GoesOn(i, Auth!NoCall) /\ DOMAIN Auth!NoCall = CallFields
  BY DEF Auth!Ends, Auth!Ended, Auth!GoesOn, Auth!Moved, Auth!NoCall, CallFields
<1> QED BY <1>1, GoingOnKeeps

LEMMA StartingKeeps ==
  ASSUME Auth!CallsAssumption, SessionInv, NEW c, Auth!Starts(c), DOMAIN c = CallFields, DOMAIN page' = SessionFields,
         Decides(c) \/ UNCHANGED <<page.overlay, page.confirmed>>
  PROVE  SessionInv'
<1>1. PICK i \in Auth!Ids : calls[i].fn = Auth!None /\ calls' = [calls EXCEPT ![i] = c] BY BegunInAPlace DEF Auth!Starts, Auth!Free
<1>2. DOMAIN calls' = Auth!Ids /\ calls'[i] = c /\ \A j \in Auth!Ids \ {i} : calls'[j] = calls[j]
  BY <1>1 DEF SessionInv, SessionShape
<1>3. SessionShape' BY <1>2 DEF SessionInv, SessionShape
<1>4. Auth!UnlockedIsConfirmed' BY <1>1, <1>2 DEF SessionInv, Auth!UnlockedIsConfirmed, Auth!InProgress, Decides, Auth!None
<1> QED BY <1>3, <1>4 DEF SessionInv

(* Of an answer 401 to a confirmed session the logout decides. *)
LEMMA FetchingKeeps ==
  ASSUME Auth!CallsAssumption, SessionInv, NEW i \in Auth!Ids, NEW p, NEW c, Auth!AfterFetch(i, p, Auth!Moved(i, c)),
         ~Decides(calls[i]), DOMAIN c = CallFields,
         DOMAIN p = SessionFields, p.overlay = page.overlay, p.confirmed = page.confirmed
  PROVE  SessionInv'
<1> DEFINE cs == Auth!Moved(i, c)
<1>1. CASE ~Auth!Forces(i) BY <1>1, GoingOnKeeps DEF Auth!AfterFetch, Auth!GoesOn
<1>2. CASE Auth!Forces(i)
  <2>1. DOMAIN cs = Auth!Ids /\ \A j \in Auth!Ids : DOMAIN cs[j] = CallFields BY DEF SessionInv, SessionShape, Auth!Moved
  <2>2. PICK k \in Auth!Ids : cs[k].fn = Auth!None /\ calls' = Auth!Begun(cs, Auth!LogoutCall) BY <1>2 DEF Auth!AfterFetch
  <2>3. PICK j \in Auth!Ids : calls' = [cs EXCEPT ![j] = Auth!LogoutCall] BY <2>2, BegunInAPlace
  <2>4. DOMAIN Auth!LogoutCall = CallFields /\ Auth!LogoutCall.fn = "logout" BY AskingIsACall DEF Auth!LogoutCall
  <2>5. DOMAIN page' = SessionFields BY <1>2 DEF Auth!AfterFetch, Auth!LoggingOut
  <2>6. DOMAIN calls' = Auth!Ids /\ \A n \in Auth!Ids : DOMAIN calls'[n] = CallFields BY <2>1, <2>3, <2>4
  <2>7. calls'[j].fn = "logout" BY <2>1, <2>3, <2>4
  <2>8. Auth!InProgress({"status", "me", "logout"})' # {} BY <2>7 DEF Auth!InProgress
  <2> QED BY <2>5, <2>6, <2>8 DEF SessionInv, SessionShape, Auth!UnlockedIsConfirmed
<1> QED BY <1>1, <1>2

-----------------------------------------------------------------------------
(* One lemma for each kind of step. *)
LEMMA SessionBegins == Auth!CallsAssumption /\ Auth!Init => SessionInv
<1> SUFFICES ASSUME Auth!CallsAssumption, Auth!Init PROVE SessionInv OBVIOUS
<1>1. PICK i \in Auth!Ids : calls = [Auth!NoCalls EXCEPT ![i] = Auth!Check("init")]
  <2>1. 1 \in Auth!Ids BY DEF Auth!CallsAssumption, Auth!Ids
  <2>2. Auth!NoCalls[1].fn = Auth!None BY <2>1 DEF Auth!NoCalls, Auth!NoCall
  <2>3. calls = Auth!Begun(Auth!NoCalls, Auth!Check("init")) BY DEF Auth!Init
  <2> QED BY <2>1, <2>2, <2>3, BegunInAPlace
<1>2. DOMAIN calls = Auth!Ids /\ \A j \in Auth!Ids : DOMAIN calls[j] = CallFields
  BY <1>1, CheckDecides DEF Auth!NoCalls, Auth!NoCall, CallFields
<1>3. DOMAIN page = SessionFields /\ page.overlay BY DEF Auth!Init, Auth!FirstPage, SessionFields
<1> QED BY <1>2, <1>3 DEF SessionInv, SessionShape, Auth!UnlockedIsConfirmed

LEMMA SessionServerKeeps ==
  ASSUME SessionInv, NEW i \in Auth!Ids, Auth!Serve(i) \/ Auth!Lose(i)
  PROVE  SessionInv'
<1>1. Auth!Fails(i) \/ \E v : Auth!Answers(i, v)
  BY DEF Auth!Serve, Auth!Lose, Auth!ServeStatus, Auth!ServeMe, Auth!ServeWork, Auth!ServeRegister, Auth!ServeLogin,
     Auth!ServePassword, Auth!ServeLogout
<1>2. DOMAIN page' = SessionFields /\ UNCHANGED <<page.overlay, page.confirmed>>
  BY DEF SessionInv, SessionShape, SessionFields, Auth!Serve, Auth!Lose, Auth!ServeStatus, Auth!ServeMe, Auth!ServeWork,
     Auth!ServeRegister, Auth!ServeLogin, Auth!ServePassword, Auth!ServeLogout
<1> QED BY <1>1, <1>2, AnsweringKeeps

LEMMA StatusKeeps == ASSUME SessionInv, NEW i \in Auth!Ids, Auth!CheckStatus(i) PROVE SessionInv'
<1>1. CASE ~Auth!HasUsers(i)
  <2>1. Auth!Ends(i) /\ \E s : page' = Auth!Refused(page, i, s) BY <1>1 DEF Auth!CheckStatus
  <2>2. DOMAIN page' = SessionFields /\ page'.overlay BY <2>1 DEF Auth!Refused, SessionInv, SessionShape
  <2> QED BY <2>1, <2>2, EndingKeeps
<1>2. CASE Auth!HasUsers(i)
  <2>1. PICK arg : Auth!GoesOn(i, Auth!Asks("me", arg)) BY <1>2 DEF Auth!CheckStatus
  <2>2. DOMAIN page' = SessionFields BY <1>2 DEF Auth!CheckStatus, SessionInv, SessionShape, SessionFields
  <2>3. Decides(Auth!Asks("me", arg)) BY AskingIsACall DEF Decides
  <2> QED BY <2>1, <2>2, <2>3, AskingIsACall, GoingOnKeeps
<1> QED BY <1>1, <1>2

LEMMA MeKeeps ==
  ASSUME SessionInv, NEW i \in Auth!Ids, Auth!MeRefused(i) \/ Auth!MeKnown(i)
  PROVE  SessionInv'
<1>1. CASE Auth!MeRefused(i)
  <2>1. Auth!Ends(i) /\ DOMAIN page' = SessionFields /\ page'.overlay
    BY <1>1 DEF Auth!MeRefused, SessionInv, SessionShape, SessionFields
  <2> QED BY <2>1, EndingKeeps
<1>2. CASE Auth!MeKnown(i)
  <2> DEFINE p == Auth!Confirmed(page, i)
  <2>1. DOMAIN p = SessionFields /\ p.confirmed BY DEF Auth!Confirmed, SessionInv, SessionShape, SessionFields
  <2>2. \A u : DOMAIN Auth!Shown(p, u) = SessionFields /\ Auth!Shown(p, u).confirmed BY <2>1 DEF Auth!Shown
  <2>3. DOMAIN page' = SessionFields /\ page'.confirmed BY <1>2, <2>1, <2>2 DEF Auth!MeKnown
  <2>4. Auth!Ends(i) \/ \E arg : Auth!GoesOn(i, Auth!Asks("version", arg)) BY <1>2 DEF Auth!MeKnown
  <2> QED BY <2>3, <2>4, AskingIsACall, EndingKeeps, GoingOnKeeps
<1> QED BY <1>1, <1>2

LEMMA FetchedKeeps ==
  ASSUME Auth!CallsAssumption, SessionInv, NEW i \in Auth!Ids, Auth!Version(i) \/ Auth!Load(i) \/ Auth!Work(i)
  PROVE  SessionInv'
<1>1. ~Decides(calls[i]) BY DEF Auth!Version, Auth!Load, Auth!Work, Auth!Back, Decides
<1>2. \E p, c : /\ Auth!AfterFetch(i, p, Auth!Moved(i, c)) /\ DOMAIN c = CallFields
                /\ DOMAIN p = SessionFields /\ p.overlay = page.overlay /\ p.confirmed = page.confirmed
  <2>1. DOMAIN Auth!NoCall = CallFields /\ Auth!Ended(i) = Auth!Moved(i, Auth!NoCall)
    BY DEF Auth!NoCall, CallFields, Auth!Ended, Auth!Moved
  <2>2. CASE Auth!Version(i) BY <2>2, AskingIsACall DEF Auth!Version, SessionInv, SessionShape
  <2>3. CASE Auth!Work(i) BY <2>1, <2>3 DEF Auth!Work, SessionInv, SessionShape
  <2>4. CASE Auth!Load(i)
    <3> DEFINE p == [page EXCEPT !.loading = FALSE, !.devices = IF Auth!Fetched(i) THEN Auth!Answer(i) ELSE @]
    <3>1. Auth!AfterFetch(i, p, Auth!Moved(i, Auth!NoCall)) BY <2>1, <2>4 DEF Auth!Load
    <3>2. DOMAIN p = SessionFields /\ p.overlay = page.overlay /\ p.confirmed = page.confirmed BY DEF SessionInv, SessionShape
    <3> QED BY <2>1, <3>1, <3>2
  <2> QED BY <2>2, <2>3, <2>4
<1> QED BY <1>1, <1>2, FetchingKeeps

LEMMA ClickingKeeps ==
  ASSUME Auth!CallsAssumption, SessionInv,
         \/ \E u \in Users : Auth!ClickRegister(u) \/ Auth!ClickLogin(u)
         \/ Auth!ClickPassword \/ Auth!ClickWork \/ Auth!ClickLogout
  PROVE  SessionInv'
<1>1. CASE Auth!ClickLogout
  <2>1. Auth!Starts(Auth!LogoutCall) /\ DOMAIN page' = SessionFields
    BY <1>1 DEF Auth!ClickLogout, Auth!Click, Auth!LoggingOut, SessionInv, SessionShape, SessionFields
  <2>2. DOMAIN Auth!LogoutCall = CallFields /\ Decides(Auth!LogoutCall) BY AskingIsACall DEF Auth!LogoutCall, Decides
  <2> QED BY <2>1, <2>2, StartingKeeps
<1>2. CASE ~Auth!ClickLogout
  <2>1. UNCHANGED page /\ \E fn, arg : Auth!Starts(Auth!Asks(fn, arg))
    BY <1>2 DEF Auth!ClickRegister, Auth!ClickLogin, Auth!ClickPassword, Auth!ClickWork, Auth!Click
  <2> QED BY <2>1, AskingIsACall, StartingKeeps DEF SessionInv, SessionShape
<1> QED BY <1>1, <1>2

LEMMA RegisteredKeeps == ASSUME SessionInv, NEW i \in Auth!Ids, Auth!Registered(i) PROVE SessionInv'
<1>1. ~Decides(calls[i]) /\ UNCHANGED page BY DEF Auth!Registered, Auth!Back, Decides
<1>2. Auth!Ends(i) \/ \E arg : Auth!GoesOn(i, Auth!Asks("login", arg)) BY DEF Auth!Registered
<1> QED BY <1>1, <1>2, AskingIsACall, EndingKeeps, GoingOnKeeps DEF SessionInv, SessionShape

LEMMA SignedInKeeps ==
  ASSUME SessionInv, NEW i \in Auth!Ids, Auth!LoggedIn(i) \/ Auth!PasswordChanged(i)
  PROVE  SessionInv'
<1>1. ~Decides(calls[i]) BY DEF Auth!LoggedIn, Auth!PasswordChanged, Auth!Back, Decides
<1>2. DOMAIN page' = SessionFields
  BY DEF Auth!LoggedIn, Auth!PasswordChanged, Auth!Starting, Auth!Checking, SessionInv, SessionShape, SessionFields
<1>3. \/ Auth!Ends(i) /\ UNCHANGED <<page.overlay, page.confirmed>>
      \/ \E then : Auth!GoesOn(i, Auth!Check(then))
  BY DEF Auth!LoggedIn, Auth!PasswordChanged, SessionInv, SessionShape, SessionFields
<1> QED BY <1>1, <1>2, <1>3, CheckDecides, EndingKeeps, GoingOnKeeps

LEMMA LoggedOutKeeps == ASSUME SessionInv, NEW i \in Auth!Ids, Auth!LoggedOut(i) PROVE SessionInv'
<1>1. Auth!GoesOn(i, Auth!Check(Auth!None)) BY DEF Auth!LoggedOut
<1>2. DOMAIN page' = SessionFields BY DEF Auth!LoggedOut, Auth!Checking, SessionInv, SessionShape, SessionFields
<1> QED BY <1>1, <1>2, CheckDecides, GoingOnKeeps

LEMMA SessionKeeps == Auth!CallsAssumption /\ SessionInv /\ [Auth!Next]_(Auth!vars) => SessionInv'
<1> SUFFICES ASSUME Auth!CallsAssumption, SessionInv, [Auth!Next]_(Auth!vars) PROVE SessionInv' OBVIOUS
<1>1. CASE UNCHANGED Auth!vars \/ \E u \in Users : Auth!Expire(u)
  BY <1>1 DEF Auth!vars, Auth!Expire, SessionInv, SessionShape, Auth!UnlockedIsConfirmed, Auth!InProgress
<1>2. ASSUME NEW i \in Auth!Ids, Auth!Continue(i) PROVE SessionInv'
  BY <1>2, StatusKeeps, MeKeeps, FetchedKeeps, RegisteredKeeps, SignedInKeeps, LoggedOutKeeps DEF Auth!Continue
<1> QED BY <1>1, <1>2, SessionServerKeeps, ClickingKeeps DEF Auth!Next

-----------------------------------------------------------------------------
(* WebClients. *)
(* A step that begins no scan: every call that is one was one before. *)
Harmless(c) == CallFields \subseteq DOMAIN c /\ c.fn \notin Scans
BeginsNoScan ==
  /\ DOMAIN calls' = Map!Ids
  /\ \A i \in Map!Ids :
       \/ Harmless(calls'[i])
       \/ CallFields \subseteq DOMAIN calls'[i] /\ calls'[i].fn = calls[i].fn /\ calls'[i].arg = calls[i].arg

LEMMA ClientsBegin == Map!Init => ClientInv
BY DEF Map!Init, ClientInv, ClientPage, ClientCalls, ClientShape, PanesAreOfTheTenant, OfTheTenant, CallsShape, CallFields,
   TableFields, Map!NoTable, Map!NoCalls, Map!NoCall, Map!None, Map!ScanIsOfTheTenant, Map!InProgress, Map!Panes, Map!Ids

LEMMA ScansStay == ClientCalls /\ BeginsNoScan => ClientCalls'
BY DEF ClientCalls, BeginsNoScan, CallsShape, Map!ScanIsOfTheTenant, Map!InProgress, Harmless, Scans, Map!Ids

LEMMA EndingBeginsNoScan == ASSUME ClientCalls, NEW i \in Map!Ids, Map!Ends(i) PROVE BeginsNoScan
BY DEF ClientCalls, CallsShape, Map!Ends, Map!Ended, BeginsNoScan, Harmless, Scans, Map!NoCall, Map!None, CallFields

LEMMA AnsweringBeginsNoScan ==
  ASSUME ClientCalls, NEW i \in Map!Ids, Map!Fails(i) \/ \E v : Map!Answers(i, v)
  PROVE  BeginsNoScan
BY DEF ClientCalls, CallsShape, Map!Fails, Map!Answers, Map!IsBack, BeginsNoScan, CallFields

LEMMA SendingBeginsNoScan ==
  ASSUME ClientCalls, NEW reqs, Map!Sends(reqs), \A k \in DOMAIN reqs : Harmless(reqs[k])
  PROVE  BeginsNoScan
BY DEF ClientCalls, CallsShape, Map!Sends, Map!AllBegun, BeginsNoScan, Map!Ids

LEMMA FollowingBeginsNoScan ==
  ASSUME ClientCalls, NEW i \in Map!Ids, NEW reqs, Map!Followed(i, reqs), \A k \in DOMAIN reqs : Harmless(reqs[k])
  PROVE  BeginsNoScan
<1>1. DOMAIN Map!Ended(i) = Map!Ids /\ \A j \in Map!Ids : Map!Ended(i)[j] = calls[j] \/ Harmless(Map!Ended(i)[j])
  BY DEF ClientCalls, CallsShape, Map!Ended, Harmless, Scans, Map!NoCall, Map!None, CallFields
<1> QED BY <1>1 DEF ClientCalls, CallsShape, Map!Followed, Map!AllBegun, BeginsNoScan

(* The requests of the pages, scans apart, are none. *)
LEMMA AsksBeginNoScan == ASSUME NEW fn, NEW arg, fn \notin Scans PROVE Harmless(Map!Asks(fn, arg))
BY DEF Map!Asks, Harmless, CallFields

(* A step that leaves the tables as they are, but for their rows and their *)
(* choice of a device.                                                     *)
TablesStay ==
  /\ ClientShape'
  /\ page'.tenant = page.tenant /\ page'.loaded = page.loaded
  /\ page'.mac.offered = page.mac.offered /\ page'.mac.ticked = page.mac.ticked
  /\ page'.arp.offered = page.arp.offered /\ page'.arp.ticked = page.arp.ticked

LEMMA PanesStay == ClientPage /\ TablesStay => ClientPage'
BY DEF ClientPage, TablesStay, PanesAreOfTheTenant, OfTheTenant

(* What a pane loads with is of the tenant that is chosen. *)
OnlyLoads(ls, v, t) ==
  /\ DOMAIN ls = Map!Panes
  /\ \A w \in Map!Panes : ls[w] => w = v \/ (page.loaded[w] /\ t = page.tenant)
LEMMA FillingIsOfTheTenant ==
  ASSUME ClientPage, NEW v \in Map!Panes, NEW t, NEW ls, OnlyLoads(ls, v, t), NEW w \in Map!Panes,
         NEW q, q = [page EXCEPT !.view = w, !.tenant = t, !.loaded = ls], page' = Map!Filled(q, v)
  PROVE  ClientPage'
BY DEF ClientPage, ClientShape, PanesAreOfTheTenant, OfTheTenant, TableFields, OnlyLoads, Map!Filled, Map!Offered, Map!Of,
   Map!Panes

LEMMA OneHarmless == ASSUME NEW a, Harmless(a) PROVE \A k \in DOMAIN <<a>> : Harmless(<<a>>[k])
OBVIOUS

LEMMA ThreeHarmless ==
  ASSUME NEW a, NEW b, NEW c, Harmless(a), Harmless(b), Harmless(c)
  PROVE  \A k \in DOMAIN <<a, b, c>> : Harmless(<<a, b, c>>[k])
OBVIOUS

LEMMA LoadingBeginsNoScan == ASSUME NEW p, NEW v PROVE \A k \in DOMAIN Map!LoadRequests(p, v) : Harmless(Map!LoadRequests(p, v)[k])
<1>1. /\ Harmless(Map!ReadOverrides) /\ Harmless(Map!ReadStats(TRUE)) /\ Harmless(Map!SearchMac(p))
      /\ Harmless(Map!SearchArp(p)) /\ Harmless(Map!ReadInventory(TRUE))
  BY AsksBeginNoScan DEF Scans, Map!ReadOverrides, Map!ReadStats, Map!SearchMac, Map!SearchArp, Map!ReadInventory
<1>2. CASE v = "mac" BY <1>1, <1>2, ThreeHarmless, Zenon DEF Map!LoadRequests
<1>3. CASE v = "clientmap"
  <2>1. Map!LoadRequests(p, v) = <<Map!SearchArp(p)>> BY <1>3 DEF Map!LoadRequests
  <2> QED BY <1>1, <2>1, OneHarmless, Zenon
<1>4. CASE v = "inventory"
  <2>1. Map!LoadRequests(p, v) = <<Map!ReadInventory(TRUE)>> BY <1>4 DEF Map!LoadRequests
  <2> QED BY <1>1, <2>1, OneHarmless, Zenon
<1>5. CASE v \notin {"mac", "clientmap", "inventory"}
  <2>1. Map!LoadRequests(p, v) = <<>> BY <1>5 DEF Map!LoadRequests
  <2> QED BY <2>1
<1> QED BY <1>2, <1>3, <1>4, <1>5

-----------------------------------------------------------------------------
(* What the user does. *)
LEMMA SwitchingKeeps == ASSUME ClientInv, NEW v \in Map!Panes, Map!locSwitchView(v) PROVE ClientInv'
<1> DEFINE p == [page EXCEPT !.view = v]
           q == Map!Filled([p EXCEPT !.loaded[v] = TRUE], v)
<1>1. CASE page.loaded[v]
  <2>1. page' = p /\ Map!Sends(<<>>) BY <1>1 DEF Map!locSwitchView, ClientInv, ClientPage, ClientShape
  <2>2. ClientPage' BY <2>1, PanesStay DEF ClientInv, ClientPage, ClientShape, TablesStay
  <2> QED BY <2>1, <2>2, SendingBeginsNoScan, ScansStay DEF ClientInv
<1>2. CASE ~page.loaded[v]
  <2>1. page' = q /\ Map!Sends(Map!LoadRequests(q, v)) BY <1>2 DEF Map!locSwitchView, ClientInv, ClientPage, ClientShape
  <2>2. ClientPage'
    <3>1. PICK ls : ls = [page.loaded EXCEPT ![v] = TRUE] OBVIOUS
    <3>2. PICK r : r = [page EXCEPT !.view = v, !.tenant = page.tenant, !.loaded = ls] OBVIOUS
    <3>3. [p EXCEPT !.loaded[v] = TRUE] = r BY <3>1, <3>2 DEF ClientInv, ClientPage
    <3>4. OnlyLoads(ls, v, page.tenant) BY <3>1 DEF ClientInv, ClientPage, ClientShape, OnlyLoads
    <3> QED BY <2>1, <3>2, <3>3, <3>4, FillingIsOfTheTenant, Zenon DEF ClientInv
  <2> QED BY <2>1, <2>2, SendingBeginsNoScan, LoadingBeginsNoScan, ScansStay DEF ClientInv
<1> QED BY <1>1, <1>2

LEMMA ChoosingKeeps == ASSUME ClientInv, NEW t \in Map!Tenants, Map!locTenantChanged(t) PROVE ClientInv'
<1>1. PICK ls : ls = [w \in Map!Panes |-> w = page.view] OBVIOUS
<1>2. PICK r : r = [page EXCEPT !.view = page.view, !.tenant = t, !.loaded = ls] OBVIOUS
<1>3. r = [page EXCEPT !.tenant = t, !.loaded = ls] BY <1>2 DEF ClientInv, ClientPage
<1> DEFINE p == Map!Filled(r, page.view)
<1>4. page' = p /\ Map!Sends(Map!LoadRequests(p, page.view)) BY <1>1, <1>3 DEF Map!locTenantChanged
<1>5. page.view \in Map!Panes /\ OnlyLoads(ls, page.view, t) BY <1>1 DEF ClientInv, ClientPage, ClientShape, OnlyLoads
<1>6. ClientPage' BY <1>2, <1>4, <1>5, FillingIsOfTheTenant, Zenon DEF ClientInv
<1> QED BY <1>4, <1>6, SendingBeginsNoScan, LoadingBeginsNoScan, ScansStay DEF ClientInv

LEMMA TickingKeeps == ASSUME ClientInv, NEW d \in Devices, Map!TickMac(d) \/ Map!TickArp(d) PROVE ClientInv'
<1>1. ClientPage'
  BY DEF ClientInv, ClientPage, ClientShape, PanesAreOfTheTenant, OfTheTenant, TableFields, Map!TickMac, Map!TickArp, Map!On,
     Map!Toggled
<1>2. ClientCalls' BY DEF ClientInv, ClientCalls, CallsShape, Map!ScanIsOfTheTenant, Map!InProgress, Map!TickMac, Map!TickArp
<1> QED BY <1>1, <1>2 DEF ClientInv

(* The one step that begins a scan: of what is ticked, for the tenant. *)
LEMMA ScanningKeeps == ASSUME ClientInv, Map!runMacScan \/ Map!runArpScan PROVE ClientInv'
<1>1. PICK c : /\ Map!Sends(<<c>>) /\ CallFields \subseteq DOMAIN c
               /\ c.arg.ips \subseteq Map!Of(c.arg.group)
  <2>1. CASE Map!runMacScan
    <3> DEFINE c == Map!Asks("macScan", [group |-> page.tenant, ips |-> page.mac.ticked])
    <3>1. page.mac.ticked \subseteq Map!Of(page.tenant)
      BY <2>1 DEF ClientInv, ClientPage, PanesAreOfTheTenant, OfTheTenant, Map!runMacScan, Map!On
    <3>2. c.arg.ips \subseteq Map!Of(c.arg.group) /\ CallFields \subseteq DOMAIN c BY <3>1 DEF Map!Asks, CallFields
    <3> QED BY <2>1, <3>2 DEF Map!runMacScan
  <2>2. CASE Map!runArpScan
    <3> DEFINE c == Map!Asks("arpScan", [group |-> page.tenant, ips |-> page.arp.ticked])
    <3>1. page.arp.ticked \subseteq Map!Of(page.tenant)
      BY <2>2 DEF ClientInv, ClientPage, PanesAreOfTheTenant, OfTheTenant, Map!runArpScan, Map!On
    <3>2. c.arg.ips \subseteq Map!Of(c.arg.group) /\ CallFields \subseteq DOMAIN c BY <3>1 DEF Map!Asks, CallFields
    <3> QED BY <2>2, <3>2 DEF Map!runArpScan
  <2> QED BY <2>1, <2>2
<1>2. DOMAIN calls' = Map!Ids /\ \A i \in Map!Ids : calls'[i] = calls[i] \/ calls'[i] = c
  BY <1>1 DEF ClientInv, ClientCalls, CallsShape, Map!Sends, Map!AllBegun
<1>3. ClientCalls' BY <1>1, <1>2 DEF ClientInv, ClientCalls, CallsShape, Map!ScanIsOfTheTenant, Map!InProgress
<1>4. ClientPage' BY PanesStay DEF ClientInv, ClientPage, ClientShape, TablesStay, Map!runMacScan, Map!runArpScan
<1> QED BY <1>3, <1>4 DEF ClientInv

(* The other clicks ask for no scan and tick nothing. *)
LEMMA ClientsAskingKeeps ==
  ASSUME ClientInv, NEW fn, NEW arg, fn \notin Scans, Map!Sends(<<Map!Asks(fn, arg)>>), TablesStay
  PROVE  ClientInv'
<1>1. BeginsNoScan BY AsksBeginNoScan, OneHarmless, SendingBeginsNoScan DEF ClientInv
<1> QED BY <1>1, PanesStay, ScansStay DEF ClientInv

LEMMA FilteringKeeps ==
  ASSUME ClientInv, NEW d \in Devices \union {Map!None}, Map!FilterMac(d) \/ Map!FilterArp(d)
  PROVE  ClientInv'
<1>1. TablesStay BY DEF ClientInv, ClientPage, ClientShape, TableFields, TablesStay, Map!FilterMac, Map!FilterArp
<1>2. \E arg : Map!Sends(<<Map!Asks("macSearch", arg)>>) \/ Map!Sends(<<Map!Asks("arpSearch", arg)>>)
  BY DEF Map!FilterMac, Map!FilterArp, Map!SearchMac, Map!SearchArp
<1> QED BY <1>1, <1>2, ClientsAskingKeeps DEF Scans

LEMMA AskingOnKeeps ==
  ASSUME ClientInv, NEW d \in Devices, Map!macLocate(d) \/ Map!saveMacOverride(d) \/ Map!removeMacOverride(d)
  PROVE  ClientInv'
<1>1. TablesStay BY DEF ClientInv, ClientPage, ClientShape, TablesStay, Map!macLocate, Map!saveMacOverride, Map!removeMacOverride
<1>2. \E arg : \/ Map!Sends(<<Map!Asks("locate", arg)>>) \/ Map!Sends(<<Map!Asks("saveOverride", arg)>>)
               \/ Map!Sends(<<Map!Asks("removeOverride", arg)>>)
  BY DEF Map!macLocate, Map!saveMacOverride, Map!removeMacOverride
<1> QED BY <1>1, <1>2, ClientsAskingKeeps DEF Scans

LEMMA DiagnosingKeeps ==
  ASSUME ClientInv, NEW c \in Clients, Map!runDiagnosi(c) \/ Map!diagnoseClientInTab(c)
  PROVE  ClientInv'
<1>1. ClientPage' /\ Map!Sends(<<Map!Asks("diagnose", c)>>)
  <2>1. CASE Map!runDiagnosi(c)
    BY <2>1, PanesStay DEF ClientInv, ClientPage, ClientShape, TablesStay, Map!runDiagnosi, Map!Diagnoses
  <2>2. CASE Map!diagnoseClientInTab(c)
    BY <2>2 DEF ClientInv, ClientPage, ClientShape, PanesAreOfTheTenant, OfTheTenant, Map!diagnoseClientInTab, Map!Diagnoses,
       Map!Panes
  <2> QED BY <2>1, <2>2
<1>2. BeginsNoScan BY <1>1, AsksBeginNoScan, OneHarmless, SendingBeginsNoScan DEF ClientInv, Scans
<1> QED BY <1>1, <1>2, ScansStay DEF ClientInv

LEMMA EndpointsKeep == ASSUME ClientInv, NEW m, Map!endpointsMode(m) \/ Map!endpointsApplyFilters PROVE ClientInv'
<1>1. TablesStay BY DEF ClientInv, ClientPage, ClientShape, TablesStay, Map!endpointsMode, Map!endpointsApplyFilters, Map!ShowPorts
<1>2. \E arg : Map!Sends(<<Map!Asks("ports", arg)>>) \/ Map!Sends(<<Map!Asks("inventory", arg)>>)
  <2>1. CASE Map!endpointsApplyFilters BY <2>1, Zenon DEF Map!endpointsApplyFilters, Map!ReadInventory
  <2>2. CASE Map!endpointsMode(m) /\ m = "ports" BY <2>2 DEF Map!endpointsMode
  <2>3. CASE Map!endpointsMode(m) /\ m # "ports"
    <3>1. Map!Sends(<<Map!ReadInventory(FALSE)>>) BY <2>3, Zenon DEF Map!endpointsMode
    <3> QED BY <3>1, Zenon DEF Map!ReadInventory
  <2> QED BY <2>1, <2>2, <2>3
<1> QED BY <1>1, <1>2, ClientsAskingKeeps DEF Scans

LEMMA OtherClicksKeep ==
  ASSUME ClientInv,
         \/ Map!closeMacLocateModal \/ Map!saveMacRetention \/ Map!diagnoseWifi
         \/ \E n \in Days : Map!EditRetention(n)
  PROVE  ClientInv'
<1>1. TablesStay
  BY DEF ClientInv, ClientPage, ClientShape, TablesStay, Map!closeMacLocateModal, Map!saveMacRetention, Map!diagnoseWifi,
     Map!EditRetention
<1>2. CASE UNCHANGED calls
  <2>1. ClientCalls' BY <1>2 DEF ClientInv, ClientCalls, CallsShape, Map!ScanIsOfTheTenant, Map!InProgress
  <2> QED BY <1>1, <2>1, PanesStay DEF ClientInv
<1>3. CASE \E arg : Map!Sends(<<Map!Asks("retention", arg)>>) \/ Map!Sends(<<Map!Asks("wifi", arg)>>)
  BY <1>1, <1>3, ClientsAskingKeeps DEF Scans
<1> QED BY <1>2, <1>3 DEF Map!closeMacLocateModal, Map!saveMacRetention, Map!diagnoseWifi, Map!EditRetention

-----------------------------------------------------------------------------
(* What comes back, and what the server does. *)
LEMMA FollowingKeeps ==
  ASSUME ClientInv, NEW i \in Map!Ids, TablesStay,
         \/ Map!Ends(i)
         \/ Map!Followed(i, <<>>)
         \/ \E c : Harmless(c) /\ Map!Followed(i, <<c>>)
         \/ \E c, d : Harmless(c) /\ Harmless(d) /\ Map!Followed(i, <<c, d>>)
  PROVE  ClientInv'
<1>1. CASE Map!Ends(i) BY <1>1, EndingBeginsNoScan, ScansStay, PanesStay DEF ClientInv
<1>2. CASE Map!Followed(i, <<>>) BY <1>2, FollowingBeginsNoScan, ScansStay, PanesStay DEF ClientInv
<1>3. ASSUME NEW c, Harmless(c), Map!Followed(i, <<c>>) PROVE ClientInv'
  BY <1>3, FollowingBeginsNoScan, OneHarmless, ScansStay, PanesStay DEF ClientInv
<1>4. ASSUME NEW c, NEW d, Harmless(c), Harmless(d), Map!Followed(i, <<c, d>>) PROVE ClientInv'
  <2>1. \A k \in DOMAIN <<c, d>> : Harmless(<<c, d>>[k]) BY <1>4
  <2> QED BY <1>4, <2>1, FollowingBeginsNoScan, ScansStay, PanesStay DEF ClientInv
<1> QED BY <1>1, <1>2, <1>3, <1>4

LEMMA RequestsAreHarmless ==
  /\ Harmless(Map!SearchMac(page)) /\ Harmless(Map!SearchArp(page))
  /\ Harmless(Map!ReadStats(FALSE)) /\ Harmless(Map!ReadOverrides)
BY AsksBeginNoScan DEF Scans, Map!SearchMac, Map!SearchArp, Map!ReadStats, Map!ReadOverrides

LEMMA ScannedKeeps == ASSUME ClientInv, NEW i \in Map!Ids, Map!MacScanned(i) \/ Map!ArpScanned(i) PROVE ClientInv'
<1>1. TablesStay BY DEF ClientInv, ClientPage, ClientShape, TablesStay, Map!MacScanned, Map!ArpScanned
<1>2. CASE Map!MacScanned(i)
  <2>1. Map!Followed(i, <<Map!SearchMac(page), Map!ReadStats(FALSE)>>) \/ Map!Followed(i, <<>>) BY <1>2, Zenon DEF Map!MacScanned
  <2> QED BY <1>1, <2>1, RequestsAreHarmless, FollowingKeeps, Zenon
<1>3. CASE Map!ArpScanned(i)
  <2>1. Map!Followed(i, <<Map!SearchArp(page)>>) \/ Map!Followed(i, <<>>) BY <1>3 DEF Map!ArpScanned
  <2> QED BY <1>1, <2>1, RequestsAreHarmless, FollowingKeeps, Zenon
<1> QED BY <1>2, <1>3

LEMMA ChangedKeeps == ASSUME ClientInv, NEW i \in Map!Ids, Map!OverrideChanged(i) \/ Map!RetentionSaved(i) PROVE ClientInv'
<1>1. TablesStay BY DEF ClientInv, ClientPage, ClientShape, TablesStay, Map!OverrideChanged, Map!RetentionSaved
<1>2. Map!Followed(i, <<Map!ReadOverrides>>) \/ Map!Followed(i, <<Map!ReadStats(FALSE)>>) \/ Map!Followed(i, <<>>)
  BY Zenon DEF Map!OverrideChanged, Map!RetentionSaved
<1> QED BY <1>1, <1>2, RequestsAreHarmless, FollowingKeeps, Zenon

LEMMA InventoryKeeps == ASSUME ClientInv, NEW i \in Map!Ids, Map!InventoryRead(i) PROVE ClientInv'
<1>1. TablesStay BY DEF ClientInv, ClientPage, ClientShape, TablesStay, Map!InventoryRead, Map!ShowPorts
<1>2. Map!Ends(i) \/ \E arg : Map!Followed(i, <<Map!Asks("ports", arg)>>) BY DEF Map!InventoryRead
<1>3. \A arg : Harmless(Map!Asks("ports", arg)) BY AsksBeginNoScan DEF Scans
<1> QED BY <1>1, <1>2, <1>3, FollowingKeeps

LEMMA DrawingKeeps ==
  ASSUME ClientInv, NEW i \in Map!Ids,
         \/ Map!renderMacResults(i) \/ Map!renderArpResults(i) \/ Map!Located(i) \/ Map!renderMacOverrides(i)
         \/ Map!refreshMacStats(i) \/ Map!renderDiagnosi(i) \/ Map!WifiDiagnosed(i) \/ Map!PortsRead(i)
  PROVE  ClientInv'
<1> USE DEF ClientInv, ClientPage, ClientShape, TablesStay
<1>1. Map!Ends(i)
  BY DEF Map!renderMacResults, Map!renderArpResults, Map!Located, Map!renderMacOverrides, Map!refreshMacStats, Map!renderDiagnosi,
     Map!WifiDiagnosed, Map!PortsRead
<1>2. TablesStay
  <2>1. CASE Map!renderMacResults(i) BY <2>1 DEF TableFields, Map!renderMacResults
  <2>2. CASE Map!renderArpResults(i) BY <2>2 DEF TableFields, Map!renderArpResults
  <2>3. CASE Map!Located(i) \/ Map!renderMacOverrides(i) \/ Map!PortsRead(i)
    BY <2>3 DEF Map!Located, Map!renderMacOverrides, Map!PortsRead
  <2>4. CASE Map!refreshMacStats(i) BY <2>4 DEF Map!refreshMacStats
  <2>5. CASE Map!renderDiagnosi(i) \/ Map!WifiDiagnosed(i) BY <2>5 DEF Map!renderDiagnosi, Map!WifiDiagnosed
  <2> QED BY <2>1, <2>2, <2>3, <2>4, <2>5
<1> QED BY <1>1, <1>2, FollowingKeeps

LEMMA ClientsServerKeeps == ASSUME ClientInv, NEW i \in Map!Ids, Map!Serve(i) \/ Map!Lose(i) PROVE ClientInv'
<1>1. UNCHANGED page /\ (Map!Fails(i) \/ \E v : Map!Answers(i, v))
  <2>1. CASE Map!Scan(i) BY <2>1 DEF Map!Scan
  <2>2. CASE Map!Store(i) BY <2>2 DEF Map!Store
  <2>3. CASE Map!Read(i) BY <2>3 DEF Map!Read
  <2>4. CASE Map!Lose(i) BY <2>4 DEF Map!Lose
  <2> QED BY <2>1, <2>2, <2>3, <2>4 DEF Map!Serve
<1>2. BeginsNoScan BY <1>1, AnsweringBeginsNoScan DEF ClientInv
<1> QED BY <1>1, <1>2, ScansStay, PanesStay DEF ClientInv, ClientPage, TablesStay, ClientShape

-----------------------------------------------------------------------------
LEMMA ClientsKeep == ClientInv /\ [Map!Next]_(Map!vars) => ClientInv'
<1> SUFFICES ASSUME ClientInv, [Map!Next]_(Map!vars) PROVE ClientInv' OBVIOUS
<1>1. CASE UNCHANGED Map!vars
  BY <1>1 DEF Map!vars, ClientInv, ClientPage, ClientCalls, ClientShape, PanesAreOfTheTenant, CallsShape, Map!ScanIsOfTheTenant,
     Map!InProgress
<1>2. ASSUME NEW i \in Map!Ids, Map!Continue(i) PROVE ClientInv'
  BY <1>2, ScannedKeeps, ChangedKeeps, InventoryKeeps, DrawingKeeps DEF Map!Continue
<1> QED BY <1>1, <1>2, SwitchingKeeps, ChoosingKeeps, TickingKeeps, ScanningKeeps, FilteringKeeps,
   AskingOnKeeps,
           DiagnosingKeeps, EndpointsKeep, OtherClicksKeep, ClientsServerKeeps DEF Map!Next

-----------------------------------------------------------------------------
(* The rest of the clients. *)
IdleCall(c) == c.fn = Map!None /\ (c.at = "sent" => c.got = <<>>)

LEMMA IdleTellsNothing ==
  ASSUME NEW cs, NEW ds, NEW p, NEW s, ClientTells(cs, p, s),
         \A d \in ds : d \in cs \/ IdleCall(d), \A c \in cs : c \in ds \/ c.fn = Map!None
  PROVE  ClientTells(ds, p, s)
<1>1. \A d \in ds : ClientTold(d, p, s) BY DEF ClientTells, ClientTold, IdleCall, Map!None
<1>2. /\ \A fn : fn # Map!None /\ Reads(cs, fn) => Reads(ds, fn)
      /\ \A fns : Map!None \notin fns /\ Changed(cs, fns) => Changed(ds, fns)
  BY DEF Reads, Changed
<1>3. MacShown(ds, p, s) /\ ArpShown(ds, p, s) /\ ScansShown(ds, p)
  BY <1>2 DEF ClientTells, MacShown, ArpShown, ScansShown, Map!None
<1>4. PortsShown(ds, p) BY DEF ClientTells, PortsShown, Map!None
<1> QED BY <1>1, <1>3, <1>4 DEF ClientTells

LEMMA CountsAlike == \A S : Map!Cardinality(S) = Cardinality(S)
BY DEF Map!Cardinality, Cardinality

(* Where nothing is under way the n-th request goes to the n-th place. *)
LEMMA AllPlaced ==
  ASSUME Auth!CallsAssumption, NEW cs, \A j \in Map!Ids : IdleCall(cs[j]), NEW n \in 0..MaxCalls, NEW reqs,
         DOMAIN reqs = 1..n, calls' = Map!AllBegun(cs, reqs),
         n < 2 \/ (\A k \in 1..n : reqs[k].fn \in Together),
         NEW rs, rs = {reqs[k] : k \in 1..n}, ClientTells(rs, page', server')
  PROVE  ClientTurn'
<1>1. \A i \in Map!Ids : Map!Place(cs, i) = i
  <2> SUFFICES ASSUME NEW i \in Map!Ids PROVE Map!Place(cs, i) = i OBVIOUS
  <2>1. {j \in 1..i : cs[j].fn = Map!None} = 1..i /\ i \in Nat /\ i > 0 BY DEF Map!Ids, Auth!CallsAssumption, IdleCall
  <2>2. Cardinality(1..i) = i BY <2>1, FS_Interval
  <2> QED BY <2>1, <2>2, CountsAlike, Zenon DEF Map!Place
<1>2. \A i \in Map!Ids : calls'[i] = IF i \in 1..n THEN reqs[i] ELSE cs[i] BY <1>1 DEF Map!AllBegun, IdleCall
<1>3. 1..n \subseteq Map!Ids BY DEF Map!Ids, Auth!CallsAssumption
<1>4. OneOrTogether' BY <1>2, <1>3 DEF OneOrTogether, Map!Ids, IdleCall
<1>5. ClientTells({calls'[i] : i \in Map!Ids}, page', server') BY <1>2, <1>3, IdleTellsNothing
<1> QED BY <1>4, <1>5 DEF ClientTurn

LEMMA QuietTells ==
  ASSUME ClientTurn, Map!Quiet
  PROVE  ClientTells({}, page, server) /\ \A i \in Map!Ids : IdleCall(calls[i])
<1>1. \A i \in Map!Ids : IdleCall(calls[i]) BY DEF ClientTurn, Map!Quiet, ClientTells, ClientTold, IdleCall
<1> QED BY <1>1, IdleTellsNothing DEF ClientTurn, IdleCall

LEMMA AloneTells ==
  ASSUME Auth!CallsAssumption, CallsShape, ClientTurn, NEW i \in Map!Ids, calls[i].fn \notin Together \union {Map!None}
  PROVE  ClientTells({calls[i]}, page, server) /\ \A j \in Map!Ids \ {i} : IdleCall(calls[j])
<1>1. \A j \in Map!Ids \ {i} : IdleCall(calls[j]) BY DEF ClientTurn, OneOrTogether, ClientTells, ClientTold, IdleCall
<1> QED BY <1>1, IdleTellsNothing DEF ClientTurn, IdleCall

(* Requests are sent, or follow on the call i, of a user who waits.         *)
LEMMA RequestsTell ==
  ASSUME Auth!CallsAssumption, CallsShape, ClientTurn, NEW n \in Nat, NEW reqs, Len(reqs) = n, DOMAIN reqs = 1..n,
         \/ Map!Quiet /\ Map!Sends(reqs)
         \/ \E i \in Map!Ids : calls[i].fn \notin Together \union {Map!None} /\ Map!Followed(i, reqs),
         n < 2 \/ (\A k \in 1..n : reqs[k].fn \in Together),
         NEW rs, rs = {reqs[k] : k \in 1..n}, ClientTells(rs, page', server')
  PROVE  ClientTurn'
<1>0. IsFiniteSet(Map!Ids) /\ Cardinality(Map!Ids) = MaxCalls /\ MaxCalls \in Nat BY FS_Interval DEF Map!Ids, Auth!CallsAssumption
<1>1. CASE Map!Quiet /\ Map!Sends(reqs)
  <2>1. Map!Free = Map!Ids BY <1>1 DEF Map!Free, Map!Quiet
  <2>2. n <= MaxCalls /\ calls' = Map!AllBegun(calls, reqs) BY <1>1, <1>0, <2>1, CountsAlike DEF Map!Sends
  <2>3. \A j \in Map!Ids : IdleCall(calls[j]) BY <1>1, QuietTells
  <2> QED BY <1>0, <2>2, <2>3, AllPlaced
<1>2. ASSUME NEW i \in Map!Ids, calls[i].fn \notin Together \union {Map!None}, Map!Followed(i, reqs)
      PROVE  ClientTurn'
  <2>1. \A j \in Map!Ids \ {i} : IdleCall(calls[j]) BY <1>2, AloneTells
  <2>2. Map!Free = Map!Ids \ {i} BY <1>2, <2>1 DEF Map!Free, IdleCall
  <2>3. Map!Cardinality(Map!Free) + 1 = MaxCalls
    <3>1. Cardinality(Map!Ids \ {i}) = MaxCalls - 1 BY <1>0, FS_RemoveElement
    <3> QED BY <1>0, <2>2, <3>1, CountsAlike
  <2>4. n <= MaxCalls /\ calls' = Map!AllBegun(Map!Ended(i), reqs) BY <1>2, <2>3 DEF Map!Followed
  <2>5. \A j \in Map!Ids : IdleCall(Map!Ended(i)[j]) BY <2>1 DEF Map!Ended, Map!NoCall, Map!None, IdleCall, CallsShape
  <2> QED BY <1>0, <2>4, <2>5, AllPlaced
<1> QED BY <1>1, <1>2

ClientsHold == Auth!CallsAssumption /\ Devices # {} /\ ClientInv /\ ClientRest /\ UNCHANGED inTurn

(* Requests begin, of any user.                                             *)
LEMMA ClientsSend ==
  ASSUME ClientsHold, NEW n \in Nat, NEW reqs, Len(reqs) = n, DOMAIN reqs = 1..n,
         \/ Map!MayClick /\ Map!Sends(reqs)
         \/ \E i \in Map!Ids : calls[i].fn \notin Together \union {Map!None} /\ Map!Followed(i, reqs),
         n < 2 \/ (\A k \in 1..n : reqs[k].fn \in Together),
         \A k \in 1..n : ClientCall(reqs[k]), ClientTypes',
         NEW rs, rs = {reqs[k] : k \in 1..n}, inTurn => ClientTells(rs, page', server')
  PROVE  ClientRest'
<1>0. CallsShape BY DEF ClientsHold, ClientInv, ClientCalls
<1>1. ASSUME inTurn PROVE ClientTurn' BY <1>0, <1>1, RequestsTell DEF ClientsHold, ClientRest, Map!MayClick
<1>2. \A i \in Map!Ids : ClientCall(calls'[i])
  <2>1. CASE Map!Sends(reqs) BY <2>1 DEF ClientsHold, Map!Sends, Map!AllBegun, ClientRest
  <2>2. ASSUME NEW i \in Map!Ids, Map!Followed(i, reqs) PROVE \A j \in Map!Ids : ClientCall(calls'[j])
    <3>1. \A j \in Map!Ids : ClientCall(Map!Ended(i)[j])
      BY <1>0 DEF ClientsHold, ClientRest, CallsShape, Map!Ended, Map!NoCall, Map!None, ClientCall
    <3> QED BY <2>2, <3>1 DEF Map!Followed, Map!AllBegun
  <2> QED BY <2>1, <2>2
<1>3. (\A i \in Map!Ids : ClientCall(calls[i]))' BY <1>2
<1> QED BY <1>1, <1>3 DEF ClientsHold, ClientRest

LEMMA ClientsSendOne ==
  ASSUME ClientsHold, NEW c,
         \/ Map!MayClick /\ Map!Sends(<<c>>)
         \/ \E i \in Map!Ids : calls[i].fn \notin Together \union {Map!None} /\ Map!Followed(i, <<c>>),
         ClientCall(c), ClientTypes', inTurn => ClientTells({c}, page', server')
  PROVE  ClientRest'
<1>1. PICK reqs : reqs = <<c>> OBVIOUS
<1>2. Len(reqs) = 1 /\ DOMAIN reqs = 1..1 /\ (\A k \in 1..1 : reqs[k] = c) /\ {c} = {reqs[k] : k \in 1..1} BY <1>1
<1>3. \/ Map!MayClick /\ Map!Sends(reqs)
      \/ \E i \in Map!Ids : calls[i].fn \notin Together \union {Map!None} /\ Map!Followed(i, reqs)
  BY <1>1, Zenon
<1>4. 1 \in Nat /\ (1 < 2 \/ \A k \in 1..1 : reqs[k].fn \in Together) /\ \A k \in 1..1 : ClientCall(reqs[k]) BY <1>2
<1> QED BY <1>2, <1>3, <1>4, ClientsSend, Zenon

LEMMA ClientsSendNone ==
  ASSUME ClientsHold,
         \/ Map!MayClick /\ (Map!Sends(<<>>) \/ UNCHANGED calls)
         \/ \E i \in Map!Ids : calls[i].fn \notin Together \union {Map!None} /\ Map!Followed(i, <<>>),
         ClientTypes', inTurn => ClientTells({}, page', server')
  PROVE  ClientRest'
<1>0. PICK reqs : reqs = <<>> OBVIOUS
<1>1. /\ Len(reqs) = 0 /\ DOMAIN reqs = 1..0 /\ {} = {reqs[k] : k \in 1..0} /\ 0 < 2 /\ 0 \in Nat
      /\ \A k \in 1..0 : ClientCall(reqs[k])
  BY <1>0
<1>2. CASE Map!MayClick /\ UNCHANGED calls
  <2>1. ASSUME inTurn PROVE ClientTurn'
    BY <1>2, <2>1, QuietTells, IdleTellsNothing DEF ClientsHold, Map!MayClick, ClientRest, ClientTurn, OneOrTogether
  <2> QED BY <1>2, <2>1 DEF ClientsHold, ClientRest, ClientCall
<1>3. CASE ~(Map!MayClick /\ UNCHANGED calls)
  <2>1. \/ Map!MayClick /\ Map!Sends(reqs)
        \/ \E i \in Map!Ids : calls[i].fn \notin Together \union {Map!None} /\ Map!Followed(i, reqs)
    BY <1>0, <1>3, Zenon
  <2> QED BY <1>1, <2>1, ClientsSend, Zenon
<1> QED BY <1>2, <1>3

(* A click sends one request, or none.                                      *)
LEMMA ClientsAsk ==
  ASSUME ClientsHold, Map!MayClick, NEW c, Map!Sends(<<c>>), ClientCall(c), ClientTypes',
         inTurn /\ ClientTells({}, page, server) => ClientTells({c}, page', server')
  PROVE  ClientRest'
BY ClientsSendOne, QuietTells DEF ClientsHold, ClientRest, Map!MayClick

LEMMA ClientsStand ==
  ASSUME ClientsHold, Map!MayClick, Map!Sends(<<>>) \/ UNCHANGED calls, ClientTypes',
         inTurn /\ ClientTells({}, page, server) => ClientTells({}, page', server')
  PROVE  ClientRest'
BY ClientsSendNone, QuietTells DEF ClientsHold, ClientRest, Map!MayClick

(* What the user does.                                                      *)
LEMMA StandingRest ==
  ASSUME ClientsHold,
         \/ \E d \in Devices : Map!TickMac(d) \/ Map!TickArp(d)
         \/ (\E n \in Days : Map!EditRetention(n)) \/ Map!closeMacLocateModal
  PROVE  ClientRest'
<1>1. Map!MayClick /\ UNCHANGED calls BY DEF Map!TickMac, Map!TickArp, Map!EditRetention, Map!closeMacLocateModal, Map!On
<1>2. ClientTypes' /\ (ClientTells({}, page, server) => ClientTells({}, page', server'))
  BY DEF ClientsHold, ClientRest, ClientTypes, TableChooses, ClientInv, ClientPage, ClientShape, TableFields, ClientTells,
     MacShown, ArpShown, PortsShown, ReportTells, ScansShown, Reads, Changed, MacRows, ArpRows, Map!TickMac, Map!TickArp,
     Map!EditRetention, Map!closeMacLocateModal, Map!Toggled, Map!Clicked
<1> QED BY <1>1, <1>2, ClientsStand

LEMMA AskingRest ==
  ASSUME ClientsHold,
         \/ \E d \in Devices : Map!macLocate(d) \/ Map!saveMacOverride(d) \/ Map!removeMacOverride(d)
         \/ Map!saveMacRetention \/ Map!endpointsApplyFilters
  PROVE  ClientRest'
<1>1. PICK c : /\ c.fn \in {"locate", "saveOverride", "removeOverride", "retention", "inventory"} /\ c.at = "sent" /\ c.got = <<>>
               /\ Map!Sends(<<c>>) /\ Map!MayClick /\ UNCHANGED page /\ Map!Clicked
  <2> DEFINE Asked(c) == Map!Sends(<<c>>) /\ Map!MayClick /\ UNCHANGED page /\ Map!Clicked
  <2>1. \E arg : \/ Asked(Map!Asks("locate", arg)) \/ Asked(Map!Asks("saveOverride", arg))
                 \/ Asked(Map!Asks("removeOverride", arg)) \/ Asked(Map!Asks("retention", arg))
                 \/ Asked(Map!Asks("inventory", arg))
    BY Zenon DEF Map!macLocate, Map!saveMacOverride, Map!removeMacOverride, Map!saveMacRetention, Map!endpointsApplyFilters,
       Map!ReadInventory, Map!On
  <2> HIDE DEF Asked
  <2>2. \E c : c.fn \in {"locate", "saveOverride", "removeOverride", "retention", "inventory"} /\ c.at = "sent" /\ c.got = <<>>
               /\ Asked(c)
    BY <2>1 DEF Map!Asks
  <2> QED BY <2>2, Zenon DEF Asked
<1>2. ClientCall(c) /\ ClientTypes' /\ (ClientTells({}, page, server) => ClientTells({c}, page', server'))
  BY <1>1 DEF ClientsHold, ClientRest, ClientTypes, ClientCall, Map!Clicked, ClientTells, ClientTold, MacShown, ArpShown,
     PortsShown, ScansShown, Reads, Changed, MacRows, ArpRows
<1> QED BY <1>1, <1>2, ClientsAsk

LEMMA FilteringRest ==
  ASSUME ClientsHold, NEW d \in Devices \union {Map!None}, Map!FilterMac(d) \/ Map!FilterArp(d)
  PROVE  ClientRest'
<1> USE DEF ClientsHold, ClientRest, ClientTypes, ClientInv, ClientPage, ClientShape, TableFields, Map!FilterMac, Map!Clicked,
    Map!Asks, Map!FilterArp
<1>1. PICK c \in {Map!SearchMac(page'), Map!SearchArp(page')} :
        /\ Map!MayClick /\ Map!Sends(<<c>>)
        /\ ClientTells({}, page, server) => ClientTells({c}, page', server')
  <2>1. CASE Map!FilterMac(d)
    <3>1. ClientTells({}, page, server) => ClientTells({Map!SearchMac(page')}, page', server')
      BY <2>1 DEF ClientTells, ClientTold, MacShown, ArpShown, PortsShown, ReportTells, ScansShown, Reads, Changed, MacRows,
         ArpRows, Map!SearchMac
    <3> QED BY <2>1, <3>1, Zenon DEF Map!On
  <2>2. CASE Map!FilterArp(d)
    <3>1. ClientTells({}, page, server) => ClientTells({Map!SearchArp(page')}, page', server')
      BY <2>2 DEF ClientTells, ClientTold, MacShown, ArpShown, PortsShown, ReportTells, ScansShown, Reads, Changed, MacRows,
         ArpRows, Map!SearchArp
    <3> QED BY <2>2, <3>1, Zenon DEF Map!On
  <2> QED BY <2>1, <2>2
<1>2. ClientTypes' /\ ClientCall(c) BY <1>1 DEF TableChooses, ClientCall, Map!SearchMac, Map!SearchArp
<1> QED BY <1>1, <1>2, ClientsAsk

LEMMA ScanningRest ==
  ASSUME ClientsHold, Map!runMacScan \/ Map!runArpScan
  PROVE  ClientRest'
<1>1. PICK k, c :
        /\ k \in {"mac", "arp"} /\ c.fn = (IF k = "mac" THEN "macScan" ELSE "arpScan")
        /\ c.at = "sent" /\ c.got = <<>> /\ Map!MayClick /\ Map!Sends(<<c>>) /\ Map!Clicked
        /\ page' = [page EXCEPT !.scanning = @ \union {k}]
  <2> DEFINE Scanned(k, c) ==
        Map!MayClick /\ Map!Sends(<<c>>) /\ Map!Clicked /\ page' = [page EXCEPT !.scanning = @ \union {k}]
  <2>1. \/ \E arg : Scanned("mac", Map!Asks("macScan", arg))
        \/ \E arg : Scanned("arp", Map!Asks("arpScan", arg))
    BY Zenon DEF Map!runMacScan, Map!runArpScan, Map!On
  <2> HIDE DEF Scanned
  <2>2. \E k, c : /\ k \in {"mac", "arp"} /\ c.fn = (IF k = "mac" THEN "macScan" ELSE "arpScan")
                  /\ c.at = "sent" /\ c.got = <<>> /\ Scanned(k, c)
    BY <2>1 DEF Map!Asks
  <2> QED BY <2>2, Zenon DEF Scanned
<1>2. ClientCall(c) /\ ClientTypes' /\ (ClientTells({}, page, server) => ClientTells({c}, page', server'))
  BY <1>1 DEF ClientsHold, ClientRest, ClientTypes, ClientInv, ClientPage, ClientShape, ClientCall, ClientTells, ClientTold,
     MacShown, ArpShown, PortsShown, ReportTells, ScansShown, Reads, Changed, MacRows, ArpRows, Map!Clicked
<1> QED BY <1>1, <1>2, ClientsAsk

LEMMA WifiRest == ASSUME ClientsHold, Map!diagnoseWifi PROVE ClientRest'
<1> DEFINE c == Map!Asks("wifi", [mac |-> page.diagMac, in |-> page.report.of])
<1>1. Map!MayClick /\ Map!Sends(<<c>>) BY Zenon DEF Map!diagnoseWifi, Map!On
<1>2. ClientCall(c) /\ ClientTypes' /\ (ClientTells({}, page, server) => ClientTells({c}, page', server'))
  BY DEF ClientsHold, ClientRest, ClientTypes, TableChooses, ClientInv, ClientPage, ClientShape, TableFields, ClientCall,
     ClientTells, ClientTold, MacShown, ArpShown, PortsShown, ReportTells, ScansShown, Reads, Changed, MacRows, ArpRows,
     Map!diagnoseWifi, Map!Clicked, Map!Asks
<1> QED BY <1>1, <1>2, ClientsAsk

LEMMA DiagnosingRest ==
  ASSUME ClientsHold, NEW d \in Clients, Map!runDiagnosi(d) \/ Map!diagnoseClientInTab(d)
  PROVE  ClientRest'
<1> DEFINE c == Map!Asks("diagnose", d)
<1>1. Map!MayClick /\ Map!Sends(<<c>>) BY Zenon DEF Map!runDiagnosi, Map!diagnoseClientInTab, Map!Diagnoses, Map!On
<1>2. ClientCall(c) BY DEF ClientCall, Map!Asks
<1>3. ClientTypes' /\ (ClientTells({}, page, server) => ClientTells({c}, page', server'))
  <2> USE DEF ClientsHold, ClientRest, ClientTypes, TableChooses, ClientInv, ClientPage, ClientShape, TableFields, ClientTells,
      ClientTold, MacShown, ArpShown, PortsShown, ReportTells, ScansShown, Reads, Changed, MacRows, ArpRows, Map!Diagnoses,
      Map!NoReport, Map!Clicked, Map!Panes
  <2>1. CASE Map!runDiagnosi(d)
    <3>1. ClientTypes' BY <2>1 DEF Map!runDiagnosi
    <3>2. ClientTells({}, page, server) => ClientTells({c}, page', server') BY <2>1 DEF Map!runDiagnosi, Map!Asks
    <3> QED BY <3>1, <3>2
  <2>2. CASE Map!diagnoseClientInTab(d)
    <3>1. ClientTypes' BY <2>2 DEF Map!diagnoseClientInTab
    <3>2. ClientTells({}, page, server) => ClientTells({c}, page', server') BY <2>2 DEF Map!diagnoseClientInTab, Map!Asks
    <3> QED BY <3>1, <3>2
  <2> HIDE DEF ClientTypes, ClientTells
  <2> QED BY <2>1, <2>2
<1> QED BY <1>1, <1>2, <1>3, ClientsAsk

LEMMA SomeDevice ==
  ASSUME Devices # {}, NEW t \in Map!Tenants, NEW d
  PROVE  Map!OrFirst(d, Map!Of(t)) \in Map!Of(t) /\ Map!Of(t) \subseteq Devices
<1>1. Map!Of(t) # {} BY DEF Map!Tenants, Map!Of
<1> QED BY <1>1 DEF Map!OrFirst, Map!Of

LEMMA PortsRest == ASSUME ClientsHold, NEW m, Map!endpointsMode(m) PROVE ClientRest'
<1>1. PICK c : /\ Map!MayClick /\ Map!Sends(<<c>>) /\ Map!Clicked
               /\ c.fn \in {"ports", "inventory"} /\ c.at = "sent" /\ c.got = <<>>
               /\ page' = (IF m = "ports" THEN Map!ShowPorts(page) ELSE [page EXCEPT !.mode = m])
  <2>1. CASE m = "ports"
    <3>1. Map!Sends(<<Map!Asks("ports", page'.picker)>>) /\ page' = Map!ShowPorts(page) BY <2>1 DEF Map!endpointsMode
    <3>2. Map!MayClick /\ Map!Clicked BY Zenon DEF Map!endpointsMode, Map!On
    <3> QED BY <2>1, <3>1, <3>2 DEF Map!Asks
  <2>2. CASE m # "ports"
    <3>1. Map!Sends(<<Map!ReadInventory(FALSE)>>) /\ page' = [page EXCEPT !.mode = m] BY <2>2, Zenon DEF Map!endpointsMode
    <3>2. Map!MayClick /\ Map!Clicked BY Zenon DEF Map!endpointsMode, Map!On
    <3> QED BY <2>2, <3>1, <3>2 DEF Map!ReadInventory, Map!Asks
  <2> QED BY <2>1, <2>2
<1>2. Map!OrFirst(page.picker, Map!Of(page.tenant)) \in Map!Of(page.tenant) /\ Map!Of(page.tenant) \subseteq Devices
  BY SomeDevice DEF ClientsHold, ClientRest, ClientTypes
<1>3. ClientCall(c) /\ ClientTypes'
  BY <1>1, <1>2 DEF ClientsHold, ClientRest, ClientTypes, TableChooses, ClientInv, ClientPage, ClientShape, ClientCall,
     Map!Clicked, Map!ShowPorts
<1>4. ClientTells({}, page, server) => ClientTells({c}, page', server')
  BY <1>1, <1>2 DEF ClientsHold, ClientRest, ClientTypes, ClientInv, ClientPage, ClientShape, ClientTells, ClientTold, MacShown,
     ArpShown, PortsShown, ReportTells, ScansShown, Reads, Changed, MacRows, ArpRows, Map!Clicked, Map!ShowPorts
<1> QED BY <1>1, <1>3, <1>4, ClientsAsk

(* A pane is loaded, for the tenant t.                                      *)
LEMMA LoadingRest ==
  ASSUME ClientsHold, Map!MayClick, Map!Clicked, NEW v \in Map!Panes, NEW t \in Map!Tenants,
         NEW ls, OnlyLoads(ls, v, t), NEW q, q = [page EXCEPT !.view = v, !.tenant = t, !.loaded = ls],
         page' = Map!Filled(q, v), Map!Sends(Map!LoadRequests(page', v))
  PROVE  ClientRest'
<1>1. ClientTypes'
  BY DEF ClientsHold, ClientRest, ClientTypes, TableChooses, ClientInv, ClientPage, ClientShape, TableFields, Map!Clicked,
     Map!Filled, Map!Offered, Map!Kept
<1>2. /\ page'.loaded = ls /\ page'.tenant = t /\ (v = "mac" \/ page'.mac = page.mac) /\ (v = "clientmap" \/ page'.arp = page.arp)
      /\ page'.report = page.report /\ page'.diagMac = page.diagMac /\ page'.scanning = page.scanning /\ page'.ovs = page.ovs
      /\ page'.kept = page.kept /\ page'.mode = page.mode /\ page'.picker = page.picker
  BY DEF ClientInv, ClientPage, ClientShape, Map!Filled
<1>3. server'.seen = server.seen /\ server'.bound = server.bound /\ server'.ovs = server.ovs /\ server'.days = server.days
  BY DEF ClientRest, ClientTypes, Map!Clicked
<1>4. \A w \in Map!Panes : ls[w] => w = v \/ (page.loaded[w] /\ t = page.tenant) BY DEF OnlyLoads
<1>5. ASSUME NEW cs, \A c \in cs : ClientTold(c, page', server'),
             v = "mac" => Reads(cs, "macSearch") /\ Reads(cs, "overrides") /\ Reads(cs, "stats"),
             v = "clientmap" => Reads(cs, "arpSearch"), v = "inventory" => \E c \in cs : c.fn = "inventory" /\ c.arg
      PROVE  ClientTells({}, page, server) => ClientTells(cs, page', server')
  <2> SUFFICES ASSUME ClientTells({}, page, server) PROVE ClientTells(cs, page', server') OBVIOUS
  <2>1. MacShown(cs, page', server') BY <1>2, <1>3, <1>4, <1>5 DEF ClientTells, MacShown, Reads, Changed, MacRows, Map!Panes
  <2>2. ArpShown(cs, page', server') BY <1>2, <1>3, <1>4, <1>5 DEF ClientTells, ArpShown, Reads, Changed, ArpRows, Map!Panes
  <2>3. PortsShown(cs, page') BY <1>2, <1>4, <1>5 DEF ClientTells, PortsShown, Map!Panes
  <2>4. ReportTells(page') /\ ScansShown(cs, page') BY <1>2 DEF ClientTells, ReportTells, ScansShown, Reads
  <2> QED BY <1>5, <2>1, <2>2, <2>3, <2>4 DEF ClientTells
<1>6. CASE v = "mac"
  <2>1. PICK a, b, c : a = Map!ReadOverrides /\ b = Map!ReadStats(TRUE) /\ c = Map!SearchMac(page') OBVIOUS
  <2>2. PICK reqs : reqs = <<a, b, c>> OBVIOUS
  <2>3. Map!Sends(reqs) /\ Len(reqs) = 3 /\ 3 \in Nat /\ DOMAIN reqs = 1..3 /\ {a, b, c} = {reqs[k] : k \in 1..3}
    <3>1. Map!Sends(reqs) BY <1>6, <2>1, <2>2, Zenon DEF Map!LoadRequests
    <3> QED BY <2>2, <3>1
  <2>4. /\ a = [fn |-> "overrides", at |-> "sent", arg |-> "none", got |-> <<>>]
        /\ b = [fn |-> "stats", at |-> "sent", arg |-> TRUE, got |-> <<>>]
        /\ c = [fn |-> "macSearch", at |-> "sent", arg |-> [at |-> page'.mac.at], got |-> <<>>]
    BY <2>1 DEF Map!ReadOverrides, Map!ReadStats, Map!SearchMac, Map!Asks, Map!None
  <2>5. (\A k \in 1..3 : reqs[k].fn \in Together) /\ \A k \in 1..3 : ClientCall(reqs[k]) BY <2>2, <2>4 DEF Together, ClientCall
  <2>6. ClientTells({}, page, server) => ClientTells({a, b, c}, page', server') BY <1>5, <1>6, <2>4 DEF ClientTold, Reads
  <2>7. inTurn => ClientTells({}, page, server) BY QuietTells DEF ClientsHold, ClientRest, Map!MayClick
  <2> QED BY <1>1, <2>3, <2>5, <2>6, <2>7, ClientsSend, Zenon
<1>7. CASE v = "clientmap"
  <2> DEFINE c == Map!SearchArp(page')
  <2>1. Map!Sends(<<c>>) BY <1>7, Zenon DEF Map!LoadRequests
  <2>2. ClientCall(c) /\ ClientTold(c, page', server') /\ Reads({c}, "arpSearch")
    BY DEF ClientCall, ClientTold, Reads, Map!SearchArp, Map!Asks
  <2> QED BY <1>1, <1>5, <1>7, <2>1, <2>2, ClientsAsk
<1>8. CASE v = "inventory"
  <2> DEFINE c == Map!ReadInventory(TRUE)
  <2>1. Map!Sends(<<c>>) BY <1>8, Zenon DEF Map!LoadRequests
  <2>2. ClientCall(c) /\ ClientTold(c, page', server') /\ c.fn = "inventory" /\ c.arg
    BY DEF ClientCall, ClientTold, Map!ReadInventory, Map!Asks
  <2> QED BY <1>1, <1>5, <1>8, <2>1, <2>2, ClientsAsk
<1>9. CASE v \notin {"mac", "clientmap", "inventory"}
  <2>1. Map!Sends(<<>>) BY <1>9 DEF Map!LoadRequests
  <2> QED BY <1>1, <1>5, <1>9, <2>1, ClientsStand
<1> QED BY <1>6, <1>7, <1>8, <1>9

LEMMA SwitchingRest == ASSUME ClientsHold, NEW v \in Map!Panes, Map!locSwitchView(v) PROVE ClientRest'
<1> USE DEF Map!locSwitchView, ClientsHold, ClientInv, ClientPage, ClientShape
<1>1. Map!MayClick /\ Map!Clicked BY Zenon
<1>2. CASE page.loaded[v]
  <2>1. page' = [page EXCEPT !.view = v] /\ Map!Sends(<<>>) BY <1>2
  <2>2. ClientTypes' /\ (ClientTells({}, page, server) => ClientTells({}, page', server'))
    BY <1>1, <2>1 DEF ClientRest, ClientTypes, Map!Clicked, ClientTells, MacShown, ArpShown, PortsShown, ReportTells, ScansShown,
       Reads, Changed, MacRows, ArpRows
  <2> QED BY <1>1, <2>1, <2>2, ClientsStand
<1>3. CASE ~page.loaded[v]
  <2>1. PICK ls : ls = [page.loaded EXCEPT ![v] = TRUE] OBVIOUS
  <2>2. PICK q : q = [page EXCEPT !.view = v, !.tenant = page.tenant, !.loaded = ls] OBVIOUS
  <2>3. [[page EXCEPT !.view = v] EXCEPT !.loaded[v] = TRUE] = q BY <2>1, <2>2
  <2>4. page' = Map!Filled(q, v) /\ Map!Sends(Map!LoadRequests(page', v)) BY <1>3, <2>3
  <2>5. OnlyLoads(ls, v, page.tenant) /\ page.tenant \in Map!Tenants BY <2>1 DEF OnlyLoads, ClientRest, ClientTypes
  <2> QED BY <1>1, <2>2, <2>4, <2>5, LoadingRest, Zenon
<1> QED BY <1>2, <1>3

LEMMA ChoosingRest == ASSUME ClientsHold, NEW t \in Map!Tenants, Map!locTenantChanged(t) PROVE ClientRest'
<1>1. PICK ls : ls = [w \in Map!Panes |-> w = page.view] OBVIOUS
<1>2. PICK q : q = [page EXCEPT !.view = page.view, !.tenant = t, !.loaded = ls] OBVIOUS
<1>3. q = [page EXCEPT !.tenant = t, !.loaded = ls] BY <1>2 DEF ClientInv, ClientPage, ClientShape
<1>4. page' = Map!Filled(q, page.view) /\ Map!Sends(Map!LoadRequests(page', page.view)) BY <1>1, <1>3 DEF Map!locTenantChanged
<1>5. Map!MayClick /\ Map!Clicked BY Zenon DEF Map!locTenantChanged
<1>6. page.view \in Map!Panes /\ OnlyLoads(ls, page.view, t) BY <1>1 DEF ClientsHold, ClientInv, ClientPage, ClientShape, OnlyLoads
<1> QED BY <1>2, <1>4, <1>5, <1>6, LoadingRest, Zenon

(* What comes back, and what the server does.                               *)
LEMMA ClientsGoOn ==
  ASSUME ClientsHold, NEW i \in Map!Ids, NEW c, calls' = [calls EXCEPT ![i] = c], ClientCall(c), ClientTypes',
         c.fn = calls[i].fn \/ IdleCall(c),
         inTurn => calls[i].fn \notin Together \union {Map!None} /\ ClientTells({c}, page', server')
  PROVE  ClientRest'
<1>0. CallsShape BY DEF ClientsHold, ClientInv, ClientCalls
<1>1. DOMAIN calls' = Map!Ids /\ calls'[i] = c /\ \A j \in Map!Ids \ {i} : calls'[j] = calls[j] BY <1>0 DEF CallsShape
<1>2. ASSUME inTurn PROVE ClientTurn'
  <2>1. \A j \in Map!Ids \ {i} : IdleCall(calls[j]) BY <1>0, <1>2, AloneTells DEF ClientsHold, ClientRest
  <2>2. ClientTells({calls'[j] : j \in Map!Ids}, page', server') BY <1>1, <1>2, <2>1, IdleTellsNothing
  <2>3. OneOrTogether' BY <1>1, <2>1 DEF OneOrTogether, IdleCall
  <2> QED BY <2>2, <2>3 DEF ClientTurn
<1>3. (\A j \in Map!Ids : ClientCall(calls[j]))' BY <1>1 DEF ClientsHold, ClientRest, ClientCall
<1> QED BY <1>2, <1>3 DEF ClientsHold, ClientRest

(* A call that may be together with others is answered, or ends.            *)
LEMMA TogetherGoOn ==
  ASSUME ClientsHold, inTurn, NEW i \in Map!Ids, NEW c, calls' = [calls EXCEPT ![i] = c], calls[i].fn \in Together,
         c.fn = calls[i].fn \/ IdleCall(c), ClientTold(c, page', server'), UNCHANGED server,
         page'.mac.at = page.mac.at, page'.arp = page.arp, page'.tenant = page.tenant, page'.client = page.client,
         page'.report = page.report, page'.diagMac = page.diagMac, page'.loaded = page.loaded, page'.mode = page.mode,
         page'.picker = page.picker, page'.scanning = page.scanning,
         page'.mac.rows = page.mac.rows \/ page'.mac.rows = MacRows(page, server),
         page'.ovs = page.ovs \/ page'.ovs = server.ovs, page'.kept = page.kept \/ page'.kept = server.days,
         c.fn = Map!None => \/ calls[i].fn = "macSearch" /\ page'.mac.rows = MacRows(page, server)
                            \/ calls[i].fn = "overrides" /\ page'.ovs = server.ovs
                            \/ calls[i].fn = "stats" /\ page'.kept = server.days
  PROVE  ClientTurn'
<1>0. CallsShape /\ ClientTurn BY DEF ClientsHold, ClientInv, ClientCalls, ClientRest
<1>1. DOMAIN calls' = Map!Ids /\ calls'[i] = c /\ \A j \in Map!Ids \ {i} : calls'[j] = calls[j] BY <1>0 DEF CallsShape
<1> DEFINE cs == {calls[j] : j \in Map!Ids}
           ds == {calls'[j] : j \in Map!Ids}
<1>2. \A fn : Reads(cs, fn) => fn = calls[i].fn \/ Reads(ds, fn) BY <1>1 DEF Reads
<1>3. \A fn : Reads(cs, fn) /\ c.fn = calls[i].fn => Reads(ds, fn) BY <1>1 DEF Reads
<1>4. \A fns : calls[i].fn \notin fns /\ Changed(cs, fns) => Changed(ds, fns) BY <1>1 DEF Changed
<1>5. calls[i].fn # "inventory" /\ c.fn # "inventory" BY DEF Together, IdleCall, Map!None
<1>6. ClientTells(cs, page, server) BY <1>0 DEF ClientTurn
<1>7. \A d \in ds : ClientTold(d, page', server')
  <2>1. \A d \in cs : ClientTold(d, page', server') BY <1>6 DEF ClientTells, ClientTold, MacRows, ArpRows
  <2> QED BY <1>1, <2>1
<1>8. PortsShown(ds, page') BY <1>1, <1>5, <1>6 DEF ClientTells, PortsShown
<1> HIDE DEF cs, ds
<1>9. MacShown(ds, page', server') BY <1>2, <1>3, <1>4, <1>6 DEF ClientTells, MacShown, MacRows, Together, IdleCall
<1>10. ArpShown(ds, page', server') /\ ReportTells(page') /\ ScansShown(ds, page')
  BY <1>2, <1>4, <1>6 DEF ClientTells, ArpShown, ReportTells, ScansShown, ArpRows, Together
<1>11. OneOrTogether' BY <1>0, <1>1 DEF ClientTurn, OneOrTogether, IdleCall
<1> QED BY <1>7, <1>8, <1>9, <1>10, <1>11 DEF ClientTurn, ClientTells, cs, ds

LEMMA ScannedRest == ASSUME ClientsHold, NEW i \in Map!Ids, Map!MacScanned(i) \/ Map!ArpScanned(i) PROVE ClientRest'
<1>0. CallsShape BY DEF ClientsHold, ClientInv, ClientCalls
<1>1. ClientTypes' /\ calls[i].fn \notin Together \union {Map!None}
  BY DEF ClientsHold, ClientRest, ClientTypes, TableChooses, ClientInv, ClientPage, ClientShape, Together, Map!MacScanned,
     Map!ArpScanned, Map!Back, Map!None
<1>2. inTurn => ClientTells({calls[i]}, page, server) BY <1>0, <1>1, AloneTells DEF ClientsHold, ClientRest
<1>3. ASSUME NEW cs, \A c \in cs : ClientTold(c, page', server'),
             Map!Answered(i) => IF Map!MacScanned(i) THEN Reads(cs, "macSearch") ELSE Reads(cs, "arpSearch"),
             ClientTells({calls[i]}, page, server)
      PROVE  ClientTells(cs, page', server')
  BY <1>3 DEF ClientsHold, ClientInv, ClientPage, ClientShape, ClientTells, MacShown, ArpShown, PortsShown, ReportTells,
     ScansShown, Reads, Changed, MacRows, ArpRows, Map!MacScanned, Map!ArpScanned, Map!Back, Map!Answered
<1>4. CASE ~Map!Answered(i)
  <2>1. Map!Followed(i, <<>>) BY <1>4 DEF Map!MacScanned, Map!ArpScanned
  <2>2. inTurn => ClientTells({}, page', server') BY <1>2, <1>3, <1>4
  <2> QED BY <1>1, <2>1, <2>2, ClientsSendNone
<1>5. CASE Map!Answered(i) /\ Map!MacScanned(i)
  <2>1. PICK b, c : b = Map!SearchMac(page) /\ c = Map!ReadStats(FALSE) OBVIOUS
  <2>2. PICK reqs : reqs = <<b, c>> OBVIOUS
  <2>3. Map!Followed(i, reqs) BY <1>5, <2>1, <2>2, Zenon DEF Map!MacScanned
  <2>4. Len(reqs) = 2 /\ 2 \in Nat /\ DOMAIN reqs = 1..2 /\ {b, c} = {reqs[k] : k \in 1..2} BY <2>2
  <2>5. page'.mac = page.mac BY <1>5 DEF ClientsHold, ClientInv, ClientPage, ClientShape, Map!MacScanned
  <2>6. /\ b = [fn |-> "macSearch", at |-> "sent", arg |-> [at |-> page'.mac.at], got |-> <<>>]
        /\ c = [fn |-> "stats", at |-> "sent", arg |-> FALSE, got |-> <<>>]
    BY <2>1, <2>5 DEF Map!ReadStats, Map!SearchMac, Map!Asks
  <2>7. (\A k \in 1..2 : reqs[k].fn \in Together) /\ \A k \in 1..2 : ClientCall(reqs[k]) BY <2>2, <2>6 DEF Together, ClientCall
  <2>8. ClientTold(b, page', server') /\ ClientTold(c, page', server') /\ Reads({b, c}, "macSearch") BY <2>6 DEF ClientTold, Reads
  <2>9. inTurn => ClientTells({b, c}, page', server') BY <1>2, <1>3, <1>5, <2>8
  <2> QED BY <1>1, <2>3, <2>4, <2>7, <2>9, ClientsSend, Zenon
<1>6. CASE Map!Answered(i) /\ Map!ArpScanned(i)
  <2> DEFINE c == Map!SearchArp(page)
  <2>1. Map!Followed(i, <<c>>) /\ ~Map!MacScanned(i) BY <1>6 DEF Map!MacScanned, Map!ArpScanned, Map!Back
  <2>2. page'.arp = page.arp /\ page'.tenant = page.tenant
    BY <1>6 DEF ClientsHold, ClientInv, ClientPage, ClientShape, Map!ArpScanned
  <2>3. ClientCall(c) /\ ClientTold(c, page', server') /\ Reads({c}, "arpSearch")
    BY <2>2 DEF ClientCall, ClientTold, Reads, Map!SearchArp, Map!Asks
  <2>4. inTurn => ClientTells({c}, page', server') BY <1>2, <1>3, <1>6, <2>1, <2>3
  <2> QED BY <1>1, <2>1, <2>3, <2>4, ClientsSendOne
<1> QED BY <1>4, <1>5, <1>6

LEMMA ChangedRest == ASSUME ClientsHold, NEW i \in Map!Ids, Map!OverrideChanged(i) \/ Map!RetentionSaved(i) PROVE ClientRest'
<1> USE DEF ClientsHold, Map!OverrideChanged, Map!RetentionSaved, Map!Back
<1>0. CallsShape BY DEF ClientInv, ClientCalls
<1>1. ClientTypes' /\ calls[i].fn \notin Together \union {Map!None} BY DEF ClientRest, ClientTypes, TableChooses, Together, Map!None
<1>2. inTurn => ClientTells({calls[i]}, page, server) BY <1>0, <1>1, AloneTells DEF ClientRest
<1>3. CASE ~Map!Answered(i)
  <2>1. Map!Followed(i, <<>>) BY <1>3
  <2>2. inTurn => ClientTells({}, page', server')
    BY <1>2, <1>3 DEF ClientTells, MacShown, ArpShown, PortsShown, ScansShown, Reads, Changed, MacRows, ArpRows, ReportTells,
       Map!Answered
  <2> QED BY <1>1, <2>1, <2>2, ClientsSendNone
<1>4. CASE Map!Answered(i)
  <2>1. PICK c : /\ Map!Followed(i, <<c>>) /\ c.at = "sent" /\ c.got = <<>>
                 /\ c.fn = (IF Map!OverrideChanged(i) THEN "overrides" ELSE "stats")
    <3>1. CASE Map!OverrideChanged(i)
      <4>1. Map!Followed(i, <<Map!ReadOverrides>>) BY <1>4, <3>1, Zenon
      <4> QED BY <3>1, <4>1 DEF Map!ReadOverrides, Map!Asks
    <3>2. CASE Map!RetentionSaved(i) /\ ~Map!OverrideChanged(i)
      <4>1. Map!Followed(i, <<Map!ReadStats(FALSE)>>) BY <1>4, <3>2, Zenon
      <4> QED BY <3>2, <4>1 DEF Map!ReadStats, Map!Asks
    <3> QED BY <3>1, <3>2
  <2>2. ClientCall(c) /\ (inTurn => ClientTells({c}, page', server'))
    BY <1>2, <2>1 DEF ClientCall, ClientTells, ClientTold, MacShown, ArpShown, PortsShown, ScansShown, Reads, Changed, MacRows,
       ArpRows, ReportTells
  <2> QED BY <1>1, <2>1, <2>2, ClientsSendOne
<1> QED BY <1>3, <1>4

LEMMA NothingIsIdle == IdleCall(Map!NoCall) /\ ClientCall(Map!NoCall) /\ \A p, s : ClientTold(Map!NoCall, p, s)
BY DEF IdleCall, ClientCall, ClientTold, Map!NoCall, Map!None

LEMMA ClientsEnd ==
  ASSUME ClientsHold, NEW i \in Map!Ids, Map!Ends(i), ClientTypes', calls[i].fn \notin Together \union {Map!None},
         inTurn /\ ClientTells({calls[i]}, page, server) => ClientTells({}, page', server')
  PROVE  ClientRest'
<1>1. inTurn => ClientTells({}, page', server') BY AloneTells DEF ClientsHold, ClientRest, ClientInv, ClientCalls
<1>2. inTurn => ClientTells({Map!NoCall}, page', server') BY <1>1, NothingIsIdle, IdleTellsNothing
<1> QED BY <1>2, NothingIsIdle, ClientsGoOn DEF Map!Ends, Map!Ended

LEMMA InventoryRest == ASSUME ClientsHold, NEW i \in Map!Ids, Map!InventoryRead(i) PROVE ClientRest'
<1> USE DEF ClientsHold, ClientInv, Map!InventoryRead, ClientRest, ClientTypes
<1>0. CallsShape BY DEF ClientCalls
<1>1. calls[i].fn = "inventory" /\ calls[i].fn \notin Together \union {Map!None} BY DEF Together, Map!Back, Map!None
<1>2. inTurn => ClientTells({calls[i]}, page, server) BY <1>0, <1>1, AloneTells
<1>3. CASE calls[i].arg /\ page.mode = "ports"
  <2> DEFINE c == Map!Asks("ports", page'.picker)
  <2>1. page' = Map!ShowPorts(page) /\ Map!Followed(i, <<c>>) /\ UNCHANGED server BY <1>3
  <2>2. Map!OrFirst(page.picker, Map!Of(page.tenant)) \in Map!Of(page.tenant) /\ Map!Of(page.tenant) \subseteq Devices BY SomeDevice
  <2>3. ClientTypes' /\ ClientCall(c) BY <2>1, <2>2 DEF TableChooses, ClientPage, ClientShape, ClientCall, Map!ShowPorts, Map!Asks
  <2>4. inTurn => ClientTells({c}, page', server')
    BY <1>1, <1>2, <2>1, <2>2 DEF ClientPage, ClientShape, ClientTells, ClientTold, MacShown, ArpShown, PortsShown, ReportTells,
       ScansShown, Reads, Changed, MacRows, ArpRows, Map!ShowPorts, Map!Asks
  <2> QED BY <1>1, <2>1, <2>3, <2>4, ClientsSendOne
<1>4. CASE ~(calls[i].arg /\ page.mode = "ports")
  <2>1. UNCHANGED <<page, server>> /\ Map!Ends(i) BY <1>4
  <2>2. ClientTypes' /\ (ClientTells({calls[i]}, page, server) => ClientTells({}, page', server'))
    BY <1>1, <1>4, <2>1 DEF ClientTells, MacShown, ArpShown, PortsShown, ReportTells, ScansShown, Reads, Changed, MacRows, ArpRows
  <2> QED BY <1>1, <2>1, <2>2, ClientsEnd
<1> QED BY <1>3, <1>4

LEMMA DrawingRest ==
  ASSUME ClientsHold, NEW i \in Map!Ids,
         \/ Map!renderArpResults(i) \/ Map!Located(i) \/ Map!renderDiagnosi(i) \/ Map!WifiDiagnosed(i)
         \/ Map!PortsRead(i)
  PROVE  ClientRest'
<1> USE DEF Map!renderArpResults, Map!Located, Map!renderDiagnosi, Map!WifiDiagnosed, Map!PortsRead
<1>1. Map!Ends(i) /\ calls[i].fn \notin Together \union {Map!None} BY DEF Together, Map!Back, Map!None
<1>2. ClientTypes' /\ (ClientTells({calls[i]}, page, server) => ClientTells({}, page', server'))
  <2> USE DEF ClientsHold, ClientRest, ClientTypes, ClientInv, ClientPage, ClientShape, TableFields, Map!NoReport, Map!Back,
      Map!Answered, Map!Answer, TableChooses, ClientCall, ClientTells, ClientTold, MacShown, ArpShown, PortsShown, ReportTells,
      ScansShown, Reads, Changed, MacRows, ArpRows, Map!DiagMac
  <2>1. CASE Map!renderArpResults(i)
    <3>1. ClientTypes' BY <2>1
    <3>2. ClientTells({calls[i]}, page, server) => ClientTells({}, page', server') BY <2>1
    <3> QED BY <3>1, <3>2
  <2>2. CASE Map!Located(i)
    <3>1. ClientTypes' BY <2>2
    <3>2. ClientTells({calls[i]}, page, server) => ClientTells({}, page', server') BY <2>2
    <3> QED BY <3>1, <3>2
  <2>3. CASE Map!renderDiagnosi(i)
    <3>1. ClientTypes' BY <2>3
    <3>2. ClientTells({calls[i]}, page, server) => ClientTells({}, page', server') BY <2>3
    <3> QED BY <3>1, <3>2
  <2>4. CASE Map!WifiDiagnosed(i)
    <3>1. ClientTypes' BY <2>4
    <3>2. ClientTells({calls[i]}, page, server) => ClientTells({}, page', server') BY <2>4
    <3> QED BY <3>1, <3>2
  <2>5. CASE Map!PortsRead(i)
    <3>1. ClientTypes' BY <2>5
    <3>2. ClientTells({calls[i]}, page, server) => ClientTells({}, page', server') BY <2>5
    <3> QED BY <3>1, <3>2
  <2> HIDE DEF ClientTypes, ClientTells
  <2> QED BY <2>1, <2>2, <2>3, <2>4, <2>5
<1> QED BY <1>1, <1>2, ClientsEnd

LEMMA TogetherRest ==
  ASSUME ClientsHold, NEW i \in Map!Ids,
         Map!renderMacResults(i) \/ Map!renderMacOverrides(i) \/ Map!refreshMacStats(i)
  PROVE  ClientRest'
<1>0. CallsShape BY DEF ClientsHold, ClientInv, ClientCalls
<1>1. calls[i].fn \in Together /\ calls[i].at = "back"
  BY DEF Together, Map!renderMacResults, Map!renderMacOverrides, Map!refreshMacStats, Map!Back
<1>2. calls' = [calls EXCEPT ![i] = Map!NoCall] /\ UNCHANGED server
  BY DEF Map!renderMacResults, Map!renderMacOverrides, Map!refreshMacStats, Map!Ends, Map!Ended
<1>3. /\ page'.mac.at = page.mac.at /\ page'.arp = page.arp /\ page'.tenant = page.tenant /\ page'.client = page.client
      /\ page'.report = page.report /\ page'.diagMac = page.diagMac /\ page'.loaded = page.loaded /\ page'.mode = page.mode
      /\ page'.picker = page.picker /\ page'.scanning = page.scanning
      /\ page'.mac.offered = page.mac.offered /\ page'.mac.ticked = page.mac.ticked
  <2>1. CASE Map!renderMacResults(i) BY <2>1 DEF ClientsHold, ClientInv, ClientPage, ClientShape, TableFields, Map!renderMacResults
  <2>2. CASE Map!renderMacOverrides(i) BY <2>2 DEF ClientsHold, ClientInv, ClientPage, ClientShape, Map!renderMacOverrides
  <2>3. CASE Map!refreshMacStats(i) BY <2>3 DEF ClientsHold, ClientInv, ClientPage, ClientShape, Map!refreshMacStats
  <2> QED BY <2>1, <2>2, <2>3
<1>4. ClientTypes' BY <1>2, <1>3 DEF ClientsHold, ClientRest, ClientTypes, TableChooses
<1>5. (\A j \in Map!Ids : ClientCall(calls[j]))' BY <1>0, <1>2, NothingIsIdle DEF CallsShape, ClientsHold, ClientRest, ClientCall
<1>6. ASSUME inTurn PROVE ClientTurn'
  <2>1. ClientTold(calls[i], page, server) /\ calls[i].at = "back"
    BY <1>1, <1>6 DEF ClientsHold, ClientRest, ClientTurn, ClientTells
  <2>2. \/ /\ calls[i].fn = "macSearch" /\ page'.mac.rows = MacRows(page, server)
           /\ page'.ovs = page.ovs /\ page'.kept = page.kept
        \/ /\ calls[i].fn = "overrides" /\ page'.ovs = server.ovs
           /\ page'.mac.rows = page.mac.rows /\ page'.kept = page.kept
        \/ /\ calls[i].fn = "stats" /\ page'.kept = server.days
           /\ page'.mac.rows = page.mac.rows /\ page'.ovs = page.ovs
    <3>1. CASE Map!renderMacResults(i)
      <4>1. calls[i].fn = "macSearch" /\ calls[i].got = <<MacRows(page, server)>>
        BY <2>1, <3>1 DEF ClientTold, Map!renderMacResults, Map!Back
      <4>2. Map!Answered(i) /\ Map!Answer(i) = MacRows(page, server) BY <4>1 DEF Map!Answered, Map!Answer
      <4> QED BY <3>1, <4>1, <4>2 DEF ClientsHold, ClientInv, ClientPage, ClientShape, TableFields, Map!renderMacResults
    <3>2. CASE Map!renderMacOverrides(i)
      BY <2>1, <3>2 DEF ClientTold, ClientsHold, ClientInv, ClientPage, ClientShape, Map!renderMacOverrides, Map!Back,
         Map!Answered, Map!Answer
    <3>3. CASE Map!refreshMacStats(i)
      <4>1. calls[i].fn = "stats" /\ calls[i].got = <<server.days>> BY <2>1, <3>3 DEF ClientTold, Map!refreshMacStats, Map!Back
      <4>2. PICK f : page' = [page EXCEPT !.kept = server.days, !.field = f]
        <5>1. Map!Answered(i) /\ Map!Answer(i) = server.days BY <4>1 DEF Map!Answered, Map!Answer
        <5>2. page' = [page EXCEPT !.kept = Map!Answer(i),
                                   !.field = IF calls[i].arg \/ @ = Map!None THEN Map!Answer(i) ELSE @]
          BY <3>3, <5>1, Zenon DEF Map!refreshMacStats
        <5> QED BY <5>1, <5>2, Zenon
      <4> QED BY <4>1, <4>2 DEF ClientInv, ClientPage, ClientShape
    <3> QED BY <3>1, <3>2, <3>3
  <2>3. ClientTold(Map!NoCall, page', server') BY NothingIsIdle
  <2> QED BY <1>1, <1>2, <1>3, <1>6, <2>2, <2>3, NothingIsIdle, TogetherGoOn
<1> QED BY <1>4, <1>5, <1>6 DEF ClientsHold, ClientRest

(* What the server does. *)
LEMMA ServingRest == ASSUME ClientsHold, NEW i \in Map!Ids, Map!Serve(i) \/ Map!Lose(i) PROVE ClientRest'
<1>0. CallsShape BY DEF ClientsHold, ClientInv, ClientCalls
<1> DEFINE c(got) == Map!IsBack(calls[i], got)
           Alone == calls[i].fn \notin Together \union {Map!None}
           IsAnswer(got) == calls' = [calls EXCEPT ![i] = c(got)]
<1>1. \A got : c(got).fn = calls[i].fn /\ c(got).arg = calls[i].arg /\ c(got).at = "back" /\ c(got).got = got BY DEF Map!IsBack
<1>2. UNCHANGED page /\ calls[i].at = "sent" /\ ClientTypes'
  <2>1. UNCHANGED page /\ calls[i].at = "sent" BY DEF Map!Serve, Map!Scan, Map!Store, Map!Read, Map!Lose, Map!Sent
  <2>2. DOMAIN server' = DOMAIN server BY DEF Map!Serve, Map!Scan, Map!Store, Map!Read, Map!Lose
  <2> QED BY <2>1, <2>2 DEF ClientsHold, ClientRest, ClientTypes
<1> HIDE DEF c
<1>3. ASSUME NEW got, IsAnswer(got), calls[i].fn = "diagnose" /\ got # <<>> => got = <<calls[i].arg>>,
             inTurn => Alone /\ (ClientTells({calls[i]}, page, server) => ClientTells({c(got)}, page', server'))
      PROVE  ClientRest'
  <2>1. ClientCall(c(got)) BY <1>1, <1>3 DEF ClientsHold, ClientRest, ClientCall
  <2>2. inTurn => Alone /\ ClientTells({c(got)}, page', server') BY <1>0, <1>3, AloneTells DEF ClientsHold, ClientRest
  <2> QED BY <1>1, <1>2, <1>3, <2>1, <2>2, ClientsGoOn
<1>4. CASE Map!Lose(i) BY <1>3, <1>4 DEF Map!Lose, Map!Fails, c
<1>5. CASE Map!Scan(i)
  <2>1. CASE Map!Sent(i, "macScan")
    <3>1. /\ IsAnswer(<<"ok">>) /\ calls[i].fn = "macScan" /\ server'.bound = server.bound /\ server'.ovs = server.ovs
          /\ server'.days = server.days
      BY <1>5, <2>1 DEF Map!Scan, Map!Sent, Map!Answers, ClientsHold, ClientRest, ClientTypes, c
    <3>2. ClientTells({calls[i]}, page, server) => ClientTells({c(<<"ok">>)}, page', server')
      BY <1>1, <1>2, <3>1 DEF ClientTells, ClientTold, MacShown, ArpShown, PortsShown, ScansShown, Reads, Changed, ArpRows
    <3>3. Alone BY <3>1 DEF Together, Map!None
    <3> QED BY <1>3, <3>1, <3>2, <3>3
  <2>2. CASE Map!Sent(i, "arpScan")
    <3>1. /\ calls[i].fn = "arpScan" /\ server'.seen = server.seen /\ server'.ovs = server.ovs /\ server'.days = server.days
          /\ IsAnswer(<<"ok">>) \/ (IsAnswer(<<>>) /\ server'.bound = server.bound)
      <4>1. PICK reached \in SUBSET Map!Targets(calls[i].arg) : server' = [server EXCEPT !.bound = @ \union reached]
        BY <1>5, <2>2 DEF Map!Scan, Map!Sent
      <4>2. IsAnswer(<<"ok">>) \/ (IsAnswer(<<>>) /\ reached = {})
        BY <1>5, <2>2, <4>1 DEF Map!Scan, Map!Sent, Map!Answers, Map!Fails, c
      <4> HIDE DEF IsAnswer
      <4> QED BY <2>2, <4>1, <4>2 DEF Map!Sent, ClientRest, ClientTypes
    <3>2. ClientTells({calls[i]}, page, server) =>
            /\ ClientTells({c(<<"ok">>)}, page', server')
            /\ server'.bound = server.bound => ClientTells({c(<<>>)}, page', server')
      BY <1>1, <1>2, <3>1 DEF ClientTells, ClientTold, MacShown, ArpShown, PortsShown, ScansShown, Reads, Changed, MacRows, ArpRows
    <3>3. Alone BY <3>1 DEF Together, Map!None
    <3> QED BY <1>3, <3>1, <3>2, <3>3
  <2> QED BY <1>5, <2>1, <2>2 DEF Map!Scan
<1>6. CASE Map!Store(i)
  <2>1. /\ calls[i].fn \in {"saveOverride", "removeOverride", "retention"} /\ IsAnswer(<<"ok">>)
        /\ server'.seen = server.seen /\ server'.bound = server.bound
        /\ IF calls[i].fn = "retention" THEN server'.ovs = server.ovs ELSE server'.days = server.days
    BY <1>6 DEF Map!Store, Map!Sent, Map!Answers, ClientsHold, ClientRest, ClientTypes, c
  <2>2. ClientTells({calls[i]}, page, server) => ClientTells({c(<<"ok">>)}, page', server')
    BY <1>1, <1>2, <2>1 DEF ClientTells, ClientTold, MacShown, ArpShown, PortsShown, ScansShown, Reads, Changed, MacRows, ArpRows
  <2>3. Alone BY <2>1 DEF Together, Map!None
  <2> QED BY <1>3, <2>1, <2>2, <2>3
<1>7. CASE Map!Read(i)
  <2>1. UNCHANGED server BY <1>7 DEF Map!Read
  <2>2. PICK got : /\ IsAnswer(got)
                   /\ calls[i].fn = "diagnose" => got = <<calls[i].arg>>
                   /\ calls[i].fn = "arpSearch" =>
                        got = <<Map!At(server.bound, calls[i].arg.at) \intersect Map!Of(calls[i].arg.tenant)>>
                   /\ calls[i].fn = "macSearch" => got = <<Map!At(server.seen, calls[i].arg.at)>>
                   /\ calls[i].fn = "overrides" => got = <<server.ovs>>
                   /\ calls[i].fn = "stats" => got = <<server.days>>
                   /\ calls[i].fn \in {"macSearch", "arpSearch", "locate", "overrides", "stats", "diagnose", "wifi", "inventory",
                                       "ports"}
    BY <1>7 DEF Map!Read, Map!Sent, Map!Answers, Map!Fails, c
  <2>3. CASE calls[i].fn \notin Together
    <3>1. ClientTells({calls[i]}, page, server) => ClientTells({c(got)}, page', server')
      BY <1>1, <1>2, <2>1, <2>2, <2>3 DEF ClientTells, ClientTold, MacShown, ArpShown, PortsShown, ScansShown, Reads, Changed,
         MacRows, ArpRows, Together
    <3>2. Alone BY <2>2, <2>3 DEF Map!None
    <3> QED BY <1>3, <2>2, <3>1, <3>2
  <2>4. CASE calls[i].fn \in Together /\ inTurn
    <3>1. ClientTold(calls[i], page, server) BY <2>4 DEF ClientsHold, ClientRest, ClientTurn, ClientTells
    <3>2. ClientTold(c(got), page', server') BY <1>1, <1>2, <2>1, <2>2, <2>4, <3>1 DEF ClientTold, MacRows, Together
    <3>3. ClientTurn' BY <1>1, <1>2, <2>1, <2>2, <2>4, <3>2, TogetherGoOn DEF Map!None
    <3>4. (\A j \in Map!Ids : ClientCall(calls[j]))'
      BY <1>0, <1>1, <2>2, <2>4 DEF CallsShape, ClientsHold, ClientRest, ClientCall, Together
    <3> QED BY <1>2, <3>3, <3>4 DEF ClientRest
  <2>5. CASE calls[i].fn \in Together /\ ~inTurn BY <1>3, <2>2, <2>5 DEF Together
  <2> QED BY <2>3, <2>4, <2>5
<1> QED BY <1>4, <1>5, <1>6, <1>7 DEF Map!Serve

LEMMA ClientsRestBegins == Devices # {} /\ Map!Init => ClientRest
<1> SUFFICES ASSUME Devices # {}, Map!Init PROVE ClientRest OBVIOUS
<1>1. \A i \in Map!Ids : calls[i] = Map!NoCall BY DEF Map!Init, Map!NoCalls
<1>2. ClientTypes BY DEF Map!Init, ClientTypes, TableChooses, Map!NoTable, Map!NoReport, Map!Tenants, Map!None
<1>3. ClientTells({}, page, server)
  BY DEF Map!Init, ClientTells, MacShown, ArpShown, PortsShown, ReportTells, ScansShown, Map!NoReport, Map!None, Map!Panes
<1>4. ClientTells({calls[i] : i \in Map!Ids}, page, server) BY <1>1, <1>3, NothingIsIdle, IdleTellsNothing
<1> QED BY <1>1, <1>2, <1>4, NothingIsIdle DEF ClientRest, ClientTurn, OneOrTogether, Map!NoCall

LEMMA ClientsRestKeep ==
  ASSUME Auth!CallsAssumption, Devices # {}, ClientInv, ClientRest, UNCHANGED inTurn, [Map!Next]_(Map!vars)
  PROVE  ClientRest'
<1>0. ClientsHold BY DEF ClientsHold
<1>1. CASE UNCHANGED Map!vars BY <1>1 DEF Map!vars, ClientRest, ClientTypes, TableChooses, ClientTurn, OneOrTogether
<1>2. ASSUME NEW i \in Map!Ids, Map!Continue(i) PROVE ClientRest'
  BY <1>0, <1>2, ScannedRest, ChangedRest, TogetherRest, DrawingRest, InventoryRest DEF Map!Continue
<1>3. ASSUME Map!Next PROVE ClientRest'
  <2> DEFINE Chosen == \/ (\E v \in Map!Panes : Map!locSwitchView(v))
                       \/ (\E t \in Map!Tenants : Map!locTenantChanged(t))
                       \/ \E d \in Devices \union {Map!None} : Map!FilterMac(d) \/ Map!FilterArp(d)
  <2>1. Chosen => ClientRest' BY <1>0, FilteringRest, SwitchingRest, ChoosingRest
  <2>2. ASSUME NEW c \in Clients, Map!runDiagnosi(c) \/ Map!diagnoseClientInTab(c) PROVE ClientRest' BY <1>0, <2>2, DiagnosingRest
  <2>3. ~Chosen => ClientRest'
    BY <1>0, <1>2, <1>3, <2>2, StandingRest, AskingRest, ScanningRest, WifiRest, PortsRest, ServingRest, Zenon DEF Map!Next
  <2> QED BY <2>1, <2>3
<1> QED BY <1>1, <1>3

LEMMA ClientsTell ==
  ASSUME ClientInv, ClientRest
  PROVE  Map!TypeOK /\ (inTurn => Map!ClientsAreTrue)
<1>1. Map!TypeOK BY DEF ClientRest, ClientTypes, TableChooses, ClientInv, ClientPage, ClientShape, Map!TypeOK
<1>2. ASSUME inTurn PROVE Map!ClientsAreTrue
  <2>1. Map!Quiet => ClientTells({}, page, server) BY <1>2, QuietTells DEF ClientRest
  <2> QED
    BY <2>1 DEF ClientTells, MacShown, ArpShown, PortsShown, ReportTells, ScansShown, Reads, Changed, MacRows, ArpRows,
       Map!ClientsAreTrue
<1> QED BY <1>1, <1>2

-----------------------------------------------------------------------------
(* The rest of the session. *)
(* The page with the call i gone on to c. *)
GoesOnWell(i, c) ==
  /\ SessionCall(c) /\ SessionTypes'
  /\ page'.section = Auth!None => c.fn = "status" \/ (page.section = Auth!None /\ calls[i].fn # "status")
  /\ page'.loading => OfTheChain(c) \/ (page.loading /\ ~OfTheChain(calls[i]))

LEMMA RestGoesOn ==
  ASSUME SessionShape, SessionRest, NEW i \in Auth!Ids, NEW c, Auth!GoesOn(i, c), GoesOnWell(i, c)
  PROVE  SessionRest'
<1>1. DOMAIN calls' = Auth!Ids /\ calls'[i] = c /\ \A j \in Auth!Ids \ {i} : calls'[j] = calls[j]
  BY DEF Auth!GoesOn, Auth!Moved, SessionShape
<1>2. \A j \in Auth!Ids : SessionCall(calls'[j]) BY <1>1 DEF SessionRest, GoesOnWell
<1>3. SectionIsPending' BY <1>1 DEF SessionRest, GoesOnWell, SectionIsPending
<1>4. LoadingIsPending' BY <1>1 DEF SessionRest, GoesOnWell, LoadingIsPending
<1>5. (\A j \in Auth!Ids : SessionCall(calls[j]))' BY <1>2
<1> QED BY <1>3, <1>4, <1>5 DEF SessionRest, GoesOnWell

LEMMA NothingIsACall == SessionCall(Auth!NoCall) /\ Auth!NoCall.fn = Auth!None
BY DEF SessionCall, Auth!NoCall, Auth!None, CallFields

LEMMA EndingGoesOn == ASSUME NEW i, Auth!Ends(i) PROVE Auth!GoesOn(i, Auth!NoCall)
BY DEF Auth!Ends, Auth!Ended, Auth!GoesOn, Auth!Moved

(* A call begins, and leaves the rest of the page as it is. *)
LEMMA RestStarts ==
  ASSUME Auth!CallsAssumption, SessionShape, SessionRest, NEW c, Auth!Starts(c), SessionCall(c),
         SessionTypes', page'.section = Auth!None => page.section = Auth!None,
         page'.loading => page.loading
  PROVE  SessionRest'
<1>1. PICK i \in Auth!Ids : calls[i].fn = Auth!None /\ calls' = [calls EXCEPT ![i] = c] BY BegunInAPlace DEF Auth!Starts, Auth!Free
<1>2. Auth!GoesOn(i, c) BY <1>1 DEF Auth!GoesOn, Auth!Moved
<1>3. ~OfTheChain(calls[i]) /\ calls[i].fn # "status" BY <1>1 DEF OfTheChain, Auth!None
<1> QED BY <1>2, <1>3, RestGoesOn DEF GoesOnWell

(* A call is answered. *)
LEMMA RestAnswers ==
  ASSUME SessionShape, SessionRest, NEW i \in Auth!Ids, NEW got,
         calls' = [calls EXCEPT ![i] = Auth!IsBack(@, got)], SessionCall(Auth!IsBack(calls[i], got)),
         SessionTypes', UNCHANGED <<page.section, page.loading>>
  PROVE  SessionRest'
<1>1. Auth!GoesOn(i, Auth!IsBack(calls[i], got)) BY DEF Auth!GoesOn, Auth!Moved
<1>2. GoesOnWell(i, Auth!IsBack(calls[i], got)) BY DEF GoesOnWell, Auth!IsBack, OfTheChain, SessionRest
<1> QED BY <1>1, <1>2, RestGoesOn

LEMMA RestServer ==
  ASSUME SessionInv, SessionRest, NEW i \in Auth!Ids, Auth!Serve(i) \/ Auth!Lose(i)
  PROVE  SessionRest'
<1> USE DEF SessionCall, Auth!IsBack, CallFields, Auth!ServeLogin, Auth!Sent, Auth!TypeOK, SessionTypes
<1>1. SessionShape /\ SessionCall(calls[i]) /\ SessionTypes /\ DOMAIN page = SessionFields
  BY DEF SessionInv, SessionShape, SessionRest
<1>2. PICK got : /\ calls' = [calls EXCEPT ![i] = Auth!IsBack(@, got)]
                 /\ SessionCall(Auth!IsBack(calls[i], got))
  <2>1. CASE Auth!Lose(i) BY <1>1, <2>1 DEF Auth!Lose, Auth!Fails
  <2>2. CASE Auth!ServeStatus(i) \/ Auth!ServeRegister(i) \/ Auth!ServeLogin(i) \/ Auth!ServePassword(i)
             \/ Auth!ServeLogout(i)
    <3>1. \A v : calls[i].fn \notin {"me", "load"} => SessionCall(Auth!IsBack(calls[i], <<v>>)) BY <1>1
    <3> QED BY <2>2, <3>1 DEF Auth!ServeStatus, Auth!ServeRegister, Auth!ServePassword, Auth!ServeLogout, Auth!Answers
  <2>3. CASE Auth!ServeMe(i) \/ Auth!ServeWork(i)
    <3>1. \A v \in {Auth!Carries(i), Auth!Denied} : SessionCall(Auth!IsBack(calls[i], <<v>>)) BY <1>1 DEF Auth!Carries
    <3>2. calls[i].fn = "me" => SessionCall(Auth!IsBack(calls[i], <<Auth!Garbled>>)) BY <1>1
    <3> QED BY <2>3, <3>1, <3>2 DEF Auth!ServeMe, Auth!ServeWork, Auth!Answers
  <2> QED BY <2>1, <2>2, <2>3 DEF Auth!Serve
<1>3. SessionTypes' /\ UNCHANGED <<page.section, page.loading>>
  <2>1. CASE UNCHANGED <<page, server>> BY <1>1, <2>1
  <2>2. CASE Auth!ServeRegister(i) \/ Auth!ServePassword(i)
    <3>1. UNCHANGED page /\ server'.must \subseteq server.must /\ server'.valid = server.valid /\ DOMAIN server' = DOMAIN server
      BY <1>1, <2>2 DEF Auth!ServeRegister, Auth!ServePassword
    <3> QED BY <1>1, <3>1
  <2>3. CASE Auth!ServeLogin(i) /\ ~UNCHANGED <<page, server>>
    <3>1. calls[i].arg.user \in Users BY <1>1, <2>3
    <3>2. server'.must = server.must /\ server'.valid = server.valid \union {calls[i].arg.user}
          /\ DOMAIN server' = DOMAIN server
      BY <1>1, <2>3
    <3>3. page' = [page EXCEPT !.cookie = calls[i].arg.user] BY <2>3
    <3> QED BY <1>1, <3>1, <3>2, <3>3 DEF Auth!Names
  <2>4. CASE Auth!ServeLogout(i) BY <1>1, <2>4 DEF Auth!ServeLogout, Auth!Names, SessionFields
  <2> QED BY <2>1, <2>2, <2>3, <2>4 DEF Auth!Serve, Auth!Lose, Auth!ServeStatus, Auth!ServeMe, Auth!ServeWork
<1> QED BY <1>1, <1>2, <1>3, RestAnswers

LEMMA RestStatus == ASSUME SessionInv, SessionRest, NEW i \in Auth!Ids, Auth!CheckStatus(i) PROVE SessionRest'
<1>1. SessionShape /\ SessionCall(calls[i]) /\ SessionTypes /\ DOMAIN page = SessionFields /\ calls[i].fn = "status"
  BY DEF SessionInv, SessionShape, SessionRest, Auth!CheckStatus, Auth!Back
<1>2. UNCHANGED server BY DEF Auth!CheckStatus
<1>3. CASE ~Auth!HasUsers(i)
  <2>1. Auth!Ends(i) /\ \E s \in {"wizard", "login"} : page' = Auth!Refused(page, i, s) BY <1>3 DEF Auth!CheckStatus
  <2>2. SessionTypes' /\ page'.section # Auth!None
    BY <1>1, <1>2, <2>1 DEF Auth!Refused, Auth!TypeOK, SessionTypes, SessionFields, Auth!None
  <2>3. page'.loading => page.loading /\ ~OfTheChain(calls[i]) BY <1>1, <2>1 DEF Auth!Refused, OfTheChain
  <2> QED BY <1>1, <2>1, <2>2, <2>3, EndingGoesOn, NothingIsACall, RestGoesOn DEF GoesOnWell
<1>4. CASE Auth!HasUsers(i)
  <2> DEFINE c == Auth!Asks("me", [as |-> page.cookie, then |-> calls[i].arg.then])
  <2>1. Auth!GoesOn(i, c) /\ page' = [page EXCEPT !.section = "login"] BY <1>4 DEF Auth!CheckStatus
  <2>2. SessionTypes' /\ page'.section # Auth!None BY <1>1, <1>2, <2>1 DEF Auth!TypeOK, SessionTypes, Auth!None
  <2>3. SessionCall(c) BY <1>1 DEF SessionCall, Auth!Asks, CallFields, Auth!TypeOK, SessionTypes
  <2>4. page'.loading => OfTheChain(c) \/ (page.loading /\ ~OfTheChain(calls[i])) BY <1>1, <2>1 DEF OfTheChain, Auth!Asks
  <2> HIDE DEF c
  <2> QED BY <1>1, <2>1, <2>2, <2>3, <2>4, RestGoesOn DEF GoesOnWell
<1> QED BY <1>3, <1>4

LEMMA RestMe ==
  ASSUME SessionInv, SessionRest, NEW i \in Auth!Ids, Auth!MeRefused(i) \/ Auth!MeKnown(i)
  PROVE  SessionRest'
<1> USE DEF Auth!MeRefused, Auth!MeKnown, Auth!TypeOK, SessionTypes, SessionFields, OfTheChain, GoesOnWell
<1>1. SessionShape /\ SessionCall(calls[i]) /\ SessionTypes /\ DOMAIN page = SessionFields /\ calls[i].fn = "me"
  BY DEF SessionInv, SessionShape, SessionRest, Auth!Back
<1>2. UNCHANGED server OBVIOUS
<1>3. CASE Auth!MeRefused(i)
  <2>1. Auth!Ends(i) BY <1>3
  <2>2. SessionTypes' /\ page'.section # Auth!None BY <1>1, <1>2, <1>3 DEF Auth!None
  <2>3. page'.loading => page.loading /\ ~OfTheChain(calls[i]) BY <1>1, <1>3
  <2> QED BY <1>1, <2>1, <2>2, <2>3, EndingGoesOn, NothingIsACall, RestGoesOn
<1>4. CASE Auth!MeKnown(i)
  <2> DEFINE p == Auth!Confirmed(page, i)
             c == Auth!Asks("version", [as |-> page.cookie])
  <2>1. DOMAIN p = SessionFields /\ p.me \in Auth!Names
        /\ p.section = page.section /\ p.loading = page.loading /\ p.hidden = page.hidden /\ p.user = page.user
        /\ p.cookie = page.cookie /\ p.pending = page.pending /\ p.devices = page.devices
        /\ p.confirmed = TRUE /\ p.overlay = FALSE
    <3>1. Auth!Answer(i) \in Auth!Names \union {Auth!Garbled}
      BY <1>1, <1>4 DEF Auth!Fetched, Auth!Answered, Auth!Answer, SessionCall
    <3> QED BY <1>1, <3>1 DEF Auth!Confirmed, Auth!Names
  <2> HIDE DEF p
  <2>2. /\ page' = p \/ (p.me # Auth!None /\ page' = Auth!Shown(p, p.me))
        /\ \/ Auth!Ends(i) /\ calls[i].arg.then = Auth!None
           \/ Auth!GoesOn(i, c)
    BY <1>4 DEF p
  <2>3. /\ page'.section = page.section /\ page'.loading = page.loading /\ page'.cookie = page.cookie
        /\ page'.pending = page.pending /\ page'.devices = page.devices /\ page'.confirmed = TRUE
        /\ page'.overlay = FALSE /\ page'.me = p.me /\ page'.user \in {page.user, p.me}
    BY <2>1, <2>2 DEF Auth!Shown
  <2>4. page'.hidden \subseteq Nav
    <3>1. page'.hidden \in {p.hidden, p.hidden \union (Nav \ Restricted[p.me])} BY <2>1, <2>2 DEF Auth!Shown
    <3>2. p.hidden \subseteq Nav BY <1>1, <2>1
    <3> QED BY <3>1, <3>2
  <2>5. SessionTypes' BY <1>1, <1>2, <2>1, <2>3, <2>4
  <2>6. CASE Auth!GoesOn(i, c)
    <3>1. SessionCall(c) /\ OfTheChain(c) BY <1>1 DEF SessionCall, Auth!Asks, CallFields
    <3> HIDE DEF c
    <3> QED BY <1>1, <2>3, <2>5, <2>6, <3>1, RestGoesOn
  <2>7. CASE Auth!Ends(i) /\ calls[i].arg.then = Auth!None
    <3>1. ~OfTheChain(calls[i]) BY <1>1, <2>7 DEF Auth!None
    <3> QED BY <1>1, <2>3, <2>5, <2>7, <3>1, EndingGoesOn, NothingIsACall, RestGoesOn
  <2> QED BY <2>2, <2>6, <2>7
<1> QED BY <1>3, <1>4

(* The call goes on to c with the page p, or its answer forces a logout    *)
(* besides.                                                                *)
LEMMA RestFetches ==
  ASSUME Auth!CallsAssumption, SessionShape, SessionRest, NEW i \in Auth!Ids, NEW p, NEW c,
         Auth!AfterFetch(i, p, Auth!Moved(i, c)), SessionCall(c), UNCHANGED server,
         DOMAIN page = SessionFields, DOMAIN p = SessionFields,
         p.devices \in Auth!Names, p.loading \in BOOLEAN,
         \A f \in SessionFields \ {"devices", "loading"} : p[f] = page[f],
         calls[i].fn # "status",
         p.loading => page.loading,
         OfTheChain(calls[i]) /\ page.loading /\ page'.loading => OfTheChain(c)
  PROVE  SessionRest'
<1>1. CASE ~Auth!Forces(i)
  <2>1. Auth!GoesOn(i, c) /\ page' = p BY <1>1 DEF Auth!AfterFetch, Auth!GoesOn
  <2>2. SessionTypes' BY <2>1 DEF SessionRest, SessionTypes, Auth!TypeOK, SessionFields
  <2>3. page'.section = page.section BY <2>1 DEF SessionFields
  <2> QED BY <2>1, <2>2, <2>3, RestGoesOn DEF GoesOnWell
<1>2. CASE Auth!Forces(i)
  <2> DEFINE cs == Auth!Moved(i, c)
             d == Auth!LogoutCall
  <2>1. page' = Auth!LoggingOut(p) BY <1>2 DEF Auth!AfterFetch
  <2>2. PICK k \in Auth!Ids : cs[k].fn = Auth!None /\ calls' = Auth!Begun(cs, d) BY <1>2 DEF Auth!AfterFetch
  <2>3. PICK j \in Auth!Ids : cs[j].fn = Auth!None /\ calls' = [cs EXCEPT ![j] = d] BY <2>2, BegunInAPlace
  <2>4. SessionCall(d) BY DEF Auth!LogoutCall, Auth!Asks, SessionCall, CallFields
  <2>5. DOMAIN cs = Auth!Ids /\ cs[i] = c /\ \A n \in Auth!Ids \ {i} : cs[n] = calls[n] BY DEF Auth!Moved, SessionShape
  <2>6. page'.section = page.section /\ page'.loading = p.loading BY <2>1 DEF Auth!LoggingOut, SessionFields
  <2>7. SessionTypes'
    <3>1. page' = [page EXCEPT !.devices = p.devices, !.loading = p.loading, !.confirmed = FALSE, !.me = Auth!None]
      BY <2>1 DEF Auth!LoggingOut, SessionFields
    <3> QED BY <3>1 DEF SessionRest, SessionTypes, Auth!TypeOK, Auth!Names
  <2> HIDE DEF cs, d
  <2>8. \A n \in Auth!Ids : SessionCall(calls'[n]) BY <2>3, <2>4, <2>5 DEF SessionRest
  <2>9. \A n \in Auth!Ids : (calls[n].fn = "status" \/ OfTheChain(calls[n])) /\ n # i => calls'[n] = calls[n]
    <3>1. ~OfTheChain(cs[j]) /\ cs[j].fn # "status" BY <2>3 DEF OfTheChain, Auth!None
    <3> QED BY <2>3, <2>5, <3>1
  <2>10. SectionIsPending' BY <2>6, <2>9 DEF SessionRest, SectionIsPending
  <2>11. LoadingIsPending'
    <3>1. OfTheChain(c) => OfTheChain(calls'[i])
      <4>1. OfTheChain(c) => c.fn # Auth!None BY DEF OfTheChain, Auth!None
      <4> QED BY <2>3, <2>5, <4>1
    <3>2. ASSUME page'.loading PROVE \E n \in Auth!Ids : OfTheChain(calls'[n])
      BY <2>6, <2>9, <3>1, <3>2 DEF SessionRest, LoadingIsPending
    <3>3. ASSUME NEW n \in Auth!Ids PROVE OfTheChain(calls'[n]) = OfTheChain(calls[n])' OBVIOUS
    <3> QED BY <3>2, <3>3 DEF LoadingIsPending
  <2> QED BY <2>7, <2>8, <2>10, <2>11 DEF SessionRest, SessionCall
<1> QED BY <1>1, <1>2

LEMMA RestFetched ==
  ASSUME Auth!CallsAssumption, SessionInv, SessionRest, NEW i \in Auth!Ids,
         Auth!Version(i) \/ Auth!Load(i) \/ Auth!Work(i)
  PROVE  SessionRest'
<1>1. SessionShape /\ SessionCall(calls[i]) /\ SessionTypes /\ DOMAIN page = SessionFields /\ UNCHANGED server
  BY DEF SessionInv, SessionShape, SessionRest, Auth!Version, Auth!Load, Auth!Work
<1>2. calls[i].fn \in {"version", "load", "work"} BY DEF Auth!Version, Auth!Load, Auth!Work, Auth!Back
<1>3. page.devices \in Auth!Names /\ page.loading \in BOOLEAN /\ page.cookie \in Auth!Names BY <1>1 DEF SessionTypes, Auth!TypeOK
<1>4. Auth!Ended(i) = Auth!Moved(i, Auth!NoCall) BY DEF Auth!Ended, Auth!Moved
<1>5. CASE Auth!Version(i)
  <2> DEFINE c == Auth!Asks("load", [as |-> page.cookie])
  <2>1. SessionCall(c) /\ OfTheChain(c) BY <1>3 DEF SessionCall, Auth!Asks, CallFields, OfTheChain
  <2>2. Auth!AfterFetch(i, page, Auth!Moved(i, c)) BY <1>5 DEF Auth!Version
  <2> HIDE DEF c
  <2> QED BY <1>1, <1>2, <1>3, <2>1, <2>2, RestFetches
<1>6. CASE Auth!Work(i)
  <2>1. Auth!AfterFetch(i, page, Auth!Moved(i, Auth!NoCall)) /\ calls[i].fn = "work" BY <1>4, <1>6 DEF Auth!Work, Auth!Back
  <2>2. ~OfTheChain(calls[i]) BY <2>1 DEF OfTheChain
  <2> QED BY <1>1, <1>2, <1>3, <2>1, <2>2, NothingIsACall, RestFetches
<1>7. CASE Auth!Load(i)
  <2> DEFINE p == [page EXCEPT !.loading = FALSE, !.devices = IF Auth!Fetched(i) THEN Auth!Answer(i) ELSE @]
  <2>1. Auth!AfterFetch(i, p, Auth!Moved(i, Auth!NoCall)) /\ calls[i].fn = "load" BY <1>4, <1>7 DEF Auth!Load, Auth!Back
  <2>2. Auth!Fetched(i) => Auth!Answer(i) \in Auth!Names BY <1>1, <2>1 DEF SessionCall, Auth!Fetched, Auth!Answered, Auth!Answer
  <2>3. DOMAIN p = SessionFields /\ p.devices \in Auth!Names /\ p.loading = FALSE
        /\ \A f \in SessionFields \ {"devices", "loading"} : p[f] = page[f]
    BY <1>1, <1>3, <2>2 DEF SessionFields
  <2>4. page'.loading = FALSE BY <2>1, <2>3 DEF Auth!AfterFetch, Auth!LoggingOut, SessionFields
  <2> HIDE DEF p
  <2> QED BY <1>1, <1>2, <2>1, <2>3, <2>4, NothingIsACall, RestFetches
<1> QED BY <1>5, <1>6, <1>7

LEMMA RestClicks ==
  ASSUME Auth!CallsAssumption, SessionInv, SessionRest,
         \/ \E u \in Users : Auth!ClickRegister(u) \/ Auth!ClickLogin(u)
         \/ Auth!ClickPassword \/ Auth!ClickWork \/ Auth!ClickLogout
  PROVE  SessionRest'
<1> USE DEF SessionTypes, Auth!ClickRegister, Auth!ClickLogin, Auth!ClickPassword, Auth!ClickWork, Auth!ClickLogout, Auth!Click,
    SessionCall, Auth!Asks, CallFields
<1>1. SessionShape /\ SessionTypes /\ DOMAIN page = SessionFields /\ page.cookie \in Auth!Names
  BY DEF SessionInv, SessionShape, SessionRest, Auth!TypeOK
<1>2. server'.must = server.must /\ server'.valid = server.valid /\ DOMAIN server' = DOMAIN server BY <1>1
<1>3. page' \in {page, Auth!LoggingOut(page)} OBVIOUS
<1>4. SessionTypes' /\ page'.section = page.section /\ page'.loading = page.loading
  BY <1>1, <1>2, <1>3 DEF Auth!TypeOK, Auth!LoggingOut, SessionFields, Auth!Names
<1>5. \E c : SessionCall(c) /\ Auth!Starts(c)
  <2>1. ASSUME NEW u \in Users, Auth!ClickRegister(u)
        PROVE  \E c : SessionCall(c) /\ Auth!Starts(c)
    <3>1. SessionCall(Auth!Asks("register", [as |-> page.cookie, user |-> u])) OBVIOUS
    <3> QED BY <2>1, <3>1
  <2>2. ASSUME NEW u \in Users, Auth!ClickLogin(u)
        PROVE  \E c : SessionCall(c) /\ Auth!Starts(c)
    <3>1. SessionCall(Auth!Asks("login", [as |-> page.cookie, user |-> u, wizard |-> FALSE])) OBVIOUS
    <3> QED BY <2>2, <3>1
  <2>3. CASE Auth!ClickPassword
    <3>1. SessionCall(Auth!Asks("password", [as |-> page.cookie, old |-> page.pending])) BY <1>1
    <3> QED BY <2>3, <3>1
  <2>4. CASE Auth!ClickWork
    <3>1. SessionCall(Auth!Asks("work", [as |-> page.cookie])) BY <1>1
    <3> QED BY <2>4, <3>1
  <2>5. CASE Auth!ClickLogout
    <3>1. SessionCall(Auth!LogoutCall) BY DEF Auth!LogoutCall
    <3> QED BY <2>5, <3>1
  <2> QED BY <2>1, <2>2, <2>3, <2>4, <2>5
<1> QED BY <1>1, <1>4, <1>5, RestStarts

LEMMA RestSignedIn ==
  ASSUME SessionInv, SessionRest, NEW i \in Auth!Ids,
         Auth!Registered(i) \/ Auth!LoggedIn(i) \/ Auth!PasswordChanged(i)
  PROVE  SessionRest'
<1> USE DEF SessionTypes, Auth!TypeOK, Auth!Registered, Auth!LoggedIn, Auth!PasswordChanged, Auth!Back, SessionCall, Auth!Asks,
    GoesOnWell, SessionFields, Auth!Checking
<1>1. SessionShape /\ SessionCall(calls[i]) /\ SessionTypes /\ DOMAIN page = SessionFields /\ UNCHANGED server
      /\ page.cookie \in Auth!Names
  BY DEF SessionInv, SessionShape, SessionRest
<1>2. calls[i].fn \in {"register", "login", "password"} /\ ~OfTheChain(calls[i]) BY DEF OfTheChain
<1>3. \A then : SessionCall(Auth!Check(then)) /\ Auth!Check(then).fn = "status" BY DEF Auth!Check, CallFields
<1>4. OfTheChain(Auth!Check("init")) BY DEF OfTheChain, Auth!Check
<1>5. CASE Auth!Registered(i)
  <2> DEFINE c == Auth!Asks("login", [as |-> page.cookie, user |-> calls[i].arg.user, wizard |-> TRUE])
  <2>1. UNCHANGED page /\ (Auth!GoesOn(i, c) \/ Auth!Ends(i)) /\ calls[i].fn = "register" BY <1>5
  <2>2. SessionCall(c) BY <1>1, <2>1 DEF CallFields
  <2>3. SessionTypes' BY <1>1, <2>1
  <2> HIDE DEF c
  <2> QED BY <1>1, <1>2, <2>1, <2>2, <2>3, EndingGoesOn, NothingIsACall, RestGoesOn
<1>6. ASSUME Auth!GoesOn(i, Auth!Check("init")), page'.section \in {"login", "wizard", "password", Auth!None},
             page'.pending \in Auth!Names, page'.overlay \in BOOLEAN, page'.loading \in BOOLEAN,
             \A f \in SessionFields \ {"section", "pending", "overlay", "loading", "heartbeat"} : page'[f] = page[f]
      PROVE  SessionRest'
  <2>1. SessionTypes' BY <1>1, <1>6
  <2> QED BY <1>1, <1>3, <1>4, <1>6, <2>1, RestGoesOn
<1>7. ASSUME Auth!Ends(i), UNCHANGED page PROVE SessionRest'
  <2>1. SessionTypes' BY <1>1, <1>7
  <2> QED BY <1>1, <1>2, <1>7, <2>1, EndingGoesOn, NothingIsACall, RestGoesOn
<1>8. CASE Auth!LoggedIn(i)
  <2>1. calls[i].arg.user \in Users BY <1>1, <1>8
  <2>2. CASE page' = [page EXCEPT !.pending = calls[i].arg.user, !.section = "password"] /\ Auth!Ends(i)
    <3>1. SessionTypes' /\ page'.section # Auth!None /\ page'.loading = page.loading BY <1>1, <2>1, <2>2 DEF Auth!Names, Auth!None
    <3> QED BY <1>1, <1>2, <2>2, <3>1, EndingGoesOn, NothingIsACall, RestGoesOn
  <2>3. CASE page' = Auth!Checking(page) /\ Auth!GoesOn(i, Auth!Check(Auth!None))
    <3>1. SessionTypes' /\ page'.loading = page.loading BY <1>1, <2>3
    <3> QED BY <1>1, <1>2, <1>3, <2>3, <3>1, RestGoesOn
  <2>4. CASE page' = [Auth!Starting(page) EXCEPT !.overlay = FALSE] /\ Auth!GoesOn(i, Auth!Check("init"))
    BY <1>1, <1>6, <2>4 DEF Auth!Starting
  <2> QED BY <1>7, <1>8, <2>2, <2>3, <2>4
<1>9. CASE Auth!PasswordChanged(i)
  <2>1. CASE /\ page' = [Auth!Starting(page) EXCEPT !.pending = Auth!None, !.section = "login", !.overlay = FALSE]
             /\ Auth!GoesOn(i, Auth!Check("init"))
    BY <1>1, <1>6, <2>1 DEF Auth!Starting, Auth!Names
  <2> QED BY <1>7, <1>9, <2>1
<1> QED BY <1>5, <1>8, <1>9

LEMMA RestLoggedOut == ASSUME SessionInv, SessionRest, NEW i \in Auth!Ids, Auth!LoggedOut(i) PROVE SessionRest'
<1>1. SessionShape /\ SessionTypes /\ DOMAIN page = SessionFields /\ UNCHANGED server /\ calls[i].fn = "logout"
  BY DEF SessionInv, SessionShape, SessionRest, Auth!LoggedOut, Auth!Back
<1>2. page' = [Auth!Checking(page) EXCEPT !.user = Auth!None] /\ Auth!GoesOn(i, Auth!Check(Auth!None)) BY DEF Auth!LoggedOut
<1>3. SessionTypes' /\ page'.loading = page.loading BY <1>1, <1>2 DEF SessionTypes, Auth!TypeOK, Auth!Checking, Auth!Names
<1>4. SessionCall(Auth!Check(Auth!None)) /\ Auth!Check(Auth!None).fn = "status"
  BY DEF SessionCall, Auth!Check, Auth!Asks, CallFields
<1>5. ~OfTheChain(calls[i]) BY <1>1 DEF OfTheChain
<1> QED BY <1>1, <1>2, <1>3, <1>4, <1>5, RestGoesOn DEF GoesOnWell

LEMMA RestBegins == PagesAreRight /\ Auth!Init => SessionRest
<1> SUFFICES ASSUME PagesAreRight, Auth!Init PROVE SessionRest OBVIOUS
<1>1. Auth!CallsAssumption /\ Novices \subseteq Users OBVIOUS
<1>2. SessionTypes
  <2>1. PICK any \in BOOLEAN, u \in Auth!Names :
              /\ server = [users |-> any, must |-> Novices, valid |-> {u} \ {Auth!None}, clicks |-> 0]
              /\ page = Auth!FirstPage(u)
    BY Zenon DEF Auth!Init
  <2>2. DOMAIN server = {"users", "must", "valid", "clicks"} /\ server.must \subseteq Users
        /\ server.valid \subseteq Users
    BY <1>1, <2>1 DEF Auth!Names
  <2>3. /\ page.cookie \in Auth!Names /\ page.me = Auth!None /\ page.user = Auth!None
        /\ page.pending = Auth!None /\ page.devices = Auth!None /\ page.section = Auth!None
        /\ page.confirmed \in BOOLEAN /\ page.overlay \in BOOLEAN /\ page.loading \in BOOLEAN /\ page.hidden = {}
    BY <2>1 DEF Auth!FirstPage
  <2> QED BY <2>2, <2>3 DEF SessionTypes, Auth!TypeOK, Auth!Names
<1>3. PICK i \in Auth!Ids : calls = [Auth!NoCalls EXCEPT ![i] = Auth!Check("init")]
  <2>1. 1 \in Auth!Ids BY <1>1 DEF Auth!CallsAssumption, Auth!Ids
  <2>2. Auth!NoCalls[1].fn = Auth!None BY <2>1 DEF Auth!NoCalls, Auth!NoCall
  <2>3. calls = Auth!Begun(Auth!NoCalls, Auth!Check("init")) BY DEF Auth!Init
  <2> QED BY <1>1, <2>1, <2>2, <2>3, BegunInAPlace
<1>4. SessionCall(Auth!Check("init")) /\ Auth!Check("init").fn = "status" /\ OfTheChain(Auth!Check("init"))
  BY DEF SessionCall, Auth!Check, Auth!Asks, CallFields, OfTheChain
<1>5. calls[i] = Auth!Check("init") /\ \A j \in Auth!Ids \ {i} : calls[j] = Auth!NoCall BY <1>3 DEF Auth!NoCalls
<1> QED BY <1>2, <1>4, <1>5, NothingIsACall DEF SessionRest, SectionIsPending, LoadingIsPending

LEMMA RestKeeps == Auth!CallsAssumption /\ SessionInv /\ SessionRest /\ [Auth!Next]_(Auth!vars) => SessionRest'
<1> SUFFICES ASSUME Auth!CallsAssumption, SessionInv, SessionRest, [Auth!Next]_(Auth!vars) PROVE SessionRest' OBVIOUS
<1>1. CASE UNCHANGED Auth!vars \/ \E u \in Users : Auth!Expire(u)
  <2>1. UNCHANGED <<page, calls>> /\ server'.must = server.must /\ server'.valid \subseteq server.valid
        /\ DOMAIN server' = DOMAIN server
    BY <1>1 DEF Auth!vars, Auth!Expire, SessionRest, SessionTypes
  <2>2. SessionTypes' BY <2>1 DEF SessionRest, SessionTypes, Auth!TypeOK
  <2> QED BY <2>1, <2>2 DEF SessionRest, SectionIsPending, LoadingIsPending, SessionCall, OfTheChain
<1>2. ASSUME NEW i \in Auth!Ids, Auth!Continue(i) PROVE SessionRest'
  BY <1>2, RestStatus, RestMe, RestFetched, RestSignedIn, RestLoggedOut DEF Auth!Continue
<1> QED BY <1>1, <1>2, RestServer, RestClicks DEF Auth!Next

-----------------------------------------------------------------------------
(* A user who waits. *)
(* The same page with the call i gone on to c. *)
TurnsWell(i, c) ==
  /\ calls[i].fn # Auth!None \/ c.fn = Auth!None
  /\ Leads(c) => Leads(calls[i])
  /\ page'.user \in {page.user, Auth!None} \/ Leads(calls[i])
  /\ Clears(c) => page'.user = Auth!None
  /\ page'.overlay => page'.user = Auth!None
  /\ \/ page'.user \in {page'.cookie, Auth!None} \/ c.fn = "logout"
     \/ calls[i].fn # "logout" /\ page'.user = page.user /\ page'.cookie = page.cookie
  /\ c.fn = "me" /\ c.arg.then = "init" => c.arg.as = page'.cookie
  /\ page'.cookie = page.cookie \/ Leads(c) \/ calls[i].fn = "logout"

LEMMA TurnGoesOn ==
  ASSUME SessionShape, SessionTurn, NEW i \in Auth!Ids, NEW c, Auth!GoesOn(i, c), TurnsWell(i, c)
  PROVE  SessionTurn'
<1> USE DEF SessionTurn, TurnsWell, Auth!None
<1>1. DOMAIN calls' = Auth!Ids /\ calls'[i] = c /\ \A j \in Auth!Ids \ {i} : calls'[j] = calls[j]
  BY DEF Auth!GoesOn, Auth!Moved, SessionShape
<1>2. \A j \in Auth!Ids \ {i} : Leads(calls[j]) => calls[i].fn = Auth!None /\ c.fn = Auth!None OBVIOUS
<1>3. Leads(c) => \A j \in Auth!Ids \ {i} : calls[j].fn = Auth!None OBVIOUS
<1>4. \A k, j \in Auth!Ids : Leads(calls'[k]) /\ k # j => calls'[j].fn = Auth!None
  <2> SUFFICES ASSUME NEW k \in Auth!Ids, NEW j \in Auth!Ids, Leads(calls'[k]), k # j
               PROVE  calls'[j].fn = Auth!None
    OBVIOUS
  <2>1. CASE k = i BY <1>1, <1>3, <2>1
  <2>2. CASE k # i /\ j = i BY <1>1, <1>2, <2>2
  <2>3. CASE k # i /\ j # i BY <1>1, <2>3
  <2> QED BY <2>1, <2>2, <2>3
<1>5. \A j \in Auth!Ids : Clears(calls'[j]) => page'.user = Auth!None
  <2> SUFFICES ASSUME NEW j \in Auth!Ids, Clears(calls'[j]), j # i PROVE page'.user = Auth!None BY <1>1
  <2>1. Clears(calls[j]) /\ calls[j].fn # Auth!None BY <1>1 DEF Clears
  <2>2. ~Leads(calls[i]) /\ page.user = Auth!None BY <2>1
  <2> QED BY <2>2
<1>6. page'.user \in {page'.cookie, Auth!None} \/ \E j \in Auth!Ids : calls'[j].fn = "logout" BY <1>1
<1>7. \A j \in Auth!Ids : calls'[j].fn = "me" /\ calls'[j].arg.then = "init" => calls'[j].arg.as = page'.cookie
  <2> SUFFICES ASSUME NEW j \in Auth!Ids, calls'[j].fn = "me", calls'[j].arg.then = "init", j # i
               PROVE  calls'[j].arg.as = page'.cookie
    BY <1>1
  <2>1. Leads(calls[j]) /\ calls[j].fn # Auth!None BY <1>1 DEF Leads
  <2>2. calls[i].fn # "logout" /\ ~Leads(c) BY <1>2, <1>3, <2>1
  <2> QED BY <1>1, <2>2
<1> QED BY <1>4, <1>5, <1>6, <1>7 DEF Leads, Clears

LEMMA TurnStarts ==
  ASSUME Auth!CallsAssumption, SessionShape, SessionTurn, Auth!Quiet, NEW c, Auth!Starts(c),
         c.fn # "me", Clears(c) => page.overlay, UNCHANGED <<page.user, page.cookie, page.overlay>>
  PROVE  SessionTurn'
<1>1. PICK i \in Auth!Ids : calls' = [calls EXCEPT ![i] = c] BY BegunInAPlace DEF Auth!Starts, Auth!Free
<1>2. DOMAIN calls' = Auth!Ids /\ calls'[i] = c /\ \A j \in Auth!Ids \ {i} : calls'[j].fn = Auth!None
  BY <1>1 DEF SessionShape, Auth!Quiet
<1>3. page.user \in {page.cookie, Auth!None} BY DEF SessionTurn, Auth!Quiet, Auth!None
<1>4. ASSUME NEW j \in Auth!Ids \ {i} PROVE ~Leads(calls'[j]) /\ ~Clears(calls'[j]) /\ calls'[j].fn # "me"
  BY <1>2 DEF Leads, Clears, Auth!None
<1>5. \A k, j \in Auth!Ids : Leads(calls'[k]) /\ k # j => calls'[j].fn = Auth!None BY <1>2, <1>4
<1>6. \A j \in Auth!Ids : Clears(calls'[j]) => page'.user = Auth!None BY <1>2, <1>4 DEF SessionTurn
<1>7. \A j \in Auth!Ids : calls'[j].fn # "me" BY <1>2, <1>4
<1> QED BY <1>3, <1>5, <1>6, <1>7 DEF SessionTurn, Leads, Clears

LEMMA TurnServer ==
  ASSUME SessionInv, SessionTurn, NEW i \in Auth!Ids, Auth!Serve(i) \/ Auth!Lose(i)
  PROVE  SessionTurn'
<1>1. SessionShape /\ DOMAIN page = SessionFields BY DEF SessionInv, SessionShape
<1>2. PICK got : calls' = [calls EXCEPT ![i] = Auth!IsBack(@, got)]
  BY DEF Auth!Serve, Auth!Lose, Auth!ServeStatus, Auth!ServeMe, Auth!ServeWork, Auth!Fails, Auth!ServeRegister, Auth!ServeLogin,
     Auth!ServePassword, Auth!ServeLogout, Auth!Answers
<1> DEFINE c == Auth!IsBack(calls[i], got)
<1>3. Auth!GoesOn(i, c) BY <1>1, <1>2 DEF Auth!GoesOn, Auth!Moved
<1>4. c.fn = calls[i].fn /\ c.arg = calls[i].arg BY DEF Auth!IsBack
<1> HIDE DEF c
<1>5. Leads(c) = Leads(calls[i]) /\ Clears(c) = Clears(calls[i]) BY <1>4, Zenon DEF Leads, Clears
<1>6. Clears(c) => page.user = Auth!None BY <1>5 DEF SessionTurn
<1>7. CASE UNCHANGED page
  <2>1. TurnsWell(i, c) BY <1>4, <1>5, <1>6, <1>7 DEF SessionTurn, TurnsWell
  <2> QED BY <1>1, <1>3, <2>1, TurnGoesOn
<1>8. CASE Auth!ServeLogin(i) \/ Auth!ServeLogout(i)
  <2>1. /\ page'.user = page.user /\ page'.overlay = page.overlay
        /\ UNCHANGED page \/ calls[i].fn = "login" \/ calls[i].fn = "logout"
    BY <1>1, <1>8 DEF Auth!ServeLogin, Auth!ServeLogout, Auth!Sent, SessionFields
  <2>2. calls[i].fn = "login" => Leads(c) /\ Clears(c) BY <1>4 DEF Leads, Clears
  <2>3. c.fn = "me" => UNCHANGED page BY <1>4, <2>1
  <2>4. TurnsWell(i, c) BY <1>4, <1>5, <1>6, <2>1, <2>2, <2>3 DEF SessionTurn, TurnsWell
  <2> QED BY <1>1, <1>3, <2>4, TurnGoesOn
<1> QED
  BY <1>7, <1>8 DEF Auth!Serve, Auth!Lose, Auth!ServeStatus, Auth!ServeMe, Auth!ServeWork, Auth!ServeRegister, Auth!ServePassword

LEMMA TurnStatus == ASSUME SessionInv, SessionTurn, NEW i \in Auth!Ids, Auth!CheckStatus(i) PROVE SessionTurn'
<1>1. SessionShape /\ DOMAIN page = SessionFields /\ calls[i].fn = "status"
  BY DEF SessionInv, SessionShape, Auth!CheckStatus, Auth!Back
<1>2. page.user = Auth!None BY <1>1 DEF SessionTurn, Clears
<1>3. CASE ~Auth!HasUsers(i)
  <2>1. Auth!Ends(i) /\ page'.user = page.user /\ page'.cookie = page.cookie
    BY <1>1, <1>3 DEF Auth!CheckStatus, Auth!Refused, SessionFields
  <2>2. TurnsWell(i, Auth!NoCall) BY <1>1, <1>2, <2>1, NothingIsACall DEF TurnsWell, Leads, Clears, Auth!None
  <2> QED BY <1>1, <2>1, <2>2, EndingGoesOn, TurnGoesOn
<1>4. CASE Auth!HasUsers(i)
  <2> DEFINE c == Auth!Asks("me", [as |-> page.cookie, then |-> calls[i].arg.then])
  <2>1. Auth!GoesOn(i, c) /\ page'.user = page.user /\ page'.cookie = page.cookie BY <1>1, <1>4 DEF Auth!CheckStatus, SessionFields
  <2>2. c.fn = "me" /\ c.arg.as = page.cookie /\ c.arg.then = calls[i].arg.then BY DEF Auth!Asks
  <2> HIDE DEF c
  <2>3. TurnsWell(i, c) BY <1>1, <1>2, <2>1, <2>2 DEF TurnsWell, Leads, Clears, Auth!None
  <2> QED BY <1>1, <2>1, <2>3, TurnGoesOn
<1> QED BY <1>3, <1>4

LEMMA TurnMe ==
  ASSUME SessionInv, SessionRest, SessionTurn, NEW i \in Auth!Ids, Auth!MeRefused(i) \/ Auth!MeKnown(i)
  PROVE  SessionTurn'
<1>1. SessionShape /\ SessionCall(calls[i]) /\ DOMAIN page = SessionFields /\ calls[i].fn = "me"
  BY DEF SessionInv, SessionShape, SessionRest, Auth!MeRefused, Auth!MeKnown, Auth!Back
<1>2. page.user = Auth!None BY <1>1 DEF SessionTurn, Clears
<1>3. CASE Auth!MeRefused(i)
  <2>1. Auth!Ends(i) /\ page'.user = page.user /\ page'.cookie = page.cookie BY <1>1, <1>3 DEF Auth!MeRefused, SessionFields
  <2>2. TurnsWell(i, Auth!NoCall) BY <1>1, <1>2, <2>1, NothingIsACall DEF TurnsWell, Leads, Clears, Auth!None
  <2> QED BY <1>1, <2>1, <2>2, EndingGoesOn, TurnGoesOn
<1>4. CASE Auth!MeKnown(i)
  <2> DEFINE p == Auth!Confirmed(page, i)
             c == Auth!Asks("version", [as |-> page.cookie])
  <2>1. DOMAIN p = SessionFields /\ p.user = page.user /\ p.cookie = page.cookie /\ p.overlay = FALSE
        /\ p.me \in {Auth!None, Auth!Answer(i)} /\ (Auth!Answer(i) = Auth!Garbled => p.me = Auth!None)
    BY <1>1 DEF Auth!Confirmed, SessionFields
  <2> HIDE DEF p
  <2>2. \/ calls[i].arg.then = Auth!None /\ page' = p /\ Auth!Ends(i)
        \/ /\ calls[i].arg.then = "init" /\ Auth!GoesOn(i, c)
           /\ page' = p \/ (p.me # Auth!None /\ page' = Auth!Shown(p, p.me))
    BY <1>4 DEF Auth!MeKnown, p
  <2>3. page'.cookie = page.cookie /\ page'.overlay = FALSE BY <2>1, <2>2 DEF Auth!Shown, SessionFields
  <2>4. CASE calls[i].arg.then = Auth!None /\ page' = p /\ Auth!Ends(i)
    <3>1. TurnsWell(i, Auth!NoCall) BY <1>1, <1>2, <2>1, <2>4, NothingIsACall DEF TurnsWell, Leads, Clears, Auth!None
    <3> QED BY <1>1, <2>4, <3>1, EndingGoesOn, TurnGoesOn
  <2>5. CASE calls[i].arg.then = "init" /\ Auth!GoesOn(i, c)
    <3>1. Leads(calls[i]) /\ calls[i].arg.as = page.cookie BY <1>1, <2>5 DEF Leads, SessionTurn
    <3>2. Auth!Answer(i) \in {page.cookie, Auth!Garbled}
      BY <1>1, <1>4, <3>1 DEF Auth!MeKnown, Auth!Fetched, Auth!Answered, Auth!Answer, SessionCall
    <3>3. page'.user \in {page.cookie, Auth!None} BY <1>2, <2>1, <2>2, <3>2 DEF Auth!Shown, SessionFields
    <3>4. c.fn = "version" BY DEF Auth!Asks
    <3> HIDE DEF c
    <3>5. TurnsWell(i, c) BY <1>1, <2>3, <3>1, <3>3, <3>4 DEF TurnsWell, Leads, Clears, Auth!None
    <3> QED BY <1>1, <2>5, <3>5, TurnGoesOn
  <2> QED BY <2>2, <2>4, <2>5
<1> QED BY <1>3, <1>4

LEMMA TurnFetches ==
  ASSUME Auth!CallsAssumption, SessionShape, SessionTurn, NEW i \in Auth!Ids, NEW p, NEW c,
         Auth!AfterFetch(i, p, Auth!Moved(i, c)), DOMAIN page = SessionFields, DOMAIN p = SessionFields,
         p.user = page.user, p.cookie = page.cookie, p.overlay = page.overlay,
         calls[i].fn \in {"version", "load", "work"}, c.fn \in {"load", Auth!None}
  PROVE  SessionTurn'
<1>1. ~Leads(calls[i]) /\ ~Leads(c) /\ ~Clears(c) /\ calls[i].fn # Auth!None /\ calls[i].fn # "logout" /\ c.fn # "me"
  BY DEF Leads, Clears, Auth!None
<1>2. CASE ~Auth!Forces(i)
  <2>1. Auth!GoesOn(i, c) /\ page' = p BY <1>2 DEF Auth!AfterFetch, Auth!GoesOn
  <2>2. TurnsWell(i, c) BY <1>1, <2>1 DEF TurnsWell, SessionTurn
  <2> QED BY <2>1, <2>2, TurnGoesOn
<1>3. CASE Auth!Forces(i)
  <2> DEFINE cs == Auth!Moved(i, c)
             d == Auth!LogoutCall
  <2>1. page'.user = page.user /\ page'.cookie = page.cookie /\ page'.overlay = page.overlay
    BY <1>3 DEF Auth!AfterFetch, Auth!LoggingOut, SessionFields
  <2>2. PICK k \in Auth!Ids : cs[k].fn = Auth!None /\ calls' = Auth!Begun(cs, d) BY <1>3 DEF Auth!AfterFetch
  <2>3. PICK j \in Auth!Ids : calls' = [cs EXCEPT ![j] = d] BY <2>2, BegunInAPlace
  <2>4. d.fn = "logout" BY DEF Auth!LogoutCall, Auth!Asks
  <2>5. DOMAIN cs = Auth!Ids /\ cs[i] = c /\ \A n \in Auth!Ids \ {i} : cs[n] = calls[n] BY DEF Auth!Moved, SessionShape
  <2> HIDE DEF cs, d
  <2>6. \A n \in Auth!Ids : calls'[n] = calls[n] \/ calls'[n] = c \/ calls'[n] = d BY <2>3, <2>5
  <2>7. \A n \in Auth!Ids : ~Leads(calls[n]) BY <1>1 DEF SessionTurn
  <2>8. ~Leads(d) /\ ~Clears(d) /\ d.fn # "me" BY <2>4 DEF Leads, Clears
  <2>9. \A n \in Auth!Ids : ~Leads(calls'[n]) BY <1>1, <2>6, <2>7, <2>8
  <2>10. \A n \in Auth!Ids : Clears(calls'[n]) => page'.user = Auth!None BY <1>1, <2>1, <2>6, <2>8 DEF SessionTurn
  <2>11. calls'[j].fn = "logout" BY <2>3, <2>4, <2>5
  <2>12. \A n \in Auth!Ids : ~(calls'[n].fn = "me" /\ calls'[n].arg.then = "init") BY <2>9 DEF Leads
  <2> QED BY <2>1, <2>9, <2>10, <2>11, <2>12 DEF SessionTurn, Leads, Clears
<1> QED BY <1>2, <1>3

LEMMA TurnFetched ==
  ASSUME Auth!CallsAssumption, SessionInv, SessionTurn, NEW i \in Auth!Ids,
         Auth!Version(i) \/ Auth!Load(i) \/ Auth!Work(i)
  PROVE  SessionTurn'
<1>1. SessionShape /\ DOMAIN page = SessionFields /\ Auth!NoCall.fn = Auth!None BY NothingIsACall DEF SessionInv, SessionShape
<1>2. calls[i].fn \in {"version", "load", "work"} BY DEF Auth!Version, Auth!Load, Auth!Work, Auth!Back
<1>3. \E p, c : /\ Auth!AfterFetch(i, p, Auth!Moved(i, c)) /\ c.fn \in {"load", Auth!None}
                /\ DOMAIN p = SessionFields /\ p.user = page.user /\ p.cookie = page.cookie /\ p.overlay = page.overlay
  <2>1. Auth!Ended(i) = Auth!Moved(i, Auth!NoCall) BY DEF Auth!Ended, Auth!Moved
  <2>2. CASE Auth!Version(i) BY <1>1, <2>2, AskingIsACall DEF Auth!Version
  <2>3. CASE Auth!Work(i) BY <1>1, <2>1, <2>3 DEF Auth!Work
  <2>4. CASE Auth!Load(i)
    <3> DEFINE p == [page EXCEPT !.loading = FALSE, !.devices = IF Auth!Fetched(i) THEN Auth!Answer(i) ELSE @]
    <3>1. Auth!AfterFetch(i, p, Auth!Moved(i, Auth!NoCall)) BY <2>1, <2>4 DEF Auth!Load
    <3>2. DOMAIN p = SessionFields /\ p.user = page.user /\ p.cookie = page.cookie /\ p.overlay = page.overlay BY <1>1
    <3> HIDE DEF p
    <3> QED BY <1>1, <3>1, <3>2
  <2> QED BY <2>2, <2>3, <2>4
<1> QED BY <1>1, <1>2, <1>3, TurnFetches

LEMMA TurnClicks ==
  ASSUME Auth!CallsAssumption, SessionInv, SessionTurn, inTurn,
         \/ \E u \in Users : Auth!ClickRegister(u) \/ Auth!ClickLogin(u)
         \/ Auth!ClickPassword \/ Auth!ClickWork \/ Auth!ClickLogout
  PROVE  SessionTurn'
<1>1. SessionShape /\ DOMAIN page = SessionFields BY DEF SessionInv, SessionShape
<1>2. Auth!Quiet /\ UNCHANGED <<page.user, page.cookie, page.overlay>>
  BY <1>1 DEF Auth!ClickRegister, Auth!ClickLogin, Auth!ClickPassword, Auth!ClickWork, Auth!ClickLogout, Auth!Click, Auth!MayClick,
     Auth!LoggingOut, SessionFields
<1>3. \E c : Auth!Starts(c) /\ c.fn # "me" /\ (Clears(c) => page.overlay)
  <2>1. CASE page.overlay /\ \E fn, arg : fn # "me" /\ Auth!Starts(Auth!Asks(fn, arg)) BY <2>1, AskingIsACall
  <2>2. CASE Auth!ClickWork \/ Auth!ClickLogout
    <3>1. \E fn \in {"work", "logout"} : \E arg : Auth!Starts(Auth!Asks(fn, arg))
      BY <2>2 DEF Auth!ClickWork, Auth!ClickLogout, Auth!LogoutCall, Auth!Click
    <3> QED BY <3>1, AskingIsACall DEF Clears
  <2> QED BY <2>1, <2>2 DEF Auth!ClickRegister, Auth!ClickLogin, Auth!ClickPassword, Auth!Click
<1> QED BY <1>1, <1>2, <1>3, TurnStarts

LEMMA TurnSignedIn ==
  ASSUME SessionInv, SessionTurn, NEW i \in Auth!Ids,
         Auth!Registered(i) \/ Auth!LoggedIn(i) \/ Auth!PasswordChanged(i)
  PROVE  SessionTurn'
<1>1. SessionShape /\ DOMAIN page = SessionFields BY DEF SessionInv, SessionShape
<1>2. Leads(calls[i]) /\ Clears(calls[i]) /\ calls[i].fn # Auth!None
  BY DEF Auth!Registered, Auth!LoggedIn, Auth!PasswordChanged, Auth!Back, Leads, Clears, Auth!None
<1>3. page.user = Auth!None /\ page'.user = page.user /\ page'.cookie = page.cookie
  BY <1>1, <1>2 DEF SessionTurn, Auth!Registered, Auth!LoggedIn, Auth!PasswordChanged, Auth!Starting, Auth!Checking, SessionFields
<1>4. Auth!Ends(i) \/ \E fn, arg : fn # "me" /\ Auth!GoesOn(i, Auth!Asks(fn, arg))
  BY DEF Auth!Registered, Auth!LoggedIn, Auth!PasswordChanged, Auth!Check
<1>5. \E c : c.fn # "me" /\ Auth!GoesOn(i, c) BY <1>4, AskingIsACall, EndingGoesOn, NothingIsACall DEF Auth!None
<1>6. ASSUME NEW c, c.fn # "me" PROVE TurnsWell(i, c) BY <1>2, <1>3, <1>6 DEF TurnsWell
<1> QED BY <1>1, <1>5, <1>6, TurnGoesOn

LEMMA TurnLoggedOut == ASSUME SessionInv, SessionTurn, NEW i \in Auth!Ids, Auth!LoggedOut(i) PROVE SessionTurn'
<1>1. SessionShape /\ DOMAIN page = SessionFields BY DEF SessionInv, SessionShape
<1> DEFINE c == Auth!Check(Auth!None)
<1>2. Auth!GoesOn(i, c) /\ calls[i].fn = "logout" /\ page'.user = Auth!None
  BY <1>1 DEF Auth!LoggedOut, Auth!Back, Auth!Checking, SessionFields
<1>3. c.fn = "status" /\ c.arg.then = Auth!None BY DEF Auth!Check, Auth!Asks
<1> HIDE DEF c
<1>4. TurnsWell(i, c) BY <1>2, <1>3 DEF TurnsWell, Leads, Auth!None
<1> QED BY <1>1, <1>2, <1>4, TurnGoesOn

LEMMA TurnBegins == Auth!CallsAssumption /\ Auth!Init => SessionTurn
<1> SUFFICES ASSUME Auth!CallsAssumption, Auth!Init PROVE SessionTurn OBVIOUS
<1>1. PICK i \in Auth!Ids : calls = [Auth!NoCalls EXCEPT ![i] = Auth!Check("init")]
  <2>1. 1 \in Auth!Ids BY DEF Auth!CallsAssumption, Auth!Ids
  <2>2. Auth!NoCalls[1].fn = Auth!None BY <2>1 DEF Auth!NoCalls, Auth!NoCall
  <2>3. calls = Auth!Begun(Auth!NoCalls, Auth!Check("init")) BY DEF Auth!Init
  <2> QED BY <2>1, <2>2, <2>3, BegunInAPlace
<1>2. calls[i].fn = "status" /\ \A j \in Auth!Ids \ {i} : calls[j].fn = Auth!None
  BY <1>1 DEF Auth!NoCalls, Auth!NoCall, Auth!Check, Auth!Asks
<1>3. page.user = Auth!None BY DEF Auth!Init, Auth!FirstPage
<1>4. \A j \in Auth!Ids \ {i} : ~Leads(calls[j]) BY <1>2 DEF Leads, Auth!None
<1>5. \A j \in Auth!Ids : calls[j].fn # "me" BY <1>2 DEF Auth!None
<1> QED BY <1>2, <1>3, <1>4, <1>5 DEF SessionTurn

LEMMA TurnKeeps ==
  Auth!CallsAssumption /\ SessionInv /\ SessionRest /\ SessionTurn /\ inTurn /\ [Auth!Next]_(Auth!vars)
  => SessionTurn'
<1> SUFFICES ASSUME Auth!CallsAssumption, SessionInv, SessionRest, SessionTurn, inTurn, [Auth!Next]_(Auth!vars)
             PROVE SessionTurn'
  OBVIOUS
<1>1. CASE UNCHANGED Auth!vars \/ \E u \in Users : Auth!Expire(u)
  <2>1. UNCHANGED <<page, calls>> BY <1>1 DEF Auth!vars, Auth!Expire
  <2> QED BY <2>1 DEF SessionTurn, Leads, Clears
<1>2. ASSUME NEW i \in Auth!Ids, Auth!Continue(i) PROVE SessionTurn'
  BY <1>2, TurnStatus, TurnMe, TurnFetched, TurnSignedIn, TurnLoggedOut DEF Auth!Continue
<1> QED BY <1>1, <1>2, TurnServer, TurnClicks DEF Auth!Next

-----------------------------------------------------------------------------
(* WebSettings. *)
(* In these places calls are new, in the others they stay. *)
CallsStayBut(P) == \A j \in Prefs!Ids \ P : calls'[j] = calls[j]

LEMMA SettingsBegun ==
  ASSUME Auth!CallsAssumption, NEW cs, NEW c, NEW k \in Prefs!Ids, cs[k].fn = Prefs!None
  PROVE  \E i \in Prefs!Ids :
           cs[i].fn = Prefs!None /\ Prefs!Begun(cs, c) = [cs EXCEPT ![i] = c]
BY FirstFree DEF Prefs!Begun, Prefs!Ids, Prefs!None, Auth!CallsAssumption

LEMMA SettingsStarts == ASSUME Auth!CallsAssumption, SettingsShape, NEW c, Prefs!Starts(c) PROVE \E i \in Prefs!Ids :
           /\ calls[i].fn = Prefs!None /\ DOMAIN calls' = Prefs!Ids
           /\ calls'[i] = c /\ CallsStayBut({i})
BY SettingsBegun DEF Prefs!Starts, Prefs!Free, SettingsShape, CallsStayBut

LEMMA SettingsMoves ==
  ASSUME SettingsShape, NEW i \in Prefs!Ids, NEW c, Prefs!GoesOn(i, c)
  PROVE  DOMAIN calls' = Prefs!Ids /\ calls'[i] = c /\ CallsStayBut({i})
BY DEF Prefs!GoesOn, Prefs!Moved, SettingsShape, CallsStayBut

LEMMA SettingsEnds == ASSUME SettingsShape, NEW i \in Prefs!Ids, Prefs!Ends(i) PROVE Prefs!GoesOn(i, Prefs!NoCall)
BY DEF Prefs!Ends, Prefs!Ended, Prefs!GoesOn, Prefs!Moved

LEMMA SettingsAnswers ==
  ASSUME SettingsShape, NEW i \in Prefs!Ids, NEW got,
         calls' = [calls EXCEPT ![i] = Prefs!IsBack(@, got)]
  PROVE  Prefs!GoesOn(i, Prefs!IsBack(calls[i], got))
BY DEF Prefs!GoesOn, Prefs!Moved

LEMMA SameCardinality == \A S : Prefs!Cardinality(S) = Cardinality(S)
BY DEF Prefs!Cardinality, Cardinality

(* Two places are free: loadAppSettings finds one for each of its forms. *)
RoomBehind == Prefs!Cardinality(Prefs!Free) >= Prefs!Cardinality(Prefs!Behind) - 1

LEMMA TwoAreFree == ASSUME Auth!CallsAssumption, RoomBehind PROVE \E j, k \in Prefs!Free : j # k
<1>1. Cardinality({"blacklist", "ping", "app"}) = 3
  <2>1. IsFiniteSet({"blacklist"}) /\ Cardinality({"blacklist"}) = 1 BY FS_Singleton
  <2>2. IsFiniteSet({"blacklist"} \union {"ping"}) /\ Cardinality({"blacklist"} \union {"ping"}) = 2 BY <2>1, FS_AddElement
  <2>3. Cardinality({"blacklist"} \union {"ping"} \union {"app"}) = 3 BY <2>2, FS_AddElement
  <2>4. {"blacklist"} \union {"ping"} \union {"app"} = {"blacklist", "ping", "app"} OBVIOUS
  <2> QED BY <2>3, <2>4
<1>2. IsFiniteSet(Prefs!Free)
  <2>1. IsFiniteSet(1..MaxCalls) BY FS_Interval DEF Auth!CallsAssumption
  <2>2. Prefs!Free \subseteq 1..MaxCalls BY DEF Prefs!Free, Prefs!Ids
  <2> QED BY <2>1, <2>2, FS_Subset
<1>3. Cardinality(Prefs!Free) \in Nat BY <1>2, FS_CardinalityType
<1>4. Cardinality(Prefs!Free) >= 2 BY <1>1, <1>3, SameCardinality DEF Prefs!Behind, RoomBehind
<1>5. ASSUME \A j, k \in Prefs!Free : j = k PROVE FALSE
  <2>1. Prefs!Free # {} BY <1>4, FS_EmptySet
  <2>2. PICK j \in Prefs!Free : Prefs!Free = {j} BY <1>5, <2>1
  <2> QED BY <1>4, <2>2, FS_Singleton
<1> QED BY <1>5

(* loadAppSettings: where the network was loaded, and in two free places. *)
LEMMA BehindInPlaces ==
  ASSUME Auth!CallsAssumption, SettingsShape, NEW i \in Prefs!Ids, calls[i].fn # Prefs!None,
         RoomBehind,
         NEW a, NEW b, NEW c, a.fn # Prefs!None, b.fn # Prefs!None,
         calls' = Prefs!Begun(Prefs!Begun(Prefs!Moved(i, a), b), c)
  PROVE  \E j, k \in Prefs!Ids :
           /\ calls[j].fn = Prefs!None /\ calls[k].fn = Prefs!None /\ DOMAIN calls' = Prefs!Ids
           /\ CallsStayBut({i, j, k}) /\ \A n \in {i, j, k} : calls'[n] \in {a, b, c}
<1>1. PICK m, n \in Prefs!Ids : m # n /\ calls[m].fn = Prefs!None /\ calls[n].fn = Prefs!None BY TwoAreFree DEF Prefs!Free
<1> DEFINE cs == Prefs!Moved(i, a)
<1>2. DOMAIN cs = Prefs!Ids /\ cs[i] = a /\ \A j \in Prefs!Ids \ {i} : cs[j] = calls[j] BY DEF Prefs!Moved, SettingsShape
<1> HIDE DEF cs
<1>3. PICK j \in Prefs!Ids : cs[j].fn = Prefs!None /\ Prefs!Begun(cs, b) = [cs EXCEPT ![j] = b] BY <1>1, <1>2, SettingsBegun
<1>4. j # i /\ calls[j].fn = Prefs!None BY <1>2, <1>3
<1> DEFINE ds == [cs EXCEPT ![j] = b]
<1>5. DOMAIN ds = Prefs!Ids /\ ds[j] = b /\ \A l \in Prefs!Ids \ {j} : ds[l] = cs[l] BY <1>2
<1> HIDE DEF ds
<1>6. \E l \in Prefs!Ids : ds[l].fn = Prefs!None BY <1>1, <1>2, <1>5
<1>7. PICK k \in Prefs!Ids : ds[k].fn = Prefs!None /\ Prefs!Begun(ds, c) = [ds EXCEPT ![k] = c] BY <1>6, SettingsBegun
<1>8. k \notin {i, j} /\ calls[k].fn = Prefs!None BY <1>2, <1>4, <1>5, <1>7
<1>9. calls' = [ds EXCEPT ![k] = c] BY <1>3, <1>7 DEF cs, ds
<1>10. DOMAIN calls' = Prefs!Ids /\ calls'[k] = c /\ calls'[j] = b /\ calls'[i] = a BY <1>2, <1>4, <1>5, <1>8, <1>9
<1>11. CallsStayBut({i, j, k}) BY <1>2, <1>5, <1>9 DEF CallsStayBut
<1> QED BY <1>4, <1>8, <1>10, <1>11

(* The page, the server and the calls in these places as they should be. *)
SettingsHold(P) ==
  /\ DOMAIN calls' = Prefs!Ids /\ CallsStayBut(P)
  /\ \A j \in P \intersect Prefs!Ids : SettingsCall(calls'[j])
  /\ DOMAIN page' = DOMAIN page /\ DOMAIN server' = DOMAIN server
  /\ DOMAIN page'.value = Prefs!Forms /\ DOMAIN server'.value = Prefs!Forms
  /\ Prefs!TypeOK'

LEMMA SettingsHolding == ASSUME SettingsRest, NEW P, SettingsHold(P) PROVE SettingsRest'
<1>1. \A j \in Prefs!Ids : SettingsCall(calls'[j]) BY DEF SettingsRest, SettingsHold, CallsStayBut
<1>2. (\A j \in Prefs!Ids : SettingsCall(calls[j]))' BY <1>1
<1> QED BY <1>2 DEF SettingsRest, SettingsHold, SettingsShape

LEMMA SettingsRequests ==
  /\ \A f \in Prefs!Forms : SettingsCall(Prefs!Load(f)) /\ Prefs!Load(f).fn = "load"
  /\ \A f \in Prefs!Forms, v \in Prefs!Values :
       SettingsCall(Prefs!Asks("save", [form |-> f, value |-> v]))
  /\ SettingsCall(Prefs!Status) /\ SettingsCall(Prefs!NoCall)
BY DEF SettingsCall, CallFields, Prefs!Load, Prefs!Status, Prefs!Asks, Prefs!NoCall, Prefs!None

LEMMA SettingsClick ==
  ASSUME Auth!CallsAssumption, SettingsRest,
         \/ \E f \in Prefs!Forms : Prefs!Open(f) \/ Prefs!Edit(f) \/ Prefs!Save(f)
         \/ Prefs!Toggle
  PROVE  SettingsRest'
<1> USE DEF SettingsRest, SettingsShape
<1>1. DOMAIN server' = DOMAIN server /\ server'.value = server.value
  BY DEF Prefs!Open, Prefs!Edit, Prefs!Save, Prefs!Toggle, Prefs!Clicked
<1>2. /\ DOMAIN page' = DOMAIN page /\ page'.known = page.known /\ DOMAIN page'.value = Prefs!Forms
      /\ \A f \in Prefs!Forms : page'.value[f] \in Prefs!Values
  <2>1. UNCHANGED page \/ \E f \in Prefs!Forms : page' = [page EXCEPT !.value[f] = 1 - @]
    BY DEF Prefs!Open, Prefs!Edit, Prefs!Save, Prefs!Toggle, Prefs!Forms
  <2> QED BY <2>1 DEF Prefs!TypeOK, Prefs!Values
<1>3. Prefs!TypeOK' BY <1>1, <1>2 DEF Prefs!TypeOK
<1>4. UNCHANGED calls \/ \E c : SettingsCall(c) /\ Prefs!Starts(c)
  <2>1. ASSUME NEW f \in Prefs!Forms, Prefs!Open(f)
        PROVE  SettingsCall(Prefs!Load(f)) /\ Prefs!Starts(Prefs!Load(f))
    BY <2>1, SettingsRequests DEF Prefs!Open
  <2>2. ASSUME NEW f \in Prefs!Forms, Prefs!Save(f)
        PROVE  \E c : SettingsCall(c) /\ Prefs!Starts(c)
    BY <2>2, SettingsRequests DEF Prefs!Save, Prefs!TypeOK
  <2>3. ASSUME Prefs!Toggle
        PROVE  \E c : SettingsCall(c) /\ Prefs!Starts(c)
    <3>1. "blacklist" \in Prefs!Forms BY DEF Prefs!Forms
    <3> QED BY <1>2, <2>3, <3>1, SettingsRequests DEF Prefs!Toggle
  <2> QED BY <2>1, <2>2, <2>3 DEF Prefs!Edit
<1>5. CASE UNCHANGED calls
  <2>1. SettingsHold({}) BY <1>1, <1>2, <1>3, <1>5 DEF SettingsHold, CallsStayBut
  <2> QED BY <2>1, SettingsHolding
<1>6. ASSUME NEW c, SettingsCall(c), Prefs!Starts(c) PROVE SettingsRest'
  <2>1. PICK j \in Prefs!Ids : DOMAIN calls' = Prefs!Ids /\ calls'[j] = c /\ CallsStayBut({j}) BY <1>6, SettingsStarts
  <2>2. SettingsHold({j}) BY <1>1, <1>2, <1>3, <1>6, <2>1 DEF SettingsHold
  <2> QED BY <2>2, SettingsHolding
<1> QED BY <1>4, <1>5, <1>6

LEMMA SettingsContinue == ASSUME Auth!CallsAssumption, SettingsRest, NEW i \in Prefs!Ids, Prefs!Continue(i) PROVE SettingsRest'
<1> USE DEF Prefs!Continue, Prefs!Loaded, Prefs!Saved, Prefs!StatusShown, Prefs!TypeOK
<1> USE DEF SettingsRest, SettingsShape
<1>1. UNCHANGED server OBVIOUS
<1>2. /\ DOMAIN page' = DOMAIN page /\ page'.known \subseteq Prefs!Forms /\ DOMAIN page'.value = Prefs!Forms
      /\ \A f \in Prefs!Forms : page'.value[f] \in Prefs!Values
  <2>1. CASE Prefs!Loaded(i)
    <3>1. calls[i].arg.form \in Prefs!Forms /\ (Prefs!Answered(i) => Prefs!Answer(i) \in Prefs!Values)
      BY <2>1 DEF SettingsCall, Prefs!Back, Prefs!Answered, Prefs!Answer
    <3> DEFINE f == calls[i].arg.form
    <3>2. CASE Prefs!Answered(i)
      <4>1. page' = [page EXCEPT !.drawn[f] = TRUE, !.value[f] = Prefs!Answer(i), !.known = @ \union {f}] BY <2>1, <3>2, Zenon
      <4> HIDE DEF f
      <4> QED BY <3>1, <3>2, <4>1 DEF f
    <3>3. CASE ~Prefs!Answered(i)
      <4>1. page' = [page EXCEPT !.drawn[f] = f \in Prefs!Standing] BY <2>1, <3>3, Zenon
      <4> QED BY <4>1
    <3> QED BY <3>2, <3>3
  <2>2. CASE Prefs!Saved(i) BY <2>2 DEF Prefs!Values
  <2>3. CASE Prefs!StatusShown(i) BY <2>3
  <2> QED BY <2>1, <2>2, <2>3
<1>3. Prefs!TypeOK' BY <1>1, <1>2
<1>4. ASSUME NEW c, SettingsCall(c), Prefs!GoesOn(i, c) PROVE SettingsRest'
  <2>1. DOMAIN calls' = Prefs!Ids /\ calls'[i] = c /\ CallsStayBut({i}) BY <1>4, SettingsMoves
  <2>2. SettingsHold({i}) BY <1>1, <1>2, <1>3, <1>4, <2>1 DEF SettingsHold
  <2> QED BY <2>2, SettingsHolding
<1>5. CASE Prefs!Ends(i) \/ Prefs!GoesOn(i, Prefs!Status) BY <1>4, <1>5, SettingsEnds, SettingsRequests
<1>6. CASE Prefs!Loaded(i) /\ Prefs!Answered(i) /\ calls[i].arg.form = "network"
  <2> DEFINE a == Prefs!Load("blacklist")
             b == Prefs!Load("ping")
             c == Prefs!Load("app")
  <2>1. SettingsCall(a) /\ SettingsCall(b) /\ SettingsCall(c) /\ a.fn = "load" /\ b.fn = "load" /\ c.fn = "load"
    BY SettingsRequests DEF Prefs!Forms
  <2>2. /\ calls[i].fn = "load" /\ RoomBehind
        /\ calls' = Prefs!Begun(Prefs!Begun(Prefs!Moved(i, a), b), c)
    BY <1>6, Zenon DEF Prefs!Back, RoomBehind
  <2> HIDE DEF a, b, c
  <2>3. calls[i].fn # Prefs!None /\ a.fn # Prefs!None /\ b.fn # Prefs!None BY <2>1, <2>2 DEF Prefs!None
  <2>4. PICK j, k \in Prefs!Ids :
           /\ calls[j].fn = Prefs!None /\ calls[k].fn = Prefs!None /\ DOMAIN calls' = Prefs!Ids
           /\ CallsStayBut({i, j, k}) /\ \A n \in {i, j, k} : calls'[n] \in {a, b, c}
    BY <2>2, <2>3, BehindInPlaces, Zenon
  <2>5. SettingsHold({i, j, k}) BY <1>1, <1>2, <1>3, <2>1, <2>4 DEF SettingsHold
  <2> QED BY <2>5, SettingsHolding
<1>7. CASE Prefs!Loaded(i) BY <1>5, <1>6, <1>7
<1> QED BY <1>5, <1>7

LEMMA SettingsServer ==
  ASSUME SettingsRest, NEW i \in Prefs!Ids,
         Prefs!Serve(i) \/ Prefs!Refuse(i) \/ Prefs!LoseAnswer(i)
  PROVE  SettingsRest'
<1> USE DEF Prefs!Serve, Prefs!ServeLoad, Prefs!ServeSave, Prefs!ServeStatus, Prefs!Refuse, Prefs!LoseAnswer, Prefs!TypeOK,
    Prefs!Sent, SettingsCall, Prefs!Answers
<1> USE DEF SettingsRest, SettingsShape
<1>1. UNCHANGED page OBVIOUS
<1>2. /\ DOMAIN server' = DOMAIN server /\ DOMAIN server'.value = Prefs!Forms
      /\ \A f \in Prefs!Forms : server'.value[f] \in Prefs!Values
  OBVIOUS
<1>3. Prefs!TypeOK' BY <1>1, <1>2
<1>4. ASSUME NEW c, SettingsCall(c), Prefs!GoesOn(i, c) PROVE SettingsRest'
  <2>1. DOMAIN calls' = Prefs!Ids /\ calls'[i] = c /\ CallsStayBut({i}) BY <1>4, SettingsMoves
  <2>2. SettingsHold({i}) BY <1>1, <1>2, <1>3, <1>4, <2>1 DEF SettingsHold
  <2> QED BY <2>2, SettingsHolding
<1>5. ASSUME NEW got, calls' = [calls EXCEPT ![i] = Prefs!IsBack(@, got)],
             calls[i].fn \in {"load", "status"} /\ got # <<>> => got[1] \in Prefs!Values
      PROVE  SettingsRest'
  <2>1. SettingsCall(Prefs!IsBack(calls[i], got)) BY <1>5 DEF CallFields, Prefs!IsBack
  <2> QED BY <1>4, <1>5, <2>1, SettingsAnswers
<1>6. CASE Prefs!Serve(i)
  <2>1. CASE Prefs!ServeLoad(i)
    <3>1. calls[i].arg.form \in Prefs!Forms BY <2>1
    <3> QED BY <1>5, <2>1, <3>1
  <2>2. CASE Prefs!ServeSave(i) BY <1>5, <2>2
  <2>3. CASE Prefs!ServeStatus(i) BY <1>5, <2>3 DEF Prefs!Forms
  <2> QED BY <1>6, <2>1, <2>2, <2>3
<1>7. CASE Prefs!Refuse(i) BY <1>5, <1>7 DEF Prefs!Fails
<1>8. CASE Prefs!LoseAnswer(i)
  <2> DEFINE c == [calls[i] EXCEPT !.got = <<>>]
  <2>1. Prefs!GoesOn(i, c) BY <1>8 DEF Prefs!GoesOn, Prefs!Moved
  <2>2. SettingsCall(c) BY <1>8 DEF CallFields
  <2> QED BY <1>4, <2>1, <2>2
<1> QED BY <1>6, <1>7, <1>8

LEMMA SettingsBegin == Prefs!Init => SettingsRest
BY SettingsRequests DEF Prefs!Init, SettingsRest, SettingsShape, Prefs!TypeOK, Prefs!NoCalls, Prefs!Values

LEMMA SettingsKeep ==
  Auth!CallsAssumption /\ SettingsRest /\ [Prefs!Next]_(Prefs!vars) => SettingsRest'
<1> SUFFICES ASSUME Auth!CallsAssumption, SettingsRest, [Prefs!Next]_(Prefs!vars) PROVE SettingsRest' OBVIOUS
<1>1. CASE UNCHANGED Prefs!vars BY <1>1 DEF Prefs!vars, SettingsRest, SettingsShape, Prefs!TypeOK, SettingsCall
<1> QED BY <1>1, SettingsClick, SettingsContinue, SettingsServer DEF Prefs!Next

-----------------------------------------------------------------------------
(* A user who waits. *)
LEMMA ClickTurns ==
  ASSUME Auth!CallsAssumption, SettingsRest, SettingsTurn, inTurn,
         \/ \E f \in Prefs!Forms : Prefs!Open(f) \/ Prefs!Edit(f) \/ Prefs!Save(f)
         \/ Prefs!Toggle
  PROVE  SettingsTurn'
<1> USE DEF Prefs!Open, Prefs!Edit, Prefs!Save, Prefs!Toggle, Undecided, SaveOf, Prefs!None, SettingsTurn, MonitorFollows,
    Prefs!Asks
<1>1. SettingsShape /\ \A i \in Prefs!Ids : calls[i].fn = Prefs!None BY DEF SettingsRest, Prefs!MayClick, Prefs!Quiet
<1>2. server'.value = server.value BY <1>1 DEF SettingsShape, Prefs!Clicked
<1>3. ~Undecided /\ page.monitor \in {<<>>, <<server.value["ping"]>>} BY <1>1
<1>4. ASSUME NEW c, Prefs!Starts(c), c.got = <<>>, page'.monitor = page.monitor, page'.known = page.known,
             IF SaveOf(c, "blacklist")
             THEN page'.value["blacklist"] = 1 - page.value["blacklist"] /\ c.arg.value = page'.value["blacklist"]
             ELSE page'.value["blacklist"] = page.value["blacklist"]
      PROVE  SettingsTurn'
  <2>1. PICK j \in Prefs!Ids : calls'[j] = c /\ CallsStayBut({j}) BY <1>1, <1>4, SettingsStarts
  <2>2. \A i \in Prefs!Ids \ {j} : calls'[i].fn = Prefs!None BY <1>1, <2>1 DEF CallsStayBut
  <2>3. SavesAreAlone' BY <2>2 DEF SavesAreAlone
  <2>4. \A i \in Prefs!Ids : TrueOf(calls'[i], page'.value, server'.value) BY <1>4, <2>1, <2>2 DEF TrueOf
  <2>5. (\E i \in Prefs!Ids : SaveOf(calls'[i], "blacklist") /\ calls'[i].got = <<>>) <=> SaveOf(c, "blacklist") BY <1>4, <2>1, <2>2
  <2>6. SwitchFollows' BY <1>2, <1>3, <1>4, <2>5 DEF SwitchFollows
  <2> QED BY <1>2, <1>3, <1>4, <2>3, <2>4, <2>6 DEF CallsAreTrue
<1>5. ASSUME NEW f \in Prefs!Forms, Prefs!Open(f) PROVE SettingsTurn'
  <2>1. ~SaveOf(Prefs!Load(f), "blacklist") /\ Prefs!Load(f).got = <<>> BY DEF Prefs!Load
  <2> QED BY <1>4, <1>5, <2>1
<1>6. ASSUME NEW f \in Prefs!Forms, Prefs!Save(f) PROVE SettingsTurn'
  <2> DEFINE c == Prefs!Asks("save", [form |-> f, value |-> page.value[f]])
  <2>1. Prefs!Starts(c) /\ f # "blacklist" /\ UNCHANGED page BY <1>6
  <2>2. ~SaveOf(c, "blacklist") /\ c.got = <<>> BY <2>1
  <2> HIDE DEF c
  <2> QED BY <1>4, <2>1, <2>2
<1>7. ASSUME NEW f \in Prefs!Forms, Prefs!Edit(f) PROVE SettingsTurn'
  <2>1. UNCHANGED calls /\ page' = [page EXCEPT !.value[f] = 1 - @] /\ f # "blacklist" BY <1>7
  <2>2. page'.value["blacklist"] = page.value["blacklist"] /\ page'.monitor = page.monitor /\ page'.known = page.known
    BY <1>1, <2>1 DEF Prefs!Forms
  <2>3. SavesAreAlone' /\ SwitchFollows' /\ MonitorFollows' BY <1>2, <2>1, <2>2 DEF SavesAreAlone, SwitchFollows
  <2>4. \A i \in Prefs!Ids : TrueOf(calls'[i], page'.value, server'.value) BY <1>1, <2>1 DEF TrueOf
  <2> QED BY <2>3, <2>4 DEF CallsAreTrue
<1>8. CASE Prefs!Toggle
  <2> DEFINE c == Prefs!Asks("save", [form |-> "blacklist", value |-> page'.value["blacklist"]])
  <2>1. Prefs!Starts(c) /\ page' = [page EXCEPT !.value["blacklist"] = 1 - @] BY <1>8
  <2>2. SaveOf(c, "blacklist") /\ c.got = <<>> /\ c.arg.value = page'.value["blacklist"] OBVIOUS
  <2>3. /\ page'.value["blacklist"] = 1 - page.value["blacklist"]
        /\ page'.monitor = page.monitor /\ page'.known = page.known
    BY <1>1, <2>1 DEF SettingsShape, Prefs!Forms
  <2> HIDE DEF c
  <2> QED BY <1>4, <2>1, <2>2, <2>3
<1> QED BY <1>5, <1>6, <1>7, <1>8

(* While something else is under way, nothing is being saved. *)
LEMMA NothingIsSaved ==
  ASSUME SettingsTurn, NEW i \in Prefs!Ids, calls[i].fn \notin {"save", Prefs!None}
  PROVE  ~Undecided /\ \A j \in Prefs!Ids : calls[j].fn # "save"
BY DEF SettingsTurn, SavesAreAlone, Undecided, SaveOf

(* No save is under way and none is begun; what comes back is true, and    *)
(* the status asked for is still awaited, or shown.                        *)
LEMMA OthersTurn ==
  ASSUME SettingsRest, SettingsTurn, NEW P, NEW i \in Prefs!Ids, calls[i].fn \notin {"save", Prefs!None},
         CallsStayBut(P), \A j \in P \ {i} : j \in Prefs!Ids /\ calls[j].fn = Prefs!None,
         \A j \in P \intersect Prefs!Ids : calls'[j].fn # "save" /\ TrueOf(calls'[j], page'.value, server'.value),
         UNCHANGED server,
         "blacklist" \in page'.known =>
            \/ page'.value["blacklist"] = server.value["blacklist"]
            \/ page'.value["blacklist"] = page.value["blacklist"] /\ "blacklist" \in page.known,
         \/ page'.monitor \in {<<>>, <<server.value["ping"]>>}
         \/ page'.monitor = page.monitor /\ (calls[i].fn = "status" => calls'[i].fn = "status")
  PROVE  SettingsTurn'
<1>1. ~Undecided /\ \A j \in Prefs!Ids : calls[j].fn # "save" BY NothingIsSaved
<1>2. \A j \in Prefs!Ids : calls'[j].fn # "save" BY <1>1 DEF CallsStayBut
<1>3. SavesAreAlone' /\ ~Undecided' BY <1>2 DEF SavesAreAlone, Undecided, SaveOf
<1>4. SwitchFollows' BY <1>1, <1>3 DEF SettingsTurn, SwitchFollows
<1>5. \A j \in Prefs!Ids : TrueOf(calls'[j], page'.value, server'.value)
  BY <1>1 DEF SettingsTurn, CallsAreTrue, TrueOf, SaveOf, CallsStayBut
<1>6. MonitorFollows'
  <2>1. CASE page'.monitor \in {<<>>, <<server.value["ping"]>>} BY <2>1 DEF MonitorFollows
  <2>2. ASSUME NEW j \in Prefs!Ids, calls[j].fn = "status",
               page'.monitor = page.monitor, calls[i].fn = "status" => calls'[i].fn = "status"
        PROVE  MonitorFollows'
    <3>1. calls'[j].fn = "status" BY <2>2 DEF CallsStayBut, Prefs!None
    <3> QED BY <3>1 DEF MonitorFollows
  <2>3. page.monitor \in {<<>>, <<server.value["ping"]>>} \/ \E j \in Prefs!Ids : calls[j].fn = "status"
    BY <1>1 DEF SettingsTurn, MonitorFollows, SaveOf
  <2> QED BY <2>1, <2>2, <2>3
<1> QED BY <1>3, <1>4, <1>5, <1>6 DEF SettingsTurn, CallsAreTrue

LEMMA LoadedTurns ==
  ASSUME Auth!CallsAssumption, SettingsRest, SettingsTurn, NEW i \in Prefs!Ids, Prefs!Loaded(i)
  PROVE  SettingsTurn'
<1> DEFINE f == calls[i].arg.form
<1>1. SettingsShape /\ calls[i].fn = "load" /\ UNCHANGED server /\ f \in Prefs!Forms
  BY DEF SettingsRest, SettingsCall, Prefs!Loaded, Prefs!Back
<1>2. /\ page'.monitor = page.monitor
      /\ "blacklist" \in page'.known =>
            \/ page'.value["blacklist"] = server.value["blacklist"]
            \/ page'.value["blacklist"] = page.value["blacklist"] /\ "blacklist" \in page.known
  <2>1. CASE Prefs!Answered(i)
    <3>1. page' = [page EXCEPT !.drawn[f] = TRUE, !.value[f] = Prefs!Answer(i), !.known = @ \union {f}]
      BY <2>1, Zenon DEF Prefs!Loaded
    <3>2. Prefs!Answer(i) = server.value[f] BY <1>1, <2>1 DEF SettingsTurn, CallsAreTrue, TrueOf, Prefs!Answered, Prefs!Answer
    <3> HIDE DEF f
    <3> QED BY <1>1, <3>1, <3>2 DEF SettingsShape, Prefs!Forms
  <2>2. CASE ~Prefs!Answered(i)
    <3>1. page' = [page EXCEPT !.drawn[f] = f \in Prefs!Standing] BY <2>2, Zenon DEF Prefs!Loaded
    <3> QED BY <1>1, <3>1
  <2> QED BY <2>1, <2>2
<1>3. ASSUME NEW c, c.fn # "save", c.got = <<>> PROVE TrueOf(c, page'.value, server'.value) BY <1>3 DEF TrueOf, SaveOf
<1>4. ASSUME NEW c, Prefs!GoesOn(i, c), c.fn # "save", c.got = <<>> PROVE SettingsTurn'
  <2>1. CallsStayBut({i}) /\ calls'[i] = c BY <1>1, <1>4, SettingsMoves
  <2> QED BY <1>1, <1>2, <1>3, <1>4, <2>1, OthersTurn DEF Prefs!None
<1>5. CASE Prefs!Ends(i)
  <2>1. Prefs!NoCall.fn # "save" /\ Prefs!NoCall.got = <<>> BY DEF Prefs!NoCall, Prefs!None
  <2> QED BY <1>1, <1>4, <1>5, <2>1, SettingsEnds
<1>6. CASE Prefs!GoesOn(i, Prefs!Status)
  <2>1. Prefs!Status.fn # "save" /\ Prefs!Status.got = <<>> BY DEF Prefs!Status, Prefs!Asks
  <2> QED BY <1>4, <1>6, <2>1
<1>7. CASE Prefs!Answered(i) /\ f = "network"
  <2> DEFINE a == Prefs!Load("blacklist")
             b == Prefs!Load("ping")
             c == Prefs!Load("app")
  <2>1. \A r \in {a, b, c} : r.fn = "load" /\ r.got = <<>> BY DEF Prefs!Load, Prefs!Asks
  <2>2. /\ RoomBehind /\ calls' = Prefs!Begun(Prefs!Begun(Prefs!Moved(i, a), b), c) BY <1>7, Zenon DEF Prefs!Loaded, RoomBehind
  <2> HIDE DEF a, b, c
  <2>3. calls[i].fn # Prefs!None /\ a.fn # Prefs!None /\ b.fn # Prefs!None BY <1>1, <2>1 DEF Prefs!None
  <2>4. PICK j, k \in Prefs!Ids :
           /\ calls[j].fn = Prefs!None /\ calls[k].fn = Prefs!None /\ DOMAIN calls' = Prefs!Ids
           /\ CallsStayBut({i, j, k}) /\ \A n \in {i, j, k} : calls'[n] \in {a, b, c}
    BY <1>1, <2>2, <2>3, BehindInPlaces, Zenon
  <2>5. \A n \in {i, j, k} \ {i} : n \in Prefs!Ids /\ calls[n].fn = Prefs!None BY <2>4
  <2>6. \A n \in {i, j, k} \intersect Prefs!Ids :
           calls'[n].fn # "save" /\ TrueOf(calls'[n], page'.value, server'.value)
    BY <1>3, <2>1, <2>4
  <2>7. calls[i].fn \notin {"save", Prefs!None} /\ calls[i].fn # "status" /\ CallsStayBut({i, j, k}) BY <1>1, <2>4 DEF Prefs!None
  <2> QED BY <1>1, <1>2, <2>5, <2>6, <2>7, OthersTurn
<1> QED BY <1>5, <1>6, <1>7 DEF Prefs!Loaded

LEMMA StatusTurns == ASSUME SettingsRest, SettingsTurn, NEW i \in Prefs!Ids, Prefs!StatusShown(i) PROVE SettingsTurn'
<1>1. SettingsShape /\ calls[i].fn = "status" /\ UNCHANGED server BY DEF SettingsRest, Prefs!StatusShown, Prefs!Back
<1>2. page'.value = page.value /\ page'.known = page.known /\ page'.monitor \in {<<>>, <<server.value["ping"]>>}
  BY <1>1 DEF SettingsShape, SettingsTurn, CallsAreTrue, TrueOf, Prefs!StatusShown, Prefs!Answered, Prefs!Answer
<1>3. CallsStayBut({i}) /\ calls'[i] = Prefs!NoCall BY <1>1, SettingsEnds, SettingsMoves DEF Prefs!StatusShown
<1>4. calls'[i].fn # "save" /\ TrueOf(calls'[i], page'.value, server'.value) BY <1>3 DEF TrueOf, SaveOf, Prefs!NoCall, Prefs!None
<1>5. ~Undecided BY <1>1, NothingIsSaved DEF Prefs!None
<1>6. "blacklist" \in page'.known => page'.value["blacklist"] = server.value["blacklist"]
  BY <1>2, <1>5 DEF SettingsTurn, SwitchFollows
<1> QED BY <1>1, <1>2, <1>3, <1>4, <1>6, OthersTurn DEF Prefs!None

(* The only save ends, or goes on to the status of the monitor. *)
LEMMA SavedTurns == ASSUME SettingsRest, SettingsTurn, NEW i \in Prefs!Ids, Prefs!Saved(i) PROVE SettingsTurn'
<1> USE DEF Prefs!Saved, SettingsTurn, SaveOf, Prefs!Answered, Prefs!None
<1>1. SettingsShape /\ calls[i].fn = "save" /\ UNCHANGED server BY DEF SettingsRest, Prefs!Back
<1>2. \A j \in Prefs!Ids \ {i} : calls[j].fn = Prefs!None BY <1>1 DEF SavesAreAlone
<1>3. PICK c : /\ Prefs!GoesOn(i, c) /\ c.fn # "save" /\ c.got = <<>>
               /\ SaveOf(calls[i], "ping") /\ calls[i].got # <<>> => c.fn = "status"
  <2>1. Prefs!NoCall.fn = Prefs!None /\ Prefs!NoCall.got = <<>> BY DEF Prefs!NoCall
  <2>2. Prefs!Status.fn = "status" /\ Prefs!Status.got = <<>> BY DEF Prefs!Status, Prefs!Asks
  <2>3. CASE Prefs!Answered(i) /\ calls[i].arg.form = "ping" BY <2>2, <2>3
  <2>4. CASE ~(Prefs!Answered(i) /\ calls[i].arg.form = "ping")
    <3>1. Prefs!GoesOn(i, Prefs!NoCall) BY <1>1, <2>4, SettingsEnds
    <3> QED BY <2>1, <2>4, <3>1
  <2> QED BY <2>3, <2>4
<1>4. CallsStayBut({i}) /\ calls'[i] = c BY <1>1, <1>3, SettingsMoves
<1>5. \A j \in Prefs!Ids : calls'[j].fn # "save" /\ (calls'[j].fn = "load" => calls'[j].got = <<>>)
        /\ (calls'[j].fn = "status" => calls'[j].got = <<>>)
  BY <1>2, <1>3, <1>4 DEF CallsStayBut
<1>6. SavesAreAlone' /\ ~Undecided' /\ \A j \in Prefs!Ids : TrueOf(calls'[j], page'.value, server'.value)
  BY <1>5 DEF SavesAreAlone, Undecided, TrueOf
<1>7. Undecided <=> SaveOf(calls[i], "blacklist") /\ calls[i].got = <<>> BY <1>1, <1>2 DEF Undecided
<1>8. SwitchFollows' /\ page'.monitor = page.monitor
  <2>1. CASE ~Prefs!Answered(i) /\ calls[i].arg.form = "blacklist"
    <3>1. Undecided BY <1>1, <1>7, <2>1
    <3>2. page' = [page EXCEPT !.value["blacklist"] = 1 - @] /\ "blacklist" \in Prefs!Forms BY <2>1 DEF Prefs!Forms
    <3>3. page'.value["blacklist"] = 1 - page.value["blacklist"] /\ page'.known = page.known /\ page'.monitor = page.monitor
      BY <1>1, <3>2 DEF SettingsShape
    <3>4. server.value["blacklist"] \in {0, 1} BY <3>2 DEF SettingsRest, Prefs!TypeOK, Prefs!Values
    <3> QED BY <1>1, <1>6, <3>1, <3>3, <3>4 DEF SwitchFollows
  <2>2. CASE ~(~Prefs!Answered(i) /\ calls[i].arg.form = "blacklist")
    <3>1. ~Undecided BY <1>7, <2>2
    <3>2. UNCHANGED page BY <2>2
    <3> QED BY <1>1, <1>6, <3>1, <3>2 DEF SwitchFollows
  <2> QED BY <2>1, <2>2
<1>9. MonitorFollows'
  <2>1. \/ page.monitor \in {<<>>, <<server.value["ping"]>>}
        \/ SaveOf(calls[i], "ping") /\ calls[i].got # <<>>
    BY <1>1, <1>2 DEF MonitorFollows
  <2> QED BY <1>1, <1>3, <1>4, <1>8, <2>1 DEF MonitorFollows
<1> QED BY <1>6, <1>8, <1>9 DEF CallsAreTrue

LEMMA SettingsServedTurns ==
  ASSUME SettingsRest, SettingsTurn, NEW i \in Prefs!Ids, Prefs!ServeLoad(i) \/ Prefs!ServeStatus(i)
  PROVE  SettingsTurn'
<1>1. SettingsShape /\ calls[i].fn \in {"load", "status"} /\ UNCHANGED <<page, server>>
  BY DEF SettingsRest, Prefs!ServeLoad, Prefs!ServeStatus, Prefs!Sent
<1>2. PICK d : /\ calls' = [calls EXCEPT ![i] = Prefs!IsBack(@, <<d>>)]
               /\ calls[i].fn = "load" => d = server.value[calls[i].arg.form]
               /\ calls[i].fn = "status" => d = server.value["ping"]
  BY DEF Prefs!ServeLoad, Prefs!ServeStatus, Prefs!Sent, Prefs!Answers
<1>3. CallsStayBut({i}) /\ calls'[i] = Prefs!IsBack(calls[i], <<d>>) BY <1>1, <1>2, SettingsAnswers, SettingsMoves
<1>4. calls'[i].fn = calls[i].fn /\ TrueOf(calls'[i], page'.value, server'.value)
  BY <1>1, <1>2, <1>3 DEF Prefs!IsBack, TrueOf, SaveOf
<1>5. ~Undecided BY <1>1, NothingIsSaved DEF Prefs!None
<1>6. "blacklist" \in page'.known => page'.value["blacklist"] = server.value["blacklist"]
  BY <1>1, <1>5 DEF SettingsTurn, SwitchFollows
<1> QED BY <1>1, <1>3, <1>4, <1>6, OthersTurn DEF Prefs!None

(* What is on its way has brought nothing, and so brings nothing new.      *)
LEMMA RefusedTurns == ASSUME SettingsRest, SettingsTurn, NEW i \in Prefs!Ids, Prefs!Refuse(i) PROVE SettingsTurn'
<1>1. SettingsShape /\ UNCHANGED <<page, server>> /\ calls[i].got = <<>> BY DEF SettingsRest, SettingsCall, Prefs!Refuse
<1>2. CallsStayBut({i}) /\ calls'[i] = Prefs!IsBack(calls[i], <<>>)
  BY <1>1, SettingsAnswers, SettingsMoves DEF Prefs!Refuse, Prefs!Fails
<1>3. \A j \in Prefs!Ids :
        calls'[j].fn = calls[j].fn /\ calls'[j].got = calls[j].got /\ calls'[j].arg = calls[j].arg
  BY <1>1, <1>2 DEF Prefs!IsBack, CallsStayBut
<1>4. SavesAreAlone' /\ (Undecided' <=> Undecided) BY <1>3 DEF SettingsTurn, SavesAreAlone, Undecided, SaveOf
<1>5. \A j \in Prefs!Ids : TrueOf(calls'[j], page'.value, server'.value)
  BY <1>1, <1>3 DEF SettingsTurn, CallsAreTrue, TrueOf, SaveOf
<1>6. MonitorFollows' BY <1>1, <1>3 DEF SettingsTurn, MonitorFollows, SaveOf
<1> QED BY <1>1, <1>4, <1>5, <1>6 DEF SettingsTurn, CallsAreTrue, SwitchFollows

LEMMA ServeSaveTurns == ASSUME SettingsRest, SettingsTurn, NEW i \in Prefs!Ids, Prefs!ServeSave(i) PROVE SettingsTurn'
<1> USE DEF Prefs!ServeSave, SettingsTurn, SaveOf, Prefs!None, CallsAreTrue, SettingsShape, MonitorFollows
<1> DEFINE f == calls[i].arg.form
<1>1. /\ SettingsShape /\ calls[i].fn = "save" /\ UNCHANGED page /\ calls[i].got = <<>>
      /\ f \in Prefs!Forms
  BY DEF SettingsRest, SettingsCall, Prefs!Sent
<1>2. \A j \in Prefs!Ids \ {i} : calls[j].fn = Prefs!None BY <1>1 DEF SavesAreAlone
<1>3. CallsStayBut({i}) /\ calls'[i] = Prefs!IsBack(calls[i], <<"ok">>) BY <1>1, SettingsAnswers, SettingsMoves DEF Prefs!Answers
<1>4. calls'[i].fn = "save" /\ calls'[i].arg = calls[i].arg /\ calls'[i].got # <<>> BY <1>1, <1>3 DEF Prefs!IsBack
<1>5. SavesAreAlone' /\ ~Undecided' BY <1>2, <1>3, <1>4 DEF SavesAreAlone, Undecided, CallsStayBut
<1>6. \A j \in Prefs!Ids : TrueOf(calls'[j], page'.value, server'.value) BY <1>1, <1>2, <1>3, <1>4 DEF TrueOf, CallsStayBut
<1>7. server'.value = [server.value EXCEPT ![f] = calls[i].arg.value] BY <1>1
<1>8. SwitchFollows'
  <2>1. CASE f = "blacklist" BY <1>1, <1>5, <1>7, <2>1 DEF TrueOf, SwitchFollows
  <2>2. CASE f # "blacklist"
    <3>1. ~Undecided BY <1>2, <2>2 DEF Undecided
    <3> QED BY <1>1, <1>5, <1>7, <2>2, <3>1 DEF SwitchFollows, Prefs!Forms
  <2> QED BY <2>1, <2>2
<1>9. MonitorFollows'
  <2>1. CASE f = "ping" BY <1>4, <2>1
  <2>2. CASE f # "ping"
    <3>1. page.monitor \in {<<>>, <<server.value["ping"]>>} BY <1>1, <1>2
    <3> QED BY <1>1, <1>7, <2>2, <3>1 DEF Prefs!Forms
  <2> QED BY <2>1, <2>2
<1> QED BY <1>5, <1>6, <1>8, <1>9

LEMMA SettingsTurnBegins == Prefs!Init => SettingsTurn
<1> SUFFICES ASSUME Prefs!Init PROVE SettingsTurn OBVIOUS
<1>1. page.known = {} /\ page.monitor = <<>> /\ \A i \in Prefs!Ids : calls[i] = Prefs!NoCall BY DEF Prefs!Init, Prefs!NoCalls
<1> QED
  BY <1>1 DEF SettingsTurn, SavesAreAlone, CallsAreTrue, TrueOf, SaveOf, SwitchFollows, MonitorFollows, Prefs!NoCall, Prefs!None

LEMMA SettingsTurnKeeps ==
  Auth!CallsAssumption /\ SettingsRest /\ SettingsTurn /\ inTurn /\ [Prefs!Next]_(Prefs!vars)
  => SettingsTurn'
<1> SUFFICES ASSUME Auth!CallsAssumption, SettingsRest, SettingsTurn, inTurn,
                    [Prefs!Next]_(Prefs!vars)
             PROVE  SettingsTurn'
  OBVIOUS
<1>1. CASE UNCHANGED Prefs!vars
  <2>1. UNCHANGED <<page, calls, server>> BY <1>1 DEF Prefs!vars
  <2> QED BY <2>1 DEF SettingsTurn, SavesAreAlone, CallsAreTrue, SwitchFollows, MonitorFollows, Undecided
<1>2. ASSUME NEW i \in Prefs!Ids, Prefs!Serve(i) \/ Prefs!Refuse(i) PROVE SettingsTurn'
  BY <1>2, SettingsServedTurns, ServeSaveTurns, RefusedTurns DEF Prefs!Serve
<1>3. ASSUME NEW i \in Prefs!Ids, Prefs!Continue(i) PROVE SettingsTurn'
  BY <1>3, LoadedTurns, SavedTurns, StatusTurns DEF Prefs!Continue
<1>4. ASSUME NEW i \in Prefs!Ids PROVE ~Prefs!LoseAnswer(i) BY DEF Prefs!LoseAnswer
<1> QED BY <1>1, <1>2, <1>3, <1>4, ClickTurns DEF Prefs!Next

-----------------------------------------------------------------------------
(* WebUsers. *)
LEMMA UsersBegun ==
  ASSUME Auth!CallsAssumption, NEW cs, NEW c, NEW k \in Admin!Ids, cs[k].fn = Admin!None
  PROVE  \E i \in Admin!Ids :
           cs[i].fn = Admin!None /\ Admin!Begun(cs, c) = [cs EXCEPT ![i] = c]
BY FirstFree DEF Admin!Begun, Admin!Ids, Admin!None, Auth!CallsAssumption

LEMMA UsersStarts ==
  ASSUME Auth!CallsAssumption, DOMAIN calls = Admin!Ids, NEW c, Admin!Starts(c)
  PROVE  \E i \in Admin!Ids : Admin!GoesOn(i, c)
BY UsersBegun DEF Admin!Starts, Admin!Free, Admin!GoesOn, Admin!Moved

LEMMA UsersEnds == ASSUME NEW i \in Admin!Ids, Admin!Ends(i) PROVE Admin!GoesOn(i, Admin!NoCall)
BY DEF Admin!Ends, Admin!Ended, Admin!GoesOn, Admin!Moved

LEMMA UsersAnswers ==
  ASSUME DOMAIN calls = Admin!Ids, NEW i \in Admin!Ids, NEW got,
         calls' = [calls EXCEPT ![i] = Admin!IsBack(@, got)]
  PROVE  Admin!GoesOn(i, Admin!IsBack(calls[i], got))
BY DEF Admin!GoesOn, Admin!Moved

LEMMA UsersMoves ==
  ASSUME DOMAIN calls = Admin!Ids, NEW i \in Admin!Ids, NEW c, Admin!GoesOn(i, c)
  PROVE  /\ DOMAIN calls' = Admin!Ids /\ calls'[i] = c
         /\ \A j \in Admin!Ids \ {i} : calls'[j] = calls[j]
BY DEF Admin!GoesOn, Admin!Moved

LEMMA UsersHold == ASSUME UsersRest, NEW i \in Admin!Ids, NEW c, Admin!GoesOn(i, c), UsersCall(c), UsersTypes' PROVE UsersRest'
<1>1. DOMAIN calls = Admin!Ids BY DEF UsersRest, UsersCalls
<1>2. /\ DOMAIN calls' = Admin!Ids /\ calls'[i] = c
      /\ \A j \in Admin!Ids \ {i} : calls'[j] = calls[j]
  BY <1>1, UsersMoves
<1>3. \A j \in Admin!Ids : UsersCall(calls'[j]) BY <1>2 DEF UsersRest, UsersCalls
<1>4. (\A j \in Admin!Ids : UsersCall(calls[j]))' BY <1>3
<1> QED BY <1>2, <1>4 DEF UsersRest, UsersCalls

LEMMA UsersRequests ==
  /\ UsersCall(Admin!NoCall) /\ Admin!NoCall.fn = Admin!None
  /\ UsersCall(Admin!Asks("users", <<>>))
BY DEF UsersCall, CallFields, Admin!NoCall, Admin!None, Admin!Asks, Admin!Savings

LEMMA UsersSavings ==
  ASSUME NEW fn \in Admin!Savings, NEW u \in Users, NEW to,
         fn \in {"create", "role"} => to \in Admin!Roles, fn = "groups" => to \in SUBSET UserTenants,
         fn = "tabs" => to \in SUBSET Boxes, fn = "disable" => to \in BOOLEAN
  PROVE  UsersCall(Admin!Asks(fn, [user |-> u, to |-> to]))
BY DEF UsersCall, CallFields, Admin!Asks

(* renderUsersTable gives every user a row, and the server changes users   *)
(* into users.                                                             *)
LEMMA RowsAreRows == ASSUME NEW users \in [Users -> UserRecords] PROVE Admin!Rendered(users) \in [Users -> RowRecords]
BY DEF Admin!Rendered, Admin!Row, RowRecords, UserRecords

LEMMA NobodyIsAUser == Admin!NoUser \in UserRecords
BY DEF Admin!NoUser, UserRecords, RolesOrNone

LEMMA ChangesAreUsers ==
  ASSUME UsersTypes, NEW c, UsersCall(c), c.fn \in Admin!Savings
  PROVE  Admin!Changed(c.fn, c.arg.user, c.arg.to) \in UserRecords
<1> USE DEF UsersCall, Admin!Changed, UserRecords
<1> DEFINE v == server.users[c.arg.user]
           to == c.arg.to
           w == Admin!Changed(c.fn, c.arg.user, to)
<1>1. v \in UserRecords BY DEF UsersTypes
<1>2. CASE c.fn = "create"
  <2>1. w = [Admin!NoUser EXCEPT !.role = to] BY <1>2 DEF Admin!NewUser
  <2>2. to \in RolesOrNone BY <1>2 DEF RolesOrNone
  <2> QED BY <2>1, <2>2, NobodyIsAUser
<1>3. CASE c.fn # "create" /\ (c.fn = "delete" \/ v = Admin!NoUser) BY <1>3, NobodyIsAUser
<1>4. CASE c.fn # "create" /\ ~(c.fn = "delete" \/ v = Admin!NoUser)
  <2>1. c.fn \in {"disable", "role", "tabs", "groups"} BY <1>4 DEF Admin!Savings
  <2>2. CASE c.fn = "disable"
    <3>1. w = [v EXCEPT !.off = to] /\ to \in BOOLEAN BY <1>4, <2>2
    <3> QED BY <1>1, <3>1
  <2>3. CASE c.fn = "role"
    <3>1. w = [v EXCEPT !.role = to] /\ to \in RolesOrNone BY <1>4, <2>3 DEF RolesOrNone
    <3> QED BY <1>1, <3>1
  <2>4. CASE c.fn = "tabs"
    <3>1. w = [v EXCEPT !.tabs = to] /\ to \in SUBSET Boxes BY <1>4, <2>4
    <3> QED BY <1>1, <3>1
  <2>5. CASE c.fn = "groups"
    <3>1. w = [v EXCEPT !.groups = to] /\ to \in SUBSET UserTenants BY <1>4, <2>5
    <3> QED BY <1>1, <3>1
  <2> QED BY <2>1, <2>2, <2>3, <2>4, <2>5
<1> QED BY <1>2, <1>3, <1>4

LEMMA UsersClick ==
  ASSUME Auth!CallsAssumption, UsersRest, NEW u \in Users,
         \/ \E g \in UserTenants : Admin!ToggleGroup(u, g)
         \/ \E t \in Boxes : Admin!ToggleTab(u, t)
         \/ \E r \in Admin!Roles : Admin!CreateUser(u, r)
         \/ Admin!SaveTabs(u) \/ Admin!ChangeRole(u) \/ Admin!ToggleDisabled(u) \/ Admin!DeleteUser(u)
  PROVE  UsersRest'
<1> USE DEF UsersTypes, RowRecords, Admin!Savings
<1>1. UsersTypes /\ UsersCalls /\ DOMAIN calls = Admin!Ids BY DEF UsersRest, UsersCalls
<1>2. page.rows[u] \in RowRecords /\ page.rows \in [Users -> RowRecords] BY <1>1
<1>3. ASSUME Admin!Clicked PROVE DOMAIN server' = {"users", "clicks"} /\ server'.users = server.users
  BY <1>1, <1>3 DEF Admin!Clicked
<1>4. ASSUME Admin!Clicked, NEW r \in RowRecords, page' = [page EXCEPT !.rows[u] = r] PROVE UsersTypes'
  <2>1. page'.rows = [page.rows EXCEPT ![u] = r] /\ page'.in = page.in /\ DOMAIN page' = {"rows", "in"} BY <1>1, <1>4
  <2>2. [page.rows EXCEPT ![u] = r] \in [Users -> RowRecords] BY <1>2, <1>4
  <2>3. page' \in [rows : [Users -> RowRecords], in : BOOLEAN] BY <1>1, <1>4, <2>2
  <2> QED BY <1>1, <1>3, <1>4, <2>3
<1>5. ASSUME Admin!Clicked, UNCHANGED page PROVE UsersTypes' BY <1>1, <1>3, <1>5
<1>6. ASSUME NEW c, Admin!Starts(c), UsersCall(c), UsersTypes' PROVE UsersRest' BY <1>1, <1>6, UsersStarts, UsersHold
<1>7. ASSUME NEW fn \in Admin!Savings, NEW to, Admin!Starts(Admin!Asks(fn, [user |-> u, to |-> to])), UsersTypes',
             fn \in {"create", "role"} => to \in Admin!Roles, fn = "groups" => to \in SUBSET UserTenants,
             fn = "tabs" => to \in SUBSET Boxes, fn = "disable" => to \in BOOLEAN
      PROVE  UsersRest'
  BY <1>6, <1>7, UsersSavings
<1>8. ASSUME NEW g \in UserTenants, Admin!ToggleGroup(u, g) PROVE UsersRest'
  <2> DEFINE gs == Admin!Flip(page.rows[u].groups, g)
  <2>1. gs \in SUBSET UserTenants BY <1>2 DEF Admin!Flip
  <2>2. /\ page' = [page EXCEPT !.rows[u].groups = gs] /\ Admin!Clicked
        /\ Admin!Starts(Admin!Asks("groups", [user |-> u, to |-> gs]))
    BY <1>8, Zenon DEF Admin!ToggleGroup
  <2> HIDE DEF gs
  <2>3. [page.rows[u] EXCEPT !.groups = gs] \in RowRecords BY <1>2, <2>1
  <2>4. page' = [page EXCEPT !.rows[u] = [page.rows[u] EXCEPT !.groups = gs]] BY <2>2
  <2> QED BY <1>4, <1>7, <2>1, <2>2, <2>3, <2>4
<1>9. ASSUME NEW t \in Boxes, Admin!ToggleTab(u, t) PROVE UsersRest'
  <2> DEFINE ts == Admin!Flip(page.rows[u].tabs, t)
  <2>1. ts \in SUBSET Boxes BY <1>2 DEF Admin!Flip
  <2>2. page' = [page EXCEPT !.rows[u].tabs = ts] /\ Admin!Clicked /\ UNCHANGED calls BY <1>9, Zenon DEF Admin!ToggleTab
  <2> HIDE DEF ts
  <2>3. [page.rows[u] EXCEPT !.tabs = ts] \in RowRecords BY <1>2, <2>1
  <2>4. page' = [page EXCEPT !.rows[u] = [page.rows[u] EXCEPT !.tabs = ts]] BY <2>2
  <2>5. UsersTypes' BY <1>4, <2>2, <2>3, <2>4
  <2> QED BY <1>1, <2>2, <2>5 DEF UsersRest, UsersCalls, UsersCall
<1>10. ASSUME Admin!ChangeRole(u) PROVE UsersRest'
  <2>1. PICK r \in Admin!Roles :
          /\ page' = [page EXCEPT !.rows[u].role = r] /\ Admin!Clicked
          /\ Admin!Starts(Admin!Asks("role", [user |-> u, to |-> r]))
    BY <1>10 DEF Admin!ChangeRole
  <2>2. [page.rows[u] EXCEPT !.role = r] \in RowRecords BY <1>2 DEF RolesOrNone
  <2>3. page' = [page EXCEPT !.rows[u] = [page.rows[u] EXCEPT !.role = r]] BY <2>1
  <2> QED BY <1>4, <1>7, <2>1, <2>2, <2>3
<1>11. ASSUME NEW r \in Admin!Roles, Admin!CreateUser(u, r) PROVE UsersRest' BY <1>5, <1>7, <1>11 DEF Admin!CreateUser
<1>12. ASSUME Admin!SaveTabs(u) PROVE UsersRest' BY <1>2, <1>5, <1>7, <1>12 DEF Admin!SaveTabs
<1>13. ASSUME Admin!ToggleDisabled(u) PROVE UsersRest' BY <1>2, <1>5, <1>7, <1>13 DEF Admin!ToggleDisabled
<1>14. ASSUME Admin!DeleteUser(u) PROVE UsersRest' BY <1>5, <1>7, <1>14 DEF Admin!DeleteUser
<1> QED BY <1>8, <1>9, <1>10, <1>11, <1>12, <1>13, <1>14

LEMMA UsersContinue ==
  ASSUME UsersRest, NEW i \in Admin!Ids, Admin!Saved(i) \/ Admin!Loaded(i)
  PROVE  UsersRest'
<1>1. UsersTypes /\ UsersCalls /\ UNCHANGED server BY DEF UsersRest, Admin!Saved, Admin!Loaded
<1>2. CASE Admin!Saved(i)
  <2>1. \E b \in BOOLEAN : page' = [page EXCEPT !.in = b]
    <3>1. page.in \in BOOLEAN BY <1>1 DEF UsersTypes
    <3>2. \E b : page' = [page EXCEPT !.in = page.in /\ ~b] BY <1>2 DEF Admin!Saved
    <3> QED BY <3>1, <3>2
  <2>2. UsersTypes' BY <1>1, <2>1 DEF UsersTypes
  <2>3. Admin!Ends(i) \/ Admin!GoesOn(i, Admin!Asks("users", <<>>)) BY <1>2 DEF Admin!Saved
  <2> QED BY <2>2, <2>3, UsersEnds, UsersRequests, UsersHold
<1>3. CASE Admin!Loaded(i)
  <2>1. page' = page \/ \E users \in [Users -> UserRecords] : page' = [page EXCEPT !.rows = Admin!Rendered(users)]
    BY <1>1, <1>3 DEF Admin!Loaded, Admin!Back, Admin!Answered, Admin!Answer, UsersCalls, UsersCall
  <2>2. UsersTypes'
    <3>1. page' = page \/ \E rows \in [Users -> RowRecords] : page' = [page EXCEPT !.rows = rows] BY <2>1, RowsAreRows
    <3> QED BY <1>1, <3>1 DEF UsersTypes
  <2> QED BY <1>3, <2>2, UsersEnds, UsersRequests, UsersHold DEF Admin!Loaded
<1> QED BY <1>2, <1>3

LEMMA UsersServer ==
  ASSUME UsersRest, NEW i \in Admin!Ids, Admin!Serve(i) \/ Admin!Lose(i)
  PROVE  UsersRest'
<1>1. UsersTypes /\ UsersCalls /\ UNCHANGED page /\ DOMAIN calls = Admin!Ids /\ UsersCall(calls[i])
  BY DEF UsersRest, UsersCalls, Admin!Serve, Admin!ServeSaving, Admin!ServeUsers, Admin!Lose
<1>2. ASSUME NEW got, calls' = [calls EXCEPT ![i] = Admin!IsBack(@, got)], UsersTypes',
             calls[i].fn = "users" /\ got # <<>> => got[1] \in [Users -> UserRecords]
      PROVE  UsersRest'
  <2>1. UsersCall(Admin!IsBack(calls[i], got)) BY <1>1, <1>2 DEF UsersCall, CallFields, Admin!IsBack
  <2> QED BY <1>1, <1>2, <2>1, UsersAnswers, UsersHold
<1>3. CASE Admin!ServeUsers(i) \/ Admin!Lose(i)
  <2>1. UNCHANGED server BY <1>3 DEF Admin!ServeUsers, Admin!Lose
  <2>2. UsersTypes' BY <1>1, <2>1 DEF UsersTypes
  <2>3. Admin!Fails(i) \/ Admin!Answers(i, server.users) BY <1>3 DEF Admin!ServeUsers, Admin!Lose
  <2> QED BY <1>1, <1>2, <2>2, <2>3 DEF Admin!Fails, Admin!Answers, UsersTypes
<1>4. CASE Admin!ServeSaving(i)
  <2> DEFINE c == calls[i]
             v == Admin!Changed(c.fn, c.arg.user, c.arg.to)
  <2>1. c.fn \in Admin!Savings BY <1>4 DEF Admin!ServeSaving, Admin!Sent
  <2>2. UNCHANGED server \/ server' = [server EXCEPT !.users[c.arg.user] = v] BY <1>4 DEF Admin!ServeSaving, Admin!Store
  <2>3. v \in UserRecords BY <1>1, <2>1, ChangesAreUsers
  <2> HIDE DEF v
  <2>4. UsersTypes' BY <1>1, <2>1, <2>2, <2>3 DEF UsersTypes, UsersCall
  <2>5. \E d : Admin!Answers(i, d) BY <1>4 DEF Admin!ServeSaving
  <2> QED BY <1>2, <2>1, <2>4, <2>5 DEF Admin!Answers, Admin!Savings
<1> QED BY <1>3, <1>4 DEF Admin!Serve

LEMMA UsersBegin == Auth!CallsAssumption /\ Admin!Init => UsersRest
<1> SUFFICES ASSUME Auth!CallsAssumption, Admin!Init PROVE UsersRest OBVIOUS
<1>1. Admin!NoRow \in RowRecords /\ Admin!NoUser \in UserRecords /\ Admin!NewUser("admin") \in UserRecords
  BY DEF Admin!NoRow, Admin!Row, RowRecords, UserRecords, RolesOrNone, Admin!Roles, Admin!NoUser, Admin!NewUser, Admin!None
<1>2. UsersTypes BY <1>1 DEF Admin!Init, UsersTypes
<1>3. \A i \in Admin!Ids : Admin!NoCalls[i] = Admin!NoCall BY DEF Admin!NoCalls
<1>4. PICK i \in Admin!Ids : calls = [Admin!NoCalls EXCEPT ![i] = Admin!Asks("users", <<>>)]
  <2>1. 1 \in Admin!Ids BY DEF Auth!CallsAssumption, Admin!Ids
  <2> QED BY <1>3, <2>1, UsersRequests, UsersBegun DEF Admin!Init
<1>5. DOMAIN Admin!NoCalls = Admin!Ids BY DEF Admin!NoCalls
<1> QED BY <1>2, <1>3, <1>4, <1>5, UsersRequests DEF UsersRest, UsersCalls

LEMMA UsersKeep ==
  Auth!CallsAssumption /\ UsersRest /\ [Admin!Next]_(Admin!vars) => UsersRest'
<1> SUFFICES ASSUME Auth!CallsAssumption, UsersRest, [Admin!Next]_(Admin!vars) PROVE UsersRest' OBVIOUS
<1>1. CASE UNCHANGED Admin!vars BY <1>1 DEF Admin!vars, UsersRest, UsersTypes, UsersCalls, UsersCall
<1> QED BY <1>1, UsersClick, UsersContinue, UsersServer DEF Admin!Next, Admin!Continue

-----------------------------------------------------------------------------
(* An administrator who waits. *)
LEMMA NothingIsTold == ASSUME NEW c, NEW rows, NEW users, c.fn = Admin!None PROVE Told(c, rows, users)
BY DEF Told, Settled, Admin!None, Admin!Savings

LEMMA UsersGoOn ==
  ASSUME UsersRest, NEW i \in Admin!Ids, NEW c, Admin!GoesOn(i, c),
         \A j \in Admin!Ids \ {i} : calls[j].fn = Admin!None,
         Admin!MayAsk' => /\ c.fn = Admin!None => TableTells(page'.rows, server'.users)
                          /\ Told(c, page'.rows, server'.users)
  PROVE  UsersTurn'
<1>1. DOMAIN calls = Admin!Ids BY DEF UsersRest, UsersCalls
<1>2. calls'[i] = c /\ \A j \in Admin!Ids \ {i} : calls'[j].fn = Admin!None BY <1>1, UsersMoves
<1>3. OneCall' BY <1>2 DEF OneCall
<1>4. ASSUME Admin!MayAsk' PROVE TableFollows'
  <2>1. \A j \in Admin!Ids : Told(calls'[j], page'.rows, server'.users) BY <1>2, <1>4, NothingIsTold
  <2>2. Admin!Quiet' => c.fn = Admin!None BY <1>2 DEF Admin!Quiet
  <2> QED BY <1>4, <2>1, <2>2 DEF TableFollows
<1> QED BY <1>3, <1>4 DEF UsersTurn

LEMMA UsersStartTurns ==
  ASSUME Auth!CallsAssumption, UsersRest, Admin!Quiet, NEW c, Admin!Starts(c), c.fn # Admin!None,
         Admin!MayAsk' => Told(c, page'.rows, server'.users)
  PROVE  UsersTurn'
<1>1. PICK i \in Admin!Ids : Admin!GoesOn(i, c) BY UsersStarts DEF UsersRest, UsersCalls
<1> QED BY <1>1, UsersGoOn DEF Admin!Quiet

(* What a click sends. *)
LEMMA UsersSent == ASSUME NEW fn, NEW arg PROVE LET c == Admin!Asks(fn, arg)
         IN  c.fn = fn /\ c.arg = arg /\ c.got = <<>> /\ c.at = "sent"
BY DEF Admin!Asks

LEMMA UsersClickTurns ==
  ASSUME Auth!CallsAssumption, UsersRest, UsersTurn, inTurn, NEW u \in Users,
         \/ \E g \in UserTenants : Admin!ToggleGroup(u, g)
         \/ \E t \in Boxes : Admin!ToggleTab(u, t)
         \/ \E r \in Admin!Roles : Admin!CreateUser(u, r)
         \/ Admin!SaveTabs(u) \/ Admin!ChangeRole(u) \/ Admin!ToggleDisabled(u) \/ Admin!DeleteUser(u)
  PROVE  UsersTurn'
<1>1. UsersTypes /\ Admin!Quiet /\ server'.users = server.users
  BY DEF UsersRest, UsersTypes, Admin!ToggleGroup, Admin!ToggleTab, Admin!CreateUser, Admin!SaveTabs, Admin!ChangeRole,
     Admin!ToggleDisabled, Admin!DeleteUser, Admin!MayClick, Admin!Clicked
<1>2. Admin!MayAsk' => TableTells(page.rows, server.users) BY <1>1 DEF Admin!MayAsk, UsersTurn, TableFollows
<1>3. page.rows[u] \in RowRecords /\ page.rows \in [Users -> RowRecords] BY <1>1 DEF UsersTypes
<1>4. ASSUME NEW fn \in Admin!Savings, NEW to, Admin!Starts(Admin!Asks(fn, [user |-> u, to |-> to])),
             Admin!MayAsk' => IF fn = "role" THEN RoleAhead(Admin!Asks(fn, [user |-> u, to |-> to]), page'.rows, server'.users)
                                  ELSE fn = "groups" \/ TableTells(page'.rows, server'.users)
      PROVE  UsersTurn'
  <2> DEFINE c == Admin!Asks(fn, [user |-> u, to |-> to])
  <2>1. c.fn = fn /\ c.got = <<>> /\ c.at = "sent" BY UsersSent
  <2>2. Admin!MayAsk' => IF fn = "role" THEN RoleAhead(c, page'.rows, server'.users)
                             ELSE fn = "groups" \/ TableTells(page'.rows, server'.users)
    BY <1>4
  <2>3. Admin!Starts(c) BY <1>4
  <2> HIDE DEF c
  <2>4. Admin!MayAsk' => Told(c, page'.rows, server'.users) BY <2>1, <2>2 DEF Told, Settled
  <2>5. c.fn # Admin!None BY <2>1 DEF Admin!Savings, Admin!None
  <2> QED BY <1>1, <2>3, <2>4, <2>5, UsersStartTurns
<1>5. ASSUME NEW g \in UserTenants, Admin!ToggleGroup(u, g) PROVE UsersTurn' BY <1>4, <1>5 DEF Admin!ToggleGroup, Admin!Savings
<1>6. ASSUME NEW t \in Boxes, Admin!ToggleTab(u, t) PROVE UsersTurn'
  <2> DEFINE ts == Admin!Flip(page.rows[u].tabs, t)
  <2>1. page' = [page EXCEPT !.rows[u].tabs = ts] /\ UNCHANGED calls BY <1>6, Zenon DEF Admin!ToggleTab
  <2> HIDE DEF ts
  <2>2. page'.rows = [page.rows EXCEPT ![u] = [page.rows[u] EXCEPT !.tabs = ts]] BY <1>1, <2>1
  <2>3. \A v \in Users : /\ page'.rows[v].role = page.rows[v].role /\ page'.rows[v].off = page.rows[v].off
                         /\ page'.rows[v].boxes = page.rows[v].boxes /\ page'.rows[v].groups = page.rows[v].groups
                         /\ page'.rows[v].orig = page.rows[v].orig
    BY <1>3, <2>2
  <2>4. Admin!MayAsk' => TableTells(page'.rows, server'.users) BY <1>1, <1>2, <2>3 DEF TableTells, RowTells
  <2>5. \A i \in Admin!Ids : calls'[i].fn = Admin!None BY <1>1, <2>1 DEF Admin!Quiet
  <2>6. \A i \in Admin!Ids : Told(calls'[i], page'.rows, server'.users) BY <2>5, NothingIsTold
  <2> QED BY <2>4, <2>5, <2>6 DEF UsersTurn, OneCall, TableFollows
<1>7. ASSUME Admin!ChangeRole(u) PROVE UsersTurn'
  <2>1. PICK r \in Admin!Roles :
          /\ page' = [page EXCEPT !.rows[u].role = r]
          /\ Admin!Starts(Admin!Asks("role", [user |-> u, to |-> r]))
    BY <1>7 DEF Admin!ChangeRole
  <2>2. page.rows[u].role # Admin!None BY <1>7 DEF Admin!ChangeRole, Admin!Shown
  <2>3. page'.rows = [page.rows EXCEPT ![u] = [page.rows[u] EXCEPT !.role = r]] BY <1>1, <2>1
  <2>4. /\ \A v \in Users \ {u} : page'.rows[v] = page.rows[v]
        /\ page'.rows[u].role = r /\ page'.rows[u].off = page.rows[u].off
        /\ page'.rows[u].boxes = page.rows[u].boxes /\ page'.rows[u].groups = page.rows[u].groups
        /\ page'.rows[u].orig = page.rows[u].orig
    BY <1>3, <2>3
  <2> DEFINE c == Admin!Asks("role", [user |-> u, to |-> r])
  <2>5. c.arg.user = u /\ c.arg.to = r BY UsersSent
  <2> HIDE DEF c
  <2>6. Admin!MayAsk' => RoleAhead(c, page'.rows, server'.users) BY <1>1, <1>2, <2>2, <2>4, <2>5 DEF RoleAhead, TableTells, RowTells
  <2> QED BY <1>4, <2>1, <2>6 DEF Admin!Savings, c
<1>8. ASSUME NEW r \in Admin!Roles, Admin!CreateUser(u, r) PROVE UsersTurn'
  BY <1>1, <1>2, <1>4, <1>8 DEF Admin!CreateUser, Admin!Savings
<1>9. ASSUME Admin!SaveTabs(u) PROVE UsersTurn' BY <1>1, <1>2, <1>4, <1>9 DEF Admin!SaveTabs, Admin!Savings
<1>10. ASSUME Admin!ToggleDisabled(u) PROVE UsersTurn' BY <1>1, <1>2, <1>4, <1>10 DEF Admin!ToggleDisabled, Admin!Savings
<1>11. ASSUME Admin!DeleteUser(u) PROVE UsersTurn' BY <1>1, <1>2, <1>4, <1>11 DEF Admin!DeleteUser, Admin!Savings
<1> QED BY <1>5, <1>6, <1>7, <1>8, <1>9, <1>10, <1>11

LEMMA AnswerIsAsked ==
  ASSUME UsersTurn, NEW i \in Admin!Ids, calls[i].fn # Admin!None
  PROVE  \A j \in Admin!Ids \ {i} : calls[j].fn = Admin!None
BY DEF UsersTurn, OneCall

LEMMA UsersSavedTurns == ASSUME UsersRest, UsersTurn, NEW i \in Admin!Ids, Admin!Saved(i) PROVE UsersTurn'
<1> DEFINE c == calls[i]
           gone == c.fn = "delete" /\ Admin!SavedOk(i) /\ c.arg.user = Me
           again == Admin!Asks("users", <<>>)
<1>1. /\ UsersTypes /\ UNCHANGED server /\ c.fn \in Admin!Savings /\ c.at = "back"
      /\ c.fn # Admin!None
  BY DEF UsersRest, Admin!Saved, Admin!Back, Admin!Savings, Admin!None
<1>2. page'.rows = page.rows BY <1>1 DEF UsersTypes, Admin!Saved
<1>3. \A j \in Admin!Ids \ {i} : calls[j].fn = Admin!None BY <1>1, AnswerIsAsked
<1>4. again.fn = "users" /\ again.at = "sent" /\ again.got = <<>> BY UsersSent
<1>5. CASE Admin!GoesOn(i, again)
  <2>1. Told(again, page'.rows, server'.users) /\ again.fn # Admin!None BY <1>4 DEF Told, Settled, Admin!None
  <2> HIDE DEF again
  <2> QED BY <1>3, <1>5, <2>1, UsersGoOn
<1>6. CASE Admin!Ends(i) /\ ~(Admin!SavedOk(i) # (c.fn = "role") /\ ~gone)
  <2>1. Admin!GoesOn(i, Admin!NoCall) /\ Admin!NoCall.fn = Admin!None BY <1>6, UsersEnds, UsersRequests
  <2>2. ASSUME Admin!MayAsk' PROVE TableTells(page'.rows, server'.users)
    <3>1. Told(c, page.rows, server.users) BY <1>1, <2>2 DEF Admin!MayAsk, UsersTurn, TableFollows
    <3>2. c.got \in {<<"ok">>, <<"refused">>} BY <1>1, <3>1 DEF Told
    <3>3. Admin!SavedOk(i) <=> c.got = <<"ok">> BY <3>2 DEF Admin!SavedOk, Admin!Answered, Admin!Answer
    <3>4. ~gone BY <3>1, <3>3 DEF Told
    <3>5. CASE c.fn = "role"
      <4>1. c.got = <<"ok">> BY <1>6, <3>3, <3>4, <3>5
      <4>2. RoleAhead(c, page.rows, server.users) /\ server.users[c.arg.user].role = c.arg.to BY <3>1, <3>5, <4>1 DEF Told
      <4> QED BY <1>1, <1>2, <4>2 DEF RoleAhead, TableTells
    <3>6. CASE c.fn # "role"
      <4>1. c.got # <<"ok">> BY <1>6, <3>3, <3>4, <3>6
      <4>2. c.fn # "groups" BY <1>1, <3>1, <4>1 DEF Told
      <4>3. Settled(c) BY <1>1, <3>6, <4>1, <4>2 DEF Settled, Admin!Savings
      <4> QED BY <1>1, <1>2, <3>1, <4>3 DEF Told
    <3> QED BY <3>5, <3>6
  <2> QED BY <1>3, <2>1, <2>2, NothingIsTold, UsersGoOn
<1> QED BY <1>5, <1>6 DEF Admin!Saved

LEMMA RenderingTells == ASSUME NEW users PROVE TableTells(Admin!Rendered(users), users)
BY DEF TableTells, RowTells, Admin!Rendered, Admin!Row

LEMMA UsersLoadedTurns == ASSUME UsersRest, UsersTurn, NEW i \in Admin!Ids, Admin!Loaded(i) PROVE UsersTurn'
<1>1. UsersTypes /\ UNCHANGED server /\ calls[i].fn = "users" /\ calls[i].at = "back" /\ calls[i].fn # Admin!None
  BY DEF UsersRest, Admin!Loaded, Admin!Back, Admin!None
<1>2. Admin!GoesOn(i, Admin!NoCall) /\ Admin!NoCall.fn = Admin!None BY UsersEnds, UsersRequests DEF Admin!Loaded
<1>3. ASSUME Admin!MayAsk' PROVE TableTells(page'.rows, server'.users)
  <2>1. calls[i].got = <<server.users>> BY <1>1, <1>3 DEF Admin!MayAsk, UsersTurn, TableFollows, Told
  <2>2. page' = [page EXCEPT !.rows = Admin!Rendered(server.users)] BY <2>1 DEF Admin!Loaded, Admin!Answered, Admin!Answer
  <2>3. page'.rows = Admin!Rendered(server.users) BY <1>1, <2>2
  <2> QED BY <1>1, <2>3, RenderingTells
<1> QED BY <1>1, <1>2, <1>3, AnswerIsAsked, NothingIsTold, UsersGoOn

LEMMA ServeUsersTurns == ASSUME UsersRest, UsersTurn, NEW i \in Admin!Ids, Admin!ServeUsers(i) PROVE UsersTurn'
<1>1. /\ DOMAIN calls = Admin!Ids /\ UNCHANGED <<page, server>> /\ calls[i].fn = "users"
      /\ calls[i].fn # Admin!None
  BY DEF UsersRest, UsersCalls, Admin!ServeUsers, Admin!Sent, Admin!None
<1>2. \E got : /\ calls' = [calls EXCEPT ![i] = Admin!IsBack(@, got)]
               /\ Admin!MayAsk => got = <<server.users>>
  BY DEF Admin!ServeUsers, Admin!Answers, Admin!Fails
<1>3. PICK got : Admin!GoesOn(i, Admin!IsBack(calls[i], got)) /\ (Admin!MayAsk => got = <<server.users>>)
  BY <1>1, <1>2, UsersAnswers
<1> DEFINE c == Admin!IsBack(calls[i], got)
<1>4. c.fn = "users" /\ c.got = got BY <1>1 DEF Admin!IsBack
<1> HIDE DEF c
<1>5. Admin!MayAsk' => Admin!MayAsk BY <1>1 DEF Admin!MayAsk
<1>6. Admin!MayAsk' => Told(c, page'.rows, server'.users) BY <1>1, <1>3, <1>4, <1>5 DEF Told, Settled, Admin!Savings
<1>7. c.fn # Admin!None /\ Admin!GoesOn(i, c) BY <1>3, <1>4 DEF Admin!None, c
<1> QED BY <1>1, <1>6, <1>7, AnswerIsAsked, UsersGoOn

(* A change of a role that the server makes.                               *)
LEMMA RoleIsMade ==
  ASSUME UsersRest, NEW c, UsersCall(c), c.fn = "role", RoleAhead(c, page.rows, server.users),
         server' = [server EXCEPT !.users[c.arg.user] = Admin!Changed(c.fn, c.arg.user, c.arg.to)],
         UNCHANGED page
  PROVE  RoleAhead(c, page'.rows, server'.users) /\ server'.users[c.arg.user].role = c.arg.to
<1> DEFINE u == c.arg.user
           v == server.users[u]
<1>1. /\ u \in Users /\ c.arg.to \in Admin!Roles /\ v \in UserRecords
      /\ server.users \in [Users -> UserRecords] /\ DOMAIN server = {"users", "clicks"}
  BY DEF UsersRest, UsersTypes, UsersCall, Admin!Savings
<1>2. v # Admin!NoUser BY DEF RoleAhead, Admin!NoUser
<1>3. Admin!Changed(c.fn, u, c.arg.to) = [v EXCEPT !.role = c.arg.to] BY <1>2 DEF Admin!Changed
<1> DEFINE w == [v EXCEPT !.role = c.arg.to]
<1>4. w.role = c.arg.to /\ w.off = v.off /\ w.groups = v.groups /\ w.tabs = v.tabs BY <1>1
<1> HIDE DEF w
<1>5. server'.users = [server.users EXCEPT ![u] = w] BY <1>1, <1>3 DEF w
<1>6. server'.users[u] = w /\ \A o \in Users \ {u} : server'.users[o] = server.users[o] BY <1>1, <1>5
<1>7. c.arg.to # Admin!None BY <1>1 DEF Admin!Roles, Admin!None
<1> QED BY <1>1, <1>4, <1>6, <1>7 DEF RoleAhead, RowTells

LEMMA ServeSavingTurns == ASSUME UsersRest, UsersTurn, NEW i \in Admin!Ids, Admin!ServeSaving(i) PROVE UsersTurn'
<1> DEFINE c == calls[i]
           no == Admin!Refuses(c.fn, c.arg.user, c.arg.to)
           got == IF no THEN "refused" ELSE "ok"
           d == Admin!IsBack(c, <<got>>)
<1>1. /\ DOMAIN calls = Admin!Ids /\ UNCHANGED page /\ c.fn \in Admin!Savings /\ c.at = "sent"
      /\ UsersCall(c)
  BY DEF UsersRest, UsersCalls, Admin!ServeSaving, Admin!Sent
<1>2. c.fn # Admin!None /\ \A j \in Admin!Ids \ {i} : calls[j].fn = Admin!None BY <1>1, AnswerIsAsked DEF Admin!Savings, Admin!None
<1>3. calls' = [calls EXCEPT ![i] = Admin!IsBack(@, <<got>>)] BY Zenon DEF Admin!ServeSaving, Admin!Answers
<1>4. IF no THEN UNCHANGED server
      ELSE server' = [server EXCEPT !.users[c.arg.user] = Admin!Changed(c.fn, c.arg.user, c.arg.to)]
  BY Zenon DEF Admin!ServeSaving, Admin!Store
<1>5. d.fn = c.fn /\ d.at = "back" /\ d.arg = c.arg /\ d.got = <<got>> BY DEF Admin!IsBack
<1>6. Admin!GoesOn(i, d) BY <1>1, <1>3, UsersAnswers, Zenon
<1>7. Admin!MayAsk' => Admin!MayAsk
  <2>1. no \/ Admin!MayAsk BY DEF Admin!Refuses
  <2> QED BY <1>4, <2>1 DEF Admin!MayAsk
<1> HIDE DEF d
<1>8. ASSUME Admin!MayAsk' PROVE Told(d, page'.rows, server'.users)
  <2>1. Admin!MayAsk /\ Told(c, page.rows, server.users) /\ c.got = <<>> BY <1>1, <1>7, <1>8 DEF UsersTurn, TableFollows, Told
  <2>2. d.fn = "groups" => d.got = <<"ok">> BY <1>5, <2>1 DEF Admin!Refuses
  <2>3. d.fn = "delete" /\ d.got = <<"ok">> => d.arg.user # Me BY <1>5 DEF Admin!Refuses
  <2>4. d.got \in {<<"ok">>, <<"refused">>} /\ (d.got = <<"ok">> <=> ~no) /\ (d.got = <<"refused">> <=> no) BY <1>5
  <2>5. Settled(d) => TableTells(page'.rows, server'.users)
    <3>1. Settled(d) => Settled(c) /\ no BY <1>5, <2>1, <2>4 DEF Settled
    <3> QED BY <1>1, <1>4, <2>1, <3>1 DEF Told
  <2>6. d.fn = "role" /\ d.got # <<"refused">> =>
          RoleAhead(d, page'.rows, server'.users) /\ server'.users[d.arg.user].role = d.arg.to
    <3> SUFFICES ASSUME c.fn = "role", ~no
                 PROVE  RoleAhead(d, page'.rows, server'.users) /\ server'.users[d.arg.user].role = d.arg.to
      BY <1>5, <2>4
    <3>1. RoleAhead(c, page.rows, server.users) BY <2>1 DEF Told
    <3>2. RoleAhead(c, page'.rows, server'.users) /\ server'.users[c.arg.user].role = c.arg.to BY <1>1, <1>4, <3>1, RoleIsMade
    <3> QED BY <1>5, <3>2 DEF RoleAhead
  <2>7. d.fn # "users" /\ d.at = "back" BY <1>1, <1>5 DEF Admin!Savings
  <2> QED BY <2>2, <2>3, <2>4, <2>5, <2>6, <2>7 DEF Told
<1> QED BY <1>2, <1>5, <1>6, <1>8, UsersGoOn

LEMMA UsersTurnBegins == Auth!CallsAssumption /\ Admin!Init => UsersTurn
<1> SUFFICES ASSUME Auth!CallsAssumption, Admin!Init PROVE UsersTurn OBVIOUS
<1>1. \A i \in Admin!Ids : Admin!NoCalls[i].fn = Admin!None BY UsersRequests DEF Admin!NoCalls
<1>2. PICK i \in Admin!Ids : calls = [Admin!NoCalls EXCEPT ![i] = Admin!Asks("users", <<>>)]
  <2>1. 1 \in Admin!Ids BY DEF Auth!CallsAssumption, Admin!Ids
  <2> QED BY <1>1, <2>1, UsersBegun DEF Admin!Init
<1>3. DOMAIN Admin!NoCalls = Admin!Ids BY DEF Admin!NoCalls
<1>4. calls[i].fn = "users" /\ calls[i].at = "sent" /\ \A j \in Admin!Ids \ {i} : calls[j].fn = Admin!None
  BY <1>1, <1>2, <1>3, UsersSent
<1>5. \A j \in Admin!Ids : Told(calls[j], page.rows, server.users) BY <1>4, NothingIsTold DEF Told, Settled, Admin!Savings
<1> QED BY <1>4, <1>5 DEF UsersTurn, OneCall, TableFollows, Admin!Quiet, Admin!None

LEMMA UsersTurnKeeps ==
  Auth!CallsAssumption /\ UsersRest /\ UsersTurn /\ inTurn /\ [Admin!Next]_(Admin!vars) => UsersTurn'
<1> SUFFICES ASSUME Auth!CallsAssumption, UsersRest, UsersTurn, inTurn, [Admin!Next]_(Admin!vars)
             PROVE  UsersTurn'
  OBVIOUS
<1>1. CASE UNCHANGED Admin!vars
  <2>1. UNCHANGED <<page, calls, server>> BY <1>1 DEF Admin!vars
  <2> QED BY <2>1 DEF UsersTurn, OneCall, TableFollows, Admin!MayAsk, Admin!Quiet
<1>2. ASSUME NEW i \in Admin!Ids, Admin!Serve(i) \/ Admin!Lose(i) \/ Admin!Continue(i) PROVE UsersTurn'
  BY <1>2, ServeSavingTurns, ServeUsersTurns, UsersSavedTurns, UsersLoadedTurns DEF Admin!Serve, Admin!Lose, Admin!Continue
<1> QED BY <1>1, <1>2, UsersClickTurns DEF Admin!Next

-----------------------------------------------------------------------------
(* WebProfiles. *)
LEMMA ProfileBegun == ASSUME Policy!CallsAssumption, NEW cs, NEW c, NEW k \in Ai!Ids, cs[k].fn = Ai!None PROVE \E i \in Ai!Ids :
           cs[i].fn = Ai!None /\ Ai!Begun(cs, c) = [cs EXCEPT ![i] = c]
BY FirstFree DEF Ai!Begun, Ai!Ids, Ai!None, Policy!CallsAssumption

LEMMA ProfileStarts ==
  ASSUME Policy!CallsAssumption, DOMAIN calls = Ai!Ids, NEW c, Ai!Starts(c)
  PROVE  \E i \in Ai!Ids : calls[i].fn = Ai!None /\ Ai!GoesOn(i, c)
BY ProfileBegun DEF Ai!Starts, Ai!Free, Ai!GoesOn, Ai!Moved

LEMMA ProfileMoves ==
  ASSUME DOMAIN calls = Ai!Ids, NEW i \in Ai!Ids, NEW c, Ai!GoesOn(i, c)
  PROVE  /\ DOMAIN calls' = Ai!Ids /\ calls'[i] = c
         /\ \A j \in Ai!Ids \ {i} : calls'[j] = calls[j]
BY DEF Ai!GoesOn, Ai!Moved

LEMMA ProfileSteps ==
  ASSUME DOMAIN calls = Ai!Ids, NEW i \in Ai!Ids
  PROVE  /\ Ai!Ends(i) => Ai!GoesOn(i, Ai!NoCall)
         /\ Ai!Fails(i) => Ai!GoesOn(i, Ai!IsBack(calls[i], <<>>))
BY DEF Ai!Ends, Ai!Ended, Ai!GoesOn, Ai!Moved, Ai!Fails

LEMMA ProfileAnswers ==
  ASSUME DOMAIN calls = Ai!Ids, NEW i \in Ai!Ids, NEW d, Ai!Answers(i, d)
  PROVE  Ai!GoesOn(i, Ai!IsBack(calls[i], <<d>>))
BY DEF Ai!GoesOn, Ai!Moved, Ai!Answers

LEMMA ProfileHolds ==
  ASSUME ProfileRest, NEW i \in Ai!Ids, NEW c, Ai!GoesOn(i, c), ProfileCall(c), ProfileTypes',
         \/ page'.busy = page.busy /\ (Generates(c) <=> Generates(calls[i]))
         \/ ~page.busy /\ page'.busy /\ Generates(c)
         \/ ~page'.busy /\ ~Generates(c) /\ Generates(calls[i])
  PROVE  ProfileRest'
<1>1. /\ DOMAIN calls' = Ai!Ids /\ calls'[i] = c
      /\ \A j \in Ai!Ids \ {i} : calls'[j] = calls[j]
  BY ProfileMoves DEF ProfileRest, ProfileCalls
<1>2. \A j \in Ai!Ids : ProfileCall(calls'[j]) BY <1>1 DEF ProfileRest, ProfileCalls
<1>3. ProfileCalls' BY <1>1, <1>2 DEF ProfileCalls, ProfileCall
<1>4. (page'.busy <=> \E j \in Ai!Ids : Generates(calls'[j]))
      /\ \A j, k \in Ai!Ids : Generates(calls'[j]) /\ Generates(calls'[k]) => j = k
  <2>1. page.busy \in BOOLEAN /\ page'.busy \in BOOLEAN BY DEF ProfileRest, ProfileTypes, ProfileForm
  <2> QED BY <1>1, <2>1 DEF ProfileRest, OneGenerates
<1>5. OneGenerates' BY <1>4 DEF OneGenerates, Generates
<1> QED BY <1>3, <1>5 DEF ProfileRest

LEMMA ProfileStays == ASSUME ProfileRest, UNCHANGED calls, page'.busy = page.busy, ProfileTypes' PROVE ProfileRest'
BY DEF ProfileRest, OneGenerates, Generates, ProfileCalls, ProfileCall

LEMMA ProfileRequests ==
  /\ ProfileCall(Ai!NoCall) /\ ~Generates(Ai!NoCall) /\ Ai!NoCall.fn = Ai!None
  /\ \A fn, arg : Ai!Asks(fn, arg).fn = fn /\ Ai!Asks(fn, arg).at = "sent"
                  /\ Ai!Asks(fn, arg).arg = arg /\ Ai!Asks(fn, arg).got = <<>>
  /\ \A c, got : Ai!IsBack(c, got).fn = c.fn /\ Ai!IsBack(c, got).at = "back"
                  /\ Ai!IsBack(c, got).arg = c.arg /\ Ai!IsBack(c, got).got = got
BY DEF ProfileCall, Generates, Ai!NoCall, Ai!None, Ai!Asks, Ai!IsBack

(* The form that is filled with a profile, or with nothing, and the lists.  *)
LEMMA FillingKeeps ==
  ASSUME PagesAreRight, NEW p, ProfileForm(p), NEW e \in DOMAIN p.cache \union {Ai!New, Ai!Nothing}
  PROVE  LET q == Ai!Filled(p, e)
         IN  /\ ProfileForm(q) /\ q.edit = e /\ q.cache = p.cache /\ q.active = p.active /\ q.busy = p.busy
             /\ e # Ai!Nothing => q.key = Ai!None /\ q.models = Ai!None
<1> DEFINE q == Ai!Filled(p, e)
<1>1. e \in Edited BY DEF ProfileForm, IsCache, Edited
<1>2. CASE e = Ai!Nothing
  <2>1. q = [p EXCEPT !.edit = e] BY <1>2 DEF Ai!Filled
  <2> QED BY <1>1, <1>2, <2>1 DEF ProfileForm
<1>3. CASE e # Ai!Nothing
  <2> DEFINE v == IF e = Ai!New THEN Ai!None ELSE p.cache[e]
  <2>1. q = [p EXCEPT !.edit = e, !.key = Ai!None, !.models = Ai!None, !.provider = v] BY <1>3 DEF Ai!Filled
  <2>2. v \in Providers \union {Ai!None} BY <1>3 DEF ProfileForm, IsCache
  <2> HIDE DEF v
  <2> QED BY <1>1, <1>3, <2>1, <2>2 DEF ProfileForm
<1> QED BY <1>2, <1>3

LEMMA ListingKeeps == ASSUME PagesAreRight, NEW p, ProfileForm(p), NEW l, IsCache(l.profiles) PROVE LET q == Ai!Listed(p, l)
         IN  /\ ProfileForm(q) /\ q.edit \in DOMAIN l.profiles \union {Ai!New} /\ q.cache = l.profiles
             /\ q.active = l.active /\ q.busy = p.busy /\ q.key = Ai!None /\ q.models = Ai!None
<1> DEFINE q == [p EXCEPT !.cache = l.profiles, !.active = l.active]
           e == IF p.edit \in DOMAIN l.profiles THEN p.edit ELSE Ai!New
<1>1. ProfileForm(q) /\ q.cache = l.profiles /\ q.active = l.active /\ q.busy = p.busy BY DEF ProfileForm
<1>2. e \in DOMAIN q.cache \union {Ai!New, Ai!Nothing} /\ e # Ai!Nothing
      /\ e \in DOMAIN l.profiles \union {Ai!New}
  BY <1>1, Zenon DEF IsCache, Ai!New, Ai!Nothing
<1>3. Ai!Listed(p, l) = Ai!Filled(q, e) BY DEF Ai!Listed
<1> HIDE DEF q, e
<1> QED BY <1>1, <1>2, <1>3, FillingKeeps

LEMMA ProfileClicksKeep ==
  ASSUME PagesAreRight, ProfileRest,
         \/ \E p \in AiProfiles : Ai!Select(p) \/ Ai!ClickActivate(p)
         \/ Ai!Select(Ai!New) \/ Ai!TypeKey \/ Ai!ClickModels \/ Ai!ClickSave
         \/ Ai!ClickDelete \/ Ai!ClickGenerate
         \/ \E v \in Providers : Ai!ChooseProvider(v)
  PROVE  ProfileRest'
<1> USE DEF ProfileTypes, Generates, ProfileForm, ProfileCall, Ai!Asks
<1>1. /\ ProfileForm(page) /\ ProfileStore(server) /\ DOMAIN calls = Ai!Ids /\ Policy!CallsAssumption
      /\ \A i \in Ai!Ids : calls[i].fn = Ai!None => ~Generates(calls[i])
  <2>1. Policy!CallsAssumption BY Zenon
  <2> QED BY <2>1 DEF ProfileRest, ProfileCalls, Ai!None
<1>2. Ai!Clicked => ProfileStore(server)' BY <1>1 DEF ProfileStore, Ai!Clicked
<1>3. ASSUME NEW c, Ai!Starts(c), ProfileCall(c), ~Generates(c), UNCHANGED page, Ai!Clicked PROVE ProfileRest'
  <2>1. PICK i \in Ai!Ids : calls[i].fn = Ai!None /\ Ai!GoesOn(i, c) BY <1>1, <1>3, ProfileStarts
  <2>2. ProfileTypes' BY <1>1, <1>2, <1>3
  <2> QED BY <1>1, <1>3, <2>1, <2>2, ProfileHolds
<1>4. ASSUME NEW e \in Edited, Ai!Select(e) PROVE ProfileRest'
  <2>1. e \in DOMAIN page.cache \union {Ai!New} /\ page' = Ai!Filled(page, e) /\ Ai!Clicked /\ UNCHANGED calls BY <1>4 DEF Ai!Select
  <2>2. ProfileForm(page') /\ page'.busy = page.busy BY <1>1, <2>1, FillingKeeps
  <2>3. ProfileTypes' BY <1>2, <2>1, <2>2
  <2> QED BY <2>1, <2>2, <2>3, ProfileStays
<1>5. ASSUME NEW v \in Providers, Ai!ChooseProvider(v) PROVE ProfileRest'
  <2>1. page' = [page EXCEPT !.provider = v, !.models = Ai!None] /\ Ai!Clicked /\ UNCHANGED calls
    BY <1>5, Zenon DEF Ai!ChooseProvider
  <2>2. ProfileForm(page)' /\ page'.busy = page.busy BY <1>1, <2>1
  <2> QED BY <1>2, <2>1, <2>2, ProfileStays
<1>6. ASSUME Ai!TypeKey PROVE ProfileRest'
  <2>1. page' = [page EXCEPT !.key = page.edit] /\ Ai!Clicked /\ UNCHANGED calls BY <1>6 DEF Ai!TypeKey
  <2>2. ProfileForm(page)' /\ page'.busy = page.busy BY <1>1, <2>1
  <2> QED BY <1>2, <2>1, <2>2, ProfileStays
<1>7. ASSUME Ai!ClickModels PROVE ProfileRest'
  <2>1. ProfileCall(Ai!Asks("models", [of |-> page.provider])) /\ ~Generates(Ai!Asks("models", [of |-> page.provider]))
    BY <1>1, <1>7 DEF Ai!ClickModels
  <2> QED BY <1>3, <1>7, <2>1 DEF Ai!ClickModels
<1>8. ASSUME Ai!ClickSave PROVE ProfileRest'
  <2> DEFINE c == Ai!Asks("save", [of |-> page.edit, provider |-> page.provider, key |-> page.key])
  <2>1. ProfileCall(c) /\ ~Generates(c) BY <1>1, <1>8 DEF Ai!ClickSave
  <2> QED BY <1>3, <1>8, <2>1 DEF Ai!ClickSave
<1>9. ASSUME NEW fn \in {"delete", "activate"}, NEW arg, Ai!Starts(Ai!Asks(fn, arg)), UNCHANGED page,
             Ai!Clicked
      PROVE  ProfileRest'
  <2>1. ProfileCall(Ai!Asks(fn, arg)) /\ ~Generates(Ai!Asks(fn, arg)) BY <1>9
  <2> QED BY <1>3, <1>9, <2>1
<1>10. ASSUME Ai!ClickGenerate PROVE ProfileRest'
  <2>1. /\ page' = [page EXCEPT !.busy = TRUE] /\ ~page.busy /\ Ai!Clicked
        /\ Ai!Starts(Ai!Asks("generate", <<>>))
    BY <1>10 DEF Ai!ClickGenerate
  <2>2. ProfileForm(page)' /\ page'.busy BY <1>1, <2>1
  <2>3. ProfileCall(Ai!Asks("generate", <<>>)) /\ Generates(Ai!Asks("generate", <<>>)) OBVIOUS
  <2>4. PICK i \in Ai!Ids : Ai!GoesOn(i, Ai!Asks("generate", <<>>)) BY <1>1, <2>1, ProfileStarts
  <2> QED BY <1>2, <2>1, <2>2, <2>3, <2>4, ProfileHolds
<1>11. ASSUME NEW p \in AiProfiles, Ai!ClickActivate(p) PROVE ProfileRest' BY <1>9, <1>11 DEF Ai!ClickActivate
<1>12. ASSUME Ai!ClickDelete PROVE ProfileRest' BY <1>9, <1>12 DEF Ai!ClickDelete
<1> QED BY <1>4, <1>5, <1>6, <1>7, <1>8, <1>10, <1>11, <1>12 DEF Edited

LEMMA ProfileContinueKeeps == ASSUME PagesAreRight, ProfileRest, NEW i \in Ai!Ids, Ai!Continue(i) PROVE ProfileRest'
<1> USE DEF ProfileTypes, Ai!Loaded, Ai!GotModels, Ai!Saved, Ai!Deleted, Ai!Activated, ProfileForm, Ai!Back, ProfileCall, Generates
<1>1. /\ ProfileForm(page) /\ ProfileStore(server) /\ DOMAIN calls = Ai!Ids /\ ProfileCall(calls[i])
      /\ UNCHANGED server
  BY DEF ProfileRest, ProfileCalls, Ai!Continue, Ai!Generated
<1>2. ProfileStore(server)' BY <1>1
<1>3. ASSUME NEW c, Ai!GoesOn(i, c), ProfileCall(c), ~Generates(c), ~Generates(calls[i]), ProfileForm(page'),
             page'.busy = page.busy
      PROVE  ProfileRest'
  <2>1. ProfileTypes' BY <1>2, <1>3
  <2> QED BY <1>3, <2>1, ProfileHolds
<1>4. ASSUME Ai!Ends(i), ~Generates(calls[i]), ProfileForm(page'), page'.busy = page.busy PROVE ProfileRest'
  BY <1>1, <1>3, <1>4, ProfileSteps, ProfileRequests
<1>5. CASE Ai!Loaded(i)
  <2> DEFINE p == IF Ai!Answered(i) THEN Ai!Listed(page, Ai!Answer(i)) ELSE page
             e == IF calls[i].arg[1] \in DOMAIN p.cache THEN calls[i].arg[1] ELSE Ai!Nothing
  <2>1. Ai!Answered(i) => IsCache(Ai!Answer(i).profiles) BY <1>1, <1>5 DEF Ai!Answered, Ai!Answer
  <2>2. ProfileForm(p) /\ p.busy = page.busy BY <1>1, <2>1, ListingKeeps
  <2>3. page' = p \/ page' = Ai!Filled(p, e) BY <1>5, Zenon
  <2> HIDE DEF p
  <2>4. ProfileForm(page') /\ page'.busy = page.busy BY <2>2, <2>3, FillingKeeps
  <2>5. ~Generates(calls[i]) /\ Ai!Ends(i) BY <1>5
  <2> QED BY <1>4, <2>4, <2>5
<1>6. CASE Ai!GotModels(i)
  <2>1. page' = page \/ page' = [page EXCEPT !.models = calls[i].arg.of] BY <1>6
  <2>2. calls[i].arg.of \in Providers /\ ~Generates(calls[i]) /\ Ai!Ends(i) BY <1>1, <1>6
  <2>3. ProfileForm(page') /\ page'.busy = page.busy BY <1>1, <2>1, <2>2
  <2> QED BY <1>4, <2>2, <2>3
<1>7. CASE Ai!Saved(i) \/ Ai!Deleted(i)
  <2>1. UNCHANGED page /\ ~Generates(calls[i]) BY <1>7
  <2>2. Ai!Ends(i) \/ \E a : Ai!GoesOn(i, Ai!Asks("profiles", a)) /\ (a = <<>> \/ \E p \in AiProfiles : a = <<p>>)
    BY <1>1, <1>7 DEF Ai!Answered, Ai!Answer
  <2>3. \A a : a = <<>> \/ (\E p \in AiProfiles : a = <<p>>) =>
          ProfileCall(Ai!Asks("profiles", a)) /\ ~Generates(Ai!Asks("profiles", a))
    BY ProfileRequests
  <2> QED BY <1>1, <1>3, <1>4, <2>1, <2>2, <2>3
<1>8. CASE Ai!Activated(i)
  <2>1. page' = page \/ page' = [page EXCEPT !.active = calls[i].arg.of] BY <1>8
  <2>2. ProfileForm(page') /\ page'.busy = page.busy BY <1>1, <2>1
  <2>3. ~Generates(calls[i]) /\ Ai!Ends(i) BY <1>8
  <2> QED BY <1>4, <2>2, <2>3
<1>9. CASE Ai!Generated(i)
  <2>1. page' = [page EXCEPT !.busy = FALSE] /\ Generates(calls[i]) /\ Ai!Ends(i) BY <1>9 DEF Ai!Generated
  <2>2. ProfileForm(page)' /\ ~page'.busy BY <1>1, <2>1
  <2>3. ProfileTypes' BY <1>2, <2>2
  <2> QED BY <1>1, <2>1, <2>2, <2>3, ProfileSteps, ProfileRequests, ProfileHolds
<1> QED BY <1>5, <1>6, <1>7, <1>8, <1>9 DEF Ai!Continue

LEMMA ProfileServerKeeps ==
  ASSUME ProfileRest, NEW i \in Ai!Ids, Ai!Serve(i) \/ Ai!Lose(i)
  PROVE  ProfileRest'
<1> USE DEF Ai!ServeSave, Ai!ServeDelete, Ai!ServeActivate, ProfileStore, Ai!Sent
<1>1. /\ ProfileForm(page) /\ ProfileStore(server) /\ DOMAIN calls = Ai!Ids /\ ProfileCall(calls[i])
      /\ UNCHANGED page
  <2>1. UNCHANGED page BY Zenon DEF Ai!Serve, Ai!Lose, Ai!ServeProfiles, Ai!ServeWork
  <2> QED BY <2>1 DEF ProfileRest, ProfileTypes, ProfileCalls
<1>2. ASSUME NEW got, Ai!GoesOn(i, Ai!IsBack(calls[i], got)), ProfileStore(server'),
             calls[i].fn = "save" => got = <<>> \/ got[1] \in AiProfiles,
             calls[i].fn = "profiles" => got = <<>> \/ IsCache(got[1].profiles)
      PROVE  ProfileRest'
  <2> DEFINE c == Ai!IsBack(calls[i], got)
  <2>1. c.fn = calls[i].fn /\ c.arg = calls[i].arg /\ c.got = got BY ProfileRequests
  <2> HIDE DEF c
  <2>2. ProfileCall(c) /\ (Generates(c) <=> Generates(calls[i])) BY <1>1, <1>2, <2>1 DEF ProfileCall, Generates
  <2>3. ProfileTypes' BY <1>1, <1>2 DEF ProfileTypes, ProfileForm
  <2> QED BY <1>1, <1>2, <2>2, <2>3, ProfileHolds DEF c
<1>3. ASSUME UNCHANGED server, Ai!Fails(i) PROVE ProfileRest' BY <1>1, <1>2, <1>3, ProfileSteps
<1>4. ASSUME UNCHANGED server, NEW d, Ai!Answers(i, d), calls[i].fn \notin {"save", "profiles"} PROVE ProfileRest'
  BY <1>1, <1>2, <1>4, ProfileAnswers
<1>5. ASSUME NEW p \in AiProfiles, NEW a, a.provider \in Providers, Ai!Store(p, a) PROVE ProfileStore(server')
  <2> DEFINE f == Ai!With(server.profiles, p, a.provider)
  <2>1. IsCache(f) BY <1>1, <1>5 DEF IsCache, Ai!With
  <2>2. server'.profiles = f /\ DOMAIN server' = DOMAIN server /\ DOMAIN server'.keys = DOMAIN server.keys
    BY <1>1, <1>5 DEF Ai!Store
  <2> QED BY <1>1, <2>1, <2>2
<1>6. CASE Ai!ServeSave(i)
  <2> DEFINE a == calls[i].arg
  <2>1. calls[i].fn = "save" /\ a.provider \in Providers BY <1>1, <1>6 DEF ProfileCall
  <2>2. (Ai!Fails(i) /\ UNCHANGED server) \/ \E p \in AiProfiles : Ai!Store(p, a) /\ Ai!Answers(i, p) BY <1>6
  <2>3. ASSUME NEW p \in AiProfiles, Ai!Store(p, a), Ai!Answers(i, p) PROVE ProfileRest'
    BY <1>1, <1>2, <1>5, <2>1, <2>3, ProfileAnswers
  <2> QED BY <1>3, <2>2, <2>3
<1>7. CASE Ai!ServeDelete(i)
  <2> DEFINE left == DOMAIN server.profiles \ {calls[i].arg.of}
  <2>1. calls[i].fn = "delete" BY <1>7, Zenon
  <2>2. CASE Ai!Fails(i) /\ UNCHANGED server BY <1>3, <2>2
  <2>3. ASSUME NEW q, Ai!Answers(i, "ok"), server' = [server EXCEPT !.profiles = [s \in left |-> @[s]], !.active = q]
        PROVE ProfileRest'
    <3>1. server'.profiles = [s \in left |-> server.profiles[s]] /\ DOMAIN server' = DOMAIN server /\ server'.keys = server.keys
      BY <1>1, <2>3
    <3>2. ProfileStore(server') BY <1>1, <3>1 DEF IsCache
    <3>3. Ai!GoesOn(i, Ai!IsBack(calls[i], <<"ok">>)) BY <1>1, <2>3, ProfileAnswers
    <3> QED BY <1>2, <2>1, <3>2, <3>3
  <2>4. \/ Ai!Fails(i) /\ UNCHANGED server
        \/ \E q : Ai!Answers(i, "ok") /\ server' = [server EXCEPT !.profiles = [s \in left |-> @[s]], !.active = q]
    BY <1>7, Zenon
  <2> HIDE DEF left
  <2> QED BY <2>2, <2>3, <2>4, Zenon
<1>8. CASE Ai!ServeActivate(i)
  <2>1. calls[i].fn = "activate" BY <1>8
  <2>2. ASSUME server' = [server EXCEPT !.active = calls[i].arg.of], Ai!Answers(i, "ok") PROVE ProfileRest'
    <3>1. ProfileStore(server') BY <1>1, <2>2
    <3>2. Ai!GoesOn(i, Ai!IsBack(calls[i], <<"ok">>)) BY <1>1, <2>2, ProfileAnswers
    <3> QED BY <1>2, <2>1, <3>1, <3>2
  <2> QED BY <1>3, <1>8, <2>2
<1>9. CASE Ai!ServeProfiles(i)
  <2>1. Ai!Answers(i, [profiles |-> server.profiles, active |-> server.active]) /\ UNCHANGED server
        /\ calls[i].fn = "profiles"
    BY <1>9 DEF Ai!ServeProfiles
  <2>2. IsCache(server.profiles) /\ ProfileStore(server') BY <1>1, <2>1
  <2>3. Ai!GoesOn(i, Ai!IsBack(calls[i], <<[profiles |-> server.profiles, active |-> server.active]>>))
    BY <1>1, <2>1, ProfileAnswers
  <2> QED BY <1>2, <2>1, <2>2, <2>3
<1>10. CASE Ai!ServeWork(i) \/ Ai!Lose(i) BY <1>3, <1>4, <1>10 DEF Ai!ServeWork, Ai!Lose
<1> QED BY <1>6, <1>7, <1>8, <1>9, <1>10 DEF Ai!Serve

LEMMA ProfileBegins == PagesAreRight /\ Ai!Init => ProfileRest
<1> SUFFICES ASSUME PagesAreRight, Ai!Init PROVE ProfileRest OBVIOUS
<1>1. ProfileTypes BY DEF Ai!Init, ProfileTypes, ProfileForm, ProfileStore, IsCache, Edited
<1>2. DOMAIN Ai!NoCalls = Ai!Ids /\ \A i \in Ai!Ids : Ai!NoCalls[i] = Ai!NoCall BY DEF Ai!NoCalls
<1>3. PICK i \in Ai!Ids : calls = [Ai!NoCalls EXCEPT ![i] = Ai!Asks("profiles", <<>>)]
  <2>1. 1 \in Ai!Ids BY DEF PagesAreRight, Policy!CallsAssumption, Ai!Ids
  <2>2. Policy!CallsAssumption BY Zenon
  <2> QED BY <1>2, <2>1, <2>2, ProfileRequests, ProfileBegun DEF Ai!Init
<1>4. ProfileCall(Ai!Asks("profiles", <<>>)) /\ ~Generates(Ai!Asks("profiles", <<>>)) BY ProfileRequests DEF ProfileCall, Generates
<1>5. ~page.busy BY DEF Ai!Init
<1>6. DOMAIN calls = Ai!Ids /\ \A j \in Ai!Ids : ProfileCall(calls[j]) /\ ~Generates(calls[j]) BY <1>2, <1>3, <1>4, ProfileRequests
<1> QED BY <1>1, <1>5, <1>6 DEF ProfileRest, ProfileCalls, OneGenerates

LEMMA ProfileKeeps == PagesAreRight /\ ProfileRest /\ [Ai!Next]_(Ai!vars) => ProfileRest'
<1> SUFFICES ASSUME PagesAreRight, ProfileRest, [Ai!Next]_(Ai!vars) PROVE ProfileRest' OBVIOUS
<1>1. CASE UNCHANGED Ai!vars
  <2>1. UNCHANGED <<page, calls, server>> BY <1>1 DEF Ai!vars
  <2>2. ProfileTypes' BY <2>1 DEF ProfileRest, ProfileTypes, ProfileForm, ProfileStore
  <2> QED BY <2>1, <2>2, ProfileStays
<1> QED BY <1>1, ProfileClicksKeep, ProfileContinueKeeps, ProfileServerKeeps DEF Ai!Next

-----------------------------------------------------------------------------
(* A user who waits. *)
LEMMA ProfileTurnHolds ==
  ASSUME ProfileRest, ProfileTurn, NEW i \in Ai!Ids, NEW c, Ai!GoesOn(i, c),
         Ai!Quiet \/ calls[i].fn # Ai!None, ProfileTold(c, page', server'),
         c.fn = Ai!None => ListIsShown(page', server'), FormTells(page'), KeysAreOwn(server')
  PROVE  ProfileTurn'
<1>1. /\ DOMAIN calls' = Ai!Ids /\ calls'[i] = c
      /\ \A j \in Ai!Ids \ {i} : calls'[j] = calls[j]
  BY ProfileMoves DEF ProfileRest, ProfileCalls
<1>2. \A j \in Ai!Ids \ {i} : calls[j].fn = Ai!None BY DEF ProfileTurn, OneProfileCall, Ai!Quiet
<1>3. ASSUME NEW j \in Ai!Ids PROVE ProfileTold(calls'[j], page', server')
  <2>1. CASE j = i BY <1>1, <2>1
  <2>2. CASE j # i
    <3>1. calls'[j].fn = Ai!None /\ (calls'[j].at = "sent" => calls'[j].got = <<>>) BY <1>1, <1>2, <2>2 DEF ProfileTurn, ProfileTold
    <3> QED BY <3>1 DEF ProfileTold, Decisions, Ai!None
  <2> QED BY <2>1, <2>2
<1>4. OneProfileCall' BY <1>1, <1>2 DEF OneProfileCall
<1>5. Ai!Quiet' => ListIsShown(page', server') BY <1>1 DEF Ai!Quiet
<1>6. \A j \in Ai!Ids : ProfileTold(calls[j], page, server)' BY <1>3 DEF ProfileTold, ListIsShown
<1> QED BY <1>4, <1>5, <1>6 DEF ProfileTurn, ListIsShown, FormTells, KeysAreOwn

LEMMA ProfileTurnStays ==
  ASSUME ProfileRest, ProfileTurn, UNCHANGED calls, Ai!Quiet, ListIsShown(page', server'), FormTells(page'),
         KeysAreOwn(server')
  PROVE  ProfileTurn'
<1>1. OneProfileCall' BY DEF ProfileTurn, OneProfileCall
<1>2. \A j \in Ai!Ids : ProfileTold(calls[j], page, server)' BY DEF ProfileTurn, ProfileTold, Ai!Quiet, Ai!None, Decisions
<1> QED BY <1>1, <1>2 DEF ProfileTurn, ListIsShown, FormTells, KeysAreOwn

LEMMA ProfileClicksTurn ==
  ASSUME PagesAreRight, ProfileRest, ProfileTurn, inTurn,
         \/ \E p \in AiProfiles : Ai!Select(p) \/ Ai!ClickActivate(p)
         \/ Ai!Select(Ai!New) \/ Ai!TypeKey \/ Ai!ClickModels \/ Ai!ClickSave
         \/ Ai!ClickDelete \/ Ai!ClickGenerate
         \/ \E v \in Providers : Ai!ChooseProvider(v)
  PROVE  ProfileTurn'
<1> USE DEF ProfileForm, ProfileTold, ListIsShown, EditIsListed, FormTells, Decisions
<1>1. /\ ProfileForm(page) /\ ProfileStore(server) /\ DOMAIN calls = Ai!Ids /\ Policy!CallsAssumption
      /\ FormTells(page) /\ KeysAreOwn(server)
  <2>1. Policy!CallsAssumption BY Zenon
  <2> QED BY <2>1 DEF ProfileRest, ProfileTypes, ProfileCalls, ProfileTurn
<1>2. Ai!MayClick
  BY Zenon DEF Ai!Select, Ai!TypeKey, Ai!ClickModels, Ai!ClickSave, Ai!ClickDelete, Ai!ClickGenerate, Ai!ChooseProvider,
     Ai!ClickActivate
<1>3. Ai!Quiet /\ ListIsShown(page, server) BY <1>2 DEF Ai!MayClick, ProfileTurn
<1>4. Ai!Clicked => server'.profiles = server.profiles /\ server'.active = server.active /\ KeysAreOwn(server')
  BY <1>1 DEF Ai!Clicked, KeysAreOwn
<1>5. ASSUME NEW c, Ai!Starts(c), ProfileTold(c, page, server), c.fn # Ai!None, Ai!Clicked,
             page' = page \/ page' = [page EXCEPT !.busy = TRUE]
      PROVE  ProfileTurn'
  <2>1. PICK i \in Ai!Ids : calls[i].fn = Ai!None /\ Ai!GoesOn(i, c) BY <1>1, <1>5, ProfileStarts
  <2>2. /\ page'.cache = page.cache /\ page'.active = page.active /\ page'.edit = page.edit
        /\ page'.provider = page.provider /\ page'.key = page.key /\ page'.models = page.models
    BY <1>1, <1>5
  <2>3. ProfileTold(c, page', server') BY <1>4, <1>5, <2>2
  <2>4. FormTells(page') BY <1>1, <2>2
  <2> QED BY <1>3, <1>4, <1>5, <2>1, <2>3, <2>4, ProfileTurnHolds
<1>6. ASSUME NEW fn \in Decisions \union {"models", "generate"}, NEW arg, ProfileTold(Ai!Asks(fn, arg), page, server),
             Ai!Starts(Ai!Asks(fn, arg)), Ai!Clicked, page' = page \/ page' = [page EXCEPT !.busy = TRUE]
      PROVE  ProfileTurn'
  BY <1>5, <1>6, ProfileRequests DEF Ai!None
<1>7. ASSUME NEW e \in AiProfiles \union {Ai!New}, Ai!Select(e) PROVE ProfileTurn'
  <2>1. e \in DOMAIN page.cache \union {Ai!New} /\ page' = Ai!Filled(page, e) /\ Ai!Clicked /\ UNCHANGED calls BY <1>7 DEF Ai!Select
  <2>2. e # Ai!Nothing BY Zenon DEF Ai!New, Ai!Nothing
  <2>3. /\ page'.edit = e /\ page'.cache = page.cache /\ page'.active = page.active
        /\ page'.key = Ai!None /\ page'.models = Ai!None
    BY <1>1, <2>1, <2>2, FillingKeeps
  <2>4. ListIsShown(page', server') /\ FormTells(page') BY <1>3, <1>4, <2>1, <2>2, <2>3
  <2> QED BY <1>3, <1>4, <2>1, <2>4, ProfileTurnStays
<1>8. ASSUME NEW v \in Providers, Ai!ChooseProvider(v) PROVE ProfileTurn'
  <2>1. page' = [page EXCEPT !.provider = v, !.models = Ai!None] /\ Ai!Clicked /\ UNCHANGED calls
    BY <1>8, Zenon DEF Ai!ChooseProvider
  <2>2. ListIsShown(page', server') /\ FormTells(page') BY <1>1, <1>3, <1>4, <2>1
  <2> QED BY <1>3, <1>4, <2>1, <2>2, ProfileTurnStays
<1>9. CASE Ai!TypeKey
  <2>1. page' = [page EXCEPT !.key = page.edit] /\ Ai!Clicked /\ UNCHANGED calls BY <1>9 DEF Ai!TypeKey
  <2>2. ListIsShown(page', server') /\ FormTells(page') BY <1>1, <1>3, <1>4, <2>1
  <2> QED BY <1>3, <1>4, <2>1, <2>2, ProfileTurnStays
<1>10. ASSUME NEW fn \in {"delete", "activate", "generate"}, NEW arg PROVE ProfileTold(Ai!Asks(fn, arg), page, server)
  BY <1>3, <1>10, ProfileRequests
<1>11. CASE Ai!ClickModels
  <2>1. ProfileTold(Ai!Asks("models", [of |-> page.provider]), page, server) BY <1>3, ProfileRequests
  <2> QED BY <1>6, <1>11, <2>1 DEF Ai!ClickModels
<1>12. CASE Ai!ClickSave
  <2>1. ProfileTold(Ai!Asks("save", [of |-> page.edit, provider |-> page.provider, key |-> page.key]), page, server)
    BY <1>1, <1>3, ProfileRequests
  <2> QED BY <1>6, <1>12, <2>1 DEF Ai!ClickSave
<1>13. CASE Ai!ClickDelete BY <1>6, <1>10, <1>13 DEF Ai!ClickDelete
<1>14. CASE Ai!ClickGenerate BY <1>6, <1>10, <1>14 DEF Ai!ClickGenerate
<1>15. ASSUME NEW p \in AiProfiles, Ai!ClickActivate(p) PROVE ProfileTurn' BY <1>6, <1>10, <1>15 DEF Ai!ClickActivate
<1> QED BY <1>7, <1>8, <1>9, <1>11, <1>12, <1>13, <1>14, <1>15

LEMMA ProfileContinueTurns == ASSUME PagesAreRight, ProfileRest, ProfileTurn, NEW i \in Ai!Ids, Ai!Continue(i) PROVE ProfileTurn'
<1> USE DEF Ai!Continue, Ai!Loaded, Ai!GotModels, Ai!Saved, Ai!Deleted, Ai!Activated, Ai!Generated, Ai!Back, Ai!None, ProfileTold,
    Decisions, Ai!Answered, ListIsShown, EditIsListed, FormTells, ProfileForm
<1>1. /\ ProfileForm(page) /\ DOMAIN calls = Ai!Ids /\ ProfileTold(calls[i], page, server) /\ UNCHANGED server
      /\ FormTells(page) /\ KeysAreOwn(server) /\ IsCache(server.profiles)
  BY DEF ProfileRest, ProfileTypes, ProfileStore, ProfileCalls, ProfileTurn
<1>2. calls[i].fn # Ai!None /\ KeysAreOwn(server') BY <1>1 DEF KeysAreOwn
<1>3. ASSUME Ai!Ends(i), ListIsShown(page', server), FormTells(page') PROVE ProfileTurn'
  <2>1. ProfileTold(Ai!NoCall, page', server') BY DEF Ai!NoCall
  <2> QED BY <1>1, <1>2, <1>3, <2>1, ProfileSteps, ProfileRequests, ProfileTurnHolds
<1>4. CASE Ai!Loaded(i)
  <2> DEFINE l == [profiles |-> server.profiles, active |-> server.active]
             p == Ai!Listed(page, l)
             arg == calls[i].arg
  <2>1. calls[i].fn = "profiles" /\ calls[i].at = "back" /\ Ai!Ends(i) BY <1>4, Zenon
  <2>2. calls[i].got = <<l>> /\ (arg # <<>> => arg[1] \in DOMAIN server.profiles) BY <1>1, <2>1
  <2>3. Ai!Answered(i) /\ Ai!Answer(i) = l BY <2>2 DEF Ai!Answer
  <2>4. l.profiles = server.profiles /\ l.active = server.active /\ IsCache(l.profiles) BY <1>1
  <2> HIDE DEF l
  <2>5. /\ ProfileForm(p) /\ p.edit \in DOMAIN server.profiles \union {Ai!New} /\ p.cache = server.profiles
        /\ p.active = server.active /\ p.key = Ai!None /\ p.models = Ai!None
    BY <1>1, <2>4, ListingKeeps
  <2>6. page' = p \/ (arg # <<>> /\ page' = Ai!Filled(p, IF arg[1] \in DOMAIN p.cache THEN arg[1] ELSE Ai!Nothing))
    BY <1>4, <2>3, Zenon
  <2> HIDE DEF p
  <2>7. CASE page' = p
    <3>1. p.edit # Ai!Nothing BY <1>1, <2>5, Zenon DEF Ai!New, Ai!Nothing, IsCache
    <3> QED BY <1>3, <2>1, <2>5, <2>7, <3>1
  <2>8. CASE arg # <<>> /\ page' = Ai!Filled(p, arg[1]) /\ arg[1] \in DOMAIN p.cache
    <3>1. arg[1] # Ai!Nothing BY <1>1, <2>2, <2>8, Zenon DEF IsCache
    <3>2. /\ page'.edit = arg[1] /\ page'.cache = p.cache /\ page'.active = p.active
          /\ page'.key = Ai!None /\ page'.models = Ai!None
      BY <2>5, <2>8, <3>1, FillingKeeps
    <3> QED BY <1>3, <2>1, <2>2, <2>5, <2>8, <3>1, <3>2
  <2> QED BY <2>2, <2>5, <2>6, <2>7, <2>8
<1>5. CASE Ai!GotModels(i)
  <2>1. calls[i].fn = "models" /\ Ai!Ends(i)
        /\ (page' = page \/ page' = [page EXCEPT !.models = calls[i].arg.of])
    BY <1>5
  <2>2. ListIsShown(page, server) /\ calls[i].arg.of = page.provider BY <1>1, <2>1
  <2>3. ListIsShown(page', server) /\ FormTells(page') BY <1>1, <2>1, <2>2
  <2> QED BY <1>3, <2>1, <2>3
<1>6. CASE Ai!Saved(i) \/ Ai!Deleted(i)
  <2>1. UNCHANGED page /\ calls[i].fn \in {"save", "delete"} BY <1>6
  <2>2. CASE calls[i].got = <<>>
    <3>1. Ai!Ends(i) BY <1>6, <2>2
    <3>2. ListIsShown(page', server) /\ FormTells(page') BY <1>1, <2>1, <2>2
    <3> QED BY <1>3, <3>1, <3>2
  <2>3. CASE calls[i].got # <<>>
    <3>1. PICK a : Ai!GoesOn(i, Ai!Asks("profiles", a)) /\ (a # <<>> => a[1] \in DOMAIN server.profiles)
      BY <1>1, <1>6, <2>3 DEF Ai!Answer
    <3>2. ProfileTold(Ai!Asks("profiles", a), page', server') BY <1>1, <3>1, ProfileRequests
    <3>3. Ai!Asks("profiles", a).fn # Ai!None /\ FormTells(page') BY <1>1, <2>1, ProfileRequests
    <3> QED BY <1>1, <1>2, <3>1, <3>2, <3>3, ProfileTurnHolds
  <2> QED BY <2>2, <2>3
<1>7. CASE Ai!Activated(i)
  <2>1. calls[i].fn = "activate" /\ Ai!Ends(i)
        /\ page' = IF calls[i].got # <<>> THEN [page EXCEPT !.active = calls[i].arg.of] ELSE page
    BY <1>7
  <2>2. ListIsShown(page', server) /\ FormTells(page') BY <1>1, <2>1
  <2> QED BY <1>3, <2>1, <2>2
<1>8. CASE Ai!Generated(i)
  <2>1. calls[i].fn = "generate" /\ Ai!Ends(i) /\ page' = [page EXCEPT !.busy = FALSE] BY <1>8
  <2>2. ListIsShown(page', server) /\ FormTells(page') BY <1>1, <2>1
  <2> QED BY <1>3, <2>1, <2>2
<1> QED BY <1>4, <1>5, <1>6, <1>7, <1>8

LEMMA ProfileServerTurns == ASSUME ProfileRest, ProfileTurn, inTurn, NEW i \in Ai!Ids, Ai!Serve(i) PROVE ProfileTurn'
<1> USE DEF Ai!ServeSave, Ai!ServeDelete, Ai!ServeActivate, Ai!Sent, ProfileTold, Decisions, KeysAreOwn
<1>1. /\ ProfileStore(server) /\ DOMAIN calls = Ai!Ids /\ ProfileTold(calls[i], page, server)
      /\ ProfileCall(calls[i]) /\ FormTells(page) /\ KeysAreOwn(server)
  BY DEF ProfileRest, ProfileTypes, ProfileCalls, ProfileTurn
<1>2. UNCHANGED page /\ calls[i].at = "sent" /\ calls[i].fn # Ai!None BY Zenon DEF Ai!Serve, Ai!ServeProfiles, Ai!ServeWork, Ai!None
<1>3. ASSUME NEW got, Ai!GoesOn(i, Ai!IsBack(calls[i], got)), KeysAreOwn(server'),
             ListIsShown(page, server') \/ (calls[i].fn \in Decisions /\ got # <<>>) \/ calls[i].fn = "profiles",
             calls[i].fn = "save" /\ got # <<>> => got[1] \in DOMAIN server'.profiles,
             calls[i].fn = "activate" /\ got # <<>> =>
               page.cache = server'.profiles /\ server'.active = calls[i].arg.of /\ EditIsListed(page, server'),
             calls[i].fn = "profiles" => /\ server'.profiles = server.profiles
                                         /\ got = <<[profiles |-> server'.profiles, active |-> server'.active]>>
      PROVE  ProfileTurn'
  <2> DEFINE c == Ai!IsBack(calls[i], got)
  <2>1. c.fn = calls[i].fn /\ c.arg = calls[i].arg /\ c.got = got /\ c.at = "back" BY ProfileRequests
  <2> HIDE DEF c
  <2>2. ProfileTold(c, page, server') BY <1>1, <1>3, <2>1
  <2>3. ProfileTold(c, page', server') /\ FormTells(page') BY <1>1, <1>2, <2>2
  <2> QED BY <1>2, <1>3, <2>1, <2>3, ProfileTurnHolds DEF c
<1>4. calls[i].fn \in Decisions \union {"models", "generate"} => ListIsShown(page, server) BY <1>1, <1>2
<1>5. ASSUME UNCHANGED server, Ai!Fails(i), calls[i].fn \in Decisions PROVE ProfileTurn'
  <2>1. Ai!GoesOn(i, Ai!IsBack(calls[i], <<>>)) BY <1>1, <1>5, ProfileSteps
  <2>2. KeysAreOwn(server') /\ ListIsShown(page, server') /\ calls[i].fn # "profiles" BY <1>1, <1>4, <1>5
  <2> QED BY <1>3, <2>1, <2>2
<1>6. CASE Ai!ServeSave(i)
  <2> DEFINE a == calls[i].arg
  <2>1. calls[i].fn = "save" BY <1>6, Zenon
  <2>2. \/ Ai!Fails(i) /\ UNCHANGED server
        \/ \E p \in AiProfiles : /\ Ai!Store(p, a) /\ Ai!Answers(i, p)
                                 /\ a.of \in AiProfiles => p = a.of
    BY <1>6
  <2>3. ASSUME NEW p \in AiProfiles, Ai!Store(p, a), Ai!Answers(i, p), a.of \in AiProfiles => p = a.of
        PROVE  ProfileTurn'
    <3>1. Ai!GoesOn(i, Ai!IsBack(calls[i], <<p>>)) BY <1>1, <2>3, ProfileAnswers
    <3>2. p \in DOMAIN server'.profiles BY <1>1, <2>3 DEF Ai!Store, Ai!With
    <3>3. a.of \in {p, Ai!New} /\ a.key \in {Ai!None, a.of} BY <1>1, <2>1, <2>3 DEF ProfileCall, Edited
    <3>4. \A q \in AiProfiles : server'.keys[q] = server.keys[q] \/ (q = p /\ server'.keys[q] = a.key /\ a.key # Ai!None)
      BY <1>1, <2>3 DEF Ai!Store
    <3>5. KeysAreOwn(server') BY <1>1, <3>3, <3>4
    <3> QED BY <1>3, <2>1, <3>1, <3>2, <3>5
  <2> QED BY <1>5, <2>1, <2>2, <2>3
<1>7. CASE Ai!ServeDelete(i)
  <2> DEFINE left == DOMAIN server.profiles \ {calls[i].arg.of}
  <2>1. calls[i].fn = "delete" BY <1>7, Zenon
  <2>2. CASE Ai!Fails(i) /\ UNCHANGED server BY <1>5, <2>1, <2>2
  <2>3. ASSUME NEW q, Ai!Answers(i, "ok"), server' = [server EXCEPT !.profiles = [s \in left |-> @[s]], !.active = q]
        PROVE ProfileTurn'
    <3>1. Ai!GoesOn(i, Ai!IsBack(calls[i], <<"ok">>)) BY <1>1, <2>3, ProfileAnswers
    <3>2. KeysAreOwn(server') BY <1>1, <2>3
    <3> QED BY <1>3, <2>1, <3>1, <3>2
  <2>4. \/ Ai!Fails(i) /\ UNCHANGED server
        \/ \E q : Ai!Answers(i, "ok") /\ server' = [server EXCEPT !.profiles = [s \in left |-> @[s]], !.active = q]
    BY <1>7, Zenon
  <2> HIDE DEF left
  <2> QED BY <2>2, <2>3, <2>4, Zenon
<1>8. CASE Ai!ServeActivate(i)
  <2>1. calls[i].fn = "activate" BY <1>8
  <2>2. ASSUME server' = [server EXCEPT !.active = calls[i].arg.of], Ai!Answers(i, "ok") PROVE ProfileTurn'
    <3>1. Ai!GoesOn(i, Ai!IsBack(calls[i], <<"ok">>)) BY <1>1, <2>2, ProfileAnswers
    <3>2. server'.profiles = server.profiles /\ server'.active = calls[i].arg.of /\ KeysAreOwn(server') BY <1>1, <2>2
    <3>3. page.cache = server'.profiles /\ EditIsListed(page, server') BY <1>4, <2>1, <3>2 DEF ListIsShown, EditIsListed
    <3> QED BY <1>3, <2>1, <3>1, <3>2, <3>3
  <2>3. \/ Ai!Fails(i) /\ UNCHANGED server
        \/ server' = [server EXCEPT !.active = calls[i].arg.of] /\ Ai!Answers(i, "ok")
    BY <1>8, Zenon
  <2> QED BY <1>5, <2>1, <2>2, <2>3
<1>9. CASE Ai!ServeProfiles(i)
  <2>1. Ai!Answers(i, [profiles |-> server.profiles, active |-> server.active]) /\ UNCHANGED server
        /\ calls[i].fn = "profiles"
    BY <1>9 DEF Ai!ServeProfiles
  <2>2. Ai!GoesOn(i, Ai!IsBack(calls[i], <<[profiles |-> server.profiles, active |-> server.active]>>))
    BY <1>1, <2>1, ProfileAnswers
  <2>3. KeysAreOwn(server') BY <1>1, <2>1
  <2> QED BY <1>3, <2>1, <2>2, <2>3
<1>10. CASE Ai!ServeWork(i)
  <2>1. Ai!Answers(i, "ok") /\ UNCHANGED server /\ calls[i].fn \in {"models", "generate"} BY <1>10 DEF Ai!ServeWork
  <2>2. Ai!GoesOn(i, Ai!IsBack(calls[i], <<"ok">>)) BY <1>1, <2>1, ProfileAnswers
  <2>3. KeysAreOwn(server') /\ ListIsShown(page, server') BY <1>1, <1>4, <2>1
  <2> QED BY <1>3, <2>1, <2>2, <2>3
<1> QED BY <1>6, <1>7, <1>8, <1>9, <1>10 DEF Ai!Serve

LEMMA ProfileTurnBegins == PagesAreRight /\ Ai!Init => ProfileTurn
<1> SUFFICES ASSUME PagesAreRight, Ai!Init PROVE ProfileTurn OBVIOUS
<1>1. \A j \in Ai!Ids : Ai!NoCalls[j] = Ai!NoCall BY DEF Ai!NoCalls
<1>2. PICK i \in Ai!Ids : calls = [Ai!NoCalls EXCEPT ![i] = Ai!Asks("profiles", <<>>)]
  <2>1. Policy!CallsAssumption BY Zenon
  <2>2. 1 \in Ai!Ids BY <2>1 DEF Policy!CallsAssumption, Ai!Ids
  <2>3. calls = Ai!Begun(Ai!NoCalls, Ai!Asks("profiles", <<>>)) BY Zenon DEF Ai!Init
  <2>4. Ai!NoCalls[1].fn = Ai!None BY <1>1, <2>2, ProfileRequests
  <2> QED BY <2>1, <2>2, <2>3, <2>4, ProfileBegun
<1>3. DOMAIN Ai!NoCalls = Ai!Ids BY DEF Ai!NoCalls
<1>4. /\ calls[i].fn = "profiles" /\ calls[i].at = "sent" /\ calls[i].arg = <<>> /\ calls[i].got = <<>>
      /\ \A j \in Ai!Ids \ {i} : calls[j] = Ai!NoCall
  BY <1>1, <1>2, <1>3, ProfileRequests
<1>5. \A j \in Ai!Ids \ {i} : calls[j].fn = Ai!None /\ calls[j].at = Ai!None BY <1>4 DEF Ai!NoCall
<1>6. \A j \in Ai!Ids : ProfileTold(calls[j], page, server) BY <1>4, <1>5 DEF ProfileTold, Ai!None, Decisions
<1>7. FormTells(page) /\ KeysAreOwn(server) BY DEF Ai!Init, FormTells, KeysAreOwn, Ai!New, Ai!Nothing
<1> QED BY <1>4, <1>5, <1>6, <1>7 DEF ProfileTurn, OneProfileCall, Ai!Quiet, Ai!None

LEMMA ProfileTurnKeeps ==
  PagesAreRight /\ ProfileRest /\ ProfileTurn /\ inTurn /\ [Ai!Next]_(Ai!vars) => ProfileTurn'
<1> SUFFICES ASSUME PagesAreRight, ProfileRest, ProfileTurn, inTurn, [Ai!Next]_(Ai!vars)
             PROVE  ProfileTurn'
  OBVIOUS
<1>1. CASE UNCHANGED Ai!vars
  <2>1. UNCHANGED <<page, calls, server>> BY <1>1 DEF Ai!vars
  <2> QED BY <2>1 DEF ProfileTurn, OneProfileCall, Ai!Quiet, ProfileTold, ListIsShown, EditIsListed, FormTells, KeysAreOwn
<1>2. ASSUME NEW i \in Ai!Ids, Ai!Lose(i) PROVE ProfileTurn' BY <1>2 DEF Ai!Lose
<1> QED BY <1>1, <1>2, ProfileClicksTurn, ProfileContinueTurns, ProfileServerTurns DEF Ai!Next

-----------------------------------------------------------------------------
(* WebSites. *)
LEMMA SitesBegun == ASSUME Policy!CallsAssumption, NEW cs, NEW c, NEW k \in Site!Ids, cs[k].fn = Site!None PROVE \E i \in Site!Ids :
           cs[i].fn = Site!None /\ Site!Begun(cs, c) = [cs EXCEPT ![i] = c]
BY FirstFree DEF Site!Begun, Site!Ids, Site!None, Policy!CallsAssumption

LEMMA SitesStarts ==
  ASSUME Policy!CallsAssumption, DOMAIN calls = Site!Ids, NEW c, Site!Starts(c)
  PROVE  \E i \in Site!Ids : calls[i].fn = Site!None /\ Site!GoesOn(i, c)
BY SitesBegun DEF Site!Starts, Site!Free, Site!GoesOn, Site!Moved

LEMMA SitesMoves ==
  ASSUME DOMAIN calls = Site!Ids, NEW i \in Site!Ids, NEW c, Site!GoesOn(i, c)
  PROVE  /\ DOMAIN calls' = Site!Ids /\ calls'[i] = c
         /\ \A j \in Site!Ids \ {i} : calls'[j] = calls[j]
BY DEF Site!GoesOn, Site!Moved

LEMMA SitesSteps ==
  ASSUME DOMAIN calls = Site!Ids, NEW i \in Site!Ids
  PROVE  /\ Site!Ends(i) => Site!GoesOn(i, Site!NoCall)
         /\ Site!Fails(i) => Site!GoesOn(i, Site!IsBack(calls[i], <<>>))
BY DEF Site!Ends, Site!Ended, Site!GoesOn, Site!Moved, Site!Fails

LEMMA SitesAnswers ==
  ASSUME DOMAIN calls = Site!Ids, NEW i \in Site!Ids, NEW d, Site!Answers(i, d)
  PROVE  Site!GoesOn(i, Site!IsBack(calls[i], <<d>>))
BY DEF Site!GoesOn, Site!Moved, Site!Answers

LEMMA SitesRequests ==
  /\ SitesCall(Site!NoCall) /\ Site!NoCall.fn = Site!None /\ Site!NoCall.at = Site!None /\ Site!NoCall.got = <<>>
  /\ \A fn, arg : Site!Asks(fn, arg) = [fn |-> fn, at |-> "sent", arg |-> arg, got |-> <<>>]
  /\ \A c, got : Site!IsBack(c, got) = [fn |-> c.fn, at |-> "back", arg |-> c.arg, got |-> got]
BY DEF SitesCall, Changes, Site!NoCall, Site!None, Site!Asks, Site!IsBack

LEMMA SitesHold ==
  ASSUME SitesRest, NEW i \in Site!Ids, NEW c, Site!GoesOn(i, c), SitesCall(c), SitesPage(page'), SitesServer(server')
  PROVE  SitesRest'
<1>1. /\ DOMAIN calls' = Site!Ids /\ calls'[i] = c
      /\ \A j \in Site!Ids \ {i} : calls'[j] = calls[j]
  BY SitesMoves DEF SitesRest
<1>2. \A j \in Site!Ids : SitesCall(calls'[j]) BY <1>1 DEF SitesRest
<1>3. \A j \in Site!Ids : SitesCall(calls[j])' BY <1>2
<1>4. SitesPage(page)' /\ SitesServer(server)' BY DEF SitesPage
<1> QED BY <1>1, <1>3, <1>4 DEF SitesRest

LEMMA SitesStay == ASSUME SitesRest, UNCHANGED calls, SitesPage(page'), SitesServer(server') PROVE SitesRest'
BY DEF SitesRest, SitesPage, SitesCall

LEMMA SitesNames == PagesAreRight => Policy!CallsAssumption /\ Site!None \notin AgentSites /\ MaxTokens \in Nat
BY Zenon

(* The newest reading of jobs of a site was made at that site.              *)
LEMMA NewestIsOfTheSite ==
  ASSUME NEW s, NEW jobs \in Seq(SiteJobs(s)) PROVE Site!Newest(jobs) \in {<<>>, <<s>>}
<1> DEFINE read(k) == Site!Reading(jobs[k])
           cs == [k \in 1..Len(jobs) |-> [fn |-> IF read(k) THEN "none" ELSE "some"]]
<1>1. CASE \E k \in DOMAIN jobs : read(k)
  <2>1. PICK k \in 1..Len(jobs) : read(k) BY <1>1
  <2>2. cs[k].fn = "none" BY <2>1
  <2> DEFINE least(m) == read(m) /\ \A n \in 1..(m - 1) : ~read(n)
  <2>3. PICK m \in 1..Len(jobs) : cs[m].fn = "none" /\ \A n \in 1..(m - 1) : cs[n].fn # "none"
    <3>1. Len(jobs) \in Nat OBVIOUS
    <3> HIDE DEF cs
    <3> QED BY <2>2, <3>1, FirstFree
  <2>4. \A n \in 1..(m - 1) : n \in 1..Len(jobs) OBVIOUS
  <2>5. m \in DOMAIN jobs /\ least(m)
    <3>1. \A n \in 1..Len(jobs) : read(n) <=> cs[n].fn = "none" OBVIOUS
    <3> HIDE DEF read, cs
    <3> QED BY <2>3, <2>4, <3>1
  <2> DEFINE k0 == CHOOSE n \in DOMAIN jobs : least(n)
  <2>6. k0 \in DOMAIN jobs /\ read(k0) BY <2>5
  <2>7. Site!Newest(jobs) = <<jobs[k0].result>> BY <1>1 DEF Site!Newest
  <2>8. jobs[k0].result = s
    <3>1. jobs[k0] \in SiteJobs(s) BY <2>6
    <3> QED BY <2>6, <3>1 DEF SiteJobs, Site!Reading
  <2> QED BY <2>7, <2>8
<1>2. CASE ~\E k \in DOMAIN jobs : read(k) BY <1>2 DEF Site!Newest
<1> QED BY <1>1, <1>2

(* The dialog opened is empty, and the call that fills it knows its site.   *)
LEMMA OpeningHolds ==
  ASSUME PagesAreRight, NEW s \in AgentSites
  PROVE  /\ SitesDialog(Site!Opened(s)) /\ Site!Opened(s).title = s /\ SitesCall(Site!Opening(s))
         /\ Site!Opening(s).fn = "agent" /\ Site!Opening(s).arg.of = s
         /\ Site!Opening(s).at = "sent" /\ Site!Opening(s).got = <<>>
<1> DEFINE d == Site!Opened(s)
<1>1. /\ DOMAIN d = {"open", "title", "of", "jobs", "inventory"}
      /\ d.title = s /\ d.of = Site!None /\ d.inventory = <<>>
  BY DEF Site!Opened, Site!Closed
<1>2. Site!Opening(s) = [fn |-> "agent", at |-> "sent", arg |-> [of |-> s, jobs |-> <<>>, sites |-> <<>>], got |-> <<>>]
  BY SitesRequests DEF Site!Opening
<1> HIDE DEF d
<1>3. SitesDialog(d) BY <1>1 DEF SitesDialog
<1> QED BY <1>1, <1>2, <1>3 DEF SitesCall, Changes, d

LEMMA SitesClicksKeep ==
  ASSUME PagesAreRight, SitesRest,
         \/ \E s \in AgentSites : \/ \E m \in Site!Modes : Site!ClickCreate(s, m)
                                  \/ Site!ClickRegenerate(s) \/ Site!ClickDelete(s) \/ Site!OpenAgent(s)
         \/ \E act \in {"inventory", "save"} : Site!Press(act)
         \/ Site!ChooseJump \/ Site!CloseAgent
  PROVE  SitesRest'
<1>1. SitesPage(page) /\ SitesServer(server) /\ DOMAIN calls = Site!Ids /\ Policy!CallsAssumption BY SitesNames DEF SitesRest
<1>2. Site!Clicked => SitesServer(server')
  <2>1. Site!Clicked => DOMAIN server' = DOMAIN server /\ server'.sites = server.sites /\ server'.tokens = server.tokens
                           /\ server'.jobs = server.jobs
    BY <1>1 DEF SitesServer, Site!Clicked
  <2> QED BY <1>1, <2>1 DEF SitesServer
<1>3. ASSUME NEW c, Site!Starts(c), SitesCall(c), SitesPage(page'), Site!Clicked PROVE SitesRest'
  BY <1>1, <1>2, <1>3, SitesStarts, SitesHold
<1>4. ASSUME NEW s \in AgentSites, NEW fn \in Changes, NEW arg, Site!Starts(Site!Asks(fn, arg)), UNCHANGED page,
             Site!Clicked, arg.of = s, fn = "create" => arg.mode \in Site!Modes
      PROVE  SitesRest'
  <2>1. SitesCall(Site!Asks(fn, arg)) BY <1>4, SitesRequests DEF SitesCall, Changes
  <2> QED BY <1>1, <1>3, <1>4, <2>1
<1>5. ASSUME NEW s \in AgentSites, NEW m \in Site!Modes, Site!ClickCreate(s, m) PROVE SitesRest'
  <2>1. Site!Starts(Site!Asks("create", [of |-> s, mode |-> m])) /\ Site!Clicked /\ UNCHANGED page
    BY <1>5, Zenon DEF Site!ClickCreate
  <2> QED BY <1>4, <2>1 DEF Changes
<1>6. ASSUME NEW s \in AgentSites, Site!ClickRegenerate(s) \/ Site!ClickDelete(s) PROVE SitesRest'
  <2>1. /\ \/ Site!Starts(Site!Asks("regenerate", [of |-> s])) \/ Site!Starts(Site!Asks("delete", [of |-> s]))
        /\ Site!Clicked /\ UNCHANGED page
    BY <1>6, Zenon DEF Site!ClickRegenerate, Site!ClickDelete
  <2> QED BY <1>4, <2>1 DEF Changes
<1>7. ASSUME NEW s \in AgentSites, Site!OpenAgent(s) PROVE SitesRest'
  <2>1. page' = [page EXCEPT !.dialog = Site!Opened(s)] /\ Site!Starts(Site!Opening(s)) /\ Site!Clicked
    BY <1>7, Zenon DEF Site!OpenAgent
  <2>2. SitesPage(page') BY <1>1, <2>1, OpeningHolds DEF SitesPage
  <2> QED BY <1>3, <2>1, <2>2, OpeningHolds
<1>8. CASE Site!CloseAgent
  <2>1. page' = [page EXCEPT !.dialog.open = FALSE] /\ Site!Clicked /\ UNCHANGED calls BY <1>8, Zenon DEF Site!CloseAgent
  <2>2. SitesDialog(page'.dialog) BY <1>1, <2>1 DEF SitesPage, SitesDialog
  <2>3. SitesPage(page') BY <1>1, <2>1, <2>2 DEF SitesPage
  <2> QED BY <1>2, <2>1, <2>3, SitesStay
<1>9. ASSUME NEW act \in {"inventory", "save"}, Site!Press(act) PROVE SitesRest'
  <2> DEFINE arg == [of |-> page.dialog.of, act |-> act, text |-> page.dialog.inventory]
  <2>1. /\ Site!Starts(Site!Asks("act", arg)) /\ Site!Clicked /\ UNCHANGED page
        /\ page.dialog.of # Site!None /\ (act = "save" => page.dialog.inventory # <<>>)
    BY <1>9, Zenon DEF Site!Press
  <2>2. SitesCall(Site!Asks("act", arg)) BY <1>1, <2>1, SitesRequests DEF SitesCall, Changes, SitesPage, SitesDialog
  <2> QED BY <1>1, <1>3, <2>1, <2>2
<1>10. CASE Site!ChooseJump
  <2>1. \/ Site!Starts(Site!Asks("identities", <<>>)) /\ UNCHANGED page
        \/ page' = [page EXCEPT !.choices = page.identities] /\ UNCHANGED calls
    BY <1>10, Zenon DEF Site!ChooseJump
  <2>2. Site!Clicked BY <1>10, Zenon DEF Site!ChooseJump
  <2>3. SitesPage(page') BY <1>1, <2>1 DEF SitesPage
  <2>4. SitesCall(Site!Asks("identities", <<>>)) BY SitesRequests DEF SitesCall, Changes
  <2> QED BY <1>2, <1>3, <2>1, <2>2, <2>3, <2>4, SitesStay
<1> QED BY <1>5, <1>6, <1>7, <1>8, <1>9, <1>10

LEMMA SitesContinueKeeps == ASSUME PagesAreRight, SitesRest, NEW i \in Site!Ids, Site!Continue(i) PROVE SitesRest'
<1> USE DEF Site!Changed, Site!GotIdentities, Site!Pressed, Site!Back, SitesCall, SitesPage
<1>1. /\ SitesPage(page) /\ SitesServer(server) /\ DOMAIN calls = Site!Ids /\ SitesCall(calls[i])
      /\ UNCHANGED server
  BY DEF SitesRest, Site!Continue, Site!Loaded, Site!AgentDrawn
<1>2. SitesServer(server') BY <1>1
<1>3. ASSUME NEW c, Site!GoesOn(i, c), SitesCall(c), SitesPage(page') PROVE SitesRest' BY <1>2, <1>3, SitesHold
<1>4. ASSUME Site!Ends(i), SitesPage(page') PROVE SitesRest' BY <1>1, <1>3, <1>4, SitesSteps, SitesRequests
<1>5. CASE Site!Changed(i)
  <2>1. calls[i].fn \in Changes BY <1>5 DEF Changes
  <2>2. CASE Site!Ends(i) /\ UNCHANGED page BY <1>1, <1>4, <2>2
  <2>3. CASE /\ Site!Answered(i) /\ Site!GoesOn(i, Site!Asks("sites", <<>>))
             /\ page' = page \/ page' = [page EXCEPT !.shown[calls[i].arg.of] = Site!Answer(i)]
    <3>1. calls[i].arg.of \in AgentSites /\ Site!Answer(i) \in 0..MaxTokens BY <1>1, <2>1, <2>3 DEF Site!Answered, Site!Answer
    <3>2. SitesPage(page') BY <1>1, <2>3, <3>1
    <3>3. SitesCall(Site!Asks("sites", <<>>)) BY SitesRequests DEF Changes
    <3> QED BY <1>3, <2>3, <3>2, <3>3
  <2> QED BY <1>5, <2>2, <2>3, Zenon
<1>6. CASE Site!Loaded(i)
  <2>1. calls[i].fn = "sites" /\ Site!Ends(i)
        /\ \/ page' = page
           \/ Site!Answered(i) /\ page' = [page EXCEPT !.mode = [s \in AgentSites |-> Site!Answer(i)[s].mode]]
    BY <1>6, Zenon DEF Site!Loaded
  <2>2. Site!Answered(i) => [s \in AgentSites |-> Site!Answer(i)[s].mode] \in [AgentSites -> ModesOrNone]
    BY <1>1, <2>1 DEF Site!Answered, Site!Answer
  <2> DEFINE f == [s \in AgentSites |-> Site!Answer(i)[s].mode]
  <2> HIDE DEF f
  <2>3. page' = page \/ (page' = [page EXCEPT !.mode = f] /\ f \in [AgentSites -> ModesOrNone]) BY <2>1, <2>2, Zenon DEF f
  <2>4. SitesPage(page') BY <1>1, <2>3
  <2> QED BY <1>4, <2>1, <2>4
<1>7. CASE Site!GotIdentities(i)
  <2>1. PICK ids : page' = [page EXCEPT !.identities = ids, !.choices = ids] BY <1>7, Zenon
  <2>2. SitesPage(page') /\ Site!Ends(i) BY <1>1, <1>7, <2>1
  <2> QED BY <1>4, <2>2
<1>8. CASE Site!AgentDrawn(i)
  <2> DEFINE a == calls[i].arg
             inv == Site!Newest(a.jobs[1])
  <2>1. calls[i].fn = "agent" /\ calls[i].at = "back" /\ Site!Ends(i)
        /\ page' = [page EXCEPT !.dialog.of = a.of, !.dialog.jobs = a.jobs[1], !.dialog.inventory = inv]
    BY <1>8, Zenon DEF Site!AgentDrawn
  <2>2. a.of \in AgentSites /\ inv \in {<<>>, <<a.of>>}
    <3>1. a.of \in AgentSites /\ a.jobs[1] \in Seq(SiteJobs(a.of)) BY <1>1, <2>1
    <3> HIDE DEF a
    <3> QED BY <3>1, NewestIsOfTheSite
  <2> HIDE DEF a, inv
  <2>3. SitesDialog(page'.dialog) BY <1>1, <2>1, <2>2 DEF SitesDialog
  <2>4. SitesPage(page') BY <1>1, <2>1, <2>3
  <2> QED BY <1>4, <2>1, <2>4
<1>9. CASE Site!Pressed(i)
  <2> DEFINE s == calls[i].arg.of
  <2>1. s \in AgentSites BY <1>1, <1>9
  <2>2. CASE Site!Ends(i) /\ UNCHANGED page BY <1>1, <1>4, <2>2
  <2>3. CASE page' = [page EXCEPT !.dialog = Site!Opened(s)] /\ Site!GoesOn(i, Site!Opening(s))
    <3> HIDE DEF s
    <3>1. SitesPage(page') BY <1>1, <2>1, <2>3, OpeningHolds
    <3> QED BY <1>3, <2>1, <2>3, <3>1, OpeningHolds
  <2> QED BY <1>9, <2>2, <2>3, Zenon
<1> QED BY <1>5, <1>6, <1>7, <1>8, <1>9 DEF Site!Continue

LEMMA SitesServerKeeps ==
  ASSUME PagesAreRight, SitesRest, NEW i \in Site!Ids, Site!Serve(i) \/ Site!Lose(i)
  PROVE  SitesRest'
<1> USE DEF Site!ServeCreate, Site!ServeRegenerate, Site!ServeDelete, Site!ServeAct, Site!ServeAgent, SitesCall, SitesServer,
    Changes, Site!Sent
<1>1. /\ SitesPage(page) /\ SitesServer(server) /\ DOMAIN calls = Site!Ids /\ SitesCall(calls[i])
      /\ MaxTokens \in Nat
  BY SitesNames DEF SitesRest
<1>2. SitesPage(page')
  <2>1. UNCHANGED page BY Zenon DEF Site!Serve, Site!Lose, Site!ServeSites, Site!ServeIdentities
  <2> QED BY <1>1, <2>1
<1>3. ASSUME NEW got, Site!GoesOn(i, Site!IsBack(calls[i], got)), SitesServer(server'), calls[i].fn # "agent",
             calls[i].fn \in Changes => got = <<>> \/ got[1] \in 0..MaxTokens,
             calls[i].fn = "sites" => got = <<>> \/ \A s \in AgentSites : got[1][s].mode \in ModesOrNone
      PROVE  SitesRest'
  <2> DEFINE c == Site!IsBack(calls[i], got)
  <2>1. c = [fn |-> calls[i].fn, at |-> "back", arg |-> calls[i].arg, got |-> got] BY SitesRequests
  <2> HIDE DEF c
  <2>2. SitesCall(c) BY <1>1, <1>3, <2>1
  <2> QED BY <1>2, <1>3, <2>2, SitesHold DEF c
<1>4. ASSUME UNCHANGED server, Site!Fails(i), calls[i].fn # "agent" PROVE SitesRest' BY <1>1, <1>3, <1>4, SitesSteps
<1>5. ASSUME NEW s \in AgentSites, NEW site \in [mode : ModesOrNone, token : 0..MaxTokens], NEW n \in 0..MaxTokens,
             Site!Store(s, site, n)
      PROVE  SitesServer(server')
  <2>1. server' = [server EXCEPT !.sites[s] = site, !.tokens = n] BY <1>5, Zenon DEF Site!Store
  <2> QED BY <1>1, <2>1
<1>6. ASSUME NEW s \in AgentSites, NEW site \in [mode : ModesOrNone, token : 0..MaxTokens], NEW n \in 0..MaxTokens,
             NEW d \in 0..MaxTokens, Site!Store(s, site, n), Site!Answers(i, d), calls[i].fn \in Changes
      PROVE  SitesRest'
  <2>1. Site!GoesOn(i, Site!IsBack(calls[i], <<d>>)) BY <1>1, <1>6, SitesAnswers
  <2> QED BY <1>3, <1>5, <1>6, <2>1
<1>7. CASE Site!ServeCreate(i)
  <2>1. calls[i].fn = "create" /\ calls[i].arg.of \in AgentSites /\ calls[i].arg.mode \in ModesOrNone BY <1>1, <1>7 DEF ModesOrNone
  <2>2. \/ Site!Fails(i) /\ UNCHANGED server
        \/ \E n \in {0, Site!NextToken} :
             /\ n <= MaxTokens /\ Site!Answers(i, n)
             /\ Site!Store(calls[i].arg.of, [mode |-> calls[i].arg.mode, token |-> n], IF n = 0 THEN server.tokens ELSE n)
    BY <1>7
  <2>3. ASSUME NEW n \in {0, Site!NextToken}, n <= MaxTokens, Site!Answers(i, n),
               Site!Store(calls[i].arg.of, [mode |-> calls[i].arg.mode, token |-> n], IF n = 0 THEN server.tokens ELSE n)
        PROVE  SitesRest'
    <3>1. n \in 0..MaxTokens /\ server.tokens \in 0..MaxTokens BY <1>1, <2>3 DEF Site!NextToken
    <3>2. PICK t \in 0..MaxTokens : Site!Store(calls[i].arg.of, [mode |-> calls[i].arg.mode, token |-> n], t) BY <2>3, <3>1
    <3> QED BY <1>6, <2>1, <2>3, <3>1, <3>2
  <2> QED BY <1>4, <2>1, <2>2, <2>3
<1>8. CASE Site!ServeRegenerate(i)
  <2> DEFINE s == calls[i].arg.of
  <2>1. calls[i].fn = "regenerate" /\ s \in AgentSites BY <1>1, <1>8
  <2>2. \/ Site!Fails(i) /\ UNCHANGED server
        \/ /\ Site!NextToken <= MaxTokens /\ Site!Answers(i, Site!NextToken)
           /\ Site!Store(s, [server.sites[s] EXCEPT !.token = Site!NextToken], Site!NextToken)
    BY <1>8, Zenon
  <2>3. Site!NextToken <= MaxTokens => Site!NextToken \in 0..MaxTokens BY <1>1 DEF Site!NextToken
  <2>4. Site!NextToken <= MaxTokens =>
          [server.sites[s] EXCEPT !.token = Site!NextToken] \in [mode : ModesOrNone, token : 0..MaxTokens]
    BY <1>1, <2>1, <2>3
  <2> HIDE DEF s
  <2> QED BY <1>4, <1>6, <2>1, <2>2, <2>3, <2>4
<1>9. CASE Site!ServeDelete(i)
  <2> DEFINE s == calls[i].arg.of
  <2>1. calls[i].fn = "delete" /\ s \in AgentSites BY <1>1, <1>9
  <2>2. \/ Site!Fails(i) /\ UNCHANGED server
        \/ Site!Store(s, Site!NoSite, server.tokens) /\ Site!Answers(i, 0)
    BY <1>9, Zenon
  <2>3. Site!NoSite \in [mode : ModesOrNone, token : 0..MaxTokens] /\ server.tokens \in 0..MaxTokens /\ 0 \in 0..MaxTokens
    BY <1>1 DEF Site!NoSite, ModesOrNone
  <2> HIDE DEF s
  <2> QED BY <1>4, <1>6, <2>1, <2>2, <2>3
<1>10. CASE Site!ServeSites(i)
  <2>1. Site!Answers(i, server.sites) /\ UNCHANGED server /\ calls[i].fn = "sites" BY <1>10, Zenon DEF Site!ServeSites
  <2>2. Site!GoesOn(i, Site!IsBack(calls[i], <<server.sites>>)) BY <1>1, <2>1, SitesAnswers
  <2>3. SitesServer(server') /\ \A s \in AgentSites : server.sites[s].mode \in ModesOrNone BY <1>1, <2>1
  <2> QED BY <1>3, <2>1, <2>2, <2>3
<1>11. CASE Site!ServeIdentities(i)
  <2>1. Site!Answers(i, SiteIdentities) /\ UNCHANGED server /\ calls[i].fn = "identities" BY <1>11, Zenon DEF Site!ServeIdentities
  <2>2. Site!GoesOn(i, Site!IsBack(calls[i], <<SiteIdentities>>)) BY <1>1, <2>1, SitesAnswers
  <2> QED BY <1>1, <1>3, <2>1, <2>2
<1>12. CASE Site!ServeAct(i)
  <2> DEFINE s == calls[i].arg.of
             j == [command |-> calls[i].arg.act, status |-> "queued", result |-> Site!None]
  <2>1. calls[i].fn = "act" /\ s \in AgentSites /\ calls[i].arg.act \in {"inventory", "save"} BY <1>1, <1>12
  <2>2. server' = [server EXCEPT !.jobs[s] = <<j>> \o @] /\ Site!Answers(i, "ok") BY <1>12, Zenon
  <2>3. j \in SiteJobs(s) BY <2>1 DEF SiteJobs
  <2> HIDE DEF s, j
  <2>4. SitesServer(server')
    <3>1. <<j>> \o server.jobs[s] \in Seq(SiteJobs(s)) BY <1>1, <2>1, <2>3
    <3>2. /\ DOMAIN server' = DOMAIN server /\ server'.sites = server.sites /\ server'.tokens = server.tokens
          /\ server'.jobs = [server.jobs EXCEPT ![s] = <<j>> \o server.jobs[s]]
      BY <1>1, <2>2
    <3> QED BY <1>1, <2>1, <3>1, <3>2
  <2>5. Site!GoesOn(i, Site!IsBack(calls[i], <<"ok">>)) BY <1>1, <2>2, SitesAnswers
  <2> QED BY <1>3, <2>1, <2>4, <2>5
<1>13. ASSUME NEW lost \in BOOLEAN, Site!ServeAgent(i, lost) PROVE SitesRest'
  <2>1. calls[i].fn = "agent" /\ SitesServer(server') BY <1>1, <1>13
  <2>2. PICK field, v : /\ Site!Part(i, field, v)
                        /\ (field = "jobs" /\ v \in Seq(SiteJobs(calls[i].arg.of))) \/ field = "sites"
    <3>1. server.jobs[calls[i].arg.of] \in Seq(SiteJobs(calls[i].arg.of)) BY <1>1, <2>1
    <3> DEFINE js == IF lost THEN <<>> ELSE server.jobs[calls[i].arg.of]
               site == IF lost THEN Site!NoSite ELSE server.sites[calls[i].arg.of]
    <3>2. Site!Part(i, "jobs", js) \/ Site!Part(i, "sites", site) BY <1>13, Zenon
    <3>3. js \in Seq(SiteJobs(calls[i].arg.of))
      <4>1. \A S : <<>> \in Seq(S) OBVIOUS
      <4> QED BY <3>1, <4>1, Zenon
    <3> HIDE DEF js, site
    <3> QED BY <3>2, <3>3
  <2> DEFINE a == [calls[i].arg EXCEPT ![field] = <<v>>]
             c == [calls[i] EXCEPT !.arg = a, !.at = IF a.jobs # <<>> /\ a.sites # <<>> THEN "back" ELSE "sent"]
  <2>3. DOMAIN a = {"of", "jobs", "sites"} /\ a.of = calls[i].arg.of
        /\ (a.jobs # <<>> => a.jobs[1] \in Seq(SiteJobs(a.of)))
    BY <1>1, <2>1, <2>2
  <2>4. Site!GoesOn(i, c)
    <3>1. calls' = [calls EXCEPT ![i].arg = a, ![i].at = IF a.jobs # <<>> /\ a.sites # <<>> THEN "back" ELSE "sent"]
      BY <2>2, Zenon DEF Site!Part
    <3> HIDE DEF a
    <3> QED BY <1>1, <3>1 DEF Site!GoesOn, Site!Moved
  <2> HIDE DEF a
  <2>5. SitesCall(c) BY <1>1, <2>1, <2>3
  <2> HIDE DEF c
  <2> QED BY <1>2, <2>1, <2>4, <2>5, SitesHold
<1>14. CASE Site!Lose(i) BY <1>4, <1>14 DEF Site!Lose
<1> QED BY <1>7, <1>8, <1>9, <1>10, <1>11, <1>12, <1>13, <1>14 DEF Site!Serve

LEMMA AgentWorksKeeps == ASSUME SitesRest, NEW s \in AgentSites, Site!AgentWorks(s) PROVE SitesRest'
<1>1. SitesPage(page) /\ SitesServer(server) /\ UNCHANGED <<page, calls>> BY DEF SitesRest, Site!AgentWorks
<1>2. PICK k \in DOMAIN server.jobs[s] : server' = [server EXCEPT !.jobs[s][k].status = "done", !.jobs[s][k].result = s]
  BY Zenon DEF Site!AgentWorks
<1> DEFINE js == server.jobs[s]
           j == [js[k] EXCEPT !.status = "done", !.result = s]
<1>3. js \in Seq(SiteJobs(s)) /\ k \in 1..Len(js) BY <1>1, <1>2 DEF SitesServer
<1>4. j \in SiteJobs(s)
  <2>1. js[k] \in SiteJobs(s) BY <1>3
  <2> QED BY <2>1 DEF SiteJobs
<1>5. /\ DOMAIN server' = DOMAIN server /\ server'.sites = server.sites /\ server'.tokens = server.tokens
      /\ server'.jobs = [server.jobs EXCEPT ![s] = [js EXCEPT ![k] = j]]
  BY <1>1, <1>2 DEF SitesServer
<1> HIDE DEF j
<1>6. [js EXCEPT ![k] = j] \in Seq(SiteJobs(s))
  <2> HIDE DEF js
  <2> QED BY <1>3, <1>4
<1>7. SitesServer(server') BY <1>1, <1>5, <1>6 DEF SitesServer
<1> QED BY <1>1, <1>7, SitesStay

LEMMA SitesBegin == PagesAreRight /\ Site!Init => SitesRest
<1> SUFFICES ASSUME PagesAreRight, Site!Init PROVE SitesRest OBVIOUS
<1>1. MaxTokens \in Nat BY SitesNames
<1>2. SitesPage(page) BY <1>1 DEF Site!Init, SitesPage, SitesDialog, Site!Closed, ModesOrNone
<1>3. SitesServer(server) BY <1>1 DEF Site!Init, SitesServer, Site!NoSite, ModesOrNone
<1>4. DOMAIN calls = Site!Ids /\ \A i \in Site!Ids : SitesCall(calls[i]) BY SitesRequests DEF Site!Init, Site!NoCalls
<1> QED BY <1>2, <1>3, <1>4 DEF SitesRest

LEMMA SitesKeep == PagesAreRight /\ SitesRest /\ [Site!Next]_(Site!vars) => SitesRest'
<1> SUFFICES ASSUME PagesAreRight, SitesRest, [Site!Next]_(Site!vars) PROVE SitesRest' OBVIOUS
<1>1. CASE UNCHANGED Site!vars
  <2>1. UNCHANGED <<page, calls, server>> BY <1>1 DEF Site!vars
  <2>2. SitesPage(page') /\ SitesServer(server') BY <2>1 DEF SitesRest
  <2> QED BY <2>1, <2>2, SitesStay
<1> QED BY <1>1, SitesClicksKeep, SitesContinueKeeps, SitesServerKeeps, AgentWorksKeeps DEF Site!Next

-----------------------------------------------------------------------------
(* A user who waits. *)
LEMMA SitesToldNothing ==
  ASSUME NEW c, c.fn = Site!None, c.at = "sent" => c.got = <<>>, NEW p, NEW s PROVE SitesTold(c, p, s)
BY DEF SitesTold, Changes, Site!None

LEMMA SitesToldAlike ==
  ASSUME SitesPage(page), SitesServer(server), NEW c, SitesTold(c, page, server), SitesPage(page'), SitesServer(server'),
         page'.mode = page.mode, page'.shown = page.shown, server'.sites = server.sites,
         c.fn = "agent" => page'.dialog.title = page.dialog.title,
         c.fn # "agent" => page'.dialog = page.dialog
  PROVE  SitesTold(c, page', server')
BY DEF SitesTold, ModesShown, TokensShown, TokenShown, TokenComes

LEMMA SitesTurnHolds ==
  ASSUME SitesRest, SitesTurn, NEW i \in Site!Ids, NEW c, Site!GoesOn(i, c),
         Site!Quiet \/ calls[i].fn # Site!None, SitesTold(c, page', server'),
         c.fn = Site!None => SitesShown(page', server'), ChoicesTell(page')
  PROVE  SitesTurn'
<1>1. /\ DOMAIN calls' = Site!Ids /\ calls'[i] = c
      /\ \A j \in Site!Ids \ {i} : calls'[j] = calls[j]
  BY SitesMoves DEF SitesRest
<1>2. \A j \in Site!Ids \ {i} : calls[j].fn = Site!None BY DEF SitesTurn, OneSitesCall, Site!Quiet
<1>3. ASSUME NEW j \in Site!Ids PROVE SitesTold(calls'[j], page', server')
  <2>1. CASE j = i BY <1>1, <2>1
  <2>2. CASE j # i
    <3>1. calls'[j].fn = Site!None /\ (calls'[j].at = "sent" => calls'[j].got = <<>>) BY <1>1, <1>2, <2>2 DEF SitesTurn, SitesTold
    <3> QED BY <3>1, SitesToldNothing
  <2> QED BY <2>1, <2>2
<1>4. OneSitesCall' BY <1>1, <1>2 DEF OneSitesCall
<1>5. Site!Quiet' => SitesShown(page', server') BY <1>1 DEF Site!Quiet
<1>6. \A j \in Site!Ids : SitesTold(calls[j], page, server)' BY <1>3 DEF SitesTold, ModesShown, TokenShown, TokenComes, DialogTells
<1> QED BY <1>4, <1>5, <1>6 DEF SitesTurn, SitesShown, ModesShown, TokensShown, TokenShown, DialogTells

LEMMA SitesTurnStays ==
  ASSUME SitesRest, SitesTurn, UNCHANGED calls, \A j \in Site!Ids : SitesTold(calls[j], page', server'),
         Site!Quiet => SitesShown(page', server'), ChoicesTell(page')
  PROVE  SitesTurn'
<1>1. OneSitesCall' BY DEF SitesTurn, OneSitesCall
<1>2. \A j \in Site!Ids : SitesTold(calls[j], page, server)' BY DEF SitesTold, ModesShown, TokenShown, TokenComes, DialogTells
<1>3. Site!Quiet' => SitesShown(page', server') BY DEF Site!Quiet
<1> QED BY <1>1, <1>2, <1>3 DEF SitesTurn, SitesShown, ModesShown, TokensShown, TokenShown, DialogTells

LEMMA SitesClicksTurn ==
  ASSUME PagesAreRight, SitesRest, SitesTurn, inTurn,
         \/ \E s \in AgentSites : \/ \E m \in Site!Modes : Site!ClickCreate(s, m)
                                  \/ Site!ClickRegenerate(s) \/ Site!ClickDelete(s) \/ Site!OpenAgent(s)
         \/ \E act \in {"inventory", "save"} : Site!Press(act)
         \/ Site!ChooseJump \/ Site!CloseAgent
  PROVE  SitesTurn'
<1>1. /\ SitesPage(page) /\ SitesServer(server) /\ DOMAIN calls = Site!Ids /\ Policy!CallsAssumption
      /\ ChoicesTell(page) /\ \A j \in Site!Ids : calls[j].at = "sent" => calls[j].got = <<>>
  BY SitesNames DEF SitesRest, SitesTurn, SitesTold
<1>2. Site!Quiet /\ SitesShown(page, server) /\ Site!Clicked
  <2>1. Site!MayClick /\ Site!Clicked
    BY Zenon DEF Site!ClickCreate, Site!ClickRegenerate, Site!ClickDelete, Site!OpenAgent, Site!Press, Site!ChooseJump,
       Site!CloseAgent
  <2> QED BY <2>1 DEF Site!MayClick, SitesTurn
<1>3. server'.sites = server.sites BY <1>1, <1>2 DEF SitesServer, Site!Clicked
<1>4. ASSUME UNCHANGED page PROVE SitesShown(page', server') /\ ChoicesTell(page')
  BY <1>1, <1>2, <1>3, <1>4 DEF SitesShown, ModesShown, TokensShown, TokenShown
<1>5. ASSUME NEW fn \in Changes \union {"identities", "act"}, NEW arg, Site!Starts(Site!Asks(fn, arg)), UNCHANGED page
      PROVE  SitesTurn'
  <2>1. PICK i \in Site!Ids : calls[i].fn = Site!None /\ Site!GoesOn(i, Site!Asks(fn, arg)) BY <1>1, <1>5, SitesStarts
  <2>2. SitesTold(Site!Asks(fn, arg), page', server') /\ Site!Asks(fn, arg).fn # Site!None
    BY <1>4, <1>5, SitesRequests DEF SitesTold, SitesShown, Changes, Site!None
  <2> QED BY <1>2, <1>4, <1>5, <2>1, <2>2, SitesTurnHolds
<1>6. ASSUME NEW s \in AgentSites, NEW m \in Site!Modes, Site!ClickCreate(s, m) PROVE SitesTurn'
  <2>1. Site!Starts(Site!Asks("create", [of |-> s, mode |-> m])) /\ UNCHANGED page BY <1>6, Zenon DEF Site!ClickCreate
  <2> QED BY <1>5, <2>1 DEF Changes
<1>7. ASSUME NEW s \in AgentSites, Site!ClickRegenerate(s) \/ Site!ClickDelete(s) PROVE SitesTurn'
  <2>1. /\ \/ Site!Starts(Site!Asks("regenerate", [of |-> s])) \/ Site!Starts(Site!Asks("delete", [of |-> s]))
        /\ UNCHANGED page
    BY <1>7, Zenon DEF Site!ClickRegenerate, Site!ClickDelete
  <2> QED BY <1>5, <2>1 DEF Changes
<1>8. ASSUME NEW s \in AgentSites, Site!OpenAgent(s) PROVE SitesTurn'
  <2>1. page' = [page EXCEPT !.dialog = Site!Opened(s)] /\ Site!Starts(Site!Opening(s)) BY <1>8, Zenon DEF Site!OpenAgent
  <2>2. PICK i \in Site!Ids : calls[i].fn = Site!None /\ Site!GoesOn(i, Site!Opening(s)) BY <1>1, <2>1, SitesStarts
  <2>3. page'.mode = page.mode /\ page'.shown = page.shown /\ page'.dialog.title = s /\ ChoicesTell(page')
    BY <1>1, <2>1, OpeningHolds DEF SitesPage, ChoicesTell
  <2>4. ModesShown(page', server') /\ TokensShown(page', server')
    BY <1>2, <1>3, <2>3 DEF SitesShown, ModesShown, TokensShown, TokenShown
  <2>5. SitesTold(Site!Opening(s), page', server') /\ Site!Opening(s).fn # Site!None
    BY <2>3, <2>4, OpeningHolds DEF SitesTold, Changes, Site!None
  <2> QED BY <1>2, <2>2, <2>3, <2>5, SitesTurnHolds
<1>9. ASSUME UNCHANGED calls, page'.mode = page.mode, page'.shown = page.shown, DialogTells(page'.dialog), ChoicesTell(page')
      PROVE  SitesTurn'
  <2>1. SitesShown(page', server') BY <1>2, <1>3, <1>9 DEF SitesShown, ModesShown, TokensShown, TokenShown
  <2>2. \A j \in Site!Ids : SitesTold(calls[j], page', server') BY <1>1, <1>2, SitesToldNothing DEF Site!Quiet
  <2> QED BY <1>9, <2>1, <2>2, SitesTurnStays
<1>10. CASE Site!CloseAgent
  <2>1. page' = [page EXCEPT !.dialog.open = FALSE] /\ UNCHANGED calls BY <1>10, Zenon DEF Site!CloseAgent
  <2>2. page'.mode = page.mode /\ page'.shown = page.shown /\ DialogTells(page'.dialog) /\ ChoicesTell(page')
    BY <1>1, <2>1 DEF SitesPage, SitesDialog, DialogTells, ChoicesTell
  <2> QED BY <1>9, <2>1, <2>2
<1>11. ASSUME NEW act \in {"inventory", "save"}, Site!Press(act) PROVE SitesTurn'
  <2>1. Site!Starts(Site!Asks("act", [of |-> page.dialog.of, act |-> act, text |-> page.dialog.inventory]))
        /\ UNCHANGED page
    BY <1>11, Zenon DEF Site!Press
  <2> QED BY <1>5, <2>1
<1>12. CASE Site!ChooseJump
  <2>1. \/ Site!Starts(Site!Asks("identities", <<>>)) /\ UNCHANGED page
        \/ page' = [page EXCEPT !.choices = page.identities] /\ UNCHANGED calls
    BY <1>12, Zenon DEF Site!ChooseJump
  <2>2. ASSUME page' = [page EXCEPT !.choices = page.identities]
        PROVE  page'.mode = page.mode /\ page'.shown = page.shown /\ DialogTells(page'.dialog) /\ ChoicesTell(page')
    BY <1>1, <1>2, <2>2 DEF SitesPage, SitesShown, ChoicesTell
  <2> QED BY <1>5, <1>9, <2>1, <2>2
<1> QED BY <1>6, <1>7, <1>8, <1>10, <1>11, <1>12

LEMMA SitesContinueTurns == ASSUME PagesAreRight, SitesRest, SitesTurn, NEW i \in Site!Ids, Site!Continue(i) PROVE SitesTurn'
<1> USE DEF Site!Continue, Site!Changed, Site!Loaded, Site!GotIdentities, Site!AgentDrawn, Site!Pressed, Site!Back, Site!None,
    Changes, SitesTold, Site!Answered, SitesShown, Site!Answer, SitesPage, ChoicesTell, TokensShown, TokenShown, ModesShown
<1>1. /\ SitesPage(page) /\ SitesServer(server) /\ DOMAIN calls = Site!Ids /\ SitesCall(calls[i])
      /\ SitesTold(calls[i], page, server) /\ UNCHANGED server /\ ChoicesTell(page)
  BY DEF SitesRest, SitesTurn
<1>2. calls[i].fn # Site!None OBVIOUS
<1>3. ASSUME Site!Ends(i), SitesShown(page', server), ChoicesTell(page') PROVE SitesTurn'
  <2>1. SitesTold(Site!NoCall, page', server') /\ Site!GoesOn(i, Site!NoCall)
    BY <1>1, <1>3, SitesRequests, SitesToldNothing, SitesSteps
  <2> QED BY <1>1, <1>2, <1>3, <2>1, SitesTurnHolds
<1>4. CASE Site!Changed(i)
  <2> DEFINE s == calls[i].arg.of
             n == Site!Answer(i)
  <2>1. calls[i].fn \in Changes /\ s \in AgentSites /\ DialogTells(page.dialog) BY <1>1, <1>4 DEF SitesCall
  <2>2. CASE calls[i].got = <<>>
    <3>1. Site!Ends(i) /\ UNCHANGED page BY <1>4, <2>2
    <3>2. SitesShown(page', server) BY <1>1, <2>1, <2>2, <3>1
    <3> QED BY <1>1, <1>3, <3>1, <3>2
  <2>3. CASE calls[i].got # <<>>
    <3>1. /\ Site!GoesOn(i, Site!Asks("sites", <<>>))
          /\ page' = IF n = 0 THEN page ELSE [page EXCEPT !.shown[s] = n]
      BY <1>4, <2>3
    <3>2. TokenComes(calls[i], page, server) /\ n = calls[i].got[1] BY <1>1, <2>1, <2>3
    <3>3. /\ page'.dialog = page.dialog /\ ChoicesTell(page')
          /\ \A t \in AgentSites : page'.shown[t] = IF t = s /\ n # 0 THEN n ELSE page.shown[t]
      <4> HIDE DEF n, s
      <4> QED BY <1>1, <2>1, <3>1
    <3>4. TokensShown(page', server')
      <4> HIDE DEF n
      <4> QED BY <1>1, <2>1, <3>2, <3>3 DEF TokenComes
    <3>5. SitesTold(Site!Asks("sites", <<>>), page', server') /\ Site!Asks("sites", <<>>).fn # Site!None
      BY <2>1, <3>3, <3>4, SitesRequests
    <3> QED BY <1>2, <3>1, <3>3, <3>5, SitesTurnHolds
  <2> QED BY <2>2, <2>3
<1>5. CASE Site!Loaded(i)
  <2>1. calls[i].fn = "sites" /\ calls[i].at = "back" /\ Site!Ends(i) BY <1>5, Zenon
  <2>2. calls[i].got = <<server.sites>> /\ TokensShown(page, server) /\ DialogTells(page.dialog) BY <1>1, <2>1
  <2>3. page' = [page EXCEPT !.mode = [t \in AgentSites |-> server.sites[t].mode]]
    <3>1. Site!Answered(i) /\ Site!Answer(i) = server.sites BY <2>2
    <3> QED BY <1>5, <3>1
  <2> DEFINE f == [t \in AgentSites |-> server.sites[t].mode]
  <2>4. \A t \in AgentSites : f[t] = server.sites[t].mode OBVIOUS
  <2> HIDE DEF f
  <2>5. page' = [page EXCEPT !.mode = f] BY <2>3 DEF f
  <2>6. page'.mode = f /\ page'.shown = page.shown /\ page'.dialog = page.dialog /\ ChoicesTell(page') BY <1>1, <2>5
  <2>7. SitesShown(page', server) BY <2>2, <2>4, <2>6
  <2> QED BY <1>3, <2>1, <2>6, <2>7
<1>6. CASE Site!GotIdentities(i)
  <2>1. calls[i].fn = "identities" /\ calls[i].at = "back" /\ Site!Ends(i) BY <1>6, Zenon
  <2>2. calls[i].got = <<SiteIdentities>> /\ SitesShown(page, server) BY <1>1, <2>1
  <2>3. page' = [page EXCEPT !.identities = <<SiteIdentities>>, !.choices = <<SiteIdentities>>]
    <3>1. Site!Answered(i) /\ Site!Answer(i) = SiteIdentities BY <2>2
    <3> QED BY <1>6, <3>1
  <2>4. page'.mode = page.mode /\ page'.shown = page.shown /\ page'.dialog = page.dialog /\ ChoicesTell(page') BY <1>1, <2>3
  <2>5. SitesShown(page', server) BY <2>2, <2>4
  <2> QED BY <1>3, <2>1, <2>4, <2>5
<1>7. CASE Site!AgentDrawn(i)
  <2> DEFINE a == calls[i].arg
             inv == Site!Newest(a.jobs[1])
  <2>1. calls[i].fn = "agent" /\ Site!Ends(i)
        /\ page' = [page EXCEPT !.dialog.of = a.of, !.dialog.jobs = a.jobs[1], !.dialog.inventory = inv]
    BY <1>7, Zenon
  <2>2. ModesShown(page, server) /\ TokensShown(page, server) /\ page.dialog.title = a.of BY <1>1, <2>1
  <2> HIDE DEF a, inv
  <2>3. page'.mode = page.mode /\ page'.shown = page.shown /\ DialogTells(page'.dialog) /\ ChoicesTell(page')
    BY <1>1, <2>1, <2>2 DEF SitesDialog, DialogTells
  <2>4. SitesShown(page', server) BY <2>2, <2>3
  <2> QED BY <1>3, <2>1, <2>3, <2>4
<1>8. CASE Site!Pressed(i)
  <2> DEFINE s == calls[i].arg.of
  <2>1. calls[i].fn = "act" /\ s \in AgentSites BY <1>1, <1>8 DEF SitesCall
  <2>2. SitesShown(page, server) BY <1>1, <2>1
  <2>3. CASE Site!Ends(i) /\ UNCHANGED page BY <1>1, <1>3, <2>2, <2>3
  <2>4. CASE page' = [page EXCEPT !.dialog = Site!Opened(s)] /\ Site!GoesOn(i, Site!Opening(s))
    <3> HIDE DEF s
    <3>1. page'.mode = page.mode /\ page'.shown = page.shown /\ page'.dialog.title = s /\ ChoicesTell(page')
      BY <1>1, <2>1, <2>4, OpeningHolds
    <3>2. ModesShown(page', server') /\ TokensShown(page', server') BY <1>1, <2>2, <3>1
    <3>3. SitesTold(Site!Opening(s), page', server') /\ Site!Opening(s).fn # Site!None BY <2>1, <3>1, <3>2, OpeningHolds
    <3> QED BY <1>2, <2>4, <3>1, <3>3, SitesTurnHolds
  <2> QED BY <1>8, <2>3, <2>4, Zenon
<1> QED BY <1>4, <1>5, <1>6, <1>7, <1>8

LEMMA SitesServerTurns == ASSUME PagesAreRight, SitesRest, SitesTurn, inTurn, NEW i \in Site!Ids, Site!Serve(i) PROVE SitesTurn'
<1> USE DEF Site!ServeCreate, Site!ServeRegenerate, Site!ServeDelete, Site!ServeAgent, Site!Sent, Site!None, SitesTold, Changes,
    SitesServer, SitesCall
<1>1. /\ SitesPage(page) /\ SitesServer(server) /\ DOMAIN calls = Site!Ids /\ SitesCall(calls[i])
      /\ SitesTold(calls[i], page, server) /\ ChoicesTell(page)
  BY DEF SitesRest, SitesTurn
<1>2. UNCHANGED page /\ calls[i].at = "sent" /\ calls[i].fn # Site!None
  BY Zenon DEF Site!Serve, Site!ServeSites, Site!ServeIdentities, Site!ServeAct
<1>3. ASSUME NEW c, Site!GoesOn(i, c), SitesTold(c, page, server'), c.fn = calls[i].fn PROVE SitesTurn'
  BY <1>1, <1>2, <1>3, SitesTurnHolds
<1>4. ASSUME NEW got, Site!GoesOn(i, Site!IsBack(calls[i], got)), server'.sites = server.sites,
             calls[i].fn \in Changes => got = <<>>,
             calls[i].fn = "sites" => got = <<server.sites>>,
             calls[i].fn = "identities" => got = <<SiteIdentities>>
      PROVE  SitesTurn'
  <2> DEFINE c == Site!IsBack(calls[i], got)
  <2>1. c = [fn |-> calls[i].fn, at |-> "back", arg |-> calls[i].arg, got |-> got] BY SitesRequests
  <2> HIDE DEF c
  <2>2. ModesShown(page, server) => ModesShown(page, server') BY <1>4 DEF ModesShown
  <2>3. TokensShown(page, server) => TokensShown(page, server') BY <1>4 DEF TokensShown, TokenShown
  <2>4. SitesTold(c, page, server') BY <1>1, <1>2, <1>4, <2>1, <2>2, <2>3
  <2> QED BY <1>3, <1>4, <2>1, <2>4 DEF c
<1>5. ASSUME UNCHANGED server, Site!Fails(i), calls[i].fn \in Changes PROVE SitesTurn' BY <1>1, <1>4, <1>5, SitesSteps
<1>6. ASSUME NEW s \in AgentSites, s = calls[i].arg.of, NEW site, NEW n, NEW d,
             Site!Store(s, site, n), Site!Answers(i, d), calls[i].fn \in Changes,
             site.mode = "agent" => d = site.token /\ d # 0
      PROVE  SitesTurn'
  <2> DEFINE c == Site!IsBack(calls[i], <<d>>)
  <2>1. c = [fn |-> calls[i].fn, at |-> "back", arg |-> calls[i].arg, got |-> <<d>>] BY SitesRequests
  <2>2. Site!GoesOn(i, c) BY <1>1, <1>6, SitesAnswers
  <2> HIDE DEF c
  <2>3. server' = [server EXCEPT !.sites[s] = site, !.tokens = n] BY <1>6, Zenon DEF Site!Store
  <2>4. server'.sites[s] = site /\ \A t \in AgentSites \ {s} : server'.sites[t] = server.sites[t] BY <1>1, <2>3
  <2>5. TokensShown(page, server) /\ DialogTells(page.dialog) BY <1>1, <1>2, <1>6
  <2>6. TokenComes(c, page, server') BY <1>6, <2>1, <2>4, <2>5 DEF TokenComes, TokensShown, TokenShown
  <2>7. SitesTold(c, page, server') BY <1>6, <2>1, <2>5, <2>6
  <2> QED BY <1>3, <2>1, <2>2, <2>7
<1>7. CASE Site!ServeCreate(i)
  <2>1. calls[i].fn = "create" /\ calls[i].arg.of \in AgentSites BY <1>1, <1>7
  <2> DEFINE n == IF calls[i].arg.mode = "agent" THEN Site!NextToken ELSE 0
             site == [mode |-> calls[i].arg.mode, token |-> n]
  <2>2. \/ Site!Fails(i) /\ UNCHANGED server
        \/ Site!Answers(i, n) /\ Site!Store(calls[i].arg.of, site, IF n = 0 THEN server.tokens ELSE n)
    BY <1>7, Zenon
  <2>3. site.mode = "agent" => n = site.token /\ n # 0 BY <1>1 DEF Site!NextToken
  <2> HIDE DEF n, site
  <2> QED BY <1>5, <1>6, <2>1, <2>2, <2>3
<1>8. CASE Site!ServeRegenerate(i)
  <2> DEFINE s == calls[i].arg.of
             site == [server.sites[s] EXCEPT !.token = Site!NextToken]
  <2>1. calls[i].fn = "regenerate" /\ s \in AgentSites BY <1>1, <1>8
  <2>2. \/ Site!Fails(i) /\ UNCHANGED server
        \/ Site!Answers(i, Site!NextToken) /\ Site!Store(s, site, Site!NextToken)
    BY <1>8, Zenon
  <2>3. Site!NextToken = site.token /\ Site!NextToken # 0 BY <1>1, <2>1 DEF Site!NextToken
  <2> HIDE DEF s, site
  <2> QED BY <1>5, <1>6, <2>1, <2>2, <2>3 DEF s
<1>9. CASE Site!ServeDelete(i)
  <2>1. calls[i].fn = "delete" /\ calls[i].arg.of \in AgentSites BY <1>1, <1>9
  <2>2. \/ Site!Fails(i) /\ UNCHANGED server
        \/ Site!Store(calls[i].arg.of, Site!NoSite, server.tokens) /\ Site!Answers(i, 0)
    BY <1>9, Zenon
  <2>3. Site!NoSite.mode # "agent" BY DEF Site!NoSite
  <2> QED BY <1>5, <1>6, <2>1, <2>2, <2>3
<1>10. CASE Site!ServeSites(i)
  <2>1. Site!Answers(i, server.sites) /\ UNCHANGED server /\ calls[i].fn = "sites" BY <1>10, Zenon DEF Site!ServeSites
  <2>2. Site!GoesOn(i, Site!IsBack(calls[i], <<server.sites>>)) BY <1>1, <2>1, SitesAnswers
  <2> QED BY <1>4, <2>1, <2>2
<1>11. CASE Site!ServeIdentities(i)
  <2>1. Site!Answers(i, SiteIdentities) /\ UNCHANGED server /\ calls[i].fn = "identities" BY <1>11, Zenon DEF Site!ServeIdentities
  <2>2. Site!GoesOn(i, Site!IsBack(calls[i], <<SiteIdentities>>)) BY <1>1, <2>1, SitesAnswers
  <2> QED BY <1>4, <2>1, <2>2
<1>12. CASE Site!ServeAct(i)
  <2> DEFINE s == calls[i].arg.of
             j == [command |-> calls[i].arg.act, status |-> "queued", result |-> Site!None]
  <2>1. calls[i].fn = "act" /\ server' = [server EXCEPT !.jobs[s] = <<j>> \o @] /\ Site!Answers(i, "ok")
    BY <1>12, Zenon DEF Site!ServeAct
  <2>2. server'.sites = server.sites
    <3> HIDE DEF s, j
    <3> QED BY <1>1, <2>1
  <2>3. Site!GoesOn(i, Site!IsBack(calls[i], <<"ok">>)) BY <1>1, <2>1, SitesAnswers
  <2> QED BY <1>4, <2>1, <2>2, <2>3
<1>13. ASSUME NEW lost \in BOOLEAN, Site!ServeAgent(i, lost) PROVE SitesTurn'
  <2>1. calls[i].fn = "agent" /\ UNCHANGED server BY <1>13
  <2>2. PICK field, v : Site!Part(i, field, v) /\ field \in {"jobs", "sites"} BY <1>13, Zenon
  <2> DEFINE a == [calls[i].arg EXCEPT ![field] = <<v>>]
             c == [calls[i] EXCEPT !.arg = a, !.at = IF a.jobs # <<>> /\ a.sites # <<>> THEN "back" ELSE "sent"]
  <2>3. a.of = calls[i].arg.of BY <1>1, <2>1, <2>2
  <2>4. Site!GoesOn(i, c)
    <3>1. calls' = [calls EXCEPT ![i].arg = a, ![i].at = IF a.jobs # <<>> /\ a.sites # <<>> THEN "back" ELSE "sent"]
      BY <2>2, Zenon DEF Site!Part
    <3> HIDE DEF a
    <3> QED BY <1>1, <3>1 DEF Site!GoesOn, Site!Moved
  <2>5. c.fn = "agent" /\ c.got = <<>> /\ c.arg.of = calls[i].arg.of
    <3> HIDE DEF a
    <3> QED BY <1>1, <1>2, <2>1, <2>3
  <2> HIDE DEF c
  <2>6. SitesTold(c, page, server') BY <1>1, <2>1, <2>5
  <2> QED BY <1>3, <2>1, <2>4, <2>5, <2>6
<1> QED BY <1>7, <1>8, <1>9, <1>10, <1>11, <1>12, <1>13 DEF Site!Serve

LEMMA AgentWorksTurns == ASSUME SitesRest, SitesTurn, NEW s \in AgentSites, Site!AgentWorks(s) PROVE SitesTurn'
<1>1. SitesPage(page) /\ SitesServer(server) /\ UNCHANGED <<page, calls>> BY DEF SitesRest, Site!AgentWorks
<1>2. server'.sites = server.sites
  <2>1. PICK js : server' = [server EXCEPT !.jobs = js]
    <3>1. PICK k \in DOMAIN server.jobs[s] : server' = [server EXCEPT !.jobs[s][k].status = "done", !.jobs[s][k].result = s]
      BY Zenon DEF Site!AgentWorks
    <3> QED BY <1>1, <3>1
  <2> QED BY <1>1, <2>1
<1>3. SitesPage(page') /\ SitesServer(server') BY AgentWorksKeeps DEF SitesRest, SitesPage
<1>4. \A j \in Site!Ids : SitesTold(calls[j], page', server') BY <1>1, <1>2, <1>3, SitesToldAlike DEF SitesTurn
<1>5. Site!Quiet => SitesShown(page', server') BY <1>1, <1>2 DEF SitesTurn, SitesShown, ModesShown, TokensShown, TokenShown
<1> QED BY <1>1, <1>4, <1>5, SitesTurnStays DEF SitesTurn

LEMMA SitesTurnBegins == Site!Init => SitesTurn
<1> SUFFICES ASSUME Site!Init PROVE SitesTurn OBVIOUS
<1>1. \A i \in Site!Ids : calls[i].fn = Site!None /\ calls[i].at = Site!None BY SitesRequests DEF Site!Init, Site!NoCalls
<1>2. \A i \in Site!Ids : SitesTold(calls[i], page, server) BY <1>1, SitesToldNothing DEF Site!None
<1>3. SitesShown(page, server) /\ ChoicesTell(page)
  BY DEF Site!Init, SitesShown, ModesShown, TokensShown, TokenShown, DialogTells, ChoicesTell, Site!Closed, Site!NoSite, Site!None
<1> QED BY <1>1, <1>2, <1>3 DEF SitesTurn, OneSitesCall

LEMMA SitesTurnKeeps ==
  PagesAreRight /\ SitesRest /\ SitesTurn /\ inTurn /\ [Site!Next]_(Site!vars) => SitesTurn'
<1> SUFFICES ASSUME PagesAreRight, SitesRest, SitesTurn, inTurn, [Site!Next]_(Site!vars)
             PROVE  SitesTurn'
  OBVIOUS
<1>1. CASE UNCHANGED Site!vars
  <2>1. UNCHANGED <<page, calls, server>> BY <1>1 DEF Site!vars
  <2>2. \A j \in Site!Ids : SitesTold(calls[j], page', server') BY <2>1 DEF SitesTurn
  <2>3. Site!Quiet => SitesShown(page', server') BY <2>1 DEF SitesTurn
  <2> QED BY <2>1, <2>2, <2>3, SitesTurnStays DEF SitesTurn
<1>2. ASSUME NEW i \in Site!Ids, Site!Lose(i) PROVE SitesTurn' BY <1>2 DEF Site!Lose
<1> QED BY <1>1, <1>2, SitesClicksTurn, SitesContinueTurns, SitesServerTurns, AgentWorksTurns DEF Site!Next

-----------------------------------------------------------------------------
(* WebPolicy. *)
LEMMA PolicyBegun ==
  ASSUME Policy!CallsAssumption, NEW cs, NEW c, NEW k \in Policy!Ids, cs[k].fn = Policy!None
  PROVE  \E i \in Policy!Ids :
           cs[i].fn = Policy!None /\ Policy!Begun(cs, c) = [cs EXCEPT ![i] = c]
BY FirstFree DEF Policy!Begun, Policy!Ids, Policy!None, Policy!CallsAssumption

LEMMA PolicyStarts ==
  ASSUME Policy!CallsAssumption, DOMAIN calls = Policy!Ids, NEW c, Policy!Starts(c)
  PROVE  \E i \in Policy!Ids : calls[i].fn = Policy!None /\ Policy!GoesOn(i, c)
BY PolicyBegun DEF Policy!Starts, Policy!Free, Policy!GoesOn, Policy!Moved

LEMMA PolicyMoves ==
  ASSUME DOMAIN calls = Policy!Ids, NEW i \in Policy!Ids, NEW c, Policy!GoesOn(i, c)
  PROVE  /\ DOMAIN calls' = Policy!Ids /\ calls'[i] = c
         /\ \A j \in Policy!Ids \ {i} : calls'[j] = calls[j]
BY DEF Policy!GoesOn, Policy!Moved

LEMMA PolicySteps ==
  ASSUME DOMAIN calls = Policy!Ids, NEW i \in Policy!Ids
  PROVE  /\ Policy!Ends(i) => Policy!GoesOn(i, Policy!NoCall)
         /\ Policy!Fails(i) => Policy!GoesOn(i, Policy!IsBack(calls[i], <<>>))
BY DEF Policy!Ends, Policy!Ended, Policy!GoesOn, Policy!Moved, Policy!Fails

LEMMA PolicyAnswers ==
  ASSUME DOMAIN calls = Policy!Ids, NEW i \in Policy!Ids, NEW d, Policy!Answers(i, d)
  PROVE  Policy!GoesOn(i, Policy!IsBack(calls[i], <<d>>))
BY DEF Policy!GoesOn, Policy!Moved, Policy!Answers

LEMMA PolicyRequests ==
  /\ Policy!NoCall.fn = Policy!None /\ Policy!NoCall.at = Policy!None /\ Policy!NoCall.got = <<>>
  /\ \A fn, arg : Policy!Asks(fn, arg) = [fn |-> fn, at |-> "sent", arg |-> arg, got |-> <<>>]
  /\ \A c, got : Policy!IsBack(c, got) = [fn |-> c.fn, at |-> "back", arg |-> c.arg, got |-> got]
BY DEF Policy!NoCall, Policy!None, Policy!Asks, Policy!IsBack

LEMMA PolicyHolds ==
  ASSUME PolicyInv, UNCHANGED inTurn, NEW i \in Policy!Ids, NEW c, Policy!GoesOn(i, c), PolicyPage(page'),
         inTurn => /\ PolicyTells(page') /\ PolicyTold(c, page'.dev)
                   /\ Policy!Quiet \/ page'.dev = page.dev
  PROVE  PolicyInv'
<1>1. /\ DOMAIN calls' = Policy!Ids /\ calls'[i] = c
      /\ \A j \in Policy!Ids \ {i} : calls'[j] = calls[j]
  BY PolicyMoves DEF PolicyInv, PolicyRest
<1>2. PolicyPage(page)' /\ DOMAIN calls' = Policy!Ids BY <1>1
<1>3. ASSUME inTurn, NEW j \in Policy!Ids PROVE PolicyTold(calls'[j], page'.dev)
  BY <1>1, <1>3 DEF PolicyInv, PolicyTurn, PolicyTold, Policy!Quiet, Policy!None, Policy!Lists
<1>4. inTurn => PolicyTells(page)' /\ \A j \in Policy!Ids : PolicyTold(calls[j], page.dev)' BY <1>3 DEF PolicyTold
<1> QED BY <1>2, <1>4 DEF PolicyInv, PolicyRest, PolicyTurn

LEMMA PolicyStays ==
  ASSUME PolicyInv, UNCHANGED <<inTurn, calls>>, PolicyPage(page'),
         inTurn => PolicyTells(page') /\ (Policy!Quiet \/ page'.dev = page.dev)
  PROVE  PolicyInv'
<1>1. PolicyPage(page)' /\ DOMAIN calls' = Policy!Ids BY DEF PolicyInv, PolicyRest, PolicyPage
<1>2. ASSUME inTurn, NEW j \in Policy!Ids PROVE PolicyTold(calls[j], page'.dev)
  BY <1>2 DEF PolicyInv, PolicyTurn, PolicyTold, Policy!Quiet, Policy!None, Policy!Lists
<1>3. inTurn => PolicyTells(page)' /\ \A j \in Policy!Ids : PolicyTold(calls[j], page.dev)' BY <1>2 DEF PolicyTold
<1> QED BY <1>1, <1>3 DEF PolicyInv, PolicyRest, PolicyTurn

(* A panel drawn anew shows what it is drawn of; the others stay.           *)
Redrawn(p, l, of, k) == [p EXCEPT !.shows[l] = Policy!Drawn(@, of, k)]

LEMMA RedrawnShows == ASSUME NEW p, PolicyPage(p), NEW l \in Policy!Panels, NEW of, NEW k PROVE LET q == Redrawn(p, l, of, k)
         IN  /\ PolicyPage(q) /\ q.dev = p.dev /\ q.tenant = p.tenant /\ q.cache = p.cache
             /\ q.shows[l].of = of /\ \A m \in Policy!Panels \ {l} : q.shows[m] = p.shows[m]
<1> DEFINE s == Policy!Drawn(p.shows[l], of, k)
           q == Redrawn(p, l, of, k)
<1>1. DOMAIN s = {"of", "pkt", "proof", "drawn"} /\ s.of = of BY DEF Policy!Drawn
<1> HIDE DEF s
<1>2. q = [p EXCEPT !.shows[l] = s] BY DEF s, Redrawn
<1> HIDE DEF q
<1>3. /\ PolicyPage(q) /\ q.dev = p.dev /\ q.tenant = p.tenant /\ q.cache = p.cache
      /\ q.shows[l].of = of /\ \A m \in Policy!Panels \ {l} : q.shows[m] = p.shows[m]
  BY <1>1, <1>2 DEF PolicyPage
<1> QED BY <1>3 DEF q

LEMMA RedrawnTells ==
  ASSUME NEW p, PolicyPage(p), PolicyTells(p), NEW l \in Policy!Panels, NEW of, NEW k, of \in {Policy!None, p.dev}
  PROVE  PolicyTells(Redrawn(p, l, of, k))
<1> DEFINE q == Redrawn(p, l, of, k)
<1>1. /\ q.dev = p.dev /\ q.tenant = p.tenant /\ q.cache = p.cache
      /\ q.shows[l].of = of /\ \A m \in Policy!Panels \ {l} : q.shows[m] = p.shows[m]
  BY RedrawnShows
<1> HIDE DEF q
<1>2. PolicyTells(q) BY <1>1 DEF PolicyTells, PolicyPage
<1> QED BY <1>2 DEF q

(* Without a device every panel is empty; with one nothing changes.         *)
PolicyFits(p) ==
  /\ \A l \in Policy!Lists : \A d \in Routers : p.cache[l][d] \in {Policy!None, d}
  /\ p.dev # Policy!None =>
       \A l \in Policy!Panels : p.shows[l].of # Policy!None => RouterGroup(p.shows[l].of) = p.tenant

LEMMA SelectedShows ==
  ASSUME NEW p, PolicyPage(p)
  PROVE  /\ PolicyPage(Policy!Selected(p)) /\ Policy!Selected(p).dev = p.dev
         /\ PolicyFits(p) => PolicyTells(Policy!Selected(p))
<1> DEFINE q == Policy!Selected(p)
<1>1. CASE p.dev # Policy!None BY <1>1 DEF Policy!Selected, PolicyFits, PolicyTells
<1>2. CASE p.dev = Policy!None
  <2> DEFINE f == [l \in Policy!Panels |-> Policy!Drawn(p.shows[l], Policy!None, Policy!None)]
  <2>1. \A l \in Policy!Panels : DOMAIN f[l] = {"of", "pkt", "proof", "drawn"} /\ f[l].of = Policy!None BY DEF Policy!Drawn
  <2>2. DOMAIN f = Policy!Panels OBVIOUS
  <2>3. q = [p EXCEPT !.shows = f] BY <1>2 DEF Policy!Selected, PolicyPage
  <2> HIDE DEF f, q
  <2>4. PolicyPage(q) /\ q.dev = p.dev /\ q.shows = f /\ q.cache = p.cache BY <2>1, <2>2, <2>3 DEF PolicyPage
  <2>5. PolicyFits(p) => PolicyTells(q) BY <2>1, <2>4 DEF PolicyFits, PolicyTells
  <2> QED BY <2>4, <2>5 DEF q
<1> QED BY <1>1, <1>2

LEMMA ForgottenTells ==
  /\ DOMAIN Policy!NoCache = Policy!Lists
  /\ \A l \in Policy!Lists : /\ DOMAIN Policy!NoCache[l] = Routers \union {Policy!None}
                             /\ \A d \in Routers : Policy!NoCache[l][d] = Policy!None
BY DEF Policy!NoCache, Policy!Forgotten

(* A click leaves page q, or a panel of it drawn anew and a call for its    *)
(* device begun.                                                            *)
LEMMA PolicyClicked ==
  ASSUME PagesAreRight, PolicyInv, UNCHANGED inTurn, Policy!MayClick,
         NEW q, PolicyPage(q), inTurn => PolicyTells(q),
         \/ page' = q /\ UNCHANGED calls
         \/ \E fn, arg : /\ page' = q \/ \E l \in Policy!Panels :
                              page' = Redrawn(q, l, Policy!None, Policy!None)
                         /\ Policy!Starts(Policy!Asks(fn, arg)) /\ q.dev # Policy!None
                         /\ fn \in Policy!Lists => arg = q.dev
                         /\ fn = "trace" => arg.dev = q.dev
  PROVE  PolicyInv'
<1>1. inTurn => Policy!Quiet BY DEF Policy!MayClick
<1>2. CASE page' = q /\ UNCHANGED calls BY <1>1, <1>2, PolicyStays
<1>3. ASSUME NEW fn, NEW arg,
             page' = q \/ \E l \in Policy!Panels : page' = Redrawn(q, l, Policy!None, Policy!None),
             Policy!Starts(Policy!Asks(fn, arg)), q.dev # Policy!None,
             fn \in Policy!Lists => arg = q.dev, fn = "trace" => arg.dev = q.dev
      PROVE  PolicyInv'
  <2>1. Policy!CallsAssumption BY Zenon
  <2>2. PICK i \in Policy!Ids : calls[i].fn = Policy!None /\ Policy!GoesOn(i, Policy!Asks(fn, arg))
    BY <1>3, <2>1, PolicyStarts DEF PolicyInv, PolicyRest
  <2>3. PolicyPage(page') /\ page'.dev = q.dev /\ (inTurn => PolicyTells(page')) BY <1>3, RedrawnShows, RedrawnTells
  <2>4. PolicyTold(Policy!Asks(fn, arg), q.dev) BY <1>3, PolicyRequests DEF PolicyTold
  <2> QED BY <1>1, <2>2, <2>3, <2>4, PolicyHolds
<1> QED BY <1>2, <1>3

LEMMA PolicyChoicesKeep ==
  ASSUME PagesAreRight, PolicyInv, UNCHANGED inTurn,
         \/ \E t \in Policy!Tenants \union {Policy!None} : Policy!ChooseTenant(t)
         \/ \E d \in Routers \union {Policy!None} : Policy!ChooseDevice(d)
         \/ \E l \in Policy!Panels : Policy!OpenPanel(l)
         \/ Policy!OpenTab
  PROVE  PolicyInv'
<1>1. PolicyPage(page) /\ (inTurn => PolicyTells(page)) BY DEF PolicyInv, PolicyRest, PolicyTurn
<1>2. ASSUME NEW p, PolicyPage(p), inTurn => PolicyFits(p), Policy!MayClick,
             \/ page' = Policy!Selected(p) /\ UNCHANGED calls
             \/ \E l \in Policy!Lists : p.dev # Policy!None /\ Policy!Loads(Policy!Selected(p), l)
      PROVE  PolicyInv'
  <2> DEFINE q == Policy!Selected(p)
  <2>1. PolicyPage(q) /\ q.dev = p.dev /\ (inTurn => PolicyTells(q)) BY <1>2, SelectedShows
  <2> HIDE DEF q
  <2>2. ASSUME NEW l \in Policy!Lists, p.dev # Policy!None, Policy!Loads(q, l) PROVE PolicyInv'
    <3>1. /\ page' = Redrawn(q, l, Policy!None, Policy!None)
          /\ Policy!Starts(Policy!Asks(l, q.dev)) /\ l \in Policy!Panels /\ l # "trace"
      BY <2>2, Zenon DEF Redrawn, Policy!Loads, Policy!Lists, Policy!Panels
    <3> QED BY <1>2, <2>1, <2>2, <3>1, PolicyClicked
  <2>3. CASE page' = q /\ UNCHANGED calls BY <1>2, <2>1, <2>3, PolicyClicked
  <2> QED BY <1>2, <2>2, <2>3 DEF q
<1>3. ASSUME NEW t \in Policy!Tenants \union {Policy!None}, Policy!ChooseTenant(t) PROVE PolicyInv'
  <2> DEFINE p == [page EXCEPT !.tenant = t, !.dev = Policy!None, !.cache = Policy!NoCache]
  <2>1. page' = Policy!Selected(p) /\ UNCHANGED calls /\ Policy!MayClick BY <1>3, Zenon DEF Policy!ChooseTenant
  <2>2. PolicyPage(p) /\ p.dev = Policy!None /\ p.cache = Policy!NoCache BY <1>1, ForgottenTells DEF PolicyPage
  <2> HIDE DEF p
  <2>3. PolicyFits(p) BY <2>2, ForgottenTells DEF PolicyFits
  <2> QED BY <1>2, <2>1, <2>2, <2>3
<1>4. ASSUME NEW d \in Routers \union {Policy!None}, Policy!ChooseDevice(d) PROVE PolicyInv'
  <2> DEFINE p == [page EXCEPT !.dev = d]
  <2>1. /\ Policy!MayClick /\ d \in Policy!OfTenant(page.tenant) \union {Policy!None}
        /\ IF d # Policy!None /\ Policy!Selected(p).panel \in Policy!Lists
           THEN Policy!Loads(Policy!Selected(p), Policy!Selected(p).panel)
           ELSE page' = Policy!Selected(p) /\ UNCHANGED calls
    BY <1>4, Zenon DEF Policy!ChooseDevice
  <2>2. PolicyPage(p) /\ p.dev = d /\ p.cache = page.cache /\ p.shows = page.shows /\ p.tenant = page.tenant
    BY <1>1, <2>1 DEF PolicyPage, Policy!OfTenant
  <2> HIDE DEF p
  <2>3. inTurn => PolicyFits(p) BY <1>1, <2>2 DEF PolicyFits, PolicyTells
  <2> QED BY <1>2, <2>1, <2>2, <2>3
<1>5. ASSUME NEW l \in Policy!Panels, Policy!OpenPanel(l) PROVE PolicyInv'
  <2> DEFINE p == [page EXCEPT !.panel = l]
             q == Policy!Selected(p)
  <2>1. /\ Policy!MayClick
        /\ IF q.dev # Policy!None /\ l \in Policy!Lists /\ q.cache[l][q.dev] = Policy!None
           THEN Policy!Loads(q, l) ELSE page' = q /\ UNCHANGED calls
    BY <1>5, Zenon DEF Policy!OpenPanel, Policy!Opened
  <2>2. PolicyPage(p) /\ p.dev = page.dev /\ p.cache = page.cache /\ p.shows = page.shows /\ p.tenant = page.tenant
    BY <1>1 DEF PolicyPage
  <2> HIDE DEF p
  <2>3. inTurn => PolicyFits(p) BY <1>1, <2>2 DEF PolicyFits, PolicyTells
  <2>4. q.dev = p.dev BY <2>2, SelectedShows
  <2> QED BY <1>2, <2>1, <2>2, <2>3, <2>4
<1>6. CASE Policy!OpenTab
  <2> DEFINE d == IF page.dev \in Policy!OfTenant(page.tenant) THEN page.dev ELSE Policy!None
             p == [page EXCEPT !.dev = d]
  <2>1. page' = Policy!Selected(p) /\ UNCHANGED calls /\ Policy!MayClick
    <3>1. p = [page EXCEPT !.dev = IF @ \in Policy!OfTenant(page.tenant) THEN @ ELSE Policy!None] OBVIOUS
    <3> QED BY <1>6, <3>1, Zenon DEF Policy!OpenTab
  <2>2. d \in {page.dev, Policy!None} OBVIOUS
  <2> HIDE DEF d
  <2>3. PolicyPage(p) /\ p.dev = d /\ p.cache = page.cache /\ p.shows = page.shows /\ p.tenant = page.tenant
    BY <1>1, <2>2 DEF PolicyPage
  <2> HIDE DEF p
  <2>4. inTurn => PolicyFits(p) BY <1>1, <2>2, <2>3 DEF PolicyFits, PolicyTells
  <2> QED BY <1>2, <2>1, <2>3, <2>4
<1> QED BY <1>3, <1>4, <1>5, <1>6

LEMMA PolicyAsksKeep ==
  ASSUME PagesAreRight, PolicyInv, UNCHANGED inTurn,
         \/ \E k \in Packets : Policy!EnterPacket(k) \/ Policy!UseExample(k)
         \/ Policy!Trace \/ Policy!Prove
  PROVE  PolicyInv'
<1>1. PolicyPage(page) /\ (inTurn => PolicyTells(page)) BY DEF PolicyInv, PolicyRest, PolicyTurn
<1>2. ASSUME NEW q, PolicyPage(q), inTurn => PolicyTells(q), Policy!MayClick, Policy!Traces(q) PROVE PolicyInv'
  <2> DEFINE arg == [dev |-> q.dev, pkt |-> q.pkt]
  <2>1. /\ page' = Redrawn(q, "tracer", Policy!None, Policy!None) /\ q.dev # Policy!None
        /\ Policy!Starts(Policy!Asks("trace", arg))
    BY <1>2, Zenon DEF Redrawn, Policy!Traces
  <2>2. arg.dev = q.dev /\ "tracer" \in Policy!Panels /\ "trace" \notin Policy!Lists BY DEF Policy!Panels, Policy!Lists
  <2> HIDE DEF arg
  <2> QED BY <1>2, <2>1, <2>2, PolicyClicked
<1>3. ASSUME NEW k \in Packets, Policy!EnterPacket(k) PROVE PolicyInv'
  <2> DEFINE q == [page EXCEPT !.pkt = k]
  <2>1. page' = q /\ UNCHANGED calls /\ Policy!MayClick BY <1>3, Zenon DEF Policy!EnterPacket
  <2>2. PolicyPage(q) /\ (inTurn => PolicyTells(q)) BY <1>1 DEF PolicyPage, PolicyTells
  <2> HIDE DEF q
  <2> QED BY <2>1, <2>2, PolicyClicked
<1>4. ASSUME NEW k \in Packets, Policy!UseExample(k) PROVE PolicyInv'
  <2> DEFINE p == [page EXCEPT !.panel = "tracer"]
             q == [p EXCEPT !.pkt = k]
  <2>1. Policy!MayClick /\ page.dev # Policy!None /\ Policy!Traces([Policy!Selected(p) EXCEPT !.pkt = k])
    BY <1>4, Zenon DEF Policy!UseExample, Policy!Opened
  <2>2. Policy!Selected(p) = p BY <1>1, <2>1 DEF PolicyPage, Policy!Selected
  <2>3. PolicyPage(q) /\ (inTurn => PolicyTells(q)) BY <1>1 DEF PolicyPage, PolicyTells, Policy!Panels
  <2>4. Policy!Traces(q) BY <2>1, <2>2, Zenon
  <2> HIDE DEF q
  <2> QED BY <1>2, <2>1, <2>3, <2>4
<1>5. CASE Policy!Trace BY <1>1, <1>2, <1>5 DEF Policy!Trace
<1>6. CASE Policy!Prove
  <2> DEFINE arg == [dev |-> page.dev, drawn |-> page.shows["findings"].drawn]
  <2>1. Policy!MayClick /\ page.dev # Policy!None /\ Policy!Starts(Policy!Asks("prove", arg)) /\ UNCHANGED page
    BY <1>6, Zenon DEF Policy!Prove
  <2>2. "prove" \notin Policy!Lists BY DEF Policy!Lists
  <2> HIDE DEF arg
  <2> QED BY <1>1, <2>1, <2>2, PolicyClicked
<1> QED BY <1>3, <1>4, <1>5, <1>6

LEMMA PolicyContinueKeeps ==
  ASSUME PagesAreRight, PolicyInv, UNCHANGED inTurn, NEW i \in Policy!Ids, Policy!Continue(i)
  PROVE  PolicyInv'
<1>1. /\ PolicyPage(page) /\ DOMAIN calls = Policy!Ids
      /\ inTurn => PolicyTells(page) /\ PolicyTold(calls[i], page.dev)
  BY DEF PolicyInv, PolicyRest, PolicyTurn
<1>2. ASSUME Policy!Ends(i), PolicyPage(page'), page'.dev = page.dev, inTurn => PolicyTells(page') PROVE PolicyInv'
  <2>1. Policy!GoesOn(i, Policy!NoCall) BY <1>1, <1>2, PolicySteps
  <2>2. PolicyTold(Policy!NoCall, page'.dev) BY PolicyRequests DEF PolicyTold, Policy!None, Policy!Lists
  <2> QED BY <1>2, <2>1, <2>2, PolicyHolds
<1>3. ASSUME NEW p, PolicyPage(p), p.dev = page.dev, inTurn => PolicyTells(p), NEW l \in Policy!Panels, NEW of, NEW k,
             inTurn => of \in {Policy!None, page.dev}, page' = Redrawn(p, l, of, k), Policy!Ends(i)
      PROVE  PolicyInv'
  <2>1. PolicyPage(page') /\ page'.dev = page.dev BY <1>3, RedrawnShows
  <2>2. inTurn => PolicyTells(page') BY <1>3, RedrawnTells
  <2> QED BY <1>2, <1>3, <2>1, <2>2
<1>4. CASE Policy!ListShown(i)
  <2>1. PICK l \in Policy!Lists :
          /\ calls[i].fn = l
          /\ page' = IF Policy!Answered(i)
                     THEN [page EXCEPT !.cache[l][page.dev] = Policy!Answer(i),
                                       !.shows[l] = Policy!Drawn(@, Policy!Answer(i), Policy!None)]
                     ELSE Redrawn(page, l, Policy!None, Policy!None)
    BY <1>4, Zenon DEF Redrawn, Policy!ListShown, Policy!Back
  <2>2. Policy!Ends(i) /\ l \in Policy!Panels BY <1>4 DEF Policy!ListShown, Policy!Lists, Policy!Panels
  <2> DEFINE a == Policy!Answer(i)
             p == [page EXCEPT !.cache[l][page.dev] = a]
  <2>3. CASE Policy!Answered(i)
    <3>1. inTurn => a = page.dev BY <1>1, <2>1, <2>3 DEF PolicyTold, Policy!Answered, Policy!Answer
    <3> HIDE DEF a
    <3>2. PolicyPage(p) /\ p.dev = page.dev /\ p.shows = page.shows /\ (inTurn => PolicyTells(p))
      BY <1>1, <3>1 DEF PolicyPage, PolicyTells
    <3>3. page' = Redrawn(p, l, a, Policy!None) BY <2>1, <2>3, Zenon DEF Redrawn, a
    <3> HIDE DEF p
    <3> QED BY <1>3, <2>2, <3>1, <3>2, <3>3
  <2>4. CASE ~Policy!Answered(i) BY <1>1, <1>3, <2>1, <2>2, <2>4
  <2> QED BY <2>3, <2>4
<1>5. CASE Policy!Traced(i)
  <2>1. /\ calls[i].fn = "trace" /\ Policy!Ends(i)
        /\ page' = [page EXCEPT !.shows["tracer"] =
             IF Policy!Answered(i) THEN Policy!Drawn(@, Policy!Answer(i).dev, Policy!Answer(i).pkt)
             ELSE Policy!Drawn(@, Policy!None, Policy!None)]
    BY <1>5, Zenon DEF Policy!Traced, Policy!Back
  <2>2. inTurn /\ Policy!Answered(i) => Policy!Answer(i).dev = page.dev BY <1>1, <2>1 DEF PolicyTold, Policy!Answered, Policy!Answer
  <2>3. PICK of, k : /\ page' = Redrawn(page, "tracer", of, k)
                     /\ inTurn => of \in {Policy!None, page.dev}
    <3>1. CASE Policy!Answered(i) BY <2>1, <2>2, <3>1 DEF Redrawn
    <3>2. CASE ~Policy!Answered(i) BY <2>1, <3>2 DEF Redrawn
    <3> QED BY <3>1, <3>2
  <2> QED BY <1>1, <1>3, <2>1, <2>3 DEF Policy!Panels
<1>6. CASE Policy!Proved(i)
  <2>1. /\ Policy!Ends(i)
        /\ page' = page \/ page' = [page EXCEPT !.shows["findings"].proof = calls[i].arg.dev]
    BY <1>6, Zenon DEF Policy!Proved
  <2>2. PolicyPage(page') /\ page'.dev = page.dev /\ (inTurn => PolicyTells(page')) BY <1>1, <2>1 DEF PolicyPage, PolicyTells
  <2> QED BY <1>2, <2>1, <2>2
<1> QED BY <1>4, <1>5, <1>6 DEF Policy!Continue

LEMMA PolicyServeKeeps ==
  ASSUME PagesAreRight, PolicyInv, UNCHANGED inTurn, NEW i \in Policy!Ids, Policy!Serve(i) \/ Policy!Lose(i)
  PROVE  PolicyInv'
<1>1. /\ PolicyPage(page) /\ DOMAIN calls = Policy!Ids
      /\ inTurn => PolicyTells(page) /\ PolicyTold(calls[i], page.dev)
  BY DEF PolicyInv, PolicyRest, PolicyTurn
<1>2. UNCHANGED page BY DEF Policy!Serve, Policy!Lose
<1>3. ASSUME NEW got, Policy!GoesOn(i, Policy!IsBack(calls[i], got)),
             got = <<>> \/ (calls[i].fn \in Policy!Lists \union {"trace"} /\ got = <<calls[i].arg>>) \/ calls[i].fn = "prove"
      PROVE  PolicyInv'
  <2> DEFINE c == Policy!IsBack(calls[i], got)
  <2>1. c = [fn |-> calls[i].fn, at |-> "back", arg |-> calls[i].arg, got |-> got] BY PolicyRequests
  <2> HIDE DEF c
  <2>2. inTurn => PolicyTold(c, page.dev) BY <1>1, <1>3, <2>1 DEF PolicyTold, Policy!Lists
  <2> QED BY <1>1, <1>2, <1>3, <2>2, PolicyHolds DEF c
<1>4. CASE Policy!Serve(i)
  <2>1. \/ calls[i].fn \in Policy!Lists \union {"trace"} /\ Policy!Answers(i, calls[i].arg)
        \/ calls[i].fn = "prove" /\ Policy!Answers(i, "ok")
    BY <1>4, Zenon DEF Policy!Serve
  <2> QED BY <1>1, <1>3, <2>1, PolicyAnswers
<1>5. CASE Policy!Lose(i) BY <1>1, <1>3, <1>5, PolicySteps DEF Policy!Lose
<1> QED BY <1>4, <1>5

LEMMA PolicyBegins == Policy!Init => PolicyInv
<1> SUFFICES ASSUME Policy!Init PROVE PolicyInv OBVIOUS
<1>1. page = [tenant |-> Policy!None, dev |-> Policy!None, panel |-> "tracer", pkt |-> Policy!None,
              shows |-> [l \in Policy!Panels |-> Policy!Empty], cache |-> Policy!NoCache]
  BY Zenon DEF Policy!Init
<1>2. DOMAIN Policy!Empty = {"of", "pkt", "proof", "drawn"} /\ Policy!Empty.of = Policy!None BY DEF Policy!Empty
<1>3. PolicyPage(page) /\ PolicyTells(page) BY <1>1, <1>2, ForgottenTells DEF PolicyPage, PolicyTells, Policy!Panels
<1>4. DOMAIN calls = Policy!Ids /\ \A i \in Policy!Ids : calls[i].fn = Policy!None BY PolicyRequests DEF Policy!Init, Policy!NoCalls
<1> QED BY <1>3, <1>4 DEF PolicyInv, PolicyRest, PolicyTurn, PolicyTold, Policy!None, Policy!Lists

LEMMA PolicyKeeps == PagesAreRight /\ PolicyInv /\ UNCHANGED inTurn /\ [Policy!Next]_(Policy!vars) => PolicyInv'
<1> SUFFICES ASSUME PagesAreRight, PolicyInv, UNCHANGED inTurn, [Policy!Next]_(Policy!vars) PROVE PolicyInv' OBVIOUS
<1>1. CASE UNCHANGED Policy!vars
  <2>1. UNCHANGED <<page, calls>> BY <1>1 DEF Policy!vars
  <2> QED BY <2>1, PolicyStays DEF PolicyInv, PolicyRest, PolicyTurn
<1> QED BY <1>1, PolicyChoicesKeep, PolicyAsksKeep, PolicyContinueKeeps, PolicyServeKeeps DEF Policy!Next

-----------------------------------------------------------------------------
(* WebFirewall. *)
LEMMA FwBegun == ASSUME Auth!CallsAssumption, NEW cs, NEW c, NEW k \in Fw!Ids, cs[k].fn = Fw!None PROVE \E i \in Fw!Ids :
           cs[i].fn = Fw!None /\ Fw!Begun(cs, c) = [cs EXCEPT ![i] = c]
BY FirstFree DEF Fw!Begun, Fw!Ids, Fw!None, Auth!CallsAssumption

LEMMA FwStarts ==
  ASSUME Auth!CallsAssumption, DOMAIN calls = Fw!Ids, NEW c, Fw!Starts(c)
  PROVE  \E i \in Fw!Ids : calls[i].fn = Fw!None /\ Fw!GoesOn(i, c)
BY FwBegun DEF Fw!Starts, Fw!Free, Fw!GoesOn, Fw!Moved

LEMMA FwMoves ==
  ASSUME DOMAIN calls = Fw!Ids, NEW i \in Fw!Ids, NEW c, Fw!GoesOn(i, c)
  PROVE  /\ DOMAIN calls' = Fw!Ids /\ calls'[i] = c
         /\ \A j \in Fw!Ids \ {i} : calls'[j] = calls[j]
BY DEF Fw!GoesOn, Fw!Moved

LEMMA FwSteps ==
  ASSUME DOMAIN calls = Fw!Ids, NEW i \in Fw!Ids
  PROVE  /\ Fw!Ends(i) => Fw!GoesOn(i, Fw!NoCall)
         /\ Fw!Fails(i) => Fw!GoesOn(i, Fw!IsBack(calls[i], <<>>))
BY DEF Fw!Ends, Fw!Ended, Fw!GoesOn, Fw!Moved, Fw!Fails

LEMMA FwAnswers ==
  ASSUME DOMAIN calls = Fw!Ids, NEW i \in Fw!Ids, NEW d, Fw!Answers(i, d)
  PROVE  Fw!GoesOn(i, Fw!IsBack(calls[i], <<d>>))
BY DEF Fw!GoesOn, Fw!Moved, Fw!Answers

LEMMA FwRequests ==
  /\ FwCall(Fw!NoCall) /\ Fw!NoCall.fn = Fw!None /\ Fw!NoCall.at = Fw!None /\ Fw!NoCall.got = <<>>
  /\ \A fn, arg : Fw!Asks(fn, arg) = [fn |-> fn, at |-> "sent", arg |-> arg, got |-> <<>>]
  /\ \A c, got : Fw!IsBack(c, got) = [fn |-> c.fn, at |-> "back", arg |-> c.arg, got |-> got]
BY DEF FwCall, Fw!NoCall, Fw!None, Fw!Asks, Fw!IsBack

LEMMA FwNext ==
  ASSUME UNCHANGED inTurn, FwPage(page'), FwServer(server'), FwCalls(calls'), inTurn => FwTells(calls', page', server')
  PROVE  FwInv'
<1>1. FwPage(page)' /\ FwServer(server)' /\ FwCalls(calls)' BY DEF FwPage, FwServer, FwCalls, FwCall, FwForm, FwData
<1>2. inTurn => FwTells(calls, page, server)'
  BY DEF FwTells, FwFew, FwPair, FwNone, FwTold, FwShown, OfSelected, ShownIsRead, KillIsSeen, TableIsList, Selecting
<1> QED BY <1>1, <1>2 DEF FwInv, FwRest, FwTurn

(* Which calls there are after a step: none, one, the two of the settings,  *)
(* or one less or one further of those there were.                          *)
FwEmpty(cs) == \A i \in Fw!Ids : cs[i].fn = Fw!None /\ (cs[i].at = "sent" => cs[i].got = <<>>)
FwRoom(cs) == \E i \in Fw!Ids : cs[i].fn = Fw!None
FwWide(cs) == \E i, j \in Fw!Ids : i # j /\ cs[i].fn = Fw!None /\ cs[j].fn = Fw!None

LEMMA FwToldNothing ==
  ASSUME NEW c, c.fn = Fw!None, c.at = "sent" => c.got = <<>>, NEW p, NEW s PROVE FwTold(c, p, s)
BY DEF FwTold, Selecting, Fw!None

LEMMA FwTellsNone == ASSUME NEW cs, FwEmpty(cs), NEW p, NEW s, FwShown(p, s) PROVE FwTells(cs, p, s)
BY FwToldNothing DEF FwTells, FwEmpty, FwFew

LEMMA FwAdds ==
  ASSUME PagesAreRight, NEW cs, NEW c, FwCalls(cs), FwRoom(cs), FwCall(c)
  PROVE  FwCalls(Fw!Begun(cs, c)) /\ (FwWide(cs) => FwRoom(Fw!Begun(cs, c)))
<1>1. Auth!CallsAssumption BY Zenon
<1>2. PICK i \in Fw!Ids : cs[i].fn = Fw!None /\ Fw!Begun(cs, c) = [cs EXCEPT ![i] = c] BY <1>1, FwBegun DEF FwRoom
<1> QED BY <1>2 DEF FwCalls, FwWide, FwRoom

LEMMA FwTellsOne ==
  ASSUME PagesAreRight, NEW cs, FwEmpty(cs), FwCalls(cs), FwRoom(cs), NEW c, c.fn # Fw!None, NEW p, NEW s, FwTold(c, p, s)
  PROVE  FwTells(Fw!Begun(cs, c), p, s)
<1>1. Auth!CallsAssumption BY Zenon
<1>2. PICK i \in Fw!Ids : cs[i].fn = Fw!None /\ Fw!Begun(cs, c) = [cs EXCEPT ![i] = c] BY <1>1, FwBegun DEF FwRoom
<1> DEFINE ds == [cs EXCEPT ![i] = c]
<1>3. ds[i] = c /\ \A j \in Fw!Ids \ {i} : ds[j] = cs[j] BY DEF FwCalls
<1> HIDE DEF ds
<1>4. \A j \in Fw!Ids : FwTold(ds[j], p, s) BY <1>3, FwToldNothing DEF FwEmpty
<1>5. FwFew(ds) /\ ~FwNone(ds) BY <1>3 DEF FwFew, FwEmpty, FwNone
<1> QED BY <1>2, <1>4, <1>5 DEF FwTells, ds

LEMMA FwTellsTwo ==
  ASSUME PagesAreRight, NEW cs, FwEmpty(cs), FwCalls(cs), FwWide(cs), NEW c, NEW d, FwPair(c, d), FwCall(c),
         NEW p, NEW s, FwTold(c, p, s), FwTold(d, p, s)
  PROVE  FwTells(Fw!Begun(Fw!Begun(cs, c), d), p, s)
<1>1. Auth!CallsAssumption BY Zenon
<1>2. PICK i \in Fw!Ids : cs[i].fn = Fw!None /\ Fw!Begun(cs, c) = [cs EXCEPT ![i] = c] BY <1>1, FwBegun DEF FwWide
<1> DEFINE ds == [cs EXCEPT ![i] = c]
<1>3. ds[i] = c /\ (\A j \in Fw!Ids \ {i} : ds[j] = cs[j]) /\ DOMAIN ds = Fw!Ids BY DEF FwCalls
<1>4. FwRoom(ds) BY <1>3 DEF FwWide, FwRoom
<1> HIDE DEF ds
<1>5. PICK j \in Fw!Ids : ds[j].fn = Fw!None /\ Fw!Begun(ds, d) = [ds EXCEPT ![j] = d] BY <1>1, <1>4, FwBegun DEF FwRoom
<1> DEFINE es == [ds EXCEPT ![j] = d]
<1>6. es[j] = d /\ \A k \in Fw!Ids \ {j} : es[k] = ds[k] BY <1>3
<1>7. i # j BY <1>3, <1>5 DEF FwPair, Fw!None
<1> HIDE DEF es
<1>8. \A k \in Fw!Ids : FwTold(es[k], p, s) BY <1>3, <1>6, <1>7, FwToldNothing DEF FwEmpty
<1>9. FwFew(es) /\ ~FwNone(es) BY <1>3, <1>6, <1>7 DEF FwFew, FwEmpty, FwNone, FwPair, Fw!None
<1> QED BY <1>2, <1>5, <1>8, <1>9 DEF FwTells, ds, es

(* Nothing is on the way but call i: ended, or gone on to its next request. *)
FwAlone(i) == \A j \in Fw!Ids \ {i} : calls[j].fn = Fw!None

LEMMA FwIsAlone ==
  ASSUME FwTurn, NEW i \in Fw!Ids, calls[i].fn \notin {Fw!None, "tokens"},
         calls[i].fn = "targets" => calls[i].arg # "settings"
  PROVE  FwAlone(i)
BY DEF FwTurn, FwTells, FwFew, FwPair, FwAlone

LEMMA FwEnds ==
  ASSUME FwRest, NEW i \in Fw!Ids
  PROVE  /\ FwCalls(Fw!Ended(i)) /\ FwRoom(Fw!Ended(i))
         /\ FwTurn /\ FwAlone(i) => FwEmpty(Fw!Ended(i))
         /\ Fw!Free # {} /\ calls[i].fn # Fw!None => FwWide(Fw!Ended(i))
<1> DEFINE cs == Fw!Ended(i)
<1>1. cs[i] = Fw!NoCall /\ (\A j \in Fw!Ids \ {i} : cs[j] = calls[j]) /\ DOMAIN cs = Fw!Ids BY DEF FwRest, FwCalls, Fw!Ended
<1> HIDE DEF cs
<1>2. FwCalls(cs) /\ FwRoom(cs) BY <1>1, FwRequests DEF FwRest, FwCalls, FwRoom
<1>3. FwTurn /\ FwAlone(i) => FwEmpty(cs) BY <1>1, FwRequests DEF FwTurn, FwTells, FwTold, FwAlone, FwEmpty, Fw!None
<1>4. Fw!Free # {} /\ calls[i].fn # Fw!None => FwWide(cs) BY <1>1, FwRequests DEF FwWide, Fw!Free
<1> QED BY <1>2, <1>3, <1>4 DEF cs

LEMMA FwGoesOn ==
  ASSUME FwRest, NEW i \in Fw!Ids, NEW c, Fw!GoesOn(i, c)
  PROVE  /\ DOMAIN calls' = Fw!Ids /\ calls'[i] = c
         /\ \A j \in Fw!Ids \ {i} : calls'[j] = calls[j]
         /\ FwCall(c) => FwCalls(calls')
BY FwMoves DEF FwRest, FwCalls

LEMMA FwGoesOnAlone ==
  ASSUME FwRest, FwTurn, NEW i \in Fw!Ids, NEW c, Fw!GoesOn(i, c), FwAlone(i),
         FwTold(c, page', server'), c.fn = Fw!None => FwShown(page', server')
  PROVE  FwTells(calls', page', server')
<1>1. calls'[i] = c /\ \A j \in Fw!Ids \ {i} : calls'[j] = calls[j] BY FwGoesOn
<1>2. \A j \in Fw!Ids : FwTold(calls'[j], page', server') BY <1>1, FwToldNothing DEF FwTurn, FwTells, FwTold, FwAlone
<1>3. FwFew(calls') BY <1>1 DEF FwAlone, FwFew
<1>4. FwNone(calls') => FwShown(page', server') BY <1>1 DEF FwNone
<1> QED BY <1>2, <1>3, <1>4 DEF FwTells

LEMMA FwGoesOnBeside ==
  ASSUME FwRest, FwTurn, NEW i \in Fw!Ids, NEW c, Fw!GoesOn(i, c),
         c.fn = Fw!None \/ (c.fn = calls[i].fn /\ c.arg = calls[i].arg),
         \A j \in Fw!Ids \ {i} : FwTold(calls[j], page', server'),
         FwTold(c, page', server'), c.fn = Fw!None => FwShown(page', server')
  PROVE  FwTells(calls', page', server')
<1>1. calls'[i] = c /\ \A j \in Fw!Ids \ {i} : calls'[j] = calls[j] BY FwGoesOn
<1>2. \A j \in Fw!Ids : FwTold(calls'[j], page', server') BY <1>1
<1>3. FwFew(calls') BY <1>1 DEF FwTurn, FwTells, FwFew, FwPair
<1>4. FwNone(calls') => FwShown(page', server') BY <1>1 DEF FwNone
<1> QED BY <1>2, <1>3, <1>4 DEF FwTells

(* Who is selected is one of the targets, or nobody.                        *)
LEMMA SelectedIsTarget ==
  ASSUME PagesAreRight, NEW ts, FwTargets(ts) PROVE Fw!Selected(ts) \in Fw!Somebody
<1> DEFINE R == OpToRel(<, Nat)
           S == ts.rows
<1>1. S \subseteq Firewalls /\ S \subseteq Nat
  <2>1. Firewalls \subseteq Nat \ {Fw!Nobody} BY Zenon
  <2> QED BY <2>1 DEF FwTargets
<1>2. CASE S # {}
  <2>1. PICK d \in S : \A e \in S : <<e, d>> \notin R
    <3> HIDE DEF R
    <3>1. IsWellFoundedOn(R, Nat) BY NatLessThanWellFounded, Zenon DEF R
    <3> HIDE DEF S
    <3> QED BY <1>1, <1>2, <3>1, WFMin
  <2>2. \A e \in S : d <= e
    <3> HIDE DEF S
    <3>1. \A e \in S : ~(e < d) BY <1>1, <2>1 DEF OpToRel
    <3>2. d \in Nat /\ \A e \in S : e \in Nat
      <4> HIDE DEF R
      <4> QED BY <1>1
    <3> QED BY <3>1, <3>2
  <2>3. \E e \in S : \A f \in S : e <= f BY <2>2
  <2> DEFINE least == CHOOSE e \in S : \A f \in S : e <= f
  <2>4. least \in S BY <2>3
  <2>5. Fw!Selected(ts) \in {ts.active, least} BY <1>2 DEF Fw!Selected
  <2> HIDE DEF least
  <2> QED BY <1>1, <2>4, <2>5 DEF FwTargets, Fw!Somebody
<1>3. CASE S = {} BY <1>3 DEF Fw!Selected, Fw!Somebody
<1> QED BY <1>2, <1>3

(* What a view does: what is read of it is drawn, or a call for it begins.  *)
FwBase(p, s) == OfSelected(p, s) /\ KillIsSeen(p, s) /\ TableIsList(p)

LEMMA AskingKnows ==
  ASSUME NEW p, FwPage(p), NEW k \in Fw!Views, Fw!Asking(p, k)
  PROVE  LET c == Fw!Asks("dataset", [key |-> k, of |-> p.select])
         IN  /\ FwCall(c) /\ c.fn = "dataset" /\ c.at = "sent" /\ c.got = <<>>
             /\ c.arg.key = k /\ c.arg.of = p.select
<1> DEFINE a == [key |-> k, of |-> p.select]
           c == Fw!Asks("dataset", a)
<1>1. a.key = k /\ a.of = p.select /\ p.select \in Firewalls BY DEF Fw!Asking, FwPage, Fw!Somebody
<1> HIDE DEF a
<1>2. c.fn = "dataset" /\ c.at = "sent" /\ c.got = <<>> /\ c.arg = a BY FwRequests
<1> HIDE DEF c
<1>3. FwCall(c) BY <1>1, <1>2 DEF FwCall
<1> QED BY <1>1, <1>2, <1>3 DEF c, a

LEMMA LoadingHolds ==
  ASSUME PagesAreRight, NEW p, FwPage(p), NEW k \in Fw!Views, NEW cs, FwCalls(cs), FwRoom(cs)
  PROVE  FwPage(Fw!Loading(p, k)) /\ FwCalls(Fw!LoadCalls(p, cs, k))
<1>1. CASE Fw!Asking(p, k) BY <1>1, AskingKnows, FwAdds DEF Fw!Loading, Fw!LoadCalls
<1>2. CASE ~Fw!Asking(p, k) BY <1>2 DEF Fw!Loading, Fw!LoadCalls, FwPage
<1> QED BY <1>1, <1>2

LEMMA LoadingTells ==
  ASSUME PagesAreRight, NEW p, FwPage(p), NEW k \in Fw!Views, NEW cs, FwCalls(cs), FwRoom(cs), FwEmpty(cs), NEW s,
         OfSelected(p, s), TilesOfSelected(p, s), TableIsList(p),
         KillIsSeen(p, s) \/ (k = "sessions" /\ Fw!Asking(p, k)), ShownIsRead(p) \/ k = p.view
  PROVE  FwTells(Fw!LoadCalls(p, cs, k), Fw!Loading(p, k), s)
<1>1. CASE Fw!Asking(p, k)
  <2> DEFINE c == Fw!Asks("dataset", [key |-> k, of |-> p.select])
  <2>1. c.fn = "dataset" /\ c.at = "sent" /\ c.got = <<>> /\ c.arg.key = k /\ c.arg.of = p.select BY <1>1, AskingKnows
  <2>2. Fw!LoadCalls(p, cs, k) = Fw!Begun(cs, c) /\ Fw!Loading(p, k) = p BY <1>1 DEF Fw!LoadCalls, Fw!Loading
  <2> HIDE DEF c
  <2>3. FwTold(c, p, s) /\ c.fn # Fw!None BY <2>1 DEF FwTold, Selecting, Fw!None
  <2> QED BY <2>2, <2>3, FwTellsOne
<1>2. CASE ~Fw!Asking(p, k)
  <2> DEFINE q == [p EXCEPT !.shown[k] = Fw!Nobody]
  <2>1. Fw!LoadCalls(p, cs, k) = cs /\ Fw!Loading(p, k) = q BY <1>2 DEF Fw!LoadCalls, Fw!Loading
  <2>2. FwShown(q, s) BY <1>2 DEF FwPage, FwShown, OfSelected, TilesOfSelected, ShownIsRead, KillIsSeen, TableIsList
  <2> HIDE DEF q
  <2> QED BY <2>1, <2>2, FwTellsNone
<1> QED BY <1>1, <1>2

LEMMA PickingHolds ==
  ASSUME PagesAreRight, NEW p, FwPage(p), NEW k \in Fw!Views, NEW cs, FwCalls(cs), FwRoom(cs)
  PROVE  FwPage(Fw!Picked(p, k)) /\ FwCalls(Fw!PickCalls(p, cs, k))
<1> DEFINE q == [p EXCEPT !.view = k]
<1>1. FwPage(q) /\ q.data = p.data /\ q.select = p.select /\ q.filled = p.filled BY DEF FwPage
<1>2. Fw!Picked(p, k) = IF q.data[k].got THEN [q EXCEPT !.shown[k] = q.data[k].of] ELSE Fw!Loading(q, k) BY DEF Fw!Picked
<1>3. Fw!PickCalls(p, cs, k) = IF q.data[k].got THEN cs ELSE Fw!LoadCalls(q, cs, k)
  BY <1>1 DEF Fw!PickCalls, Fw!LoadCalls, Fw!Asking
<1> HIDE DEF q
<1>4. CASE q.data[k].got BY <1>1, <1>2, <1>3, <1>4 DEF FwPage
<1>5. CASE ~q.data[k].got BY <1>1, <1>2, <1>3, <1>5, LoadingHolds
<1> QED BY <1>4, <1>5

LEMMA PickingTells ==
  ASSUME PagesAreRight, NEW p, FwPage(p), p.pane # "overview", NEW k \in Fw!Views,
         NEW cs, FwCalls(cs), FwRoom(cs), FwEmpty(cs), NEW s, FwBase(p, s)
  PROVE  FwTells(Fw!PickCalls(p, cs, k), Fw!Picked(p, k), s)
<1> DEFINE q == [p EXCEPT !.view = k]
<1>1. /\ FwPage(q) /\ q.data = p.data /\ q.select = p.select /\ q.filled = p.filled /\ q.view = k /\ q.pane # "overview"
      /\ FwBase(q, s)
  BY DEF FwPage, FwBase, OfSelected, KillIsSeen, TableIsList
<1>2. Fw!Picked(p, k) = IF q.data[k].got THEN [q EXCEPT !.shown[k] = q.data[k].of] ELSE Fw!Loading(q, k) BY DEF Fw!Picked
<1>3. Fw!PickCalls(p, cs, k) = IF q.data[k].got THEN cs ELSE Fw!LoadCalls(q, cs, k)
  BY <1>1 DEF Fw!PickCalls, Fw!LoadCalls, Fw!Asking
<1> HIDE DEF q
<1>4. CASE q.data[k].got
  <2> DEFINE r == [q EXCEPT !.shown[k] = q.data[k].of]
  <2>1. FwShown(r, s) BY <1>1 DEF FwPage, FwBase, FwShown, OfSelected, TilesOfSelected, ShownIsRead, KillIsSeen, TableIsList
  <2> HIDE DEF r
  <2>2. Fw!Picked(p, k) = r /\ Fw!PickCalls(p, cs, k) = cs BY <1>2, <1>3, <1>4 DEF r
  <2> QED BY <2>1, <2>2, FwTellsNone
<1>5. CASE ~q.data[k].got
  <2>1. TilesOfSelected(q, s) BY <1>1 DEF TilesOfSelected
  <2> QED BY <1>1, <1>2, <1>3, <1>5, <2>1, LoadingTells DEF FwBase
<1> QED BY <1>4, <1>5

LEMMA DefaultIsView ==
  ASSUME NEW v \in Fw!Panes \ {"overview", "settings"}
  PROVE  v \in DOMAIN Fw!Default /\ Fw!Default[v] \in Fw!Views
BY DEF Fw!Panes, Fw!Default, Fw!Views, Fw!PaneOf

LEMMA SwitchingHolds ==
  ASSUME PagesAreRight, NEW p, FwPage(p), NEW v \in Fw!Panes, NEW cs, FwCalls(cs), FwWide(cs)
  PROVE  FwPage(Fw!Switched(p, v)) /\ FwCalls(Fw!SwitchCalls(p, cs, v))
<1> DEFINE q == [p EXCEPT !.pane = v]
<1>1. FwPage(q) /\ q.data = p.data /\ q.select = p.select /\ q.filled = p.filled BY DEF FwPage
<1>2. FwRoom(cs) BY DEF FwWide, FwRoom
<1>3. CASE v = "overview"
  <2>1. Fw!Switched(p, v) = [q EXCEPT !.view = "resources", !.tiles = IF q.select = Fw!Nobody THEN Fw!Nobody ELSE @]
    BY <1>3 DEF Fw!Switched
  <2> HIDE DEF q
  <2>2. FwPage(Fw!Switched(p, v)) BY <1>1, <2>1 DEF FwPage, Fw!Views, Fw!PaneOf
  <2>3. p.select # Fw!Nobody => FwCall(Fw!Asks("status", p.select))
    <3>1. p.select # Fw!Nobody => p.select \in Firewalls BY DEF FwPage, Fw!Somebody
    <3> QED BY <3>1, FwRequests DEF FwCall
  <2>4. Fw!SwitchCalls(p, cs, v) = IF p.select = Fw!Nobody THEN cs ELSE Fw!Begun(cs, Fw!Asks("status", p.select))
    BY <1>3 DEF Fw!SwitchCalls
  <2> QED BY <1>2, <2>2, <2>3, <2>4, FwAdds
<1>4. CASE v = "settings"
  <2>1. Fw!Switched(p, v) = q BY <1>4 DEF Fw!Switched
  <2>2. FwCall(Fw!Asks("tokens", Fw!None)) /\ FwCall(Fw!Asks("targets", "settings")) BY FwRequests DEF FwCall
  <2>3. Fw!SwitchCalls(p, cs, v) =
          Fw!Begun(Fw!Begun(cs, Fw!Asks("tokens", Fw!None)), Fw!Asks("targets", "settings"))
    BY <1>4 DEF Fw!SwitchCalls
  <2> HIDE DEF q
  <2> QED BY <1>1, <1>2, <2>1, <2>2, <2>3, FwAdds
<1>5. CASE v \notin {"overview", "settings"}
  <2>1. Fw!Default[v] \in Fw!Views BY <1>5, DefaultIsView
  <2>2. Fw!Switched(p, v) = Fw!Picked(q, Fw!Default[v]) BY <1>5 DEF Fw!Switched
  <2>3. Fw!SwitchCalls(p, cs, v) = Fw!PickCalls(q, cs, Fw!Default[v])
    BY <1>1, <1>5 DEF Fw!SwitchCalls, Fw!PickCalls, Fw!LoadCalls, Fw!Asking
  <2> HIDE DEF q
  <2> QED BY <1>1, <1>2, <2>1, <2>2, <2>3, PickingHolds
<1> QED BY <1>3, <1>4, <1>5

LEMMA SwitchingTells ==
  ASSUME PagesAreRight, NEW p, FwPage(p), ~p.modal, NEW v \in Fw!Panes, NEW cs, FwCalls(cs), FwWide(cs), FwEmpty(cs),
         NEW s, FwBase(p, s)
  PROVE  FwTells(Fw!SwitchCalls(p, cs, v), Fw!Switched(p, v), s)
<1> DEFINE q == [p EXCEPT !.pane = v]
<1>1. /\ FwPage(q) /\ q.data = p.data /\ q.select = p.select /\ q.filled = p.filled /\ q.pane = v /\ ~q.modal
      /\ FwBase(q, s)
  BY DEF FwPage, FwBase, OfSelected, KillIsSeen, TableIsList
<1>2. FwRoom(cs) BY DEF FwWide, FwRoom
<1>3. CASE v = "overview"
  <2> DEFINE t == IF q.select = Fw!Nobody THEN Fw!Nobody ELSE q.tiles
             r == [q EXCEPT !.view = "resources", !.tiles = t]
  <2>1. Fw!Switched(p, v) = r BY <1>3 DEF Fw!Switched
  <2>2. q.select = Fw!Nobody => t = Fw!Nobody OBVIOUS
  <2> HIDE DEF q, t
  <2>3. /\ OfSelected(r, s) /\ KillIsSeen(r, s) /\ TableIsList(r) /\ ShownIsRead(r) /\ r.select = q.select /\ r.modal = q.modal
        /\ q.select = Fw!Nobody => TilesOfSelected(r, s)
    BY <1>1, <1>3, <2>2 DEF FwPage, FwBase, OfSelected, TilesOfSelected, ShownIsRead, KillIsSeen, TableIsList, Fw!Default
  <2> HIDE DEF r
  <2>4. CASE p.select = Fw!Nobody
    <3>1. Fw!SwitchCalls(p, cs, v) = cs BY <1>3, <2>4 DEF Fw!SwitchCalls
    <3> QED BY <1>1, <2>1, <2>3, <2>4, <3>1, FwTellsNone DEF FwShown
  <2>5. CASE p.select # Fw!Nobody
    <3>1. Fw!SwitchCalls(p, cs, v) = Fw!Begun(cs, Fw!Asks("status", p.select)) BY <1>3, <2>5 DEF Fw!SwitchCalls
    <3> DEFINE c == Fw!Asks("status", p.select)
    <3>2. c.fn = "status" /\ c.at = "sent" /\ c.got = <<>> /\ c.arg = p.select BY FwRequests
    <3> HIDE DEF c
    <3>3. FwTold(c, r, s) /\ c.fn # Fw!None BY <1>1, <2>3, <3>2 DEF FwTold, Fw!None
    <3> QED BY <1>2, <2>1, <3>1, <3>3, FwTellsOne DEF c
  <2> QED BY <2>4, <2>5
<1>4. CASE v = "settings"
  <2> DEFINE c == Fw!Asks("tokens", Fw!None)
             d == Fw!Asks("targets", "settings")
  <2>1. Fw!Switched(p, v) = q /\ Fw!SwitchCalls(p, cs, v) = Fw!Begun(Fw!Begun(cs, c), d) BY <1>4 DEF Fw!Switched, Fw!SwitchCalls
  <2>2. /\ c.fn = "tokens" /\ c.at = "sent" /\ c.got = <<>>
        /\ d.fn = "targets" /\ d.at = "sent" /\ d.got = <<>> /\ d.arg = "settings"
    BY FwRequests
  <2> HIDE DEF q, c, d
  <2>3. TilesOfSelected(q, s) /\ ShownIsRead(q) BY <1>1, <1>4 DEF TilesOfSelected, ShownIsRead, Fw!Default
  <2>4. FwTold(c, q, s) /\ FwTold(d, q, s) /\ FwPair(c, d) BY <1>1, <2>2, <2>3 DEF FwTold, FwBase, FwPair
  <2>5. FwCall(c) BY <2>2 DEF FwCall
  <2> QED BY <2>1, <2>4, <2>5, FwTellsTwo
<1>5. CASE v \notin {"overview", "settings"}
  <2>1. Fw!Default[v] \in Fw!Views BY <1>5, DefaultIsView
  <2>2. Fw!Switched(p, v) = Fw!Picked(q, Fw!Default[v]) BY <1>5 DEF Fw!Switched
  <2>3. Fw!SwitchCalls(p, cs, v) = Fw!PickCalls(q, cs, Fw!Default[v])
    BY <1>1, <1>5 DEF Fw!SwitchCalls, Fw!PickCalls, Fw!LoadCalls, Fw!Asking
  <2> HIDE DEF q
  <2> QED BY <1>1, <1>2, <1>5, <2>1, <2>2, <2>3, PickingTells
<1> QED BY <1>3, <1>4, <1>5

LEMMA FwClickWaits ==
  ASSUME FwInv, Fw!MayClick
  PROVE  /\ FwPage(page) /\ FwServer(server) /\ FwCalls(calls) /\ FwWide(calls) /\ FwRoom(calls)
         /\ inTurn => FwEmpty(calls) /\ FwShown(page, server)
<1>1. FwWide(calls) BY DEF Fw!MayClick, Fw!Free, FwWide
<1>2. inTurn => FwEmpty(calls) /\ FwShown(page, server)
  BY DEF FwInv, FwTurn, FwTells, FwTold, FwNone, FwEmpty, Fw!MayClick, Fw!Quiet
<1> QED BY <1>1, <1>2 DEF FwInv, FwRest, FwWide, FwRoom

LEMMA FwClickedServer ==
  ASSUME FwServer(server), Fw!Clicked
  PROVE  FwServer(server') /\ server'.kept = server.kept /\ server'.kills = server.kills
BY DEF FwServer, Fw!Clicked

LEMMA FwShownAlike ==
  ASSUME NEW p, NEW q, NEW s, NEW t, t.kept = s.kept, t.kills = s.kills,
         q.pane = p.pane, q.view = p.view, q.targets = p.targets, q.select = p.select, q.data = p.data, q.shown = p.shown,
         q.tiles = p.tiles
  PROVE  /\ OfSelected(p, s) => OfSelected(q, t)
         /\ TilesOfSelected(p, s) => TilesOfSelected(q, t)
         /\ ShownIsRead(p) => ShownIsRead(q)
         /\ KillIsSeen(p, s) => KillIsSeen(q, t)
         /\ q.modal = p.modal /\ q.table = p.table /\ q.tested = p.tested => (TableIsList(p) => TableIsList(q))
BY DEF OfSelected, TilesOfSelected, ShownIsRead, KillIsSeen, TableIsList

(* A click that begins no call, and one that begins one.                    *)
LEMMA FwClickOnly ==
  ASSUME PagesAreRight, FwInv, UNCHANGED inTurn, Fw!MayClick, Fw!Clicked, UNCHANGED calls, FwPage(page'),
         inTurn => FwShown(page', server')
  PROVE  FwInv'
BY FwClickWaits, FwClickedServer, FwNext, FwTellsNone

LEMMA FwClickStarts ==
  ASSUME PagesAreRight, FwInv, UNCHANGED inTurn, Fw!MayClick, Fw!Clicked, FwPage(page'),
         NEW c, Fw!Starts(c), FwCall(c), c.fn # Fw!None, inTurn => FwTold(c, page', server')
  PROVE  FwInv'
<1>1. calls' = Fw!Begun(calls, c) BY DEF Fw!Starts
<1>2. FwCalls(calls') BY <1>1, FwClickWaits, FwAdds
<1>3. inTurn => FwTells(calls', page', server') BY <1>1, FwClickWaits, FwTellsOne
<1> QED BY <1>2, <1>3, FwClickWaits, FwClickedServer, FwNext

LEMMA FwClickAsks ==
  ASSUME PagesAreRight, FwInv, UNCHANGED <<inTurn, page>>, Fw!MayClick, Fw!Clicked,
         NEW fn \in {"targets", "active", "kill", "prevToken", "new", "put", "test"}, NEW arg, Fw!Starts(Fw!Asks(fn, arg)),
         FwCall(Fw!Asks(fn, arg)),
         fn = "targets" => ~page.modal, fn = "active" /\ arg.then = "select" => ~page.modal,
         fn = "test" => arg.of \in page.table, fn = "kill" => arg = page.select
  PROVE  FwInv'
<1> DEFINE c == Fw!Asks(fn, arg)
<1>1. c.fn = fn /\ c.at = "sent" /\ c.got = <<>> /\ c.arg = arg BY FwRequests
<1> HIDE DEF c
<1>2. inTurn => FwShown(page', server')
  <2>1. FwServer(server) /\ (inTurn => FwShown(page, server)) BY FwClickWaits
  <2> QED BY <2>1, FwClickedServer, FwShownAlike DEF FwShown
<1>3. inTurn => FwTold(c, page', server') BY <1>1, <1>2 DEF FwTold, FwShown, Selecting
<1>4. c.fn # Fw!None /\ FwPage(page') BY <1>1, FwClickWaits DEF Fw!None
<1> QED BY <1>3, <1>4, FwClickStarts DEF c

LEMMA FwTabClicksKeep ==
  ASSUME PagesAreRight, FwInv, UNCHANGED inTurn,
         \/ Fw!OpenTab \/ Fw!FillForm \/ Fw!KillSessions \/ Fw!OpenManager
         \/ \E v \in Fw!Panes : Fw!SwitchView(v)
         \/ \E k \in Fw!Views : Fw!PickView(k) \/ Fw!Refresh(k)
         \/ \E d \in Firewalls : Fw!SelectTarget(d)
  PROVE  FwInv'
<1>1. Fw!OnTab /\ Fw!MayClick /\ Fw!Clicked /\ ~page.modal
  <2>1. Fw!OnTab /\ Fw!Clicked
    BY Zenon DEF Fw!OpenTab, Fw!FillForm, Fw!KillSessions, Fw!OpenManager, Fw!SwitchView, Fw!PickView, Fw!Refresh, Fw!SelectTarget
  <2> QED BY <2>1 DEF Fw!OnTab
<1>2. /\ FwPage(page) /\ FwServer(server) /\ FwCalls(calls) /\ FwWide(calls) /\ FwRoom(calls)
      /\ inTurn => FwEmpty(calls) /\ FwShown(page, server)
  BY <1>1, FwClickWaits
<1>3. FwServer(server') /\ server'.kept = server.kept /\ server'.kills = server.kills BY <1>1, <1>2, FwClickedServer
<1>4. inTurn => FwShown(page, server') BY <1>2, <1>3, FwShownAlike DEF FwShown
<1>5. CASE Fw!OpenTab
  <2>1. Fw!Starts(Fw!Asks("targets", "tab")) /\ UNCHANGED page BY <1>5, Zenon DEF Fw!OpenTab
  <2>2. FwCall(Fw!Asks("targets", "tab")) BY FwRequests DEF FwCall
  <2> QED BY <1>1, <2>1, <2>2, FwClickAsks
<1>6. CASE Fw!FillForm
  <2>1. page' = [page EXCEPT !.filled = ~@] /\ UNCHANGED calls BY <1>6, Zenon DEF Fw!FillForm
  <2>2. FwPage(page') /\ (inTurn => FwShown(page', server')) BY <1>2, <1>4, <2>1, FwShownAlike DEF FwPage, FwShown
  <2> QED BY <1>1, <2>1, <2>2, FwClickOnly
<1>7. CASE Fw!KillSessions
  <2>1. Fw!Starts(Fw!Asks("kill", page.select)) /\ UNCHANGED page /\ page.select # Fw!Nobody BY <1>7, Zenon DEF Fw!KillSessions
  <2>2. page.select \in Firewalls BY <1>2, <2>1 DEF FwPage, Fw!Somebody
  <2>3. FwCall(Fw!Asks("kill", page.select)) BY <2>2, FwRequests DEF FwCall
  <2> QED BY <1>1, <2>1, <2>3, FwClickAsks
<1>8. CASE Fw!OpenManager
  <2>1. /\ page' = [page EXCEPT !.modal = TRUE, !.form = Fw!NoForm, !.table = page.targets.rows, !.drawn = 1 - @, !.tested = {}]
        /\ UNCHANGED calls
    BY <1>8, Zenon DEF Fw!OpenManager
  <2>2. FwForm(Fw!NoForm) BY DEF FwForm, Fw!NoForm, Fw!Somebody
  <2>3. FwPage(page') BY <1>2, <2>1, <2>2 DEF FwPage, FwTargets
  <2>4. inTurn => FwShown(page', server')
    BY <1>2, <1>4, <2>1 DEF FwPage, FwShown, OfSelected, TilesOfSelected, ShownIsRead, KillIsSeen, TableIsList
  <2> QED BY <1>1, <2>1, <2>3, <2>4, FwClickOnly
<1>9. ASSUME NEW v \in Fw!Panes, Fw!SwitchView(v) PROVE FwInv'
  <2>1. page' = Fw!Switched(page, v) /\ calls' = Fw!SwitchCalls(page, calls, v) BY <1>9, Zenon DEF Fw!SwitchView
  <2>2. FwPage(page') /\ FwCalls(calls') BY <1>2, <2>1, SwitchingHolds
  <2>3. inTurn => FwTells(calls', page', server') BY <1>1, <1>2, <1>4, <2>1, SwitchingTells DEF FwShown, FwBase
  <2> QED BY <1>3, <2>2, <2>3, FwNext
<1>10. ASSUME NEW k \in Fw!Views, Fw!PickView(k) PROVE FwInv'
  <2>1. page' = Fw!Picked(page, k) /\ calls' = Fw!PickCalls(page, calls, k) /\ page.pane \in DOMAIN Fw!Default
    BY <1>10, Zenon DEF Fw!PickView
  <2>2. FwPage(page') /\ FwCalls(calls') BY <1>2, <2>1, PickingHolds
  <2>3. page.pane # "overview" BY <2>1 DEF Fw!Default
  <2>4. inTurn => FwTells(calls', page', server') BY <1>2, <1>4, <2>1, <2>3, PickingTells DEF FwShown, FwBase
  <2> QED BY <1>3, <2>2, <2>4, FwNext
<1>11. ASSUME NEW k \in Fw!Views, Fw!Refresh(k) PROVE FwInv'
  <2>1. page' = Fw!Loading(page, k) /\ calls' = Fw!LoadCalls(page, calls, k) BY <1>11, Zenon DEF Fw!Refresh
  <2>2. FwPage(page') /\ FwCalls(calls') BY <1>2, <2>1, LoadingHolds
  <2>3. inTurn => FwTells(calls', page', server') BY <1>2, <1>4, <2>1, LoadingTells DEF FwShown
  <2> QED BY <1>3, <2>2, <2>3, FwNext
<1>12. ASSUME NEW d \in Firewalls, Fw!SelectTarget(d) PROVE FwInv'
  <2> DEFINE a == [of |-> d, then |-> "select"]
             c == Fw!Asks("active", a)
  <2>1. page' = [page EXCEPT !.select = d] /\ Fw!Starts(c) BY <1>12, Zenon DEF Fw!SelectTarget
  <2>2. a.of = d /\ a.then = "select" OBVIOUS
  <2> HIDE DEF a
  <2>3. c.fn = "active" /\ c.at = "sent" /\ c.got = <<>> /\ c.arg = a BY FwRequests
  <2> HIDE DEF c
  <2>4. FwCall(c) /\ c.fn # Fw!None BY <2>2, <2>3 DEF FwCall, Fw!None
  <2>5. FwPage(page') /\ page'.modal = page.modal BY <1>2, <2>1 DEF FwPage, Fw!Somebody
  <2>6. inTurn => ShownIsRead(page') /\ KillIsSeen(page', server') /\ TableIsList(page')
    BY <1>2, <1>4, <2>1 DEF FwPage, FwShown, ShownIsRead, KillIsSeen, TableIsList
  <2>7. inTurn => FwTold(c, page', server') BY <1>1, <2>2, <2>3, <2>5, <2>6 DEF FwTold, Selecting
  <2> QED BY <1>1, <2>1, <2>4, <2>5, <2>7, FwClickStarts
<1> QED BY <1>5, <1>6, <1>7, <1>8, <1>9, <1>10, <1>11, <1>12

LEMMA FwFormClicksKeep ==
  ASSUME PagesAreRight, FwInv, UNCHANGED inTurn,
         \/ Fw!CloseManager \/ Fw!SaveTarget
         \/ \E keep \in BOOLEAN : Fw!SavePrevToken(keep)
         \/ \E d \in Firewalls :
              \/ Fw!ActivateTarget(d) \/ Fw!TypePrevToken(d) \/ Fw!EditTarget(d) \/ Fw!TypeToken(d)
              \/ Fw!DeleteTarget(d) \/ Fw!TestTarget(d)
  PROVE  FwInv'
<1>1. Fw!MayClick /\ Fw!Clicked
  BY Zenon DEF Fw!CloseManager, Fw!SaveTarget, Fw!SavePrevToken, Fw!ActivateTarget, Fw!TypePrevToken, Fw!EditTarget, Fw!TypeToken,
     Fw!DeleteTarget, Fw!TestTarget, Fw!OnTab, Fw!InModal
<1>2. /\ FwPage(page) /\ FwServer(server) /\ FwCalls(calls) /\ FwRoom(calls)
      /\ inTurn => FwEmpty(calls) /\ FwShown(page, server)
  BY <1>1, FwClickWaits
<1>3. FwServer(server') /\ server'.kept = server.kept /\ server'.kills = server.kills BY <1>1, <1>2, FwClickedServer
<1>4. inTurn => FwShown(page, server') BY <1>2, <1>3, FwShownAlike DEF FwShown
<1>5. Firewalls \subseteq Fw!Somebody /\ Fw!Nobody \in Fw!Somebody BY DEF Fw!Somebody
<1>6. ASSUME UNCHANGED calls, NEW p, page' = p, NEW f, FwForm(f),
             p = [page EXCEPT !.form = f] \/ p = [page EXCEPT !.prev = f] \/ p = [page EXCEPT !.modal = FALSE]
      PROVE  FwInv'
  <2>1. FwPage(p) BY <1>2, <1>6 DEF FwPage
  <2>2. inTurn => FwShown(p, server')
    BY <1>2, <1>4, <1>6 DEF FwPage, FwShown, OfSelected, TilesOfSelected, ShownIsRead, KillIsSeen, TableIsList
  <2> QED BY <1>1, <1>6, <2>1, <2>2, FwClickOnly
<1>7. CASE Fw!CloseManager
  <2>1. page' = [page EXCEPT !.modal = FALSE] /\ UNCHANGED calls BY <1>7, Zenon DEF Fw!CloseManager
  <2>2. FwForm(page.form) BY <1>2 DEF FwPage
  <2> QED BY <1>6, <2>1, <2>2
<1>8. ASSUME NEW d \in Firewalls, Fw!TypePrevToken(d) PROVE FwInv'
  <2> DEFINE f == [Fw!NoForm EXCEPT !.ip = d, !.tok = d]
  <2>1. page' = [page EXCEPT !.prev = f] /\ UNCHANGED calls BY <1>8, Zenon DEF Fw!TypePrevToken
  <2>2. FwForm(f) BY <1>5 DEF FwForm, Fw!NoForm
  <2> HIDE DEF f
  <2> QED BY <1>6, <2>1, <2>2
<1>9. ASSUME NEW d \in Firewalls, Fw!EditTarget(d) PROVE FwInv'
  <2> DEFINE f == [edit |-> d, ip |-> d, tok |-> Fw!Nobody]
  <2>1. page' = [page EXCEPT !.form = f] /\ UNCHANGED calls BY <1>9, Zenon DEF Fw!EditTarget
  <2>2. FwForm(f) BY <1>5 DEF FwForm
  <2> HIDE DEF f
  <2> QED BY <1>6, <2>1, <2>2
<1>10. ASSUME NEW d \in Firewalls, Fw!TypeToken(d) PROVE FwInv'
  <2> DEFINE f == [page.form EXCEPT !.ip = d, !.tok = d]
  <2>1. page' = [page EXCEPT !.form.ip = d, !.form.tok = d] /\ UNCHANGED calls /\ page.form.edit \in {Fw!Nobody, d}
    BY <1>10, Zenon DEF Fw!TypeToken
  <2>2. FwForm(f) /\ page' = [page EXCEPT !.form = f] BY <1>2, <1>5, <2>1 DEF FwForm, FwPage
  <2> HIDE DEF f
  <2> QED BY <1>6, <2>1, <2>2
<1>11. CASE Fw!SaveTarget
  <2> DEFINE fn == IF page.form.edit = Fw!Nobody THEN "new" ELSE "put"
  <2>1. page.form.ip # Fw!Nobody /\ Fw!Starts(Fw!Asks(fn, page.form)) /\ UNCHANGED page BY <1>11, Zenon DEF Fw!SaveTarget
  <2>2. fn \in {"new", "put"} /\ (fn = "put" => page.form.edit = page.form.ip) /\ FwForm(page.form) /\ page.form.ip \in Firewalls
    BY <1>2, <2>1 DEF FwPage, FwForm, Fw!Somebody
  <2> HIDE DEF fn
  <2>3. FwCall(Fw!Asks(fn, page.form)) BY <2>2, FwRequests DEF FwCall
  <2> QED BY <1>1, <2>1, <2>2, <2>3, FwClickAsks
<1>12. ASSUME NEW keep \in BOOLEAN, Fw!SavePrevToken(keep) PROVE FwInv'
  <2> DEFINE a == [ip |-> page.prev.ip, tok |-> IF keep THEN page.prev.tok ELSE Fw!Nobody]
  <2>1. page.prev.ip # Fw!Nobody /\ Fw!Starts(Fw!Asks("prevToken", a)) /\ UNCHANGED page BY <1>12, Zenon DEF Fw!SavePrevToken
  <2>2. a.ip \in Firewalls /\ a.tok \in {Fw!Nobody, a.ip} BY <1>2, <2>1 DEF FwPage, FwForm, Fw!Somebody
  <2> HIDE DEF a
  <2>3. FwCall(Fw!Asks("prevToken", a)) BY <2>2, FwRequests DEF FwCall
  <2> QED BY <1>1, <2>1, <2>3, FwClickAsks
<1>13. ASSUME NEW d \in Firewalls, Fw!ActivateTarget(d) PROVE FwInv'
  <2> DEFINE a == [of |-> d, then |-> "modal"]
  <2>1. Fw!Starts(Fw!Asks("active", a)) /\ UNCHANGED page BY <1>13, Zenon DEF Fw!ActivateTarget
  <2>2. a.of = d /\ a.then = "modal" OBVIOUS
  <2> HIDE DEF a
  <2>3. FwCall(Fw!Asks("active", a)) BY <2>2, FwRequests DEF FwCall
  <2> QED BY <1>1, <2>1, <2>2, <2>3, FwClickAsks
<1>14. ASSUME NEW d \in Firewalls, Fw!DeleteTarget(d) PROVE FwInv'
  <2> DEFINE a == [Fw!NoForm EXCEPT !.ip = d]
  <2>1. Fw!Starts(Fw!Asks("new", a)) /\ UNCHANGED page BY <1>14, Zenon DEF Fw!DeleteTarget
  <2>2. FwForm(a) /\ a.ip = d BY <1>5 DEF FwForm, Fw!NoForm
  <2> HIDE DEF a
  <2>3. FwCall(Fw!Asks("new", a)) BY <2>2, FwRequests DEF FwCall
  <2> QED BY <1>1, <2>1, <2>3, FwClickAsks
<1>15. ASSUME NEW d \in Firewalls, Fw!TestTarget(d) PROVE FwInv'
  <2> DEFINE a == [of |-> d, drawn |-> page.drawn]
  <2>1. Fw!Starts(Fw!Asks("test", a)) /\ UNCHANGED page /\ d \in page.table BY <1>15, Zenon DEF Fw!TestTarget
  <2>2. a.of = d OBVIOUS
  <2> HIDE DEF a
  <2>3. FwCall(Fw!Asks("test", a)) BY <2>2, FwRequests DEF FwCall
  <2> QED BY <1>1, <2>1, <2>2, <2>3, FwClickAsks
<1> QED BY <1>7, <1>8, <1>9, <1>10, <1>11, <1>12, <1>13, <1>14, <1>15

LEMMA FwStays ==
  ASSUME FwRest, NEW i \in Fw!Ids
  PROVE  /\ Fw!Ends(i) => Fw!GoesOn(i, Fw!NoCall) /\ calls' = Fw!Ended(i)
         /\ FwPage(page) /\ FwServer(server) /\ FwCall(calls[i])
         /\ FwTurn => FwTold(calls[i], page, server)
BY FwSteps DEF FwRest, FwCalls, FwTurn, FwTells, Fw!Ends

(* Call i, alone, ends or goes on, and what the others left is as it was.   *)
LEMMA FwContinues ==
  ASSUME PagesAreRight, FwInv, UNCHANGED inTurn, NEW i \in Fw!Ids, FwPage(page'), FwServer(server'),
         inTurn => FwAlone(i),
         \/ Fw!Ends(i) /\ (inTurn => FwShown(page', server'))
         \/ \E c : /\ Fw!GoesOn(i, c) /\ FwCall(c) /\ c.fn # Fw!None
                   /\ inTurn => FwTold(c, page', server')
  PROVE  FwInv'
<1>1. FwRest /\ (inTurn => FwTurn) BY DEF FwInv
<1>2. CASE Fw!Ends(i) /\ (inTurn => FwShown(page', server'))
  <2>1. Fw!GoesOn(i, Fw!NoCall) /\ FwCall(Fw!NoCall) BY <1>1, <1>2, FwStays, FwRequests
  <2>2. FwTold(Fw!NoCall, page', server') BY FwRequests, FwToldNothing
  <2>3. inTurn => FwTells(calls', page', server') BY <1>1, <1>2, <2>1, <2>2, FwGoesOnAlone
  <2> QED BY <1>1, <2>1, <2>3, FwGoesOn, FwNext
<1>3. ASSUME NEW c, Fw!GoesOn(i, c), FwCall(c), c.fn # Fw!None, inTurn => FwTold(c, page', server')
      PROVE  FwInv'
  <2>1. inTurn => FwTells(calls', page', server') BY <1>1, <1>3, FwGoesOnAlone
  <2> QED BY <1>1, <1>3, <2>1, FwGoesOn, FwNext
<1> QED BY <1>2, <1>3

(* Any other request than one of the two that open the settings is alone,   *)
(* and while it does not select or load, all that is shown is true.         *)
LEMMA FwBackIsTrue ==
  ASSUME FwInv, inTurn, NEW i \in Fw!Ids, calls[i].fn \in {"prevToken", "new", "put", "test"}
  PROVE  FwAlone(i) /\ FwShown(page, server)
<1>1. FwAlone(i) BY FwIsAlone DEF FwInv, Fw!None
<1>2. FwTold(calls[i], page, server) BY DEF FwInv, FwTurn, FwTells
<1> QED BY <1>1, <1>2 DEF FwTold, FwShown, Selecting, Fw!None

LEMMA FwReadsKeep ==
  ASSUME PagesAreRight, FwInv, UNCHANGED inTurn, NEW i \in Fw!Ids,
         Fw!DatasetShown(i) \/ Fw!OverviewShown(i) \/ Fw!SessionsKilled(i)
  PROVE  FwInv'
<1> USE DEF Fw!DatasetShown, Fw!OverviewShown, Fw!SessionsKilled, Fw!Back, Fw!None, Fw!Answered, Fw!Answer, FwTold, Selecting,
    FwPage, Fw!Views, Fw!PaneOf
<1>1. /\ FwRest /\ FwPage(page) /\ FwServer(server) /\ FwCall(calls[i]) /\ UNCHANGED server
      /\ inTurn => FwTurn /\ FwTold(calls[i], page, server)
  BY FwStays DEF FwInv
<1>2. inTurn => FwAlone(i) BY <1>1, FwIsAlone
<1>3. /\ FwCalls(Fw!Ended(i)) /\ FwRoom(Fw!Ended(i))
      /\ inTurn => FwEmpty(Fw!Ended(i))
  BY <1>1, <1>2, FwEnds
<1>4. CASE Fw!DatasetShown(i)
  <2> DEFINE k == calls[i].arg.key
             got == IF Fw!Answered(i) THEN Fw!Answer(i) ELSE Fw!Failed
  <2>1. calls[i].fn = "dataset" /\ Fw!Ends(i) /\ page' = [page EXCEPT !.data[k] = got, !.shown[k] = got.of] BY <1>4, Zenon
  <2>2. DOMAIN Fw!Failed = {"got", "of", "at"} /\ Fw!Failed.got = TRUE /\ Fw!Failed.of = Fw!Nobody BY DEF Fw!Failed, Fw!Unread
  <2>3. k \in Fw!Views /\ FwData(got) BY <1>1, <2>1, <2>2 DEF FwCall, FwData, Fw!Somebody
  <2>4. inTurn => got.of = Fw!Nobody \/ (got.of = page.select /\ got.at = server.kills[page.select]) BY <1>1, <2>1, <2>2
  <2>5. inTurn => /\ OfSelected(page, server) /\ TilesOfSelected(page, server) /\ TableIsList(page)
                  /\ ShownIsRead(page) \/ k = page.view
                  /\ KillIsSeen(page, server) \/ k = "sessions"
    BY <1>1, <2>1
  <2> HIDE DEF k, got
  <2>6. FwPage(page') BY <1>1, <2>1, <2>3 DEF FwData
  <2>7. inTurn => FwShown(page', server)
    <3>1. /\ page'.pane = page.pane /\ page'.view = page.view /\ page'.targets = page.targets /\ page'.select = page.select
          /\ page'.tiles = page.tiles /\ page'.modal = page.modal /\ page'.table = page.table /\ page'.tested = page.tested
          /\ page'.data[k] = got /\ page'.shown[k] = got.of
          /\ \A l \in Fw!Views \ {k} : page'.data[l] = page.data[l] /\ page'.shown[l] = page.shown[l]
      BY <1>1, <2>1, <2>3
    <3>2. inTurn => OfSelected(page', server) /\ TilesOfSelected(page', server) /\ TableIsList(page')
      BY <2>4, <2>5, <3>1 DEF OfSelected, TilesOfSelected, TableIsList
    <3>3. inTurn => ShownIsRead(page') BY <1>1, <2>5, <3>1 DEF ShownIsRead
    <3>4. inTurn => KillIsSeen(page', server)
      <4>1. "sessions" \in Fw!Views OBVIOUS
      <4> QED BY <2>4, <2>5, <3>1, <4>1 DEF KillIsSeen
    <3> QED BY <3>2, <3>3, <3>4 DEF FwShown
  <2> QED BY <1>1, <1>2, <2>1, <2>6, <2>7, FwContinues
<1>5. CASE Fw!OverviewShown(i)
  <2> DEFINE t == IF Fw!Answered(i) THEN Fw!Answer(i) ELSE Fw!Nobody
             p == [page EXCEPT !.tiles = t]
  <2>1. /\ calls[i].fn = "status" /\ page' = Fw!Loading(p, "resources")
        /\ calls' = Fw!LoadCalls(p, Fw!Ended(i), "resources")
    BY <1>5, Zenon
  <2>2. inTurn => t \in {page.select, Fw!Nobody} BY <1>1, <2>1
  <2>3. inTurn => OfSelected(page, server) /\ KillIsSeen(page, server) /\ TableIsList(page) /\ ShownIsRead(page) BY <1>1, <2>1
  <2> HIDE DEF t
  <2>4. FwPage(p) /\ p.select = page.select BY <1>1
  <2>5. inTurn => /\ OfSelected(p, server) /\ TilesOfSelected(p, server) /\ KillIsSeen(p, server) /\ TableIsList(p)
                  /\ ShownIsRead(p)
    BY <1>1, <2>2, <2>3 DEF OfSelected, TilesOfSelected, KillIsSeen, TableIsList, ShownIsRead
  <2>6. "resources" \in Fw!Views OBVIOUS
  <2> HIDE DEF p
  <2>7. FwPage(page') /\ FwCalls(calls') BY <1>3, <2>1, <2>4, <2>6, LoadingHolds
  <2>8. inTurn => FwTells(calls', page', server) BY <1>3, <2>1, <2>4, <2>5, <2>6, LoadingTells
  <2> QED BY <1>1, <2>7, <2>8, FwNext
<1>6. CASE Fw!SessionsKilled(i)
  <2>1. calls[i].fn = "kill" /\ calls[i].arg \in Firewalls BY <1>1, <1>6 DEF FwCall
  <2>2. inTurn => /\ OfSelected(page, server) /\ TilesOfSelected(page, server) /\ TableIsList(page) /\ ShownIsRead(page)
                  /\ KillIsSeen(page, server) \/ calls[i].got # <<>>
                  /\ calls[i].arg = page.select
    BY <1>1, <2>1
  <2>3. "sessions" \in Fw!Views /\ "sessions" \notin Fw!Requires BY DEF Fw!Requires
  <2>4. CASE Fw!Answered(i)
    <3>1. page' = Fw!Loading(page, "sessions") /\ calls' = Fw!LoadCalls(page, Fw!Ended(i), "sessions") BY <1>6, <2>4
    <3>2. FwPage(page') /\ FwCalls(calls') BY <1>1, <1>3, <2>3, <3>1, LoadingHolds
    <3>3. inTurn => Fw!Asking(page, "sessions")
      <4>1. Fw!Nobody \notin Firewalls
        <5>1. Firewalls \subseteq Nat \ {Fw!Nobody} BY Zenon
        <5> QED BY <5>1
      <4> QED BY <2>1, <2>2, <2>3, <4>1 DEF Fw!Asking
    <3>4. inTurn => FwTells(calls', page', server) BY <1>1, <1>3, <2>2, <2>3, <3>1, <3>3, LoadingTells
    <3> QED BY <1>1, <3>2, <3>4, FwNext
  <2>5. CASE ~Fw!Answered(i)
    <3>1. UNCHANGED page /\ Fw!Ends(i) BY <1>6, <2>5
    <3>2. inTurn => FwShown(page, server) BY <2>2, <2>5 DEF FwShown
    <3> QED BY <1>1, <1>2, <3>1, <3>2, FwContinues
  <2> QED BY <2>4, <2>5
<1> QED BY <1>4, <1>5, <1>6

LEMMA FwTargetsKeep == ASSUME PagesAreRight, FwInv, UNCHANGED inTurn, NEW i \in Fw!Ids, Fw!TargetsLoaded(i) PROVE FwInv'
<1> DEFINE ts == IF Fw!Answered(i) THEN Fw!Answer(i) ELSE Fw!NoTargets
           sel == Fw!Selected(ts)
           p == [page EXCEPT !.targets = ts, !.select = sel]
<1>1. /\ FwRest /\ FwPage(page) /\ FwServer(server) /\ FwCall(calls[i])
      /\ inTurn => FwTurn /\ FwTold(calls[i], page, server)
  BY FwStays DEF FwInv
<1>2. /\ calls[i].fn = "targets" /\ Fw!Free # {}
      /\ IF calls[i].arg \in {"tab", "select"}
         THEN /\ page' = Fw!Switched(Fw!Forgotten(p), p.pane)
              /\ calls' = Fw!SwitchCalls(Fw!Forgotten(p), Fw!Ended(i), p.pane)
              /\ server' = [server EXCEPT !.kept = FALSE]
         ELSE /\ page' = IF calls[i].arg = "modal" THEN [p EXCEPT !.table = ts.rows, !.drawn = 1 - @, !.tested = {}] ELSE p
              /\ Fw!Ends(i)
              /\ server' = [server EXCEPT !.kept = @ \/ p.select # page.select]
  BY Zenon DEF Fw!TargetsLoaded, Fw!Back
<1>3. FwTargets(ts) BY <1>1, <1>2 DEF FwCall, FwTargets, Fw!Answered, Fw!Answer, Fw!NoTargets, Fw!Somebody
<1>4. sel \in Fw!Somebody /\ sel = Fw!Selected(ts) BY <1>3, SelectedIsTarget
<1> HIDE DEF ts, sel
<1>5. /\ FwPage(p) /\ p.targets = ts /\ p.select = sel /\ p.pane = page.pane /\ p.modal = page.modal /\ p.data = page.data
      /\ p.tiles = page.tiles /\ p.shown = page.shown /\ p.view = page.view /\ p.table = page.table /\ p.tested = page.tested
  BY <1>1, <1>3, <1>4 DEF FwPage
<1> HIDE DEF p
<1>6. CASE calls[i].arg \in {"tab", "select"}
  <2> DEFINE q == Fw!Forgotten(p)
  <2>1. FwData(Fw!Unread) /\ Fw!Unread.of = Fw!Nobody BY DEF FwData, Fw!Unread, Fw!Somebody
  <2>2. q = [p EXCEPT !.data = [k \in Fw!Views |-> Fw!Unread]] BY DEF Fw!Forgotten
  <2> HIDE DEF q
  <2>3. /\ FwPage(q) /\ q.pane = p.pane /\ q.modal = p.modal /\ q.targets = ts /\ q.select = sel
        /\ \A k \in Fw!Views : q.data[k].of = Fw!Nobody
    BY <1>5, <2>1, <2>2 DEF FwPage
  <2>4. FwServer(server') BY <1>1, <1>2, <1>6 DEF FwServer
  <2>5. FwCalls(Fw!Ended(i)) /\ FwWide(Fw!Ended(i)) BY <1>1, <1>2, FwEnds DEF Fw!None
  <2>6. page' = Fw!Switched(q, q.pane) /\ calls' = Fw!SwitchCalls(q, Fw!Ended(i), q.pane) BY <1>2, <1>6, <2>3 DEF q
  <2>7. q.pane \in Fw!Panes BY <2>3 DEF FwPage
  <2>8. FwPage(page') /\ FwCalls(calls') BY <2>3, <2>5, <2>6, <2>7, SwitchingHolds
  <2>9. ASSUME inTurn PROVE FwTells(calls', page', server')
    <3>1. FwAlone(i) BY <1>1, <1>2, <1>6, <2>9, FwIsAlone DEF Fw!None
    <3>2. FwEmpty(Fw!Ended(i)) BY <1>1, <2>9, <3>1, FwEnds
    <3>3. ~q.modal BY <1>1, <1>2, <1>5, <1>6, <2>3, <2>9 DEF FwTold
    <3>4. FwBase(q, server')
      <4>1. "sessions" \in Fw!Views BY DEF Fw!Views, Fw!PaneOf
      <4>2. OfSelected(q, server') BY <1>4, <2>3 DEF OfSelected
      <4>3. KillIsSeen(q, server') /\ TableIsList(q) BY <2>3, <3>3, <4>1 DEF KillIsSeen, TableIsList
      <4> QED BY <4>2, <4>3 DEF FwBase
    <3> QED BY <2>3, <2>5, <2>6, <2>7, <3>2, <3>3, <3>4, SwitchingTells
  <2> QED BY <2>4, <2>8, <2>9, FwNext
<1>7. CASE calls[i].arg \notin {"tab", "select"}
  <2>1. /\ page' = IF calls[i].arg = "modal" THEN [p EXCEPT !.table = ts.rows, !.drawn = 1 - @, !.tested = {}] ELSE p
        /\ Fw!Ends(i) /\ server' = [server EXCEPT !.kept = @ \/ sel # page.select]
    BY <1>2, <1>5, <1>7
  <2>2. FwServer(server') /\ server'.kills = server.kills /\ (~server'.kept => ~server.kept /\ sel = page.select)
    BY <1>1, <2>1 DEF FwServer
  <2>3. FwPage(page') BY <1>3, <1>5, <2>1 DEF FwPage, FwTargets
  <2>4. ASSUME inTurn PROVE FwShown(page', server')
    <3>1. FwShown(page, server) /\ (calls[i].arg = "settings" => ~page.modal)
      BY <1>1, <1>2, <1>7, <2>4 DEF FwTold, FwShown, Selecting, Fw!None
    <3>2. calls[i].arg \in {"modal", "settings"} BY <1>1, <1>2, <1>7 DEF FwCall
    <3>3. /\ page'.targets = ts /\ page'.select = sel /\ page'.pane = page.pane /\ page'.data = page.data
          /\ page'.tiles = page.tiles /\ page'.shown = page.shown /\ page'.view = page.view /\ page'.modal = page.modal
          /\ calls[i].arg = "modal" => page'.table = ts.rows /\ page'.tested = {}
      BY <1>5, <2>1
    <3>4. OfSelected(page', server') /\ TilesOfSelected(page', server')
      BY <1>4, <2>2, <3>1, <3>3 DEF FwShown, OfSelected, TilesOfSelected
    <3>5. ShownIsRead(page') /\ KillIsSeen(page', server') BY <2>2, <3>1, <3>3 DEF FwShown, ShownIsRead, KillIsSeen
    <3>6. TableIsList(page') BY <3>1, <3>2, <3>3 DEF TableIsList
    <3> QED BY <3>4, <3>5, <3>6 DEF FwShown
  <2>5. Fw!GoesOn(i, Fw!NoCall) BY <1>1, <2>1, FwStays
  <2>6. ASSUME inTurn PROVE FwTells(calls', page', server')
    <3>1. ASSUME NEW j \in Fw!Ids \ {i} PROVE FwTold(calls[j], page', server')
      <4>1. calls[j].fn \in {Fw!None, "tokens"} /\ (calls[j].at = "sent" => calls[j].got = <<>>)
        BY <1>1, <1>2, <2>6, <3>1 DEF FwTurn, FwTells, FwFew, FwPair, FwTold, Fw!None
      <4> QED BY <2>4, <2>6, <4>1 DEF FwTold, FwShown, Selecting, Fw!None
    <3>2. FwTold(Fw!NoCall, page', server') BY FwRequests, FwToldNothing
    <3> QED BY <1>1, <2>4, <2>5, <2>6, <3>1, <3>2, FwRequests, FwGoesOnBeside
  <2> QED BY <1>1, <2>2, <2>3, <2>5, <2>6, FwRequests, FwGoesOn, FwNext
<1> QED BY <1>6, <1>7

LEMMA FwAnswersKeep ==
  ASSUME PagesAreRight, FwInv, UNCHANGED inTurn, NEW i \in Fw!Ids,
         \/ Fw!Activated(i) \/ Fw!PrevTokenSaved(i) \/ Fw!TokensShown(i) \/ Fw!TargetSaved(i)
         \/ Fw!Tested(i)
  PROVE  FwInv'
<1> USE DEF Fw!Back, Fw!None, FwCall, FwTold, Selecting, FwShown, FwPage
<1>1. /\ FwRest /\ FwPage(page) /\ FwServer(server) /\ FwCall(calls[i])
      /\ inTurn => FwTurn /\ FwTold(calls[i], page, server)
  BY FwStays DEF FwInv
<1>2. FwForm(Fw!NoForm) BY DEF FwForm, Fw!NoForm, Fw!Somebody
<1>3. CASE Fw!Activated(i)
  <2> DEFINE then == calls[i].arg.then
             c == Fw!Asks("targets", then)
  <2>1. /\ calls[i].fn = "active" /\ UNCHANGED page
        /\ IF Fw!Answered(i) THEN Fw!GoesOn(i, c) ELSE Fw!Ends(i)
        /\ server' = [server EXCEPT !.kept = @ \/ (~Fw!Answered(i) /\ then = "select")]
    BY <1>3, Zenon DEF Fw!Activated
  <2>2. inTurn => FwAlone(i) BY <1>1, <2>1, FwIsAlone
  <2>3. then \in {"select", "modal"} BY <1>1, <2>1
  <2>4. inTurn => /\ then # "select" => OfSelected(page, server) /\ TilesOfSelected(page, server)
                  /\ then = "select" => ~page.modal
                  /\ ShownIsRead(page) /\ KillIsSeen(page, server) /\ TableIsList(page)
    BY <1>1, <2>1
  <2>5. c.fn = "targets" /\ c.at = "sent" /\ c.got = <<>> /\ c.arg = then BY FwRequests
  <2> HIDE DEF c, then
  <2>6. FwCall(c) /\ c.fn # Fw!None BY <2>3, <2>5
  <2>7. CASE Fw!Answered(i)
    <3>1. Fw!GoesOn(i, c) /\ FwServer(server') /\ server'.kept = server.kept /\ server'.kills = server.kills
      BY <1>1, <2>1, <2>7 DEF FwServer
    <3>2. inTurn => /\ then # "select" => OfSelected(page, server') /\ TilesOfSelected(page, server')
                    /\ KillIsSeen(page, server')
      BY <2>4, <3>1, FwShownAlike
    <3>3. inTurn => FwTold(c, page, server') BY <2>3, <2>4, <2>5, <3>2
    <3> QED BY <1>1, <2>1, <2>2, <2>6, <3>1, <3>3, FwContinues
  <2>8. CASE ~Fw!Answered(i)
    <3>1. /\ Fw!Ends(i) /\ FwServer(server') /\ server'.kills = server.kills
          /\ server'.kept = (server.kept \/ then = "select")
      BY <1>1, <2>1, <2>8 DEF FwServer
    <3>2. inTurn => FwShown(page, server') BY <2>3, <2>4, <3>1 DEF OfSelected, TilesOfSelected, KillIsSeen
    <3> QED BY <1>1, <2>1, <2>2, <3>1, <3>2, FwContinues
  <2> QED BY <2>7, <2>8
<1>4. CASE Fw!PrevTokenSaved(i) \/ Fw!TargetSaved(i)
  <2>1. calls[i].fn \in {"prevToken", "new", "put"} /\ UNCHANGED server BY <1>4 DEF Fw!PrevTokenSaved, Fw!TargetSaved
  <2>2. inTurn => FwAlone(i) /\ FwShown(page, server) BY <2>1, FwBackIsTrue
  <2>3. CASE Fw!Ends(i) /\ UNCHANGED page BY <1>1, <2>1, <2>2, <2>3, FwContinues
  <2>4. ASSUME NEW c \in {Fw!Asks("tokens", Fw!None), Fw!Asks("targets", "modal")}, Fw!GoesOn(i, c),
               page' = [page EXCEPT !.prev = Fw!NoForm] \/ page' = [page EXCEPT !.form = Fw!NoForm]
        PROVE  FwInv'
    <3>1. c.at = "sent" /\ c.got = <<>> /\ (c.fn = "tokens" \/ (c.fn = "targets" /\ c.arg = "modal")) BY <2>4, FwRequests
    <3>2. FwPage(page') BY <1>1, <1>2, <2>4
    <3>3. /\ page'.pane = page.pane /\ page'.view = page.view /\ page'.targets = page.targets /\ page'.select = page.select
          /\ page'.data = page.data /\ page'.shown = page.shown /\ page'.tiles = page.tiles /\ page'.modal = page.modal
          /\ page'.table = page.table /\ page'.tested = page.tested
      BY <1>1, <2>4
    <3>4. inTurn => FwShown(page', server') BY <2>1, <2>2, <3>3, FwShownAlike
    <3>5. FwCall(c) /\ c.fn # Fw!None BY <3>1
    <3>6. inTurn => FwTold(c, page', server') BY <3>1, <3>4
    <3> QED BY <1>1, <2>1, <2>2, <2>4, <3>2, <3>5, <3>6, FwContinues
  <2>5. \/ Fw!Ends(i) /\ UNCHANGED page
        \/ \E c \in {Fw!Asks("tokens", Fw!None), Fw!Asks("targets", "modal")} :
             /\ Fw!GoesOn(i, c)
             /\ page' = [page EXCEPT !.prev = Fw!NoForm] \/ page' = [page EXCEPT !.form = Fw!NoForm]
    <3>1. CASE Fw!PrevTokenSaved(i)
      <4>1. \/ Fw!Ends(i) /\ UNCHANGED page
            \/ /\ Fw!GoesOn(i, Fw!Asks("tokens", Fw!None))
               /\ page' = [page EXCEPT !.prev = Fw!NoForm]
        BY <3>1, Zenon DEF Fw!PrevTokenSaved
      <4> QED BY <4>1
    <3>2. CASE Fw!TargetSaved(i)
      <4>1. \/ Fw!Ends(i) /\ UNCHANGED page
            \/ /\ Fw!GoesOn(i, Fw!Asks("targets", "modal"))
               /\ page' = [page EXCEPT !.form = Fw!NoForm]
        BY <3>2, Zenon DEF Fw!TargetSaved
      <4> QED BY <4>1
    <3> QED BY <1>4, <3>1, <3>2
  <2> QED BY <2>3, <2>4, <2>5
<1>5. CASE Fw!Tested(i)
  <2>1. /\ calls[i].fn = "test" /\ UNCHANGED server /\ Fw!Ends(i)
        /\ page' = IF page.drawn = calls[i].arg.drawn THEN [page EXCEPT !.tested = @ \union {calls[i].arg.of}] ELSE page
    BY <1>5, Zenon DEF Fw!Tested
  <2>2. calls[i].arg.of \in Firewalls BY <1>1, <2>1
  <2>3. inTurn => FwAlone(i) /\ FwShown(page, server) BY <2>1, FwBackIsTrue
  <2>4. inTurn /\ page.drawn = calls[i].arg.drawn => calls[i].arg.of \in page.table BY <1>1, <2>1
  <2>5. FwPage(page') BY <1>1, <2>1, <2>2
  <2>6. /\ page'.pane = page.pane /\ page'.view = page.view /\ page'.targets = page.targets /\ page'.select = page.select
        /\ page'.data = page.data /\ page'.shown = page.shown /\ page'.tiles = page.tiles /\ page'.modal = page.modal
        /\ page'.table = page.table
        /\ page'.tested = page.tested
           \/ (page.drawn = calls[i].arg.drawn /\ page'.tested = page.tested \union {calls[i].arg.of})
    BY <1>1, <2>1
  <2>7. inTurn => FwShown(page', server')
    BY <2>1, <2>3, <2>4, <2>6 DEF OfSelected, TilesOfSelected, ShownIsRead, KillIsSeen, TableIsList
  <2> QED BY <1>1, <2>1, <2>3, <2>5, <2>7, FwContinues
<1>6. CASE Fw!TokensShown(i)
  <2> DEFINE ts == IF Fw!Answered(i) THEN Fw!Answer(i) ELSE {}
  <2>1. calls[i].fn = "tokens" /\ UNCHANGED server /\ Fw!Ends(i) /\ page' = [page EXCEPT !.tokens = ts]
    BY <1>6, Zenon DEF Fw!TokensShown
  <2>2. ts \subseteq Firewalls BY <1>1, <2>1 DEF Fw!Answered, Fw!Answer
  <2> HIDE DEF ts
  <2>3. FwPage(page') BY <1>1, <2>1, <2>2
  <2>4. /\ page'.pane = page.pane /\ page'.view = page.view /\ page'.targets = page.targets /\ page'.select = page.select
        /\ page'.data = page.data /\ page'.shown = page.shown /\ page'.tiles = page.tiles /\ page'.modal = page.modal
        /\ page'.table = page.table /\ page'.tested = page.tested
    BY <1>1, <2>1
  <2>5. inTurn => FwShown(page', server')
    <3>1. inTurn => FwShown(page, server) BY <1>1, <2>1
    <3> QED BY <2>1, <2>4, <3>1, FwShownAlike
  <2>6. Fw!GoesOn(i, Fw!NoCall) BY <1>1, <2>1, FwStays
  <2>7. ASSUME inTurn PROVE FwTells(calls', page', server')
    <3>1. ASSUME NEW j \in Fw!Ids \ {i} PROVE FwTold(calls[j], page', server')
      <4>1. /\ calls[j].fn = Fw!None \/ (calls[j].fn = "targets" /\ calls[j].arg = "settings" /\ ~page.modal)
            /\ calls[j].at = "sent" => calls[j].got = <<>>
        BY <1>1, <2>1, <2>7, <3>1 DEF FwTurn, FwTells, FwFew, FwPair
      <4> QED BY <2>4, <2>5, <2>7, <4>1
    <3>2. FwTold(Fw!NoCall, page', server') BY FwRequests, FwToldNothing
    <3> QED BY <1>1, <2>5, <2>6, <2>7, <3>1, <3>2, FwRequests, FwGoesOnBeside
  <2> QED BY <1>1, <2>1, <2>3, <2>6, <2>7, FwRequests, FwGoesOn, FwNext
<1> QED BY <1>3, <1>4, <1>5, <1>6

(* The server answers call i, and what the page shows stays.                *)
LEMMA FwServes ==
  ASSUME PagesAreRight, FwInv, UNCHANGED <<inTurn, page>>, NEW i \in Fw!Ids, inTurn => calls[i].fn # Fw!None,
         NEW got, Fw!GoesOn(i, Fw!IsBack(calls[i], got)), FwServer(server'),
         server'.kept = server.kept, server'.kills = server.kills,
         calls[i].fn = "targets" => got = <<>> \/ FwTargets(got[1]),
         calls[i].fn = "tokens" => got = <<>> \/ got[1] \subseteq Firewalls,
         calls[i].fn = "dataset" => \/ got = <<>>
                                    \/ /\ FwData(got[1]) /\ got[1].of = calls[i].arg.of
                                       /\ got[1].at = server.kills[got[1].of],
         calls[i].fn = "status" => got = <<>> \/ got[1] = calls[i].arg,
         calls[i].at = "sent"
  PROVE  FwInv'
<1> DEFINE c == Fw!IsBack(calls[i], got)
<1>1. /\ FwRest /\ FwPage(page) /\ FwServer(server) /\ FwCall(calls[i])
      /\ inTurn => FwTurn /\ \A j \in Fw!Ids : FwTold(calls[j], page, server)
  BY FwStays DEF FwInv, FwTurn
<1>2. c = [fn |-> calls[i].fn, at |-> "back", arg |-> calls[i].arg, got |-> got] BY FwRequests
<1> HIDE DEF c
<1>3. FwCall(c) BY <1>1, <1>2 DEF FwCall
<1>4. ASSUME inTurn PROVE FwTells(calls', page', server')
  <2>1. \A j \in Fw!Ids : FwTold(calls[j], page, server') BY <1>1, <1>4 DEF FwTold, OfSelected, TilesOfSelected, KillIsSeen
  <2>2. FwTold(c, page, server')
    <3>1. FwTold(calls[i], page, server') /\ calls[i].got = <<>> BY <1>1, <1>4, <2>1 DEF FwTold
    <3> QED BY <1>2, <3>1 DEF FwTold, Selecting
  <2> QED BY <1>1, <1>2, <1>4, <2>1, <2>2, FwGoesOnBeside DEF c
<1> QED BY <1>1, <1>3, <1>4, FwGoesOn, FwNext DEF c

LEMMA FwServerKeeps ==
  ASSUME PagesAreRight, FwInv, UNCHANGED inTurn, NEW i \in Fw!Ids,
         Fw!Serve(i) \/ Fw!Lose(i)
  PROVE  FwInv'
<1> USE DEF Fw!Serve, Fw!Lose, Fw!Sent, Fw!None, FwServer, FwCall
<1>1. /\ FwRest /\ FwPage(page) /\ FwServer(server) /\ FwCall(calls[i]) /\ DOMAIN calls = Fw!Ids
      /\ Fw!Nobody \in Fw!Somebody /\ Firewalls \subseteq Fw!Somebody
  BY FwStays DEF FwInv, FwRest, FwCalls, Fw!Somebody
<1>2. UNCHANGED page BY Zenon
<1>3. calls[i].at = "sent" /\ (inTurn => calls[i].fn # Fw!None)
  BY DEF Fw!ServeRead, Fw!ServeDataset, Fw!ServeActive, Fw!ServeToken, Fw!ServeUpdate, Fw!ServeKill
<1>4. ASSUME UNCHANGED server, Fw!Fails(i) PROVE FwInv'
  <2>1. Fw!GoesOn(i, Fw!IsBack(calls[i], <<>>)) BY <1>1, <1>4, FwSteps
  <2> QED BY <1>1, <1>2, <1>3, <1>4, <2>1, FwServes
<1>5. ASSUME NEW d, Fw!Answers(i, d), FwServer(server'), server'.kept = server.kept, server'.kills = server.kills,
             calls[i].fn = "targets" => FwTargets(d), calls[i].fn = "tokens" => d \subseteq Firewalls,
             calls[i].fn = "dataset" => FwData(d) /\ d.of = calls[i].arg.of /\ d.at = server.kills[d.of],
             calls[i].fn = "status" => d = calls[i].arg
      PROVE  FwInv'
  <2> DEFINE got == <<d>>
  <2>1. got[1] = d OBVIOUS
  <2>2. Fw!GoesOn(i, Fw!IsBack(calls[i], got)) BY <1>1, <1>5, FwAnswers
  <2> HIDE DEF got
  <2> QED BY <1>1, <1>2, <1>3, <1>5, <2>1, <2>2, FwServes
<1>6. Fw!Saved \subseteq Firewalls BY DEF Fw!Saved
<1>7. CASE Fw!ServeRead(i)
  <2> DEFINE ts == [rows |-> Fw!Saved, active |-> server.active]
  <2>1. FwTargets(ts) BY <1>1, <1>6 DEF FwTargets
  <2> HIDE DEF ts
  <2>2. /\ UNCHANGED server
        /\ \/ calls[i].fn = "targets" /\ Fw!Answers(i, ts)
           \/ calls[i].fn = "tokens" /\ Fw!Answers(i, Fw!Saved)
           \/ calls[i].fn = "status" /\ (Fw!Answers(i, calls[i].arg) \/ Fw!Fails(i))
           \/ calls[i].fn = "test" /\ Fw!Answers(i, "ok")
    BY <1>7, Zenon DEF Fw!ServeRead, ts
  <2>3. CASE calls[i].fn = "targets" /\ Fw!Answers(i, ts) BY <1>1, <1>5, <2>1, <2>2, <2>3
  <2>4. CASE calls[i].fn = "tokens" /\ Fw!Answers(i, Fw!Saved) BY <1>1, <1>5, <1>6, <2>2, <2>4
  <2>5. CASE calls[i].fn = "status" /\ Fw!Answers(i, calls[i].arg) BY <1>1, <1>5, <2>2, <2>5
  <2>6. CASE calls[i].fn = "test" /\ Fw!Answers(i, "ok") BY <1>1, <1>5, <2>2, <2>6
  <2> QED BY <1>4, <2>2, <2>3, <2>4, <2>5, <2>6
<1>8. CASE Fw!ServeDataset(i)
  <2> DEFINE e == calls[i].arg.of
             d == [got |-> TRUE, of |-> e, at |-> server.kills[e]]
  <2>1. calls[i].fn = "dataset" /\ UNCHANGED server /\ (Fw!Answers(i, d) \/ Fw!Fails(i)) BY <1>8, Zenon DEF Fw!ServeDataset
  <2>2. FwData(d) /\ d.of = calls[i].arg.of /\ d.at = server.kills[d.of] BY <1>1, <2>1 DEF FwData
  <2> HIDE DEF d
  <2> QED BY <1>1, <1>4, <1>5, <2>1, <2>2
<1>9. CASE Fw!ServeActive(i)
  <2>1. /\ calls[i].fn = "active"
        /\ \/ Fw!Answers(i, "ok") /\ server' = [server EXCEPT !.active = calls[i].arg.of]
           \/ Fw!Fails(i) /\ UNCHANGED server
    BY <1>9, Zenon DEF Fw!ServeActive
  <2>2. calls[i].arg.of \in Firewalls BY <1>1, <2>1
  <2>3. CASE Fw!Answers(i, "ok") /\ server' = [server EXCEPT !.active = calls[i].arg.of]
    <3>1. FwServer(server') /\ server'.kept = server.kept /\ server'.kills = server.kills BY <1>1, <2>2, <2>3
    <3> QED BY <1>5, <2>1, <2>3, <3>1
  <2> QED BY <1>4, <2>1, <2>3
<1>10. ASSUME NEW d \in Firewalls, NEW tok \in {d, Fw!Nobody}, Fw!SetToken(d, tok)
       PROVE  FwServer(server') /\ server'.kept = server.kept /\ server'.kills = server.kills
  <2> DEFINE a == IF tok = Fw!Nobody /\ server.active = d THEN Fw!Nobody ELSE server.active
  <2>1. server' = [server EXCEPT !.tok[d] = tok, !.active = a] BY <1>10, Zenon DEF Fw!SetToken
  <2>2. a \in Fw!Somebody BY <1>1
  <2> HIDE DEF a
  <2> QED BY <1>1, <1>10, <2>1, <2>2
<1>11. CASE Fw!ServeToken(i)
  <2>1. /\ calls[i].fn \in {"prevToken", "new"} /\ Fw!Answers(i, "ok")
        /\ Fw!SetToken(calls[i].arg.ip, calls[i].arg.tok)
    BY <1>11 DEF Fw!ServeToken
  <2>2. calls[i].arg.ip \in Firewalls /\ calls[i].arg.tok \in {calls[i].arg.ip, Fw!Nobody} BY <1>1, <2>1 DEF FwForm
  <2>3. FwServer(server') /\ server'.kept = server.kept /\ server'.kills = server.kills BY <1>10, <2>1, <2>2
  <2> QED BY <1>5, <2>1, <2>3
<1>12. CASE Fw!ServeUpdate(i)
  <2> DEFINE d == calls[i].arg.edit
             tok == IF calls[i].arg.tok = Fw!Nobody THEN server.tok[d] ELSE calls[i].arg.tok
  <2>1. /\ calls[i].fn = "put"
        /\ \/ Fw!Fails(i) /\ UNCHANGED server
           \/ Fw!Answers(i, "ok") /\ Fw!SetToken(d, tok)
    BY <1>12, Zenon DEF Fw!ServeUpdate
  <2>2. d \in Firewalls /\ tok \in {d, Fw!Nobody} BY <1>1, <2>1 DEF FwForm
  <2> HIDE DEF d, tok
  <2>3. CASE Fw!Answers(i, "ok") /\ Fw!SetToken(d, tok)
    <3>1. FwServer(server') /\ server'.kept = server.kept /\ server'.kills = server.kills BY <1>10, <2>2, <2>3
    <3> QED BY <1>5, <2>1, <2>3, <3>1
  <2> QED BY <1>4, <2>1, <2>3
<1>13. CASE Fw!ServeKill(i)
  <2> DEFINE e == calls[i].arg
             c == Fw!IsBack(calls[i], <<"ok">>)
  <2>1. /\ calls[i].fn = "kill"
        /\ \/ Fw!Answers(i, "ok") /\ server' = [server EXCEPT !.kills[e] = @ + 1]
           \/ Fw!Fails(i) /\ UNCHANGED server
    BY <1>13, Zenon DEF Fw!ServeKill
  <2>2. e \in Firewalls BY <1>1, <2>1
  <2>3. CASE Fw!Answers(i, "ok") /\ server' = [server EXCEPT !.kills[e] = @ + 1]
    <3>1. c = [fn |-> calls[i].fn, at |-> "back", arg |-> calls[i].arg, got |-> <<"ok">>] BY FwRequests
    <3>2. Fw!GoesOn(i, c) BY <1>1, <2>3, FwAnswers
    <3> HIDE DEF c
    <3>3. FwCall(c) BY <2>1, <2>2, <3>1
    <3> HIDE DEF e
    <3>4. FwServer(server') /\ server'.kept = server.kept BY <1>1, <2>2, <2>3
    <3>5. ASSUME inTurn PROVE FwTells(calls', page', server')
      <4>1. FwTurn /\ FwTold(calls[i], page, server) BY <1>1, <3>5, FwStays DEF FwInv
      <4>2. FwAlone(i) BY <2>1, <4>1, FwIsAlone
      <4>3. FwTold(c, page, server') BY <2>1, <3>1, <3>4, <4>1 DEF FwTold, Selecting, OfSelected, TilesOfSelected
      <4> QED BY <1>1, <1>2, <2>1, <3>1, <3>2, <4>1, <4>2, <4>3, FwGoesOnAlone
    <3> QED BY <1>1, <1>2, <3>2, <3>3, <3>4, <3>5, FwGoesOn, FwNext
  <2> QED BY <1>4, <2>1, <2>3
<1>14. CASE Fw!Lose(i) BY <1>4, <1>14
<1> QED BY <1>7, <1>8, <1>9, <1>11, <1>12, <1>13, <1>14

LEMMA FwBegins == Fw!Init => FwInv
<1> SUFFICES ASSUME Fw!Init PROVE FwInv OBVIOUS
<1>1. page = [pane |-> "overview", view |-> "resources", targets |-> Fw!NoTargets, select |-> Fw!Nobody,
             data |-> [k \in Fw!Views |-> Fw!Unread], shown |-> [k \in Fw!Views |-> Fw!Nobody], filled |-> FALSE,
             tiles |-> Fw!Nobody, tokens |-> {}, prev |-> Fw!NoForm,
             modal |-> FALSE, form |-> Fw!NoForm, table |-> {}, drawn |-> 0, tested |-> {}]
  BY Zenon DEF Fw!Init
<1>2. server = [tok |-> [d \in Firewalls |-> d], active |-> Fw!Nobody, kills |-> [d \in Firewalls |-> 0],
               kept |-> FALSE, clicks |-> 0]
  BY Zenon DEF Fw!Init
<1>3. FwForm(Fw!NoForm) /\ FwTargets(Fw!NoTargets) /\ FwData(Fw!Unread)
      /\ Fw!Unread.of = Fw!Nobody /\ Fw!Selected(Fw!NoTargets) = Fw!Nobody
      /\ "sessions" \in Fw!Views
  BY DEF FwForm, FwTargets, FwData, Fw!NoForm, Fw!NoTargets, Fw!Unread, Fw!Selected, Fw!Somebody, Fw!Views, Fw!PaneOf
<1>4. FwPage(page) BY <1>1, <1>3 DEF FwPage, Fw!Panes, Fw!Views, Fw!PaneOf, Fw!Somebody
<1>5. FwServer(server) BY <1>2 DEF FwServer, Fw!Somebody
<1>6. FwShown(page, server) BY <1>1, <1>3 DEF FwShown, OfSelected, TilesOfSelected, ShownIsRead, KillIsSeen, TableIsList, Fw!Default
<1>7. DOMAIN calls = Fw!Ids /\ \A i \in Fw!Ids : calls[i] = Fw!NoCall BY DEF Fw!Init, Fw!NoCalls
<1>8. FwCalls(calls) /\ FwEmpty(calls) BY <1>7, FwRequests DEF FwCalls, FwEmpty, Fw!None
<1> QED BY <1>4, <1>5, <1>6, <1>8, FwTellsNone DEF FwInv, FwRest, FwTurn

LEMMA FwKeeps == PagesAreRight /\ FwInv /\ UNCHANGED inTurn /\ [Fw!Next]_(Fw!vars) => FwInv'
<1> SUFFICES ASSUME PagesAreRight, FwInv, UNCHANGED inTurn, [Fw!Next]_(Fw!vars) PROVE FwInv' OBVIOUS
<1>1. CASE UNCHANGED Fw!vars
  <2>1. UNCHANGED <<page, calls, server>> BY <1>1 DEF Fw!vars
  <2> QED BY <2>1, FwNext DEF FwInv, FwRest, FwTurn
<1>2. ASSUME NEW i \in Fw!Ids, Fw!Continue(i) PROVE FwInv' BY <1>2, FwReadsKeep, FwTargetsKeep, FwAnswersKeep DEF Fw!Continue
<1> QED BY <1>1, <1>2, FwTabClicksKeep, FwFormClicksKeep, FwServerKeeps DEF Fw!Next

-----------------------------------------------------------------------------
(* WebCategories. *)
LEMMA PanelBegun ==
  ASSUME Policy!CallsAssumption, NEW cs, NEW c, NEW k \in Panel!Ids, cs[k].fn = Panel!None
  PROVE  \E i \in Panel!Ids :
           cs[i].fn = Panel!None /\ Panel!Begun(cs, c) = [cs EXCEPT ![i] = c]
BY FirstFree DEF Panel!Begun, Panel!Ids, Panel!None, Policy!CallsAssumption

LEMMA PanelStarts ==
  ASSUME Policy!CallsAssumption, DOMAIN calls = Panel!Ids, NEW c, Panel!Starts(c)
  PROVE  \E i \in Panel!Ids : calls[i].fn = Panel!None /\ Panel!GoesOn(i, c)
BY PanelBegun DEF Panel!Starts, Panel!Free, Panel!GoesOn, Panel!Moved

LEMMA PanelMoves ==
  ASSUME DOMAIN calls = Panel!Ids, NEW i \in Panel!Ids, NEW c, Panel!GoesOn(i, c)
  PROVE  /\ DOMAIN calls' = Panel!Ids /\ calls'[i] = c
         /\ \A j \in Panel!Ids \ {i} : calls'[j] = calls[j]
BY DEF Panel!GoesOn, Panel!Moved

LEMMA PanelSteps ==
  ASSUME DOMAIN calls = Panel!Ids, NEW i \in Panel!Ids
  PROVE  /\ Panel!Ends(i) => Panel!GoesOn(i, Panel!NoCall)
         /\ Panel!Fails(i) => Panel!GoesOn(i, Panel!IsBack(calls[i], <<>>))
BY DEF Panel!Ends, Panel!Ended, Panel!GoesOn, Panel!Moved, Panel!Fails

LEMMA PanelAnswers ==
  ASSUME DOMAIN calls = Panel!Ids, NEW i \in Panel!Ids, NEW d, Panel!Answers(i, d)
  PROVE  Panel!GoesOn(i, Panel!IsBack(calls[i], <<d>>))
BY DEF Panel!GoesOn, Panel!Moved, Panel!Answers

LEMMA PanelRequests ==
  /\ PanelCall(Panel!NoCall) /\ Panel!NoCall.fn = Panel!None /\ Panel!NoCall.at = Panel!None /\ Panel!NoCall.got = <<>>
  /\ \A fn, arg : Panel!Asks(fn, arg) = [fn |-> fn, at |-> "sent", arg |-> arg, got |-> <<>>]
  /\ \A c, got : Panel!IsBack(c, got) = [fn |-> c.fn, at |-> "back", arg |-> c.arg, got |-> got]
BY DEF PanelCall, CallFields, Panel!NoCall, Panel!None, Panel!Asks, Panel!IsBack

(* What is merged is meta again, and merging it once more changes nothing.  *)
LEMMA MergedIsMeta ==
  ASSUME NEW m \in Panel!Meta, NEW e, IsEdit(e)
  PROVE  /\ Panel!Merged(m, e) \in Panel!Meta
         /\ Panel!Merged(Panel!Merged(m, e), e) = Panel!Merged(m, e)
<1> DEFINE w == Panel!Merged(m, e)
           t == Panel!Merged(w, e)
<1>1. \A f \in Panel!Fields : w[f] = (IF f \in DOMAIN e THEN e[f] ELSE m[f]) /\ DOMAIN w = Panel!Fields BY DEF Panel!Merged
<1>2. \A f \in Panel!Fields : t[f] = (IF f \in DOMAIN e THEN e[f] ELSE w[f]) /\ DOMAIN t = Panel!Fields BY DEF Panel!Merged
<1>3. w = [f \in Panel!Fields |-> w[f]] /\ t = [f \in Panel!Fields |-> t[f]] BY DEF Panel!Merged
<1> HIDE DEF w, t
<1>4. \A f \in Panel!Fields : t[f] = w[f] BY <1>1, <1>2
<1>5. t = w BY <1>3, <1>4
<1>6. \A f \in Panel!Fields : w[f] \in FieldValues[f] BY <1>1 DEF IsEdit, Panel!Meta, Panel!Fields, FieldValues
<1>7. w \in Panel!Meta BY <1>3, <1>6 DEF Panel!Meta, Panel!Fields, FieldValues
<1> QED BY <1>5, <1>7 DEF w, t

LEMMA StagedIsEdit == ASSUME NEW e, IsEdit(e), NEW f \in Panel!Fields, NEW v \in FieldValues[f] PROVE IsEdit(Panel!With(e, f, v))
BY DEF IsEdit, Panel!With

LEMMA NothingIsEdit ==
  /\ IsEdit(<<>>)
  /\ DOMAIN Panel!NoEdits = {}
BY DEF IsEdit, Panel!NoEdits

LEMMA EditedIsEdit == ASSUME PanelPage(page), NEW n PROVE IsEdit(Panel!Edited(n))
BY NothingIsEdit DEF PanelPage, Panel!Edited

LEMMA ClassifiedIs ==
  ASSUME NEW s, PanelServer(s)
  PROVE  /\ IsClassification(Panel!Classified(s)) /\ Panel!Classified(s).nodes = s.nodes
         /\ Panel!Classified(s).cats = s.cats
BY DEF PanelServer, IsClassification, Panel!Classified

LEMMA RenderedPage ==
  ASSUME PagesAreRight, NEW p, PanelPage(p)
  PROVE  /\ PanelPage(Panel!Rendered(p)) /\ Panel!Rendered(p).known = p.known
         /\ Panel!Rendered(p).pending = p.pending
<1>1. FewCalls \in Nat \ {0}
  <2>1. Policy!CallsAssumption BY Zenon
  <2> QED BY <2>1 DEF Policy!CallsAssumption
<1> DEFINE l == IF p.listeners < FewCalls THEN p.listeners + 1 ELSE p.listeners
<1>2. l \in 0..FewCalls BY <1>1 DEF PanelPage
<1>3. Panel!Rendered(p) = [p EXCEPT !.listeners = l] BY DEF Panel!Rendered
<1> HIDE DEF l
<1> QED BY <1>2, <1>3 DEF PanelPage

(* A deletion leaves metas metas, and once done changes nothing again.      *)
LEMMA WithoutKeeps ==
  ASSUME NEW s, PanelServer(s), NEW k
  PROVE  /\ PanelServer(Panel!Without(s, k)) /\ k \notin DOMAIN Panel!Without(s, k).cats
         /\ Panel!Without(s, k).nodes = s.nodes
<1> DEFINE Bare(m) == IF m.category = k THEN [m EXCEPT !.category = Panel!Empty, !.subcategory = Panel!Empty] ELSE m
           w == [n \in DOMAIN s.meta |-> Bare(s.meta[n])]
           u == [z \in DOMAIN s.cats \ {k} |-> s.cats[z]]
<1>1. \A m \in Panel!Meta : Bare(m) \in Panel!Meta BY DEF Panel!Meta
<1>2. DOMAIN w = DOMAIN s.meta /\ \A n \in DOMAIN s.meta : w[n] = Bare(s.meta[n])
  <2> HIDE DEF Bare
  <2> QED OBVIOUS
<1>3. DOMAIN u = DOMAIN s.cats \ {k} OBVIOUS
<1>4. Panel!Without(s, k) = [s EXCEPT !.cats = u, !.meta = w] BY DEF Panel!Without
<1> HIDE DEF Bare, w, u
<1> QED BY <1>1, <1>2, <1>3, <1>4 DEF PanelServer

LEMMA WithoutSubKeeps == ASSUME NEW s, PanelServer(s), NEW k, NEW b PROVE LET q == Panel!WithoutSub(s, k, b)
         IN  PanelServer(q) /\ q.nodes = s.nodes /\ Panel!WithoutSub(q, k, b) = q
<1> DEFINE Bare(m) == IF m.category = k /\ m.subcategory = b THEN [m EXCEPT !.subcategory = Panel!Empty] ELSE m
           Metas(f) == [n \in DOMAIN f |-> Bare(f[n])]
           Kinds(f) == IF k \in DOMAIN f THEN [f EXCEPT ![k] = f[k] \ {b}] ELSE f
           q == Panel!WithoutSub(s, k, b)
<1>1. \A m \in Panel!Meta : Bare(m) \in Panel!Meta /\ Bare(Bare(m)) = Bare(m) BY DEF Panel!Meta
<1>2. \A f : DOMAIN Metas(f) = DOMAIN f /\ \A n \in DOMAIN f : Metas(f)[n] = Bare(f[n]) OBVIOUS
<1>3. \A z : Panel!WithoutSub(z, k, b) = [z EXCEPT !.cats = Kinds(z.cats), !.meta = Metas(z.meta)] BY DEF Panel!WithoutSub
<1>4. \A f : Kinds(Kinds(f)) = Kinds(f) OBVIOUS
<1>5. Metas(Metas(s.meta)) = Metas(s.meta)
  <2>1. \A n \in DOMAIN s.meta : Bare(Bare(s.meta[n])) = Bare(s.meta[n]) BY <1>1
  <2> HIDE DEF Bare
  <2> QED BY <2>1
<1> HIDE DEF Bare, Metas, Kinds
<1>6. q = [s EXCEPT !.cats = Kinds(s.cats), !.meta = Metas(s.meta)] BY <1>3, Zenon
<1> HIDE DEF q
<1>7. PanelServer(q) /\ q.nodes = s.nodes /\ q.cats = Kinds(s.cats) /\ q.meta = Metas(s.meta) BY <1>1, <1>2, <1>6 DEF PanelServer
<1>8. Panel!WithoutSub(q, k, b) = [q EXCEPT !.cats = q.cats, !.meta = q.meta]
  <2>1. Kinds(q.cats) = q.cats /\ Metas(q.meta) = q.meta BY <1>4, <1>5, <1>7, Zenon
  <2> QED BY <1>3, <2>1, Zenon
<1>9. [q EXCEPT !.cats = q.cats, !.meta = q.meta] = q
  <2>1. q = [z \in DOMAIN q |-> q[z]] BY <1>6
  <2>2. [q EXCEPT !.cats = q.cats] = q BY <2>1
  <2>3. [q EXCEPT !.meta = q.meta] = q BY <2>1
  <2> QED BY <2>2, <2>3, Zenon
<1> QED BY <1>7, <1>8, <1>9 DEF q

(* Whatever the server does, metas are metas; of a promotion and of what is *)
(* assigned, what the page relies on.                                       *)
LEMMA AppliedServer ==
  ASSUME PagesAreRight, NEW s, PanelServer(s), NEW c, PanelCall(c), c.fn \in Panel!Changes \union {"assign", "promote"}
  PROVE  LET q == Panel!Applied(s, c)
         IN  /\ PanelServer(q)
             /\ c.fn # "promote" => q.nodes = s.nodes
             /\ c.fn = "promote" => s.nodes \ {c.arg.id} \subseteq q.nodes /\ c.arg.id \notin q.nodes
             /\ c.fn = "assign" =>
                  /\ Saved(q, c.arg.id, c.arg.edit)
                  /\ \A n \in Panel!Nodes \ {c.arg.id} : q.meta[n] = s.meta[n]
<1> USE DEF Panel!Applied, PanelCall, PanelServer
<1> DEFINE q == Panel!Applied(s, c)
<1>1. CASE c.fn = "assign"
  <2> DEFINE n == c.arg.id
             w == Panel!Merged(s.meta[n], c.arg.edit)
  <2>1. q = [s EXCEPT !.meta[n] = w] BY <1>1
  <2>2. n \in Panel!Nodes /\ w \in Panel!Meta /\ Panel!Merged(w, c.arg.edit) = w BY <1>1, MergedIsMeta
  <2> HIDE DEF q, n, w
  <2>3. /\ PanelServer(q) /\ q.nodes = s.nodes /\ q.meta[n] = w
        /\ \A z \in Panel!Nodes \ {n} : q.meta[z] = s.meta[z]
    BY <2>1, <2>2
  <2>4. Saved(q, n, c.arg.edit) BY <2>2, <2>3 DEF Saved
  <2> QED BY <1>1, <2>3, <2>4 DEF q, n
<1>2. CASE c.fn = "name"
  <2> DEFINE w == [s.meta[c.arg.id] EXCEPT !.name = c.arg.name]
  <2>1. w \in Panel!Meta /\ c.arg.id \in Panel!Nodes BY <1>2 DEF Panel!Meta, FieldValues
  <2>2. q = [s EXCEPT !.meta[c.arg.id] = w] BY <1>2
  <2> HIDE DEF q, w
  <2>3. PanelServer(q) /\ q.nodes = s.nodes BY <2>1, <2>2
  <2> QED BY <1>2, <2>3 DEF q
<1>3. CASE c.fn = "promote"
  <2> DEFINE a == c.arg
             n == PromotedTo[a.id]
             e == IF a.category = Panel!Empty THEN [f \in {"name"} |-> a.name]
                  ELSE [f \in {"name", "category"} |-> IF f = "name" THEN a.name ELSE a.category]
             w == Panel!Merged(s.meta[n], e)
  <2>1. q = [s EXCEPT !.nodes = (s.nodes \ {a.id}) \union {n}, !.meta[n] = w] BY <1>3 DEF Panel!PromotedIn
  <2>2. n \in Switches \ Neighbours /\ a.id \in Neighbours BY <1>3, Zenon
  <2>3. IsEdit(e) BY <1>3 DEF IsEdit, Panel!Fields, FieldValues
  <2>4. w \in Panel!Meta BY <2>2, <2>3, MergedIsMeta DEF Panel!Nodes
  <2> HIDE DEF q, a, n, e, w
  <2>5. PanelServer(q) /\ q.nodes = (s.nodes \ {a.id}) \union {n} BY <2>1, <2>2, <2>4 DEF Panel!Nodes
  <2> QED BY <1>3, <2>2, <2>5 DEF q, a
<1>4. CASE c.fn = "stack"
  <2>1. q = [s EXCEPT !.stacks = @ \union {c.arg.id}] BY <1>4
  <2> HIDE DEF q
  <2>2. PanelServer(q) /\ q.nodes = s.nodes BY <2>1
  <2> QED BY <1>4, <2>2 DEF q
<1>5. CASE c.fn = "create"
  <2> DEFINE w == Panel!With(s.cats, c.arg.key, (IF c.arg.key \in DOMAIN s.cats THEN s.cats[c.arg.key] ELSE {})
                                                \union (IF c.arg.sub = Panel!Empty THEN {} ELSE {c.arg.sub}))
  <2>1. q = [s EXCEPT !.cats = w] BY <1>5
  <2> HIDE DEF q, w
  <2>2. PanelServer(q) /\ q.nodes = s.nodes BY <2>1
  <2> QED BY <1>5, <2>2 DEF q
<1>6. CASE c.fn = "delete"
  <2>1. q = Panel!Without(s, c.arg.key) BY <1>6
  <2> HIDE DEF q
  <2>2. PanelServer(q) /\ q.nodes = s.nodes BY <2>1, WithoutKeeps
  <2> QED BY <1>6, <2>2 DEF q
<1>7. CASE c.fn = "deletesub"
  <2>1. q = Panel!WithoutSub(s, c.arg.key, c.arg.sub) BY <1>7
  <2> HIDE DEF q
  <2>2. PanelServer(q) /\ q.nodes = s.nodes BY <2>1, WithoutSubKeeps
  <2> QED BY <1>7, <2>2 DEF q
<1> QED BY <1>1, <1>2, <1>3, <1>4, <1>5, <1>6, <1>7 DEF Panel!Changes

LEMMA AppliedDeletes ==
  ASSUME NEW s, PanelServer(s), NEW c, c.fn \in Deletes
  PROVE  /\ IsDeleted(c, Panel!Applied(s, c))
         /\ c.fn = "deletesub" /\ IsDeleted(c, s) => Panel!Applied(s, c) = s
<1>1. c.fn = "delete" => Panel!Applied(s, c) = Panel!Without(s, c.arg.key) BY DEF Panel!Applied
<1>2. c.fn = "deletesub" => Panel!Applied(s, c) = Panel!WithoutSub(s, c.arg.key, c.arg.sub) BY DEF Panel!Applied
<1> QED BY <1>1, <1>2, WithoutKeeps, WithoutSubKeeps DEF IsDeleted, Deletes

(* A click only counts.                                                     *)
LEMMA PanelClicked ==
  ASSUME PanelServer(server), Panel!Clicked
  PROVE  /\ PanelServer(server') /\ server'.nodes = server.nodes /\ server'.meta = server.meta
         /\ Panel!Classified(server') = Panel!Classified(server) /\ server' # server
<1>1. /\ PanelServer(server') /\ server'.nodes = server.nodes /\ server'.meta = server.meta
      /\ server'.cats = server.cats /\ server'.clicks # server.clicks
  BY DEF PanelServer, Panel!Clicked
<1> QED BY <1>1 DEF Panel!Classified

LEMMA PanelNext ==
  ASSUME DOMAIN calls' = Panel!Ids, \A i \in Panel!Ids : PanelCall(calls'[i]),
         PanelPage(page'), PanelServer(server')
  PROVE  PanelRest'
BY DEF PanelRest, PanelCall, PanelPage, PanelServer, IsEdit, FieldValues, Panel!Ids, Panel!Nodes, Panel!Meta, Panel!Fields,
   CallFields

LEMMA PanelNextTurn ==
  ASSUME \A i \in Panel!Ids : PanelTold(calls'[i], page', server'), PanelShown(calls', page', server'),
         \A i, j \in Panel!Ids : i # j => PanelPair(calls'[i], calls'[j], server')
  PROVE  PanelTurn'
BY DEF PanelTurn, PanelTold, PanelPair, Saved, IsDeleted, Promoting, Renewing, Deletes

(* What goes on in call i, beside others.                                   *)
LEMMA PanelGoesOn ==
  ASSUME PanelInv, UNCHANGED inTurn, NEW i \in Panel!Ids, NEW c, Panel!GoesOn(i, c), PanelCall(c),
         PanelPage(page'), PanelServer(server'),
         inTurn =>
           /\ PanelTold(c, page', server') /\ PanelShown(calls', page', server')
           /\ \A j \in Panel!Ids \ {i} :
                /\ PanelTold(calls[j], page', server')
                /\ PanelPair(c, calls[j], server') /\ PanelPair(calls[j], c, server')
                /\ \A k \in Panel!Ids \ {i, j} : PanelPair(calls[j], calls[k], server')
  PROVE  PanelInv'
<1>1. /\ DOMAIN calls' = Panel!Ids /\ calls'[i] = c
      /\ \A j \in Panel!Ids \ {i} : calls'[j] = calls[j]
  BY PanelMoves DEF PanelInv, PanelRest
<1>2. PanelRest' BY <1>1, PanelNext DEF PanelInv, PanelRest
<1>3. ASSUME inTurn PROVE PanelTurn'
  <2>1. \A j \in Panel!Ids : PanelTold(calls'[j], page', server') BY <1>1, <1>3
  <2>2. ASSUME NEW j \in Panel!Ids, NEW k \in Panel!Ids, j # k PROVE PanelPair(calls'[j], calls'[k], server') BY <1>1, <1>3, <2>2
  <2> QED BY <1>3, <2>1, <2>2, PanelNextTurn
<1> QED BY <1>2, <1>3 DEF PanelInv

LEMMA PanelNothing ==
  /\ Panel!NoCall.fn = Panel!None
  /\ \A p, s : PanelTold(Panel!NoCall, p, s)
  /\ \A c, s : PanelPair(c, Panel!NoCall, s) /\ PanelPair(Panel!NoCall, c, s)
  /\ \A c : c.fn = Panel!None => ~Renewing(c) /\ \A n : ~Promoting(c, n)
BY DEF PanelTold, PanelPair, Panel!NoCall, Panel!None, Deletes, Renewing, Promoting, Panel!Changes

(* A call that neither loads nor deletes is alone.                          *)
LEMMA PanelAlone ==
  ASSUME PanelInv, inTurn, NEW i \in Panel!Ids, calls[i].fn \notin Deletes \union {"load", Panel!None}
  PROVE  \A j \in Panel!Ids \ {i} : calls[j].fn = Panel!None
<1> SUFFICES ASSUME NEW j \in Panel!Ids \ {i} PROVE calls[j].fn = Panel!None OBVIOUS
<1>1. PanelPair(calls[i], calls[j], server) BY DEF PanelInv, PanelTurn
<1> QED BY <1>1 DEF PanelPair

LEMMA PanelGoesOnAlone ==
  ASSUME PanelInv, UNCHANGED inTurn, NEW i \in Panel!Ids, NEW c, Panel!GoesOn(i, c), PanelCall(c),
         PanelPage(page'), PanelServer(server'),
         inTurn =>
           /\ \A j \in Panel!Ids \ {i} : calls[j].fn = Panel!None
           /\ PanelTold(c, page', server')
           /\ page'.known = Panel!Classified(server') \/ Renewing(c)
           /\ \A n \in DOMAIN page'.pending : n \in server'.nodes \/ Promoting(c, n)
  PROVE  PanelInv'
<1>1. calls'[i] = c BY PanelMoves DEF PanelInv, PanelRest
<1>2. ASSUME inTurn, NEW j \in Panel!Ids \ {i}
      PROVE  /\ PanelTold(calls[j], page', server') /\ PanelPair(c, calls[j], server')
             /\ PanelPair(calls[j], c, server')
             /\ \A k \in Panel!Ids \ {i, j} : PanelPair(calls[j], calls[k], server')
  BY <1>2 DEF PanelTold, PanelPair, Panel!None
<1>3. inTurn => PanelShown(calls', page', server') BY <1>1 DEF PanelShown
<1> QED BY <1>2, <1>3, PanelGoesOn

(* What a call that ends, or goes on, leaves to see.                        *)
LEMMA PanelQuietly ==
  ASSUME PanelInv, inTurn, Panel!Quiet
  PROVE  /\ page.known = Panel!Classified(server) /\ DOMAIN page.pending \subseteq server.nodes
         /\ \A i \in Panel!Ids : calls[i].fn = Panel!None
<1>1. PanelShown(calls, page, server) /\ \A i \in Panel!Ids : calls[i].fn = Panel!None BY DEF PanelInv, PanelTurn, Panel!Quiet
<1> QED BY <1>1, PanelNothing DEF PanelShown

LEMMA PanelOnlyClicks ==
  ASSUME PanelInv, UNCHANGED <<inTurn, calls>>, Panel!MayClick, Panel!Clicked, PanelPage(page'),
         page'.known = page.known, DOMAIN page'.pending \subseteq DOMAIN page.pending \union page.known.nodes
  PROVE  PanelInv'
<1>1. PanelServer(server) BY DEF PanelInv, PanelRest
<1>2. PanelRest' BY <1>1, PanelClicked, PanelNext DEF PanelInv, PanelRest
<1>3. ASSUME inTurn PROVE PanelTurn'
  <2>1. Panel!Quiet BY <1>3 DEF Panel!MayClick
  <2>2. /\ page'.known = Panel!Classified(server') /\ DOMAIN page'.pending \subseteq server'.nodes
        /\ \A i \in Panel!Ids : calls'[i].fn = Panel!None
    BY <1>1, <1>3, <2>1, PanelQuietly, PanelClicked, ClassifiedIs
  <2>3. /\ \A i \in Panel!Ids : PanelTold(calls'[i], page', server')
        /\ \A i, j \in Panel!Ids : i # j => PanelPair(calls'[i], calls'[j], server')
    BY <2>2 DEF PanelTold, PanelPair, Panel!None
  <2>4. PanelShown(calls', page', server') BY <2>2 DEF PanelShown
  <2> QED BY <2>3, <2>4, PanelNextTurn
<1> QED BY <1>2, <1>3 DEF PanelInv

LEMMA PanelClickStarts ==
  ASSUME PagesAreRight, PanelInv, UNCHANGED <<inTurn, page>>, Panel!MayClick, Panel!Clicked,
         NEW c, Panel!Starts(c), PanelCall(c), c.at = "sent", inTurn => PanelTold(c, page, server)
  PROVE  PanelInv'
<1>1. Policy!CallsAssumption BY Zenon
<1>2. PICK i \in Panel!Ids : calls[i].fn = Panel!None /\ Panel!GoesOn(i, c) BY <1>1, PanelStarts DEF PanelInv, PanelRest
<1>3. PanelServer(server) /\ PanelPage(page') BY DEF PanelInv, PanelRest
<1>4. ASSUME inTurn
      PROVE  /\ \A j \in Panel!Ids \ {i} : calls[j].fn = Panel!None
             /\ PanelTold(c, page', server')
             /\ page'.known = Panel!Classified(server')
             /\ \A n \in DOMAIN page'.pending : n \in server'.nodes
  <2>1. Panel!Quiet BY <1>4 DEF Panel!MayClick
  <2>2. PanelTold(c, page', server') BY <1>3, <1>4, PanelClicked DEF PanelTold, Saved
  <2> QED BY <1>3, <1>4, <2>1, <2>2, PanelQuietly, PanelClicked
<1> QED BY <1>2, <1>3, <1>4, PanelClicked, PanelGoesOnAlone

LEMMA StagedPage ==
  ASSUME PanelPage(page), NEW n \in page.known.nodes, NEW e, IsEdit(e)
  PROVE  /\ PanelPage(Panel!Staged(n, e)) /\ Panel!Staged(n, e).known = page.known
         /\ DOMAIN Panel!Staged(n, e).pending = DOMAIN page.pending \union {n}
<1> DEFINE w == Panel!With(page.pending, n, e)
<1>1. /\ DOMAIN w = DOMAIN page.pending \union {n}
      /\ \A m \in DOMAIN w : w[m] = IF m = n THEN e ELSE page.pending[m]
  BY DEF Panel!With
<1>2. Panel!Staged(n, e) = [page EXCEPT !.pending = w] BY DEF Panel!Staged
<1> HIDE DEF w
<1> QED BY <1>1, <1>2 DEF PanelPage, IsClassification

LEMMA PanelTypedKeeps ==
  ASSUME PagesAreRight, PanelInv, UNCHANGED inTurn,
         \/ Panel!Filter \/ Panel!Discard
         \/ \E n \in Panel!Nodes :
              \/ \E v \in DeviceNames : Panel!StageName(n, v)
              \/ \E b \in Subs \union {Panel!Empty} : Panel!StageSubcategory(n, b)
              \/ \E k \in Cats \union {Panel!Base} : Panel!StageCategory(n, k)
  PROVE  PanelInv'
<1>1. PanelPage(page) BY DEF PanelInv, PanelRest
<1>2. CASE Panel!Filter
  <2>1. page' = Panel!Rendered(page) /\ Panel!MayClick /\ Panel!Clicked /\ UNCHANGED calls BY <1>2, Zenon DEF Panel!Filter
  <2> QED BY <1>1, <2>1, RenderedPage, PanelOnlyClicks
<1>3. CASE Panel!Discard
  <2> DEFINE p == [page EXCEPT !.pending = Panel!NoEdits]
  <2>1. page' = Panel!Rendered(p) /\ Panel!MayClick /\ Panel!Clicked /\ UNCHANGED calls BY <1>3, Zenon DEF Panel!Discard
  <2>2. PanelPage(p) /\ p.known = page.known /\ DOMAIN p.pending = {} BY <1>1, NothingIsEdit DEF PanelPage
  <2> HIDE DEF p
  <2> QED BY <2>1, <2>2, RenderedPage, PanelOnlyClicks
<1>4. ASSUME NEW n \in page.known.nodes, NEW e, IsEdit(e), Panel!MayClick, Panel!Clicked, UNCHANGED calls,
             page' = Panel!Staged(n, e) \/ page' = Panel!Rendered(Panel!Staged(n, e))
      PROVE  PanelInv'
  <2> DEFINE q == Panel!Staged(n, e)
  <2>1. PanelPage(q) /\ q.known = page.known /\ DOMAIN q.pending = DOMAIN page.pending \union {n} BY <1>1, <1>4, StagedPage
  <2>2. page' = q \/ page' = Panel!Rendered(q) BY <1>4
  <2> HIDE DEF q
  <2>3. /\ PanelPage(page') /\ page'.known = page.known
        /\ DOMAIN page'.pending \subseteq DOMAIN page.pending \union page.known.nodes
    BY <2>1, <2>2, RenderedPage
  <2> QED BY <1>4, <2>3, PanelOnlyClicks
<1>5. \A n : IsEdit(Panel!Edited(n)) BY <1>1, EditedIsEdit
<1>6. ASSUME NEW n, NEW v \in DeviceNames, Panel!StageName(n, v) PROVE PanelInv'
  <2>1. v \in FieldValues["name"] /\ "name" \in Panel!Fields BY DEF FieldValues, Panel!Fields
  <2>2. IsEdit(Panel!With(Panel!Edited(n), "name", v)) BY <1>5, <2>1, StagedIsEdit
  <2> QED BY <1>4, <1>6, <2>2, Zenon DEF Panel!StageName
<1>7. ASSUME NEW n, NEW b \in Subs \union {Panel!Empty}, Panel!StageSubcategory(n, b) PROVE PanelInv'
  <2>1. b \in FieldValues["subcategory"] /\ "subcategory" \in Panel!Fields BY DEF FieldValues, Panel!Fields
  <2>2. IsEdit(Panel!With(Panel!Edited(n), "subcategory", b)) BY <1>5, <2>1, StagedIsEdit
  <2> QED BY <1>4, <1>7, <2>2, Zenon DEF Panel!StageSubcategory
<1>8. ASSUME NEW n, NEW k \in Cats \union {Panel!Base}, Panel!StageCategory(n, k) PROVE PanelInv'
  <2>1. /\ k \in FieldValues["category"] /\ "category" \in Panel!Fields
        /\ Panel!Empty \in FieldValues["subcategory"] /\ "subcategory" \in Panel!Fields
    BY DEF FieldValues, Panel!Fields
  <2>2. IsEdit(Panel!With(Panel!Edited(n), "category", k)) BY <1>5, <2>1, StagedIsEdit
  <2>3. IsEdit(Panel!With(Panel!With(Panel!Edited(n), "category", k), "subcategory", Panel!Empty)) BY <2>1, <2>2, StagedIsEdit
  <2> QED BY <1>4, <1>8, <2>3, Zenon DEF Panel!StageCategory
<1> QED BY <1>2, <1>3, <1>6, <1>7, <1>8

LEMMA PanelAsksKeep ==
  ASSUME PagesAreRight, PanelInv, UNCHANGED inTurn,
         \/ Panel!Refresh \/ Panel!Save
         \/ \E f \in Neighbours : Panel!Promote(f)
         \/ \E n \in Panel!Nodes : Panel!MarkAsStack(n) \/ \E v \in DeviceNames : Panel!ConfirmConflict(n, v)
         \/ \E k \in Cats : \E b \in Subs \union {Panel!Empty} : Panel!CreateCategory(k, b)
  PROVE  PanelInv'
<1>1. PanelPage(page) /\ \A n : IsEdit(Panel!Edited(n)) BY EditedIsEdit DEF PanelInv, PanelRest
<1>2. ASSUME NEW fn, NEW arg, Panel!MayClick, Panel!Clicked, UNCHANGED page, Panel!Starts(Panel!Asks(fn, arg)),
             fn # "assign" /\ PanelCall(Panel!Asks(fn, arg))
      PROVE  PanelInv'
  <2> DEFINE c == Panel!Asks(fn, arg)
  <2>1. c.fn = fn /\ c.at = "sent" BY PanelRequests
  <2>2. PanelTold(c, page, server) BY <1>2, <2>1 DEF PanelTold
  <2>3. PanelCall(c) /\ Panel!Starts(c) BY <1>2
  <2> HIDE DEF c
  <2> QED BY <1>2, <2>1, <2>2, <2>3, PanelClickStarts
<1>3. \A fn, arg : fn \notin {"load", "assign", "name", "promote"} => PanelCall(Panel!Asks(fn, arg))
  BY PanelRequests DEF PanelCall, CallFields
<1>4. CASE Panel!Refresh
  <2>1. PanelCall(Panel!Asks("load", <<>>)) BY PanelRequests DEF PanelCall, CallFields
  <2> QED BY <1>2, <1>4, <2>1, Zenon DEF Panel!Refresh, Panel!Load
<1>5. CASE Panel!Save
  <2>1. /\ Panel!MayClick /\ Panel!Clicked /\ UNCHANGED page
        /\ \E n \in DOMAIN page.pending : Panel!Starts(Panel!Assigns(n, DOMAIN page.pending \ {n}))
    BY <1>5 DEF Panel!Save
  <2>2. PICK n \in DOMAIN page.pending : Panel!Starts(Panel!Assigns(n, DOMAIN page.pending \ {n})) BY <2>1
  <2> DEFINE c == Panel!Assigns(n, DOMAIN page.pending \ {n})
  <2>3. /\ c.fn = "assign" /\ c.at = "sent" /\ c.got = <<>> /\ DOMAIN c = CallFields
        /\ c.arg.id = n /\ c.arg.edit = Panel!Edited(n) /\ c.arg.todo = DOMAIN page.pending \ {n}
    BY PanelRequests DEF Panel!Assigns, CallFields
  <2>4. Panel!Edited(n) = page.pending[n] BY DEF Panel!Edited
  <2>5. Panel!Starts(c) BY <2>2
  <2> HIDE DEF c
  <2>6. PanelCall(c) BY <1>1, <2>3 DEF PanelCall, PanelPage
  <2>7. PanelTold(c, page, server) BY <2>3, <2>4 DEF PanelTold
  <2> QED BY <2>1, <2>3, <2>5, <2>6, <2>7, PanelClickStarts
<1>6. ASSUME NEW f \in Neighbours, Panel!Promote(f) PROVE PanelInv'
  <2> DEFINE e == Panel!Edited(f)
             nm == IF "name" \in DOMAIN e THEN e["name"] ELSE page.known.meta[f].name
             arg == [id |-> f, name |-> nm, category |-> page.known.meta[f].category]
  <2>1. /\ Panel!MayClick /\ Panel!Clicked /\ UNCHANGED page /\ f \in page.known.nodes
        /\ Panel!Starts(Panel!Asks("promote", arg))
    BY <1>6, Zenon DEF Panel!Promote
  <2>2. page.known.meta[f] \in Panel!Meta /\ IsEdit(e) BY <1>1, <2>1 DEF PanelPage, IsClassification
  <2>3. nm \in FieldValues.name /\ page.known.meta[f].category \in FieldValues.category BY <2>2 DEF IsEdit, FieldValues, Panel!Meta
  <2>4. PanelCall(Panel!Asks("promote", arg)) BY <2>3, PanelRequests DEF PanelCall, CallFields
  <2> HIDE DEF arg
  <2> QED BY <1>2, <2>1, <2>4
<1>7. ASSUME NEW n \in Panel!Nodes, Panel!MarkAsStack(n) PROVE PanelInv'
  <2>1. "stack" # "assign" /\ PanelCall(Panel!Asks("stack", [id |-> n])) BY <1>3
  <2> QED BY <1>2, <1>7, <2>1, Zenon DEF Panel!MarkAsStack
<1>8. ASSUME NEW n \in Panel!Nodes, NEW v \in DeviceNames, Panel!ConfirmConflict(n, v) PROVE PanelInv'
  <2>1. PanelCall(Panel!Asks("name", [id |-> n, name |-> v])) BY PanelRequests DEF PanelCall, CallFields, FieldValues
  <2> QED BY <1>2, <1>8, <2>1, Zenon DEF Panel!ConfirmConflict
<1>9. ASSUME NEW k \in Cats, NEW b, Panel!CreateCategory(k, b) PROVE PanelInv'
  <2>1. "create" # "assign" /\ PanelCall(Panel!Asks("create", [key |-> k, sub |-> b])) BY <1>3
  <2> QED BY <1>2, <1>9, <2>1, Zenon DEF Panel!CreateCategory
<1> QED BY <1>4, <1>5, <1>6, <1>7, <1>8, <1>9

(* One click or several: the same call in one place or in two.              *)
LEMMA PanelDeletesKeep ==
  ASSUME PagesAreRight, PanelInv, UNCHANGED inTurn,
         \E k \in Cats : Panel!DeleteCategory(k) \/ \E b \in Subs : Panel!DeleteSubcategory(k, b)
  PROVE  PanelInv'
<1>1. ASSUME NEW fn \in Deletes, NEW arg, Panel!Delete(Panel!Asks(fn, arg)) PROVE PanelInv'
  <2> DEFINE c == Panel!Asks(fn, arg)
  <2>1. c.fn = fn /\ c.at = "sent" /\ c.got = <<>> /\ DOMAIN c = CallFields BY PanelRequests DEF CallFields
  <2>2. \A cs : DOMAIN cs = Panel!Ids =>
          DOMAIN Panel!Begun(cs, c) = Panel!Ids /\ \A j \in Panel!Ids : Panel!Begun(cs, c)[j] \in {cs[j], c}
    BY DEF Panel!Begun
  <2>3. /\ Panel!MayClick /\ Panel!Clicked /\ UNCHANGED page
        /\ calls' = Panel!Begun(calls, c) \/ calls' = Panel!Begun(Panel!Begun(calls, c), c)
    BY <1>1, Zenon DEF Panel!Delete
  <2> HIDE DEF c
  <2>4. PanelPage(page) /\ PanelServer(server) /\ DOMAIN calls = Panel!Ids /\ \A j \in Panel!Ids : PanelCall(calls[j])
    BY DEF PanelInv, PanelRest
  <2>5. DOMAIN calls' = Panel!Ids /\ \A j \in Panel!Ids : calls'[j] \in {calls[j], c}
    <3>1. CASE calls' = Panel!Begun(calls, c) BY <2>2, <2>4, <3>1
    <3>2. CASE calls' = Panel!Begun(Panel!Begun(calls, c), c)
      <4> DEFINE cs == Panel!Begun(calls, c)
      <4>1. DOMAIN cs = Panel!Ids /\ \A j \in Panel!Ids : cs[j] \in {calls[j], c} BY <2>2, <2>4
      <4> HIDE DEF cs
      <4>2. DOMAIN Panel!Begun(cs, c) = Panel!Ids /\ \A j \in Panel!Ids : Panel!Begun(cs, c)[j] \in {cs[j], c} BY <2>2, <4>1
      <4> QED BY <3>2, <4>1, <4>2 DEF cs
    <3> QED BY <2>3, <3>1, <3>2
  <2>6. PanelCall(c) /\ \A p, s : PanelTold(c, p, s) BY <2>1 DEF PanelCall, PanelTold, Deletes
  <2>7. PanelRest' BY <2>3, <2>4, <2>5, <2>6, PanelNext, PanelClicked
  <2>8. ASSUME inTurn PROVE PanelTurn'
    <3>1. Panel!Quiet BY <2>3, <2>8 DEF Panel!MayClick
    <3>2. /\ page'.known = Panel!Classified(server') /\ DOMAIN page'.pending \subseteq server'.nodes
          /\ \A j \in Panel!Ids : calls[j].fn = Panel!None
      BY <2>3, <2>4, <2>8, <3>1, PanelQuietly, PanelClicked
    <3>3. \A j \in Panel!Ids : PanelTold(calls'[j], page', server')
      <4>1. \A j \in Panel!Ids : PanelTold(calls[j], page', server') BY <3>2 DEF PanelTold, Panel!None
      <4> QED BY <2>5, <2>6, <4>1
    <3>4. \A i, j \in Panel!Ids : i # j => PanelPair(calls'[i], calls'[j], server') BY <2>1, <2>5, <3>2 DEF PanelPair
    <3> QED BY <3>2, <3>3, <3>4, PanelNextTurn DEF PanelShown
  <2> QED BY <2>7, <2>8 DEF PanelInv
<1>2. ASSUME NEW k, Panel!DeleteCategory(k) PROVE PanelInv' BY <1>1, <1>2 DEF Panel!DeleteCategory, Deletes
<1>3. ASSUME NEW k, NEW b, Panel!DeleteSubcategory(k, b) PROVE PanelInv' BY <1>1, <1>3 DEF Panel!DeleteSubcategory, Deletes
<1> QED BY <1>2, <1>3

LEMMA PanelFacts ==
  ASSUME PanelInv, NEW i \in Panel!Ids
  PROVE  /\ PanelPage(page) /\ PanelServer(server) /\ DOMAIN calls = Panel!Ids /\ PanelCall(calls[i])
         /\ inTurn => /\ PanelTold(calls[i], page, server) /\ PanelShown(calls, page, server)
                      /\ \A j \in Panel!Ids : PanelTold(calls[j], page, server)
                      /\ \A j, k \in Panel!Ids : j # k => PanelPair(calls[j], calls[k], server)
BY DEF PanelInv, PanelRest, PanelTurn

LEMMA PanelLoadIs ==
  /\ Panel!Load.fn = "load" /\ Panel!Load.at = "sent" /\ PanelCall(Panel!Load) /\ Renewing(Panel!Load)
  /\ \A p, s : PanelTold(Panel!Load, p, s)
BY PanelRequests DEF Panel!Load, PanelCall, CallFields, PanelTold, Renewing

LEMMA PanelLoadedKeeps == ASSUME PagesAreRight, PanelInv, UNCHANGED inTurn, NEW i \in Panel!Ids, Panel!Loaded(i) PROVE PanelInv'
<1> DEFINE q == [page EXCEPT !.known = Panel!Answer(i)]
<1>1. /\ calls[i].fn = "load" /\ calls[i].at = "back" /\ UNCHANGED server /\ Panel!Ends(i)
      /\ page' = IF Panel!Answered(i) THEN Panel!Rendered(q) ELSE page
  BY Zenon DEF Panel!Loaded, Panel!Back
<1>2. Panel!GoesOn(i, Panel!NoCall) BY <1>1, PanelFacts, PanelSteps
<1>3. /\ DOMAIN calls' = Panel!Ids /\ calls'[i] = Panel!NoCall
      /\ \A j \in Panel!Ids \ {i} : calls'[j] = calls[j]
  BY <1>2, PanelFacts, PanelMoves
<1>4. CASE ~Panel!Answered(i)
  <2>1. ~inTurn
    <3>1. inTurn => calls[i].got = <<Panel!Classified(server)>> BY <1>1, PanelFacts DEF PanelTold
    <3>2. \A d : <<d>> # <<>> OBVIOUS
    <3> QED BY <1>4, <3>1, <3>2 DEF Panel!Answered
  <2> QED BY <1>1, <1>2, <1>4, <2>1, PanelFacts, PanelGoesOn, PanelRequests
<1>5. CASE Panel!Answered(i)
  <2>1. PanelPage(q) /\ q.known = Panel!Answer(i) /\ q.pending = page.pending
    BY <1>1, <1>5, PanelFacts DEF PanelPage, PanelCall, Panel!Answered, Panel!Answer
  <2>2. page' = Panel!Rendered(q) BY <1>1, <1>5
  <2> HIDE DEF q
  <2>3. PanelPage(page') /\ page'.known = Panel!Answer(i) /\ page'.pending = page.pending BY <2>1, <2>2, RenderedPage
  <2>4. ASSUME inTurn
        PROVE  /\ PanelTold(Panel!NoCall, page', server') /\ PanelShown(calls', page', server')
               /\ \A j \in Panel!Ids \ {i} :
                    /\ PanelTold(calls[j], page', server')
                    /\ PanelPair(Panel!NoCall, calls[j], server') /\ PanelPair(calls[j], Panel!NoCall, server')
                    /\ \A k \in Panel!Ids \ {i, j} : PanelPair(calls[j], calls[k], server')
    <3>1. page'.known = Panel!Classified(server) BY <1>1, <2>3, <2>4, PanelFacts DEF PanelTold, Panel!Answer
    <3>2. \A k \in Panel!Ids, n \in DOMAIN page.pending : Promoting(calls[k], n) => k # i BY <1>1 DEF Promoting
    <3>3. PanelShown(calls', page', server') BY <1>1, <1>3, <2>3, <2>4, <3>1, <3>2, PanelFacts DEF PanelShown
    <3>4. \A j \in Panel!Ids : PanelTold(calls[j], page', server) BY <2>3, <2>4, PanelFacts DEF PanelTold
    <3> QED BY <1>1, <2>4, <3>3, <3>4, PanelNothing, PanelFacts
  <2> QED BY <1>1, <1>2, <2>3, <2>4, PanelFacts, PanelGoesOn, PanelRequests
<1> QED BY <1>4, <1>5

LEMMA PanelAssignedKeeps == ASSUME PagesAreRight, PanelInv, UNCHANGED inTurn, NEW i \in Panel!Ids, Panel!Assigned(i) PROVE PanelInv'
<1> DEFINE todo == calls[i].arg.todo
           q == [page EXCEPT !.pending = Panel!NoEdits]
<1>1. /\ calls[i].fn = "assign" /\ calls[i].at = "back" /\ UNCHANGED server
      /\ IF todo # {}
         THEN \E n \in todo : Panel!GoesOn(i, Panel!Assigns(n, todo \ {n})) /\ UNCHANGED page
         ELSE Panel!GoesOn(i, Panel!Load) /\ page' = q
  BY Zenon DEF Panel!Assigned, Panel!Back
<1>2. inTurn => \A j \in Panel!Ids \ {i} : calls[j].fn = Panel!None BY <1>1, PanelAlone DEF Deletes, Panel!None
<1>3. CASE todo = {}
  <2>1. PanelPage(q) /\ DOMAIN q.pending = {} BY PanelFacts, NothingIsEdit DEF PanelPage
  <2>2. page' = q BY <1>1, <1>3
  <2> HIDE DEF q
  <2> QED BY <1>1, <1>2, <1>3, <2>1, <2>2, PanelLoadIs, PanelFacts, PanelGoesOnAlone
<1>4. CASE todo # {}
  <2>1. PICK n \in todo : Panel!GoesOn(i, Panel!Assigns(n, todo \ {n})) /\ UNCHANGED page BY <1>1, <1>4
  <2> DEFINE c == Panel!Assigns(n, todo \ {n})
  <2>2. /\ c.fn = "assign" /\ c.at = "sent" /\ DOMAIN c = CallFields
        /\ c.arg.id = n /\ c.arg.edit = Panel!Edited(n) /\ c.arg.todo = todo \ {n}
    BY PanelRequests DEF Panel!Assigns, CallFields
  <2>3. Panel!GoesOn(i, c) BY <2>1
  <2> HIDE DEF c
  <2>4. PanelCall(c) BY <1>1, <2>2, PanelFacts, EditedIsEdit DEF PanelCall
  <2>5. ASSUME inTurn
        PROVE  /\ PanelTold(c, page', server') /\ Renewing(c)
               /\ \A m \in DOMAIN page'.pending : m \in server'.nodes
    <3>1. PanelTold(calls[i], page, server) /\ PanelShown(calls, page, server) BY <2>5, PanelFacts
    <3>2. n \in DOMAIN page.pending /\ Panel!Edited(n) = page.pending[n] BY <1>1, <3>1 DEF PanelTold, Panel!Edited
    <3>3. PanelTold(c, page, server) BY <1>1, <2>2, <3>1, <3>2 DEF PanelTold
    <3>4. \A k \in Panel!Ids, m \in DOMAIN page.pending : ~Promoting(calls[k], m) BY <1>1, <1>2, <2>5 DEF Promoting, Panel!None
    <3> QED BY <1>1, <2>1, <2>2, <3>1, <3>3, <3>4 DEF PanelShown, Renewing
  <2> QED BY <1>1, <1>2, <2>1, <2>3, <2>4, <2>5, PanelFacts, PanelGoesOnAlone
<1> QED BY <1>3, <1>4

LEMMA PanelPromotedKeeps == ASSUME PagesAreRight, PanelInv, UNCHANGED inTurn, NEW i \in Panel!Ids, Panel!Promoted(i) PROVE PanelInv'
<1> DEFINE f == calls[i].arg.id
           w == [n \in DOMAIN page.pending \ {f} |-> page.pending[n]]
           q == [page EXCEPT !.pending = w]
<1>1. calls[i].fn = "promote" /\ calls[i].at = "back" /\ UNCHANGED server BY DEF Panel!Promoted, Panel!Back
<1>2. inTurn => \A j \in Panel!Ids \ {i} : calls[j].fn = Panel!None BY <1>1, PanelAlone DEF Deletes, Panel!None
<1>3. ASSUME inTurn, NEW n \in DOMAIN page.pending
      PROVE  n \in server.nodes \/ (n = f /\ Panel!Answered(i))
  <2>1. PICK k \in Panel!Ids : n \in server.nodes \/ Promoting(calls[k], n) BY <1>3, PanelFacts DEF PanelShown
  <2> QED BY <1>2, <1>3, <2>1, PanelNothing DEF Promoting, Panel!Answered
<1>4. CASE Panel!Answered(i)
  <2>1. page' = q /\ Panel!GoesOn(i, Panel!Load) BY <1>4, Zenon DEF Panel!Promoted
  <2>2. DOMAIN w = DOMAIN page.pending \ {f} /\ \A n \in DOMAIN w : w[n] = page.pending[n] OBVIOUS
  <2> HIDE DEF w
  <2>3. PanelPage(q) /\ q.pending = w BY <2>2, PanelFacts DEF PanelPage
  <2> HIDE DEF q, f
  <2> QED BY <1>1, <1>2, <1>3, <1>4, <2>1, <2>2, <2>3, PanelLoadIs, PanelFacts, PanelGoesOnAlone
<1>5. CASE ~Panel!Answered(i)
  <2>1. UNCHANGED page /\ Panel!Ends(i) BY <1>5, Zenon DEF Panel!Promoted
  <2>2. Panel!GoesOn(i, Panel!NoCall) BY <2>1, PanelFacts, PanelSteps
  <2>3. inTurn => page.known = Panel!Classified(server)
    <3> SUFFICES ASSUME inTurn PROVE page.known = Panel!Classified(server) OBVIOUS
    <3>1. \A k \in Panel!Ids : ~Renewing(calls[k]) BY <1>1, <1>2, <1>5, PanelNothing DEF Renewing, Panel!Answered
    <3> QED BY <3>1, PanelFacts DEF PanelShown
  <2> QED BY <1>1, <1>2, <1>3, <1>5, <2>1, <2>2, <2>3, PanelNothing, PanelRequests, PanelFacts, PanelGoesOnAlone
<1> QED BY <1>4, <1>5

LEMMA PanelChangedKeeps == ASSUME PagesAreRight, PanelInv, UNCHANGED inTurn, NEW i \in Panel!Ids, Panel!Changed(i) PROVE PanelInv'
<1>1. /\ calls[i].fn \in Panel!Changes /\ calls[i].at = "back" /\ UNCHANGED <<page, server>>
      /\ IF Panel!Answered(i) THEN Panel!GoesOn(i, Panel!Load) ELSE Panel!Ends(i)
  BY Zenon DEF Panel!Changed, Panel!Back
<1> DEFINE c == IF Panel!Answered(i) THEN Panel!Load ELSE Panel!NoCall
<1>2. Panel!GoesOn(i, c) BY <1>1, PanelFacts, PanelSteps
<1>3. calls'[i] = c /\ \A j \in Panel!Ids \ {i} : calls'[j] = calls[j] BY <1>2, PanelFacts, PanelMoves
<1>4. PanelCall(c) /\ \A p, s : PanelTold(c, p, s) BY PanelLoadIs, PanelNothing, PanelRequests
<1>5. c.fn \in {"load", Panel!None} /\ (Panel!Answered(i) => Renewing(c)) BY PanelLoadIs, PanelNothing
<1> HIDE DEF c
<1>6. ASSUME inTurn PROVE PanelShown(calls', page', server')
  <2>1. \A k \in Panel!Ids, n \in DOMAIN page.pending : Promoting(calls[k], n) => k # i BY <1>1 DEF Promoting, Panel!Changes
  <2>2. ~Panel!Answered(i) => ~Renewing(calls[i]) BY <1>1 DEF Renewing, Panel!Answered, Panel!Changes
  <2> QED BY <1>1, <1>3, <1>5, <1>6, <2>1, <2>2, PanelFacts DEF PanelShown
<1>7. ASSUME inTurn, NEW j \in Panel!Ids \ {i}
      PROVE  PanelPair(c, calls[j], server') /\ PanelPair(calls[j], c, server')
  <2>1. PanelPair(calls[j], calls[i], server) /\ calls[i].fn # Panel!None BY <1>1, <1>7, PanelFacts DEF Panel!Changes, Panel!None
  <2>2. calls[j].fn \in Deletes /\ calls[j].at = "sent" => calls[i] # calls[j] BY <1>1
  <2> QED BY <1>1, <1>5, <2>1, <2>2 DEF PanelPair, Deletes
<1> QED BY <1>1, <1>2, <1>4, <1>6, <1>7, PanelFacts, PanelGoesOn

LEMMA PanelReadsServe ==
  ASSUME PagesAreRight, PanelInv, UNCHANGED inTurn, NEW i \in Panel!Ids, Panel!ServeLoad(i) \/ Panel!Lose(i)
  PROVE  PanelInv'
<1>1. CASE Panel!Lose(i)
  <2>1. ~inTurn /\ UNCHANGED <<page, server>> /\ Panel!GoesOn(i, Panel!IsBack(calls[i], <<>>))
    BY <1>1, PanelFacts, PanelSteps DEF Panel!Lose
  <2>2. PanelCall(Panel!IsBack(calls[i], <<>>)) BY PanelFacts, PanelRequests DEF PanelCall, CallFields
  <2> QED BY <2>1, <2>2, PanelFacts, PanelGoesOn
<1>2. CASE Panel!ServeLoad(i)
  <2> DEFINE c == Panel!IsBack(calls[i], <<Panel!Classified(server)>>)
  <2>1. calls[i].fn = "load" /\ calls[i].at = "sent" /\ UNCHANGED <<page, server>> BY <1>2 DEF Panel!ServeLoad, Panel!Sent
  <2>2. Panel!GoesOn(i, c) BY <1>2, PanelFacts, PanelAnswers DEF Panel!ServeLoad
  <2>3. /\ c.fn = "load" /\ c.at = "back" /\ c.got = <<Panel!Classified(server)>> /\ DOMAIN c = CallFields
    BY <2>1, PanelRequests DEF CallFields
  <2> HIDE DEF c
  <2>4. calls'[i] = c /\ \A j \in Panel!Ids \ {i} : calls'[j] = calls[j] BY <2>2, PanelFacts, PanelMoves
  <2>5. PanelCall(c) BY <2>3, PanelFacts, ClassifiedIs DEF PanelCall
  <2>6. ASSUME inTurn PROVE PanelTold(c, page', server') /\ PanelShown(calls', page', server')
    <3>1. Renewing(c) /\ \A k \in Panel!Ids, n \in DOMAIN page.pending : Promoting(calls[k], n) => k # i
      BY <2>1, <2>3 DEF Promoting, Renewing
    <3> QED BY <2>1, <2>3, <2>4, <2>6, <3>1, PanelFacts DEF PanelTold, PanelShown
  <2>7. ASSUME inTurn, NEW j \in Panel!Ids \ {i}
        PROVE  PanelPair(c, calls[j], server') /\ PanelPair(calls[j], c, server')
    <3>1. PanelPair(calls[j], calls[i], server) BY <2>7, PanelFacts
    <3> QED BY <2>1, <2>3, <3>1 DEF PanelPair, Deletes
  <2> QED BY <2>1, <2>2, <2>5, <2>6, <2>7, PanelFacts, PanelGoesOn
<1> QED BY <1>1, <1>2

LEMMA PanelChangesServe ==
  ASSUME PagesAreRight, PanelInv, UNCHANGED inTurn, NEW i \in Panel!Ids, Panel!ServeChange(i)
  PROVE  PanelInv'
<1> USE DEF Panel!Changes, Deletes, Renewing, Panel!None, PanelTold, Promoting, IsDeleted, PanelPair
<1> DEFINE fails == calls[i].fn = "delete" /\ calls[i].arg.key \notin DOMAIN server.cats
           got == IF fails THEN <<>> ELSE <<"ok">>
           c == Panel!IsBack(calls[i], got)
<1>1. /\ calls[i].fn \in Panel!Changes \union {"assign", "promote"} /\ calls[i].at = "sent" /\ UNCHANGED page
      /\ server' = IF fails THEN server ELSE Panel!Applied(server, calls[i])
      /\ fails => Panel!Fails(i)
      /\ ~fails => Panel!Answers(i, "ok")
  BY Zenon DEF Panel!ServeChange, Panel!Sent
<1>2. Panel!GoesOn(i, c) BY <1>1, PanelFacts, PanelSteps, PanelAnswers
<1>3. /\ c.fn = calls[i].fn /\ c.at = "back" /\ c.arg = calls[i].arg /\ c.got = got /\ DOMAIN c = CallFields
      /\ ~fails => c.got # <<>>
  BY PanelRequests DEF CallFields
<1> HIDE DEF c, got
<1>4. calls'[i] = c /\ \A j \in Panel!Ids \ {i} : calls'[j] = calls[j] BY <1>2, PanelFacts, PanelMoves
<1>5. PanelCall(c) /\ PanelPage(page') BY <1>1, <1>3, PanelFacts DEF PanelCall
<1>6. PanelServer(server') BY <1>1, PanelFacts, AppliedServer
<1>7. c.fn \in Panel!Changes \union {"assign", "promote"} BY <1>1, <1>3
<1>8. CASE calls[i].fn \notin Deletes
  <2>1. server' = Panel!Applied(server, calls[i]) /\ ~fails BY <1>1, <1>8
  <2>2. Renewing(c) BY <1>3, <1>7, <2>1
  <2>3. ASSUME inTurn
        PROVE  /\ \A j \in Panel!Ids \ {i} : calls[j].fn = Panel!None
               /\ PanelTold(c, page', server')
               /\ \A n \in DOMAIN page'.pending : n \in server'.nodes \/ Promoting(c, n)
    <3>1. \A j \in Panel!Ids \ {i} : calls[j].fn = Panel!None BY <1>1, <1>8, <2>3, PanelAlone
    <3>2. PanelTold(calls[i], page, server) /\ PanelPage(page) /\ PanelServer(server) /\ PanelCall(calls[i]) BY <2>3, PanelFacts
    <3>3. ASSUME c.fn = "assign" PROVE PanelTold(c, page', server')
      <4>1. /\ Saved(server', calls[i].arg.id, calls[i].arg.edit)
            /\ \A n \in Panel!Nodes \ {calls[i].arg.id} : server'.meta[n] = server.meta[n]
        <5> DEFINE q == Panel!Applied(server, calls[i])
        <5>1. calls[i].fn = "assign" BY <1>3, <3>3
        <5>2. /\ Saved(q, calls[i].arg.id, calls[i].arg.edit)
              /\ \A n \in Panel!Nodes \ {calls[i].arg.id} : q.meta[n] = server.meta[n]
          BY <3>2, <5>1, AppliedServer
        <5>3. server' = q BY <2>1
        <5> HIDE DEF q
        <5> QED BY <5>2, <5>3
      <4>2. \A n \in DOMAIN page.pending : n \in Panel!Nodes BY <3>2 DEF PanelPage
      <4>3. ASSUME NEW n \in DOMAIN page.pending \ calls[i].arg.todo PROVE Saved(server', n, page.pending[n])
        BY <1>1, <1>3, <3>2, <3>3, <4>1, <4>2, <4>3 DEF Saved
      <4> QED BY <1>1, <1>3, <3>2, <3>3, <4>3
    <3>4. c.fn # "assign" => PanelTold(c, page', server') BY <1>1, <1>3, <1>7, <2>1, <3>2, AppliedServer
    <3>5. ASSUME NEW n \in DOMAIN page.pending PROVE n \in server'.nodes \/ Promoting(c, n)
      <4>1. \A j \in Panel!Ids : ~Promoting(calls[j], n) BY <1>1, <3>1, PanelNothing
      <4>2. n \in server.nodes BY <2>3, <4>1, PanelFacts DEF PanelShown
      <4>3. /\ c.fn # "promote" => server'.nodes = server.nodes
            /\ c.fn = "promote" => server.nodes \ {c.arg.id} \subseteq server'.nodes
        BY <1>1, <1>3, <2>1, <3>2, AppliedServer
      <4> QED BY <1>3, <2>1, <4>2, <4>3
    <3> QED BY <1>1, <3>1, <3>3, <3>4, <3>5
  <2> QED BY <1>2, <1>5, <1>6, <2>2, <2>3, PanelGoesOnAlone
<1>9. CASE calls[i].fn \in Deletes
  <2>1. /\ server'.nodes = server.nodes /\ IsDeleted(c, server')
        /\ IsDeleted(calls[i], server) => server' = server
    <3>1. CASE fails BY <1>1, <1>3, <3>1
    <3>2. CASE ~fails
      <4>1. server' = Panel!Applied(server, calls[i]) BY <1>1, <3>2
      <4>2. IsDeleted(c, server') <=> IsDeleted(calls[i], server') BY <1>3
      <4>3. PanelServer(server) /\ PanelCall(calls[i]) /\ calls[i].fn # "promote" BY <1>9, PanelFacts
      <4>4. IsDeleted(calls[i], server) => calls[i].fn = "deletesub" BY <1>9, <3>2
      <4>5. server'.nodes = server.nodes BY <1>1, <4>1, <4>3, AppliedServer
      <4> QED BY <1>9, <4>1, <4>2, <4>3, <4>4, <4>5, AppliedDeletes
    <3> QED BY <3>1, <3>2
  <2>2. ASSUME inTurn, server' # server, NEW j \in Panel!Ids \ {i}, calls[j].fn # Panel!None
        PROVE  calls[j] = calls[i]
    <3>1. PanelPair(calls[i], calls[j], server) BY <2>2, PanelFacts
    <3> QED BY <1>1, <1>9, <2>1, <2>2, <3>1
  <2>3. ASSUME inTurn PROVE PanelShown(calls', page', server')
    <3>1. \A k \in Panel!Ids, n \in DOMAIN page.pending : Promoting(calls[k], n) => k # i BY <1>9
    <3>2. Renewing(calls'[i]) \/ server' = server BY <1>1, <1>3, <1>4, <1>7
    <3>3. ~Renewing(calls[i]) BY <1>1, <1>9
    <3> QED BY <1>1, <1>4, <2>1, <2>3, <3>1, <3>2, <3>3, PanelFacts DEF PanelShown
  <2>4. \A e, p, s : e.fn \in Deletes \/ e.fn = Panel!None => PanelTold(e, p, s) OBVIOUS
  <2>5. ASSUME inTurn, NEW j \in Panel!Ids \ {i}
        PROVE  /\ PanelTold(calls[j], page', server')
               /\ PanelPair(c, calls[j], server') /\ PanelPair(calls[j], c, server')
               /\ \A k \in Panel!Ids \ {i, j} : PanelPair(calls[j], calls[k], server')
    <3>1. PanelTold(calls[j], page', server')
      <4>1. server' # server => calls[j].fn \in Deletes \/ calls[j].fn = Panel!None BY <1>9, <2>2, <2>5
      <4> QED BY <1>1, <2>4, <2>5, <4>1, PanelFacts
    <3>2. PanelPair(c, calls[j], server') BY <1>3, <1>9
    <3>3. PanelPair(calls[j], c, server')
      <4>1. calls[i].fn # Panel!None BY <1>9
      <4>2. PanelPair(calls[j], calls[i], server) BY <2>5, PanelFacts
      <4>3. calls[j] = calls[i] => IsDeleted(calls[j], server') /\ calls[j].fn \in Deletes BY <1>3, <1>9, <2>1
      <4>4. IsDeleted(calls[j], server) /\ calls[j] # calls[i] /\ calls[j].fn # Panel!None => IsDeleted(calls[j], server')
        BY <2>2, <2>5
      <4> QED BY <4>1, <4>2, <4>3, <4>4
    <3>4. ASSUME NEW k \in Panel!Ids \ {i, j} PROVE PanelPair(calls[j], calls[k], server')
      <4>1. PanelPair(calls[j], calls[k], server) BY <2>5, PanelFacts
      <4>2. CASE server' = server BY <4>1, <4>2
      <4>3. CASE server' # server
        <5>1. calls[j].fn # Panel!None => calls[j] = calls[i] BY <2>2, <2>5, <4>3
        <5>2. calls[k].fn # Panel!None => calls[k] = calls[i] BY <2>2, <2>5, <4>3
        <5> QED BY <1>9, <5>1, <5>2
      <4> QED BY <4>2, <4>3
    <3> QED BY <3>1, <3>2, <3>3, <3>4
  <2>6. ASSUME inTurn PROVE PanelTold(c, page', server') BY <1>3, <1>9, <2>4
  <2> QED BY <1>2, <1>5, <1>6, <2>3, <2>5, <2>6, PanelGoesOn
<1> QED BY <1>8, <1>9

LEMMA PanelBegins == PagesAreRight /\ Panel!Init => PanelInv
<1> SUFFICES ASSUME PagesAreRight, Panel!Init PROVE PanelInv OBVIOUS
<1>1. Policy!CallsAssumption BY Zenon
<1>2. /\ page = [known |-> Panel!Nothing, pending |-> Panel!NoEdits, listeners |-> 0]
      /\ calls = Panel!Begun(Panel!NoCalls, Panel!Load) /\ server = Panel!Store
  BY DEF Panel!Init
<1>3. FewCalls \in Nat \ {0} /\ 1 \in Panel!Ids BY <1>1 DEF Policy!CallsAssumption, Panel!Ids
<1>4. DOMAIN Panel!NoCalls = Panel!Ids /\ \A i \in Panel!Ids : Panel!NoCalls[i] = Panel!NoCall BY DEF Panel!NoCalls
<1>5. PICK i \in Panel!Ids : calls = [Panel!NoCalls EXCEPT ![i] = Panel!Load] BY <1>1, <1>2, <1>3, <1>4, PanelNothing, PanelBegun
<1>6. /\ DOMAIN calls = Panel!Ids /\ calls[i] = Panel!Load
      /\ \A j \in Panel!Ids \ {i} : calls[j] = Panel!NoCall
  BY <1>4, <1>5
<1>7. PanelPage(page) /\ DOMAIN page.pending = {}
  <2>1. IsClassification(Panel!Nothing) BY DEF IsClassification, Panel!Nothing
  <2> QED BY <1>2, <1>3, <2>1, NothingIsEdit DEF PanelPage
<1>8. PanelServer(server)
  <2>1. Panel!Plain \in Panel!Meta BY DEF Panel!Plain, Panel!Meta
  <2>2. (Switches \ {PromotedTo[f] : f \in Neighbours}) \union Neighbours \subseteq Panel!Nodes BY DEF Panel!Nodes
  <2> QED BY <1>2, <2>1, <2>2 DEF PanelServer, Panel!Store
<1>9. PanelRest BY <1>6, <1>7, <1>8, PanelRequests, PanelLoadIs DEF PanelRest
<1>10. PanelTurn
  <2>1. \A j \in Panel!Ids : PanelTold(calls[j], page, server) BY <1>6, PanelNothing, PanelLoadIs
  <2>2. PanelShown(calls, page, server) BY <1>6, <1>7, PanelLoadIs DEF PanelShown
  <2>3. \A j, k \in Panel!Ids : j # k => PanelPair(calls[j], calls[k], server) BY <1>6, PanelNothing
  <2> QED BY <2>1, <2>2, <2>3 DEF PanelTurn
<1> QED BY <1>9, <1>10 DEF PanelInv

LEMMA PanelKeeps == PagesAreRight /\ PanelInv /\ UNCHANGED inTurn /\ [Panel!Next]_(Panel!vars) => PanelInv'
<1> SUFFICES ASSUME PagesAreRight, PanelInv, UNCHANGED inTurn, [Panel!Next]_(Panel!vars) PROVE PanelInv' OBVIOUS
<1>1. CASE UNCHANGED Panel!vars
  <2>1. UNCHANGED <<page, calls, server>> BY <1>1 DEF Panel!vars
  <2>2. PanelRest' BY <2>1, PanelNext DEF PanelInv, PanelRest
  <2>3. inTurn => PanelTurn' BY <2>1, PanelNextTurn DEF PanelInv, PanelTurn
  <2> QED BY <2>2, <2>3 DEF PanelInv
<1>2. ASSUME NEW i \in Panel!Ids, Panel!Serve(i) \/ Panel!Lose(i) \/ Panel!Continue(i) PROVE PanelInv'
  BY <1>2, PanelLoadedKeeps, PanelAssignedKeeps, PanelPromotedKeeps, PanelChangedKeeps, PanelReadsServe, PanelChangesServe DEF
     Panel!Serve, Panel!Continue
<1>3. CASE Panel!Next
  <2>1. \/ Panel!Refresh \/ Panel!Filter \/ Panel!Discard \/ Panel!Save
        \/ \E n \in Panel!Nodes :
             \/ \E v \in DeviceNames : Panel!StageName(n, v) \/ Panel!ConfirmConflict(n, v)
             \/ \E b \in Subs \union {Panel!Empty} : Panel!StageSubcategory(n, b)
             \/ \E k \in Cats \union {Panel!Base} : Panel!StageCategory(n, k)
             \/ Panel!MarkAsStack(n)
        \/ \E f \in Neighbours : Panel!Promote(f)
        \/ \E k \in Cats :
             \/ Panel!DeleteCategory(k)
             \/ \E b \in Subs : Panel!DeleteSubcategory(k, b)
             \/ \E b \in Subs \union {Panel!Empty} : Panel!CreateCategory(k, b)
        \/ \E i \in Panel!Ids : Panel!Serve(i) \/ Panel!Lose(i) \/ Panel!Continue(i)
    BY <1>3, Zenon DEF Panel!Next
  <2> QED BY <1>2, <2>1, PanelTypedKeeps, PanelAsksKeep, PanelDeletesKeep
<1> QED BY <1>1, <1>3

(* What goes away of what is staged, and when.                              *)
LEMMA PanelStepKeepsEdits ==
  ASSUME PagesAreRight, PanelInv, inTurn, [Panel!Next]_(Panel!vars), server' = server
  PROVE  \A n \in DOMAIN page.pending \ DOMAIN page'.pending : n \in server.nodes => Saved(server, n, page.pending[n])
<1>1. CASE UNCHANGED page BY <1>1
<1>2. ASSUME Panel!Clicked PROVE FALSE BY <1>2, PanelClicked DEF PanelInv, PanelRest
<1>3. ASSUME NEW i \in Panel!Ids, Panel!Loaded(i)
      PROVE  DOMAIN page'.pending = DOMAIN page.pending
  <2> DEFINE q == [page EXCEPT !.known = Panel!Answer(i)]
  <2>1. /\ calls[i].fn = "load"
        /\ page' = IF Panel!Answered(i) THEN Panel!Rendered(q) ELSE page
    BY <1>3, Zenon DEF Panel!Loaded, Panel!Back
  <2>2. Panel!Answered(i) => PanelPage(q) /\ q.pending = page.pending
    BY <2>1, PanelFacts DEF PanelPage, PanelCall, Panel!Answered, Panel!Answer
  <2> HIDE DEF q
  <2> QED BY <2>1, <2>2, RenderedPage
<1>4. ASSUME NEW i \in Panel!Ids, Panel!Assigned(i), NEW n \in DOMAIN page.pending \ DOMAIN page'.pending
      PROVE  Saved(server, n, page.pending[n])
  <2>1. calls[i].fn = "assign" /\ calls[i].at = "back" /\ (calls[i].arg.todo = {} \/ UNCHANGED page)
    BY <1>4 DEF Panel!Assigned, Panel!Back
  <2> QED BY <1>4, <2>1, PanelFacts DEF PanelTold
<1>5. ASSUME NEW i \in Panel!Ids, Panel!Promoted(i), NEW n \in DOMAIN page.pending \ DOMAIN page'.pending
      PROVE  n \notin server.nodes
  <2> DEFINE w == [m \in DOMAIN page.pending \ {calls[i].arg.id} |-> page.pending[m]]
  <2>1. calls[i].fn = "promote" /\ calls[i].at = "back" /\ (page' = [page EXCEPT !.pending = w] \/ UNCHANGED page)
    BY <1>5 DEF Panel!Promoted, Panel!Back
  <2>2. DOMAIN w = DOMAIN page.pending \ {calls[i].arg.id} OBVIOUS
  <2> HIDE DEF w
  <2>3. n = calls[i].arg.id BY <1>5, <2>1, <2>2, PanelFacts DEF PanelPage
  <2> QED BY <2>1, <2>3, PanelFacts DEF PanelTold
<1>6. ASSUME NEW i \in Panel!Ids, Panel!Serve(i) \/ Panel!Lose(i) \/ Panel!Changed(i) PROVE UNCHANGED page
  BY <1>6 DEF Panel!Serve, Panel!ServeChange, Panel!ServeLoad, Panel!Lose, Panel!Changed
<1>7. ASSUME NEW i \in Panel!Ids, Panel!Serve(i) \/ Panel!Lose(i) \/ Panel!Continue(i),
             NEW n \in DOMAIN page.pending \ DOMAIN page'.pending, n \in server.nodes
      PROVE  Saved(server, n, page.pending[n])
  BY <1>3, <1>4, <1>5, <1>6, <1>7 DEF Panel!Continue
<1>8. \/ Panel!Clicked \/ UNCHANGED page
      \/ \E i \in Panel!Ids : Panel!Serve(i) \/ Panel!Lose(i) \/ Panel!Continue(i)
  <2>1. Panel!Refresh \/ Panel!Filter \/ Panel!Discard \/ Panel!Save => Panel!Clicked
    BY DEF Panel!Refresh, Panel!Filter, Panel!Discard, Panel!Save
  <2>2. \A n, v, b, k : Panel!StageName(n, v) \/ Panel!ConfirmConflict(n, v) \/ Panel!StageSubcategory(n, b)
                        \/ Panel!StageCategory(n, k) \/ Panel!MarkAsStack(n) => Panel!Clicked
    BY Zenon DEF Panel!StageName, Panel!ConfirmConflict, Panel!StageSubcategory, Panel!StageCategory, Panel!MarkAsStack
  <2>3. \A f, k, b : Panel!Promote(f) \/ Panel!DeleteCategory(k) \/ Panel!DeleteSubcategory(k, b)
                     \/ Panel!CreateCategory(k, b) => Panel!Clicked
    BY Zenon DEF Panel!Promote, Panel!DeleteCategory, Panel!DeleteSubcategory, Panel!CreateCategory, Panel!Delete
  <2> QED BY <2>1, <2>2, <2>3, Zenon DEF Panel!Next, Panel!vars
<1> QED BY <1>1, <1>2, <1>7, <1>8

-----------------------------------------------------------------------------
(***************************************************************************)
(* Pages: the page that runs keeps its invariant, and no other one runs.   *)
(***************************************************************************)
LEMMA PagesStep ==
  [PagesNext]_<<part, inTurn, vars>> =>
    /\ UNCHANGED <<part, inTurn>>
    /\ part = "clients" => [Map!Next]_(Map!vars)
    /\ part = "session" => [Auth!Next]_(Auth!vars)
    /\ part = "settings" => [Prefs!Next]_(Prefs!vars)
    /\ part = "users" => [Admin!Next]_(Admin!vars)
    /\ part = "policy" => [Policy!Next]_(Policy!vars)
    /\ part = "firewall" => [Fw!Next]_(Fw!vars)
    /\ part = "categories" => [Panel!Next]_(Panel!vars)
    /\ part = "sites" => [Site!Next]_(Site!vars)
    /\ part = "profiles" => [Ai!Next]_(Ai!vars)
<1>1. CASE UNCHANGED <<part, inTurn, vars>>
  BY <1>1 DEF vars, Map!vars, Auth!vars, Prefs!vars, Admin!vars, Policy!vars, Fw!vars, Panel!vars, Site!vars, Ai!vars
<1>2. CASE PagesNext
  <2>1. /\ UNCHANGED part
        /\ part = "clients" => Map!Next
        /\ part = "session" => Auth!Next
        /\ part = "settings" => Prefs!Next
        /\ part = "users" => Admin!Next
        /\ part = "policy" => Policy!Next
        /\ part = "firewall" => Fw!Next
        /\ part = "categories" => Panel!Next
        /\ part = "sites" => Site!Next
        /\ part = "profiles" => Ai!Next
        /\ part \in ConsolePages \cup NetworkPages
    BY <1>2 DEF PagesNext, ConsolePages, NetworkPages
  <2>2. /\ Map!Next \/ Auth!Next => UNCHANGED inTurn
        /\ Prefs!Next \/ Admin!Next => UNCHANGED inTurn
        /\ Policy!Next \/ Fw!Next => UNCHANGED inTurn
        /\ Panel!Next \/ Site!Next \/ Ai!Next => UNCHANGED inTurn
    BY DEF Map!Next, Auth!Next, Prefs!Next, Admin!Next, Policy!Next, Fw!Next, Panel!Next, Site!Next, Ai!Next
  <2> QED BY <2>1, <2>2 DEF ConsolePages, NetworkPages
<1> QED BY <1>1, <1>2

LEMMA PagesBegin == PagesInit => PagesInv
BY PagesAreRight, ClientsBegin, ClientsRestBegins, SessionBegins, RestBegins, TurnBegins, SettingsBegin, SettingsTurnBegins,
   UsersBegin, UsersTurnBegins, PolicyBegins, FwBegins, PanelBegins, SitesBegin, SitesTurnBegins, ProfileBegins, ProfileTurnBegins
   DEF PagesInit, PagesInv

LEMMA PagesKeep == PagesInv /\ [PagesNext]_<<part, inTurn, vars>> => PagesInv'
<1> USE DEF PagesInv
<1> SUFFICES ASSUME PagesInv, [PagesNext]_<<part, inTurn, vars>> PROVE PagesInv' OBVIOUS
<1>1. CASE part = "clients"
  <2>1. [Map!Next]_(Map!vars) /\ UNCHANGED <<part, inTurn>> BY <1>1, PagesStep
  <2>2. ClientInv' /\ ClientRest' BY <1>1, <2>1, PagesAreRight, ClientsKeep, ClientsRestKeep
  <2> QED BY <1>1, <2>1, <2>2
<1>2. CASE part = "session"
  <2>1. [Auth!Next]_(Auth!vars) /\ UNCHANGED <<part, inTurn>> BY <1>2, PagesStep
  <2>2. SessionInv' /\ SessionRest' BY <1>2, <2>1, PagesAreRight, SessionKeeps, RestKeeps
  <2>3. inTurn => SessionTurn' BY <1>2, <2>1, PagesAreRight, TurnKeeps
  <2> QED BY <1>2, <2>1, <2>2, <2>3
<1>3. CASE part = "settings"
  <2>1. [Prefs!Next]_(Prefs!vars) /\ UNCHANGED <<part, inTurn>> BY <1>3, PagesStep
  <2>2. SettingsRest' /\ (inTurn => SettingsTurn') BY <1>3, <2>1, PagesAreRight, SettingsKeep, SettingsTurnKeeps
  <2> QED BY <1>3, <2>1, <2>2
<1>4. CASE part = "users"
  <2>1. [Admin!Next]_(Admin!vars) /\ UNCHANGED <<part, inTurn>> BY <1>4, PagesStep
  <2>2. UsersRest' /\ (inTurn => UsersTurn') BY <1>4, <2>1, PagesAreRight, UsersKeep, UsersTurnKeeps
  <2> QED BY <1>4, <2>1, <2>2
<1>5. CASE part = "sites"
  <2>1. [Site!Next]_(Site!vars) /\ UNCHANGED <<part, inTurn>> BY <1>5, PagesStep
  <2>2. SitesRest' /\ (inTurn => SitesTurn') BY <1>5, <2>1, PagesAreRight, SitesKeep, SitesTurnKeeps
  <2> QED BY <1>5, <2>1, <2>2
<1>6. CASE part = "profiles"
  <2>1. [Ai!Next]_(Ai!vars) /\ UNCHANGED <<part, inTurn>> BY <1>6, PagesStep
  <2>2. ProfileRest' /\ (inTurn => ProfileTurn') BY <1>6, <2>1, PagesAreRight, ProfileKeeps, ProfileTurnKeeps
  <2> QED BY <1>6, <2>1, <2>2
<1>7. CASE part = "policy"
  <2>1. [Policy!Next]_(Policy!vars) /\ UNCHANGED <<part, inTurn>> BY <1>7, PagesStep
  <2>2. PolicyInv' BY <1>7, <2>1, PagesAreRight, PolicyKeeps
  <2> QED BY <1>7, <2>1, <2>2
<1>8. CASE part = "firewall"
  <2>1. [Fw!Next]_(Fw!vars) /\ UNCHANGED <<part, inTurn>> BY <1>8, PagesStep
  <2>2. FwInv' BY <1>8, <2>1, PagesAreRight, FwKeeps
  <2> QED BY <1>8, <2>1, <2>2
<1>9. CASE part = "categories"
  <2>1. [Panel!Next]_(Panel!vars) /\ UNCHANGED <<part, inTurn>> BY <1>9, PagesStep
  <2>2. PanelInv' BY <1>9, <2>1, PagesAreRight, PanelKeeps
  <2> QED BY <1>9, <2>1, <2>2
<1>10. CASE part \notin ConsolePages \cup NetworkPages BY <1>10, PagesStep DEF ConsolePages, NetworkPages
<1> QED BY <1>1, <1>2, <1>3, <1>4, <1>5, <1>6, <1>7, <1>8, <1>9, <1>10 DEF ConsolePages, NetworkPages

LEMMA PagesInvariance == PagesSpec => []PagesInv
BY PagesBegin, PagesKeep, PTL DEF PagesSpec

(***************************************************************************)
(* runMacScan and runArpScan: whatever the user does while requests are on *)
(* the way, and however they end, a scan names devices of its tenant only. *)
(***************************************************************************)
THEOREM ScansAreOfTheTenant == PagesSpec => []ScanIsOfTheTenant
<1>1. PagesInv => ScanIsOfTheTenant BY DEF PagesInv, ClientInv, ClientCalls, ScanIsOfTheTenant
<1> QED BY PagesInvariance, <1>1, PTL

(***************************************************************************)
(* locSwitchView and what it loads: to a user who waits, a pane that       *)
(* counts as loaded shows what the server has of the tenant and of what is *)
(* chosen, whatever was scanned, searched, saved or diagnosed before, and  *)
(* the report and the question to the controller are of one client.        *)
(***************************************************************************)
THEOREM LoadedPanesShowTheServer == PagesSpec => []LoadedPanesAreTrue
<1>1. PagesInv => LoadedPanesAreTrue BY ClientsTell DEF PagesInv, LoadedPanesAreTrue
<1> QED BY PagesInvariance, <1>1, PTL

(***************************************************************************)
(* checkAuthRequirements and appInit: the overlay is down only in a        *)
(* session the server confirmed, or while a call that decides is on its    *)
(* way; at rest an overlay that is up offers a way in and nothing loads;   *)
(* and for a user who waits, the role shown is that of the cookie.         *)
(***************************************************************************)
THEOREM SessionsAreTrue == PagesSpec => []SessionIsTrue
<1>1. PagesInv => SessionIsTrue
  <2> SUFFICES ASSUME PagesInv, part = "session"
               PROVE  /\ Auth!TypeOK /\ Auth!UnlockedIsConfirmed /\ Auth!WayIn /\ Auth!NotLoadingAtRest
                      /\ inTurn => Auth!RoleIsOfUser
    BY DEF SessionIsTrue
  <2>1. SessionInv /\ SessionRest /\ (inTurn => SessionTurn) BY DEF PagesInv
  <2>2. Auth!TypeOK /\ Auth!UnlockedIsConfirmed BY <2>1 DEF SessionInv, SessionRest, SessionTypes
  <2>3. Auth!WayIn BY <2>1 DEF Auth!WayIn, Auth!Quiet, Auth!None, SessionRest, SectionIsPending
  <2>4. Auth!NotLoadingAtRest BY <2>1 DEF Auth!NotLoadingAtRest, Auth!Quiet, Auth!None, SessionRest, LoadingIsPending, OfTheChain
  <2>5. inTurn => Auth!RoleIsOfUser BY <2>1 DEF Auth!RoleIsOfUser, Auth!Quiet, Auth!None, SessionTurn
  <2> QED BY <2>2, <2>3, <2>4, <2>5
<1> QED BY PagesInvariance, <1>1, PTL

(***************************************************************************)
(* saveCliBlacklistSetting: whatever is refused, the switch at rest is as  *)
(* the server has it, and the monitor is shown as it was set last, to a    *)
(* user who waits.                                                         *)
(***************************************************************************)
THEOREM SwitchesAreTrue == PagesSpec => []SettingsAreTrue
<1>1. PagesInv => SettingsAreTrue
  <2> SUFFICES ASSUME PagesInv, part = "settings"
               PROVE  Prefs!TypeOK /\ (inTurn => Prefs!SettingsAreTrue)
    BY DEF SettingsAreTrue
  <2>1. SettingsRest /\ (inTurn => SettingsTurn) BY DEF PagesInv
  <2>2. ASSUME SettingsTurn PROVE Prefs!SettingsAreTrue
    BY <2>2 DEF SettingsTurn, SwitchFollows, MonitorFollows, Undecided, SaveOf, Prefs!SettingsAreTrue, Prefs!SwitchIsTrue,
       Prefs!Quiet, Prefs!None
  <2> QED BY <2>1, <2>2 DEF SettingsRest
<1> QED BY PagesInvariance, <1>1, PTL

(***************************************************************************)
(* renderUsersTable: at rest the table tells an administrator who waits    *)
(* what the server holds: who is there, the roles, a refused change of one *)
(* undone, who is disabled, the tenants and the tabs.                      *)
(***************************************************************************)
THEOREM TheTableOfUsersIsTrue == PagesSpec => []UsersAreTrue
<1>1. PagesInv => UsersAreTrue
  <2> SUFFICES ASSUME PagesInv, part = "users"
               PROVE  Admin!TypeOK /\ (inTurn => Admin!TableIsTrue)
    BY DEF UsersAreTrue
  <2>1. UsersRest /\ (inTurn => UsersTurn) BY DEF PagesInv
  <2>2. Admin!TypeOK BY <2>1 DEF UsersRest, UsersTypes, Admin!TypeOK, RowRecords, UserRecords, RolesOrNone
  <2>3. ASSUME UsersTurn PROVE Admin!TableIsTrue
    BY <2>3 DEF UsersTurn, TableFollows, TableTells, RowTells, Admin!TableIsTrue, Admin!Shown
  <2> QED BY <2>1, <2>2, <2>3
<1> QED BY PagesInvariance, <1>1, PTL

(***************************************************************************)
(* site-agent.js and ai.js: whatever is opened, typed and answered in      *)
(* between, an inventory is written to no other site than the one it was   *)
(* read at, and a key is sent for no other profile than the one in whose   *)
(* form it was typed; and to a user who waits, the tables at rest are      *)
(* those of the server, the token shown last opens its site, the dialog is *)
(* titled with the site it acts on, the form edits a profile that is       *)
(* there, the models are of its provider, and no profile keeps the key of  *)
(* another.                                                                *)
(***************************************************************************)
THEOREM TablesOfSettingsAreTrue == PagesSpec => []AdministrationIsTrue
<1>1. PagesInv => AdministrationIsTrue
  <2> SUFFICES ASSUME PagesInv PROVE AdministrationIsTrue OBVIOUS
  <2>1. ASSUME part = "sites" PROVE Site!TypeOK /\ Site!InventoryGoesHome /\ (inTurn => Site!SitesAreTrue)
    <3>1. SitesRest /\ (inTurn => SitesTurn) BY <2>1 DEF PagesInv
    <3>2. Site!TypeOK BY <3>1 DEF SitesRest, SitesPage, SitesDialog, ModesOrNone, Site!TypeOK
    <3>3. Site!InventoryGoesHome BY <3>1 DEF SitesRest, SitesPage, SitesDialog, SitesCall, Site!InventoryGoesHome, Site!InProgress
    <3>4. ASSUME SitesTurn PROVE Site!SitesAreTrue
      <4>1. SitesPage(page) /\ SitesServer(server) BY <3>1 DEF SitesRest
      <4> QED
        BY <3>4, <4>1 DEF SitesTurn, SitesShown, ModesShown, TokensShown, TokenShown, DialogTells, ChoicesTell, Site!SitesAreTrue
    <3> QED BY <3>1, <3>2, <3>3, <3>4
  <2>2. ASSUME part = "profiles" PROVE Ai!TypeOK /\ Ai!KeyGoesHome /\ (inTurn => Ai!ProfilesAreTrue)
    <3>1. ProfileRest /\ (inTurn => ProfileTurn) BY <2>2 DEF PagesInv
    <3>2. Ai!TypeOK
      BY <3>1 DEF ProfileRest, ProfileTypes, ProfileForm, ProfileStore, IsCache, Edited, OneGenerates, Generates, Ai!TypeOK,
         Ai!InProgress
    <3>3. Ai!KeyGoesHome BY <3>1 DEF ProfileRest, ProfileCalls, ProfileCall, Ai!KeyGoesHome, Ai!InProgress
    <3>4. ASSUME ProfileTurn PROVE Ai!ProfilesAreTrue
      BY <3>4 DEF ProfileTurn, ListIsShown, EditIsListed, FormTells, KeysAreOwn, Ai!ProfilesAreTrue, Ai!ModelsAreOfProvider
    <3> QED BY <3>1, <3>2, <3>3, <3>4
  <2> QED BY <2>1, <2>2, Zenon DEF AdministrationIsTrue
<1> QED BY PagesInvariance, <1>1, PTL

(***************************************************************************)
(* policy-test.js and fortigate-management.js: a device is only chosen of  *)
(* the tenant that is, and a token is only stored for the firewall it was  *)
(* typed for, whatever is opened, typed and answered in between; and to a  *)
(* user who waits, what is remembered of a device is its own, all that is  *)
(* shown is of the tenant, the list selects the active target, and what is *)
(* shown of a firewall was read of it, after a kill too.                   *)
(***************************************************************************)
THEOREM PoliciesAndFirewallsAreTrue == PagesSpec => []PoliciesAreTrue
<1>1. PagesInv => PoliciesAreTrue
  <2> SUFFICES ASSUME PagesInv PROVE PoliciesAreTrue OBVIOUS
  <2>1. ASSUME part = "policy" PROVE Policy!TypeOK /\ Policy!DeviceIsOfTheTenant /\ (inTurn => Policy!PolicyIsTrue)
    <3>1. PolicyPage(page) /\ (inTurn => PolicyTells(page)) BY <2>1 DEF PagesInv, PolicyInv, PolicyRest, PolicyTurn
    <3> QED BY <3>1 DEF PolicyPage, PolicyTells, Policy!TypeOK, Policy!DeviceIsOfTheTenant, Policy!PolicyIsTrue
  <2>2. ASSUME part = "firewall" PROVE Fw!TypeOK /\ Fw!TokenGoesHome /\ (inTurn => Fw!FirewallIsTrue)
    <3>1. FwPage(page) /\ FwServer(server) /\ (inTurn => FwTurn) BY <2>2 DEF PagesInv, FwInv, FwRest
    <3>2. Fw!TypeOK /\ Fw!TokenGoesHome BY <3>1 DEF FwPage, FwServer, Fw!TypeOK, Fw!TokenGoesHome
    <3>3. inTurn /\ Fw!Quiet => FwShown(page, server) BY <3>1 DEF FwTurn, FwTells, FwNone, Fw!Quiet
    <3>4. inTurn => Fw!FirewallIsTrue
      BY <3>3 DEF FwShown, OfSelected, TilesOfSelected, ShownIsRead, KillIsSeen, TableIsList, Fw!FirewallIsTrue
    <3> QED BY <3>2, <3>4
  <2> QED BY <2>1, <2>2 DEF PoliciesAreTrue
<1> QED BY PagesInvariance, <1>1, PTL

(***************************************************************************)
(* topology.js, the panel of categories: to a user who waits, the panel at *)
(* rest shows the categories and the devices that the server has, and has  *)
(* something staged only for devices that are there, after two deletions   *)
(* at once by one click too.                                               *)
(***************************************************************************)
THEOREM ThePanelIsTrue == PagesSpec => []CategoriesAreTrue
<1>1. PagesInv => CategoriesAreTrue
  <2> SUFFICES ASSUME PagesInv, part = "categories"
               PROVE  Panel!TypeOK /\ (inTurn => Panel!CategoriesAreTrue)
    BY DEF CategoriesAreTrue
  <2>1. PanelInv BY DEF PagesInv
  <2>2. Panel!TypeOK BY <2>1 DEF PanelInv, PanelRest, PanelPage, PanelServer, IsClassification, IsEdit, Panel!TypeOK
  <2>3. inTurn => Panel!CategoriesAreTrue BY <2>1, PanelQuietly DEF Panel!CategoriesAreTrue
  <2> QED BY <2>2, <2>3
<1> QED BY PagesInvariance, <1>1, PTL

(***************************************************************************)
(* saveCategoryEdits, promoteDevice and renderCategoriesPanel: as long as  *)
(* the user does not throw it away, what is staged for a device leaves the *)
(* page only when the server has it, or the device no more, for a user who *)
(* waits.                                                                  *)
(***************************************************************************)
THEOREM StagedEditsAreKept == PagesSpec => EditsAreNotLost
<1>1. ASSUME PagesInv, [PagesNext]_<<part, inTurn, vars>>, part = "categories"
      PROVE  PanelInv /\ [Panel!Next]_(Panel!vars)
  <2>1. PanelInv BY <1>1 DEF PagesInv
  <2>2. [Panel!Next]_(Panel!vars) BY <1>1, PagesStep
  <2> QED BY <2>1, <2>2
<1>2. PagesInv /\ [PagesNext]_<<part, inTurn, vars>> =>
        [part = "categories" /\ inTurn => Panel!KeepsEdits]_<<part, page, server>>
  <2> SUFFICES ASSUME PagesInv, [PagesNext]_<<part, inTurn, vars>>, part = "categories", inTurn, server' = server
               PROVE  \A n \in DOMAIN page.pending \ DOMAIN page'.pending :
                        n \in server.nodes => Saved(server, n, page.pending[n])
    BY DEF Panel!KeepsEdits, Saved
  <2> QED BY <1>1, PagesAreRight, PanelStepKeepsEdits
<1> QED BY PagesInvariance, <1>2, PTL DEF PagesSpec, EditsAreNotLost
=============================================================================
