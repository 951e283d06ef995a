----------------------------- MODULE WebProfiles -----------------------------
(***************************************************************************)
(* The profiles of the AI tab (web/static/js/ai.js): which one answers,    *)
(* the form that edits one or makes a new one, the list of the models of a *)
(* provider, and the generator of configurations.  Every load of the       *)
(* profiles fills the form anew, and a key that was typed is gone with it. *)
(***************************************************************************)
EXTENDS Browser, FiniteSets

CONSTANTS
  Profiles,     \* the identifiers that profiles can get
  Providers,
  MaxClicks     \* bound on what the user does, by whether he waits: [BOOLEAN -> Nat]

VARIABLES page, server
vars == <<page, calls, server, inTurn>>

(* What the form edits: a profile, one that is not there yet, or, of a      *)
(* selector that was set to what it does not list, nothing.                 *)
New == "new"
Nothing == "nothing"

(* onAiProfileEditSelectChange: the form of e, with no key and no models. *)
Filled(p, e) ==
  IF e = Nothing THEN [p EXCEPT !.edit = e]
  ELSE [p EXCEPT !.edit = e, !.key = None, !.models = None,
                 !.provider = IF e = New THEN None ELSE p.cache[e]]

Init ==
  /\ inTurn \in BOOLEAN
  /\ page = [cache |-> <<>>, active |-> None, edit |-> New, provider |-> None, key |-> None,
             models |-> None, busy |-> FALSE]
  /\ calls = Begun(NoCalls, Asks("profiles", <<>>))
  /\ server = [profiles |-> <<>>, keys |-> [p \in Profiles |-> None], active |-> None, clicks |-> 0]

-----------------------------------------------------------------------------
MayClick == server.clicks < MaxClicks[inTurn] /\ (inTurn => Quiet)
Clicked == server' = [server EXCEPT !.clicks = @ + 1]

(* loadAiProfiles: the profile that is edited stays so if it is listed. *)
Listed(p, l) ==
  LET q == [p EXCEPT !.cache = l.profiles, !.active = l.active]
  IN  Filled(q, IF p.edit \in DOMAIN l.profiles THEN p.edit ELSE New)

(* ... and after a save, the one that was saved is edited. *)
Loaded(i) ==
  /\ Back(i, "profiles")
  /\ LET p == IF Answered(i) THEN Listed(page, Answer(i)) ELSE page
     IN  page' = IF calls[i].arg = <<>> THEN p
                 ELSE Filled(p, IF calls[i].arg[1] \in DOMAIN p.cache THEN calls[i].arg[1] ELSE Nothing)
  /\ Ends(i)
  /\ UNCHANGED server

Select(e) ==
  /\ MayClick /\ e \in DOMAIN page.cache \union {New}
  /\ page' = Filled(page, e)
  /\ Clicked /\ UNCHANGED calls

ChooseProvider(x) ==
  /\ MayClick /\ x # page.provider
  /\ page' = [page EXCEPT !.provider = x, !.models = None]
  /\ Clicked /\ UNCHANGED calls

(* The key is known by the form into which it was typed. *)
TypeKey ==
  /\ MayClick /\ page.key = None
  /\ page' = [page EXCEPT !.key = page.edit]
  /\ Clicked /\ UNCHANGED calls

ClickModels ==
  /\ MayClick /\ page.provider # None
  /\ Starts(Asks("models", [of |-> page.provider]))
  /\ Clicked /\ UNCHANGED page

GotModels(i) ==
  /\ Back(i, "models")
  /\ page' = IF Answered(i) THEN [page EXCEPT !.models = calls[i].arg.of] ELSE page
  /\ Ends(i)
  /\ UNCHANGED server

(* saveAiSettings: what the form edits is what it is sent for. *)
ClickSave ==
  /\ MayClick /\ page.provider # None
  /\ Starts(Asks("save", [of |-> page.edit, provider |-> page.provider, key |-> page.key]))
  /\ Clicked /\ UNCHANGED page

Saved(i) ==
  /\ Back(i, "save")
  /\ IF Answered(i) THEN GoesOn(i, Asks("profiles", <<Answer(i)>>)) ELSE Ends(i)
  /\ UNCHANGED <<page, server>>

ClickDelete ==
  /\ MayClick /\ page.edit \in DOMAIN page.cache
  /\ Starts(Asks("delete", [of |-> page.edit]))
  /\ Clicked /\ UNCHANGED page

Deleted(i) ==
  /\ Back(i, "delete")
  /\ IF Answered(i) THEN GoesOn(i, Asks("profiles", <<>>)) ELSE Ends(i)
  /\ UNCHANGED <<page, server>>

ClickActivate(p) ==
  /\ MayClick /\ p \in DOMAIN page.cache /\ p # page.active
  /\ Starts(Asks("activate", [of |-> p]))
  /\ Clicked /\ UNCHANGED page

Activated(i) ==
  /\ Back(i, "activate")
  /\ page' = IF Answered(i) THEN [page EXCEPT !.active = calls[i].arg.of] ELSE page
  /\ Ends(i)
  /\ UNCHANGED server

(* generateSwitchConfig: one at a time. *)
ClickGenerate ==
  /\ MayClick /\ ~page.busy
  /\ page' = [page EXCEPT !.busy = TRUE]
  /\ Starts(Asks("generate", <<>>))
  /\ Clicked

Generated(i) ==
  /\ Back(i, "generate")
  /\ page' = [page EXCEPT !.busy = FALSE]
  /\ Ends(i)
  /\ UNCHANGED server

-----------------------------------------------------------------------------
With(f, p, x) == [q \in DOMAIN f \union {p} |-> IF q = p THEN x ELSE f[q]]

(* A key that is not sent stays; the first profile there is, is active. *)
Store(p, a) ==
  server' = [server EXCEPT !.profiles = With(@, p, a.provider),
                           !.keys[p] = IF a.key = None THEN @ ELSE a.key,
                           !.active = IF @ = None THEN p ELSE @]

ServeSave(i) ==
  /\ Sent(i, "save")
  /\ LET a == calls[i].arg
         fresh == {p \in Profiles : p \notin DOMAIN server.profiles /\ server.keys[p] = None}
     IN  IF a.of \in Profiles
         THEN IF a.of \in DOMAIN server.profiles
              THEN Store(a.of, a) /\ Answers(i, a.of) ELSE Fails(i) /\ UNCHANGED server
         ELSE \E p \in fresh : Store(p, a) /\ Answers(i, p)
  /\ UNCHANGED page

ServeDelete(i) ==
  /\ Sent(i, "delete")
  /\ LET p == calls[i].arg.of
         left == DOMAIN server.profiles \ {p}
     IN  IF p \notin DOMAIN server.profiles THEN Fails(i) /\ UNCHANGED server
         ELSE /\ \E q \in IF left = {} THEN {None} ELSE left :
                   server' = [server EXCEPT !.profiles = [x \in left |-> @[x]],
                                            !.active = IF @ = p THEN q ELSE @]
              /\ Answers(i, "ok")
  /\ UNCHANGED page

ServeActivate(i) ==
  /\ Sent(i, "activate")
  /\ IF calls[i].arg.of \in DOMAIN server.profiles
     THEN server' = [server EXCEPT !.active = calls[i].arg.of] /\ Answers(i, "ok")
     ELSE UNCHANGED server /\ Fails(i)
  /\ UNCHANGED page

ServeProfiles(i) ==
  /\ Sent(i, "profiles")
  /\ Answers(i, [profiles |-> server.profiles, active |-> server.active])
  /\ UNCHANGED <<page, server>>

ServeWork(i) ==
  /\ Sent(i, "models") \/ Sent(i, "generate")
  /\ Answers(i, "ok")
  /\ UNCHANGED <<page, server>>

Lose(i) == ~inTurn /\ calls[i].at = "sent" /\ Fails(i) /\ UNCHANGED <<page, server>>

Serve(i) ==
  ServeSave(i) \/ ServeDelete(i) \/ ServeActivate(i) \/ ServeProfiles(i) \/ ServeWork(i)
Continue(i) ==
  Loaded(i) \/ GotModels(i) \/ Saved(i) \/ Deleted(i) \/ Activated(i) \/ Generated(i)

Next ==
  /\ UNCHANGED inTurn
  /\ \/ \E p \in Profiles : Select(p) \/ ClickActivate(p)
     \/ Select(New) \/ TypeKey \/ ClickModels \/ ClickSave \/ ClickDelete \/ ClickGenerate
     \/ \E x \in Providers : ChooseProvider(x)
     \/ \E i \in Ids : Serve(i) \/ Lose(i) \/ Continue(i)

Fairness == \A i \in Ids : WF_vars(Serve(i)) /\ WF_vars(Continue(i))
Spec == Init /\ [][Next]_vars /\ Fairness

-----------------------------------------------------------------------------
TypeOK ==
  /\ DOMAIN page.cache \subseteq Profiles /\ DOMAIN server.profiles \subseteq Profiles
  /\ page.edit \in Profiles \union {New, Nothing}
  /\ page.provider \in Providers \union {None} /\ page.models \in Providers \union {None}
  /\ page.busy <=> InProgress({"generate"}) # {}

(***************************************************************************)
(* A key is sent for no other profile than the one in whose form it was    *)
(* typed, whatever loads fill the form in between.                         *)
(***************************************************************************)
KeyGoesHome ==
  \A i \in InProgress({"save"}) :
    LET a == calls[i].arg IN a.of \in Profiles => a.key \in {None, a.of}

(* ai.js says: the models listed must always be of the provider selected. *)
ModelsAreOfProvider == page.models # None => page.models = page.provider

(***************************************************************************)
(* To a user who waits, the page at rest lists the profiles of the server, *)
(* shows as active the one that answers, edits one that is there, and      *)
(* lists the models of its provider alone; and a profile keeps no key but  *)
(* one that was typed for it, or for the new one that it was.              *)
(***************************************************************************)
ProfilesAreTrue ==
  Quiet =>
    /\ page.cache = server.profiles /\ page.active = server.active
    /\ page.edit \in DOMAIN server.profiles \union {New}
    /\ ModelsAreOfProvider
    /\ \A p \in Profiles : server.keys[p] \in {None, p, New}
=============================================================================
