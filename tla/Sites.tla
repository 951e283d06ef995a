--------------------------------- MODULE Sites ---------------------------------
(***************************************************************************)
(* The registry of sites (internal/store/sites.go) under its admin         *)
(* handlers (internal/api/sites_handlers.go).  A site is central or has an *)
(* agent, which identifies itself with the token of its site; the table    *)
(* keeps a hash of it.  Creating, updating and regenerating read the row   *)
(* in one statement and write it in another, with no transaction around    *)
(* the two, so the calls of two administrators interleave between them.    *)
(***************************************************************************)
EXTENDS Naturals, FiniteSets

CONSTANTS
  SiteIds,    \* the slugs a site may get
  Default,    \* DefaultSiteID
  Admins,     \* the requests being served at one time
  MaxTokens   \* bound: tokens ever generated

SitesAssumption ==
  /\ Default \in SiteIds
  /\ MaxTokens \in Nat

Modes == {"central", "agent"}

(* Token 0 is the empty hash, the others are numbered as they are drawn. *)
NoToken == 0
Token == NoToken..MaxTokens
Row == [mode : Modes, token : Token]

VARIABLES
  sites,   \* the table: a function from the ids in use to rows
  call,    \* what each request is doing, with the row it has read
  drawn,   \* how many tokens were generated
  ended,   \* history: tokens that a finished call was meant to end
  shown,   \* history: shown[id], the last token a finished call returned for id
  serial   \* TRUE: a request begins only when no other is being served; it stays so

vars == <<sites, call, drawn, ended, shown, serial>>

Idle == [at |-> "idle"]
Calls ==
  {Idle}
    \cup [at : {"create"}, id : SiteIds, mode : Modes]
    \cup [at : {"update"}, id : SiteIds, mode : Modes \cup {"same"}, row : Row]
    \cup [at : {"regenerate"}, id : SiteIds]

Init ==
  /\ sites = [id \in {Default} |-> [mode |-> "central", token |-> NoToken]]
  /\ call = [a \in Admins |-> Idle]
  /\ drawn = 0
  /\ ended = {}
  /\ shown = [id \in SiteIds |-> NoToken]
  /\ serial \in BOOLEAN

-----------------------------------------------------------------------------
Free(a) ==
  /\ call[a] = Idle
  /\ serial => \A b \in Admins : call[b] = Idle

(* The ids that token t opens: only agent sites with a token are compared. *)
AuthenticateSite(t) ==
  {id \in DOMAIN sites : sites[id].mode = "agent" /\ sites[id].token = t}
    \ {id \in DOMAIN sites : t = NoToken}

Put(id, row) == [i \in DOMAIN sites \cup {id} |-> IF i = id THEN row ELSE sites[i]]

(* The token of id, if it has one, is over. *)
TokenOf(id) == {sites[i].token : i \in {id} \cap DOMAIN sites} \ {NoToken}

(***************************************************************************)
(* CreateSite: an id no row has, or, after a collision, a random one; then *)
(* the INSERT, which fails when the id was taken in between.               *)
(***************************************************************************)
CreateLook(a, id, mode) ==
  /\ Free(a)
  /\ id \notin DOMAIN sites
  /\ call' = [call EXCEPT ![a] = [at |-> "create", id |-> id, mode |-> mode]]
  /\ UNCHANGED <<sites, drawn, ended, shown>>

CreateInsert(a) ==
  /\ call[a].at = "create"
  /\ call[a].id \notin DOMAIN sites
  /\ \/ /\ call[a].mode = "central"
        /\ sites' = Put(call[a].id, [mode |-> "central", token |-> NoToken])
        /\ UNCHANGED <<drawn, shown>>
     \/ /\ call[a].mode = "agent" /\ drawn < MaxTokens
        /\ drawn' = drawn + 1
        /\ sites' = Put(call[a].id, [mode |-> "agent", token |-> drawn'])
        /\ shown' = [shown EXCEPT ![call[a].id] = drawn']
  /\ call' = [call EXCEPT ![a] = Idle]
  /\ UNCHANGED ended

CreateFails(a) ==
  /\ call[a].at = "create"
  /\ call[a].id \in DOMAIN sites
  /\ call' = [call EXCEPT ![a] = Idle]
  /\ UNCHANGED <<sites, drawn, ended, shown>>

(***************************************************************************)
(* UpdateSite: GetSite, the change in memory, and an UPDATE of every       *)
(* column, the unchanged ones as they were read.  "same" is a request that *)
(* leaves the mode alone, to change the name or the subnets.               *)
(***************************************************************************)
UpdateRead(a, id, mode) ==
  /\ Free(a)
  /\ id \in DOMAIN sites
  /\ call' = [call EXCEPT ![a] =
                [at |-> "update", id |-> id, mode |-> mode, row |-> sites[id]]]
  /\ UNCHANGED <<sites, drawn, ended, shown>>

Changed(c) ==
  [mode |-> IF c.mode = "same" THEN c.row.mode ELSE c.mode,
   token |-> IF c.mode = "central" THEN NoToken ELSE c.row.token]

UpdateWrite(a) ==
  /\ call[a].at = "update"
  /\ \/ call[a].id \in DOMAIN sites /\ sites' = Put(call[a].id, Changed(call[a]))
     \/ call[a].id \notin DOMAIN sites /\ UNCHANGED sites
  /\ ended' = ended \cup (IF call[a].mode = "central" THEN TokenOf(call[a].id) ELSE {})
  /\ call' = [call EXCEPT ![a] = Idle]
  /\ UNCHANGED <<drawn, shown>>

(***************************************************************************)
(* RegenerateSiteToken: the mode is checked on the row read, the UPDATE    *)
(* sets the token of whatever the row is by then, and the caller is shown  *)
(* the new token even when no row is left.                                 *)
(***************************************************************************)
RegenerateRead(a, id) ==
  /\ Free(a)
  /\ id \in DOMAIN sites /\ sites[id].mode = "agent"
  /\ call' = [call EXCEPT ![a] = [at |-> "regenerate", id |-> id]]
  /\ UNCHANGED <<sites, drawn, ended, shown>>

RegenerateWrite(a) ==
  /\ call[a].at = "regenerate" /\ drawn < MaxTokens
  /\ drawn' = drawn + 1
  /\ shown' = [shown EXCEPT ![call[a].id] = drawn']
  /\ ended' = ended \cup TokenOf(call[a].id)
  /\ \/ /\ call[a].id \in DOMAIN sites
        /\ sites' = [sites EXCEPT ![call[a].id].token = drawn']
     \/ call[a].id \notin DOMAIN sites /\ UNCHANGED sites
  /\ call' = [call EXCEPT ![a] = Idle]

(* DeleteSite: one statement; the default site stays. *)
DeleteSite(a, id) ==
  /\ Free(a)
  /\ id \in DOMAIN sites /\ id # Default
  /\ ended' = ended \cup TokenOf(id)
  /\ sites' = [i \in DOMAIN sites \ {id} |-> sites[i]]
  /\ UNCHANGED <<call, drawn, shown>>

Next ==
  /\ UNCHANGED serial
  /\ \E a \in Admins :
       \/ \E id \in SiteIds, mode \in Modes : CreateLook(a, id, mode)
       \/ CreateInsert(a)
       \/ CreateFails(a)
       \/ \E id \in SiteIds, mode \in Modes \cup {"same"} : UpdateRead(a, id, mode)
       \/ UpdateWrite(a)
       \/ \E id \in SiteIds : RegenerateRead(a, id)
       \/ RegenerateWrite(a)
       \/ \E id \in SiteIds : DeleteSite(a, id)

Spec == Init /\ [][Next]_vars

-----------------------------------------------------------------------------
TypeOK ==
  /\ DOMAIN sites \subseteq SiteIds /\ Default \in DOMAIN sites
  /\ \A id \in DOMAIN sites : sites[id] \in Row
  /\ call \in [Admins -> Calls]
  /\ drawn \in Token
  /\ ended \subseteq Token
  /\ shown \in [SiteIds -> Token]
  /\ serial \in BOOLEAN

(***************************************************************************)
(* A token opens one site at most, whatever calls interleave, so that an   *)
(* agent is never taken for another site's (AuthenticateSite).             *)
(***************************************************************************)
TokenOpensOneSite == \A t \in Token : Cardinality(AuthenticateSite(t)) <= 1

(***************************************************************************)
(* A site that is gone stays gone until it is created anew: an update or a *)
(* regeneration that read it before the deletion does not bring it back.   *)
(***************************************************************************)
DeletedStaysDeleted ==
  [][\A id \in DOMAIN sites' \ DOMAIN sites :
       \E a \in Admins : call[a].at = "create" /\ call[a].id = id /\ call'[a] = Idle]_vars

(***************************************************************************)
(* A token that was regenerated away, or whose site was made central or    *)
(* deleted, is valid no more                                               *)
(* (TestRegenerateSiteTokenInvalidatesOld).                                *)
(***************************************************************************)
EndedTokenIsDead == \A t \in ended : AuthenticateSite(t) = {}

(***************************************************************************)
(* A central site keeps no token in the table: UpdateSite clears it, since *)
(* a token left there would be a credential that nobody uses.              *)
(***************************************************************************)
CentralHasNoToken ==
  \A id \in DOMAIN sites : sites[id].mode = "central" => sites[id].token = NoToken

(***************************************************************************)
(* The token an administrator was shown last works, unless a later call    *)
(* ended it: it cannot be shown a second time.                             *)
(***************************************************************************)
ShownTokenWorks ==
  \A id \in SiteIds :
    shown[id] \notin ended \cup {NoToken} => AuthenticateSite(shown[id]) = {id}
=============================================================================
