---------------------------- MODULE WebCategories ----------------------------
(***************************************************************************)
(* The panel of devices and categories (web/static/js/topology.js, its     *)
(* second half).  Changes of a row are staged in the page and sent row by  *)
(* row by one button; categories are created and deleted at once; a device *)
(* that a neighbour announced can be promoted to a managed one.            *)
(***************************************************************************)
EXTENDS Browser, FiniteSets

CONSTANTS
  Managed, Found,   \* ids of managed devices, and of announced ones
  Ip,               \* the id an announced device gets when it is promoted
  Cats, Subs, Names,
  MaxClicks         \* bound on what the user does, by whether he waits: [BOOLEAN -> Nat]

VARIABLES page, server
vars == <<page, calls, server, inTurn>>

Base == "switch"    \* the one category that is built in
Empty == ""
Fields == {"category", "subcategory", "name"}
Meta == [category : Cats \union {Base, Empty}, subcategory : Subs \union {Empty}, name : Names \union {Empty}]
Plain == [category |-> Empty, subcategory |-> Empty, name |-> Empty]
NoEdits == [n \in {} |-> <<>>]
Nodes == Managed \union Found
Nothing == [cats |-> [k \in {} |-> {}], nodes |-> {}, meta |-> [n \in {} |-> Plain]]

(* What the server has: categories, meta of every id, stacks, and who is    *)
(* announced only; and what of it a classification says.                    *)
Store == [cats |-> [k \in {Base} |-> {}], meta |-> [n \in Nodes |-> Plain],
          nodes |-> (Managed \ {Ip[f] : f \in Found}) \union Found, stacks |-> {}, clicks |-> 0]
Classified(s) == [cats |-> s.cats, nodes |-> s.nodes, meta |-> [n \in s.nodes |-> s.meta[n]]]

Load == Asks("load", <<>>)
Init ==
  /\ inTurn \in BOOLEAN
  /\ page = [known |-> Nothing, pending |-> NoEdits, listeners |-> 0]
  /\ calls = Begun(NoCalls, Load)
  /\ server = Store

-----------------------------------------------------------------------------
MayClick == server.clicks < MaxClicks[inTurn] /\ (inTurn => Quiet)
Clicked == server' = [server EXCEPT !.clicks = @ + 1]

(* renderCategoriesPanel: every time it draws, the cards get one more       *)
(* listener for a click.  Bounded by the calls there can be.                *)
Rendered(p) == [p EXCEPT !.listeners = IF @ < MaxCalls THEN @ + 1 ELSE @]

Refresh == MayClick /\ Starts(Load) /\ Clicked /\ UNCHANGED page
Filter == MayClick /\ page' = Rendered(page) /\ Clicked /\ UNCHANGED calls

(* Fault: what is staged goes. *)
LoadedOverEdits(i) ==
  /\ Back(i, "load")
  /\ page' = IF Answered(i) THEN Rendered([page EXCEPT !.known = Answer(i), !.pending = NoEdits]) ELSE page
  /\ Ends(i)
  /\ UNCHANGED server

Loaded(i) ==
  /\ Back(i, "load")
  /\ page' = IF Answered(i) THEN Rendered([page EXCEPT !.known = Answer(i)]) ELSE page
  /\ Ends(i)
  /\ UNCHANGED server

Edited(n) == IF n \in DOMAIN page.pending THEN page.pending[n] ELSE <<>>
With(f, k, v) == [x \in DOMAIN f \union {k} |-> IF x = k THEN v ELSE f[x]]
Staged(n, e) == [page EXCEPT !.pending = With(@, n, e)]

(* stageEdit, of the name (and of every field that stands alone). *)
StageName(n, v) ==
  /\ MayClick /\ n \in page.known.nodes
  /\ page' = Staged(n, With(Edited(n), "name", v))
  /\ Clicked /\ UNCHANGED calls

StageSubcategory(n, s) ==
  /\ MayClick /\ n \in page.known.nodes
  /\ page' = Staged(n, With(Edited(n), "subcategory", s))
  /\ Clicked /\ UNCHANGED calls

(* stageCategory: the subcategory goes, as it was of the other category. *)
StageCategory(n, k) ==
  /\ MayClick /\ n \in page.known.nodes /\ k \in DOMAIN page.known.cats
  /\ page' = Rendered(Staged(n, With(With(Edited(n), "category", k), "subcategory", Empty)))
  /\ Clicked /\ UNCHANGED calls

Discard ==
  /\ MayClick /\ page.pending # NoEdits
  /\ page' = Rendered([page EXCEPT !.pending = NoEdits])
  /\ Clicked /\ UNCHANGED calls

(* saveCategoryEdits: the rows that are staged when it begins, one after    *)
(* the other, each as it is staged when its turn comes.                     *)
Assigns(n, todo) == Asks("assign", [id |-> n, edit |-> Edited(n), todo |-> todo])

Save ==
  /\ MayClick /\ page.pending # NoEdits
  /\ \E n \in DOMAIN page.pending : Starts(Assigns(n, DOMAIN page.pending \ {n}))
  /\ Clicked /\ UNCHANGED page

(* And then, however it went, nothing is staged any more. *)
Assigned(i) ==
  /\ Back(i, "assign")
  /\ LET todo == calls[i].arg.todo IN
     IF todo # {}
     THEN \E n \in todo : GoesOn(i, Assigns(n, todo \ {n})) /\ UNCHANGED page
     ELSE GoesOn(i, Load) /\ page' = [page EXCEPT !.pending = NoEdits]
  /\ UNCHANGED server

-----------------------------------------------------------------------------
(* promoteDevice: with the name that is staged and the category that is not. *)
Promote(f) ==
  /\ MayClick /\ f \in page.known.nodes \intersect Found
  /\ LET e == Edited(f)
         name == IF "name" \in DOMAIN e THEN e["name"] ELSE page.known.meta[f].name
     IN  Starts(Asks("promote", [id |-> f, name |-> name, category |-> page.known.meta[f].category]))
  /\ Clicked /\ UNCHANGED page

(* Fault: nothing is loaded. *)
PromotedUnseen(i) ==
  /\ Back(i, "promote")
  /\ page' = IF Answered(i) THEN [page EXCEPT !.pending = [n \in DOMAIN @ \ {calls[i].arg.id} |-> @[n]]]
             ELSE page
  /\ Ends(i)
  /\ UNCHANGED server

Promoted(i) ==
  /\ Back(i, "promote")
  /\ IF Answered(i)
     THEN LET f == calls[i].arg.id
          IN  /\ page' = [page EXCEPT !.pending = [n \in DOMAIN @ \ {f} |-> @[n]]]
              /\ GoesOn(i, Load)
     ELSE UNCHANGED page /\ Ends(i)
  /\ UNCHANGED server

(* createCategory, confirmConflict, markAsStack and the deletions: a request *)
(* each, and the classification again if it was granted.  The buttons of a   *)
(* stack that exists need a field that no answer of this server has.         *)
Changes == {"create", "name", "stack", "delete", "deletesub"}

CreateCategory(k, s) ==
  /\ MayClick /\ Starts(Asks("create", [key |-> k, sub |-> s])) /\ Clicked /\ UNCHANGED page
ConfirmConflict(n, v) ==
  /\ MayClick /\ n \in page.known.nodes
  /\ Starts(Asks("name", [id |-> n, name |-> v])) /\ Clicked /\ UNCHANGED page
MarkAsStack(n) ==
  /\ MayClick /\ n \in page.known.nodes \ Found
  /\ Starts(Asks("stack", [id |-> n])) /\ Clicked /\ UNCHANGED page

(* A click on a card runs all its listeners, each of which asks the user    *)
(* and sends a request when told to.                                        *)
Delete(c) ==
  /\ MayClick /\ Free # {}
  /\ \/ calls' = Begun(calls, c)
     \/ page.listeners > 1 /\ Cardinality(Free) > 1 /\ calls' = Begun(Begun(calls, c), c)
  /\ Clicked /\ UNCHANGED page

DeleteCategory(k) == k \in DOMAIN page.known.cats \ {Base} /\ Delete(Asks("delete", [key |-> k]))
DeleteSubcategory(k, s) ==
  /\ k \in DOMAIN page.known.cats /\ s \in page.known.cats[k]
  /\ Delete(Asks("deletesub", [key |-> k, sub |-> s]))

Changed(i) ==
  /\ \E fn \in Changes : Back(i, fn)
  /\ IF Answered(i) THEN GoesOn(i, Load) ELSE Ends(i)
  /\ UNCHANGED <<page, server>>

-----------------------------------------------------------------------------
(* AssignMeta: the fields that are there. *)
Merged(m, e) == [f \in Fields |-> IF f \in DOMAIN e THEN e[f] ELSE m[f]]

(* DeleteCategory: its devices have none; a key that is not there is an     *)
(* error.                                                                   *)
Without(s, k) ==
  [s EXCEPT !.cats = [x \in DOMAIN @ \ {k} |-> @[x]],
            !.meta = [n \in DOMAIN @ |-> IF @[n].category = k
                                         THEN [@[n] EXCEPT !.category = Empty, !.subcategory = Empty] ELSE @[n]]]
WithoutSub(s, k, sub) ==
  LET less == IF k \in DOMAIN s.cats THEN [s.cats EXCEPT ![k] = @ \ {sub}] ELSE s.cats
  IN  [s EXCEPT !.cats = less,
                !.meta = [n \in DOMAIN @ |-> IF @[n].category = k /\ @[n].subcategory = sub
                                             THEN [@[n] EXCEPT !.subcategory = Empty] ELSE @[n]]]

(* handlePromoteDevice: the category goes with it; the rest of the meta     *)
(* stays behind with the id that nothing shows any more.                    *)
PromotedIn(s, a) ==
  LET n == Ip[a.id]
      e == IF a.category = Empty THEN [f \in {"name"} |-> a.name]
           ELSE [f \in {"name", "category"} |-> IF f = "name" THEN a.name ELSE a.category]
  IN  [s EXCEPT !.nodes = (@ \ {a.id}) \union {n}, !.meta[n] = Merged(@, e)]

Applied(s, c) ==
  CASE c.fn = "assign" -> [s EXCEPT !.meta[c.arg.id] = Merged(@, c.arg.edit)]
    [] c.fn = "name" -> [s EXCEPT !.meta[c.arg.id].name = c.arg.name]
    [] c.fn = "promote" -> PromotedIn(s, c.arg)
    [] c.fn = "stack" -> [s EXCEPT !.stacks = @ \union {c.arg.id}]
    [] c.fn = "create" ->
         [s EXCEPT !.cats = With(@, c.arg.key, (IF c.arg.key \in DOMAIN @ THEN @[c.arg.key] ELSE {})
                                               \union (IF c.arg.sub = Empty THEN {} ELSE {c.arg.sub}))]
    [] c.fn = "delete" -> Without(s, c.arg.key)
    [] OTHER -> WithoutSub(s, c.arg.key, c.arg.sub)

ServeChange(i) ==
  /\ \E fn \in Changes \union {"assign", "promote"} : Sent(i, fn)
  /\ IF calls[i].fn = "delete" /\ calls[i].arg.key \notin DOMAIN server.cats
     THEN Fails(i) /\ UNCHANGED server
     ELSE server' = Applied(server, calls[i]) /\ Answers(i, "ok")
  /\ UNCHANGED page

ServeLoad(i) == Sent(i, "load") /\ Answers(i, Classified(server)) /\ UNCHANGED <<page, server>>

Lose(i) == ~inTurn /\ calls[i].at = "sent" /\ Fails(i) /\ UNCHANGED <<page, server>>

Serve(i) == ServeChange(i) \/ ServeLoad(i)
Continue(i) == Loaded(i) \/ Assigned(i) \/ Promoted(i) \/ Changed(i)

Next ==
  /\ UNCHANGED inTurn
  /\ \/ Refresh \/ Filter \/ Discard \/ Save
     \/ \E n \in Nodes :
          \/ \E v \in Names : StageName(n, v) \/ ConfirmConflict(n, v)
          \/ \E s \in Subs \union {Empty} : StageSubcategory(n, s)
          \/ \E k \in Cats \union {Base} : StageCategory(n, k)
          \/ MarkAsStack(n)
     \/ \E f \in Found : Promote(f)
     \/ \E k \in Cats :
          \/ DeleteCategory(k)
          \/ \E s \in Subs : DeleteSubcategory(k, s)
          \/ \E s \in Subs \union {Empty} : CreateCategory(k, s)
     \/ \E i \in Ids : Serve(i) \/ Lose(i) \/ Continue(i)

Fairness == \A i \in Ids : WF_vars(Serve(i)) /\ WF_vars(Continue(i))
Spec == Init /\ [][Next]_vars /\ Fairness

-----------------------------------------------------------------------------
TypeOK ==
  /\ page.known.nodes \subseteq Nodes
  /\ \A n \in DOMAIN page.pending : n \in Nodes /\ DOMAIN page.pending[n] \subseteq Fields
  /\ \A n \in Nodes : server.meta[n] \in Meta
  /\ page.listeners \in 0..MaxCalls

(***************************************************************************)
(* To a user who waits: the panel shows the categories and the devices     *)
(* that the server has, and only what it shows has something staged.       *)
(***************************************************************************)
CategoriesAreTrue == Quiet => page.known = Classified(server) /\ DOMAIN page.pending \subseteq server.nodes

(***************************************************************************)
(* Of a step that is neither the server's nor a click: what is staged for  *)
(* a device goes away only when the server has it.                         *)
(***************************************************************************)
KeepsEdits ==
  server' = server =>
    \A n \in DOMAIN page.pending \ DOMAIN page'.pending :
      n \in server.nodes => Merged(server.meta[n], page.pending[n]) = server.meta[n]
=============================================================================
