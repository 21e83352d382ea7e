------------------------------- MODULE Selection -------------------------------
(***************************************************************************)
(* The organization and the project that a tab of the dashboard works in   *)
(* (OrgProvider and ProjectProvider): what its user chose, remembered in   *)
(* localStorage, against lists that arrive late, change, or do not hold    *)
(* the choice yet.  The other tabs share the storage and do nothing else   *)
(* to this one.                                                            *)
(*                                                                         *)
(* An organization is <<o, 0>>, its projects are <<o, n>>; both come in    *)
(* this order.  The list under the key None is that of the organizations,  *)
(* the one under an organization that of its projects.                     *)
(***************************************************************************)
EXTENDS Naturals

CONSTANTS OrgNumbers, ProjectNumbers,   \* sets of positive numbers
          SelectionActs, \* bound: things the user does
          MaxMishaps     \* bound: changes by others, in other tabs or on the
                         \* server, and fetches and answers lost

None == <<0, 0>>
Orgs == OrgNumbers \X {0}
ProjectsOf(o) == {o[1]} \X ProjectNumbers
Keys == {None} \cup Orgs

ASSUME SelectionAssumption ==
  /\ OrgNumbers \subseteq Nat \ {0} /\ ProjectNumbers \subseteq Nat \ {0}
  /\ SelectionActs \in Nat /\ MaxMishaps \in Nat

VARIABLES membership,  \* [Keys -> set]: the organizations joined, their projects
          remembered,  \* [org, project] in localStorage
          data,        \* [Keys -> [held, list]]: what the cache of the tab holds
          listing,     \* [Keys -> [phase, list]]: the request for each list
          chosen,      \* [org, project]: currentOrgId and currentProjectId
          creating,    \* the organization whose creation is not answered yet
          wish,        \* history: [org, project] last chosen, by this tab's user
          used         \* history: what was used of each bound

selectionVars ==
  <<membership, remembered, data, listing, chosen, creating, wish, used>>

First(S) == CHOOSE x \in S : \A y \in S :
              x[1] < y[1] \/ (x[1] = y[1] /\ x[2] <= y[2])
NotHeld == [held |-> FALSE, list |-> {}]
Idle    == [phase |-> "idle", list |-> {}]
Asked   == [phase |-> "asked", list |-> {}]

\* find(id) ?? list[0] ?? null
Current(list, id) ==
  CASE id \in list -> id
    [] id \notin list /\ list # {} -> First(list)
    [] OTHER -> None
currentOrg     == Current(data[None].list, chosen.org)
ListOf(d, o)   == IF o = None THEN {} ELSE d[o].list
currentProject == Current(ListOf(data, currentOrg), chosen.project)

-----------------------------------------------------------------------------
(* A provider's effect, when its list has changed: back to what is stored, *)
(* or to the first.                                                        *)
Restored(list, id) == IF list = {} THEN None ELSE IF id \in list THEN id ELSE First(list)

(* The tab has lists d and choice c now: it is rendered; the effects run,  *)
(* the inner provider's first; it is rendered again with the organization  *)
(* that they leave.  The projects of an organization that comes into view  *)
(* are asked for unless they are held.                                     *)
Rendered(d, f, c, s) ==
  LET orgs    == d[None].list
      between == Current(orgs, c.org)
      org     == IF orgs # data[None].list /\ orgs # {} THEN Restored(orgs, s.org) ELSE c.org
      last    == Current(orgs, org)
      lists   == <<ListOf(data, currentOrg), ListOf(d, between), ListOf(d, last)>>
  IN  /\ data' = d /\ remembered' = s
      /\ chosen' = [org |-> org,
           project |-> IF lists[1] = lists[2] /\ lists[2] = lists[3] THEN c.project
                       ELSE Restored(lists[3], s.project)]
      /\ listing' = [k \in Keys |->
           IF k \in {between, last} \ {None} /\ ~d[k].held /\ f[k].phase = "idle"
           THEN Asked ELSE f[k]]

Use(bound, max) == used[bound] < max /\ used' = [used EXCEPT ![bound] = @ + 1]
Acting == Use("acts", SelectionActs)
Wish(field, x) == wish' = [wish EXCEPT ![field] = x]

SelectionInit ==
  /\ \E joined \in SUBSET Orgs :
       membership = [k \in Keys |-> CASE k = None -> joined
                                  [] k \in joined -> ProjectsOf(k) [] OTHER -> {}]
  /\ remembered = [org |-> None, project |-> None]
  /\ data = [k \in Keys |-> NotHeld]
  /\ listing = [k \in Keys |-> IF k = None THEN Asked ELSE Idle]
  /\ chosen = [org |-> None, project |-> None]
  /\ creating = None
  /\ wish = [org |-> None, project |-> None]
  /\ used = [acts |-> 0, mishaps |-> 0]

\* The page is loaded again; what it awaited is gone.
Reload ==
  /\ Acting
  /\ data' = [k \in Keys |-> NotHeld]
  /\ listing' = [k \in Keys |-> IF k = None THEN Asked ELSE Idle]
  /\ chosen' = [org |-> None, project |-> None]
  /\ creating' = None
  /\ UNCHANGED <<membership, remembered, wish>>

\* setCurrentOrgId that forgets to store
setCurrentOrgIdUnstored(o) ==
  Rendered(data, listing, [chosen EXCEPT !.org = o], remembered) /\ Wish("org", o)

setCurrentOrgId(o) ==
  /\ Rendered(data, listing, [chosen EXCEPT !.org = o], [remembered EXCEPT !.org = o])
  /\ Wish("org", o)
setCurrentProjectId(p) ==
  /\ Rendered(data, listing, [chosen EXCEPT !.project = p], [remembered EXCEPT !.project = p])
  /\ Wish("project", p)

ChooseOrg(o) ==
  /\ Acting /\ o \in data[None].list
  /\ setCurrentOrgId(o)
  /\ UNCHANGED <<membership, creating>>
ChooseProject(p) ==
  /\ Acting /\ p \in ListOf(data, currentOrg)
  /\ setCurrentProjectId(p)
  /\ UNCHANGED <<membership, creating>>

(* A new organization is chosen when its creation is answered, before the  *)
(* list that holds it; that list is asked for again, whatever was under    *)
(* way, unless it was never held.                                          *)
CreateOrg(o) ==
  /\ Acting /\ creating = None /\ o \notin membership[None]
  /\ membership' = [membership EXCEPT ![None] = @ \cup {o}]
  /\ creating' = o
  /\ UNCHANGED <<remembered, data, listing, chosen, wish>>
Created ==
  /\ creating # None
  /\ LET f == IF data[None].held \/ listing[None].phase = "idle"
              THEN [listing EXCEPT ![None] = Asked] ELSE listing
     IN  Rendered(data, f, [chosen EXCEPT !.org = creating],
                  [remembered EXCEPT !.org = creating])
  /\ Wish("org", creating)
  /\ creating' = None
  /\ UNCHANGED <<membership, used>>

-----------------------------------------------------------------------------
(* Fetches.  A list on the screen may be asked for again at any time: a    *)
(* mutation invalidates it, or a page mounts when it is 30 seconds old.    *)
Refetch(k) ==
  /\ k \in {None, currentOrg} /\ data[k].held /\ listing[k].phase = "idle"
  /\ listing' = [listing EXCEPT ![k] = Asked]
  /\ UNCHANGED <<membership, remembered, data, chosen, creating, wish, used>>

\* The projects of an organization one is not in are refused.
Serve(k) ==
  /\ listing[k].phase = "asked"
  /\ listing' = [listing EXCEPT ![k] =
       IF k = None \/ k \in membership[None]
       THEN [phase |-> "answered", list |-> membership[k]] ELSE Idle]
  /\ UNCHANGED <<membership, remembered, data, chosen, creating, wish, used>>

Receive(k) ==
  /\ listing[k].phase = "answered"
  /\ Rendered([data EXCEPT ![k] = [held |-> TRUE, list |-> listing[k].list]],
              [listing EXCEPT ![k] = Idle], chosen, remembered)
  /\ UNCHANGED <<membership, creating, wish, used>>

Lose(k) ==
  /\ Use("mishaps", MaxMishaps) /\ listing[k].phase # "idle"
  /\ listing' = [listing EXCEPT ![k] = Idle]
  /\ UNCHANGED <<membership, remembered, data, chosen, creating, wish>>
LoseCreated ==
  /\ Use("mishaps", MaxMishaps) /\ creating # None
  /\ creating' = None
  /\ UNCHANGED <<membership, remembered, data, listing, chosen, wish>>

-----------------------------------------------------------------------------
(* Others: an owner takes the user in or out, a colleague makes or deletes *)
(* a project; the user chooses in another tab, which this one is to follow *)
(* sooner or later, so its own choice is no promise any longer.            *)
ServerChanges ==
  /\ Use("mishaps", MaxMishaps)
  /\ \/ \E o \in Orgs : membership' = [membership EXCEPT ![None] =
                          IF o \in @ THEN @ \ {o} ELSE @ \cup {o}]
     \/ \E o \in Orgs : \E p \in ProjectsOf(o) :
          membership' = [membership EXCEPT ![o] = IF p \in @ THEN @ \ {p} ELSE @ \cup {p}]
  /\ UNCHANGED <<remembered, data, listing, chosen, creating, wish>>
ElsewhereOrg ==
  /\ Use("mishaps", MaxMishaps)
  /\ \E o \in membership[None] : remembered' = [remembered EXCEPT !.org = o]
  /\ Wish("org", None)
  /\ UNCHANGED <<membership, data, listing, chosen, creating>>
ElsewhereProject ==
  /\ Use("mishaps", MaxMishaps)
  /\ \E o \in membership[None] : \E p \in membership[o] :
       remembered' = [remembered EXCEPT !.project = p]
  /\ Wish("project", None)
  /\ UNCHANGED <<membership, data, listing, chosen, creating>>

SelectionNext ==
  \/ Reload \/ Created \/ LoseCreated
  \/ ServerChanges \/ ElsewhereOrg \/ ElsewhereProject
  \/ \E o \in Orgs : ChooseOrg(o) \/ CreateOrg(o) \/ \E p \in ProjectsOf(o) : ChooseProject(p)
  \/ \E k \in Keys : Refetch(k) \/ Serve(k) \/ Receive(k) \/ Lose(k)

SelectionSpec == SelectionInit /\ [][SelectionNext]_selectionVars

-----------------------------------------------------------------------------
(* Lists and choices are of what there is.                                 *)
Projects   == OrgNumbers \X ProjectNumbers
Lists      == SUBSET (Orgs \cup Projects)
ListsOf(k) == SUBSET (IF k = None THEN Orgs ELSE ProjectsOf(k))
Choice     == [org : Keys, project : {None} \cup Projects]

SelectionTypeOK ==
  /\ membership \in [Keys -> Lists]
  /\ data \in [Keys -> [held : BOOLEAN, list : Lists]]
  /\ listing \in [Keys -> [phase : {"idle", "asked", "answered"}, list : Lists]]
  /\ \A k \in Keys : {membership[k], data[k].list, listing[k].list} \subseteq ListsOf(k)
  /\ remembered \in Choice /\ chosen \in Choice /\ wish \in Choice
  /\ creating \in Keys
  /\ used \in [acts : 0..SelectionActs, mishaps : 0..MaxMishaps]

(* What the user chose last is what the tab works in, whenever the list it *)
(* has holds the choice: through reloads, lists that come late, lose it    *)
(* and get it back, and a new organization that no list holds at first.    *)
(* Excepted is a choice made in another tab since ("Restore persisted      *)
(* selection / default to the first org", OrgProvider.tsx).                *)
ChoiceStays ==
  /\ wish.org \in data[None].list => currentOrg = wish.org
  /\ wish.project \in ListOf(data, currentOrg) => currentProject = wish.project
==============================================================================
