------------------------------ MODULE Assignees ------------------------------
(***************************************************************************)
(* Assigning an issue: the member picker (AssignDropdown.tsx) on a row of  *)
(* the list or on the page of the issue, whose assign mutation replaces    *)
(* the whole set of assignees and whose row shows the set of the last      *)
(* fetch.  Requests are answered here, in any order; lost ones are in      *)
(* QueryCache.  One user assigns.                                          *)
(***************************************************************************)
EXTENDS FiniteSets, Naturals

CONSTANTS Members,
          MaxToggles    \* bound: members ticked or unticked

ASSUME AssigneesAssumption == MaxToggles \in Nat

VARIABLES assignees,  \* of the issue, on the server
          open,       \* the panel
          assigned,   \* the set the row shows
          stale,      \* its refetch after a save is under way
          rowFetch,   \* [phase, set]: the request of the row
          saves,      \* [SaveSlots -> Save]: the requests of the mutation
          latest,     \* the save that the pending flag is about
          meant,      \* history: the set the user has put together
          hurried,    \* history: a member was toggled by key while a save was
                      \* pending, or while the row was stale
          toggles

avars == <<assignees, open, assigned, stale, rowFetch, saves, latest, meant,
           hurried, toggles>>

SaveSlots == {1, 2}
Save  == [phase : {"idle", "sent", "ok"}, ids : SUBSET Members]
NoSave  == [phase |-> "idle", ids |-> {}]
NoFetch == [phase |-> "idle", set |-> {}]

AssigneesInit ==
  /\ assignees \in SUBSET Members
  /\ open = FALSE /\ assigned = assignees /\ stale = FALSE
  /\ rowFetch = NoFetch
  /\ saves = [s \in SaveSlots |-> NoSave] /\ latest = 1
  /\ meant = assignees /\ hurried = FALSE /\ toggles = 0

(* The button opens and closes the panel; Escape and a click elsewhere     *)
(* close it.                                                               *)
SetOpen ==
  /\ open' = ~open
  /\ UNCHANGED <<assignees, assigned, stale, rowFetch, saves, latest, meant, hurried,
                 toggles>>

saving == saves[latest].phase # "idle"
Flip(set, u) == IF u \in set THEN set \ {u} ELSE set \cup {u}

(* toggle saves the set on show with one member more, or less.             *)
toggle(u) ==
  /\ open /\ toggles < MaxToggles
  /\ toggles' = toggles + 1
  /\ \E s \in SaveSlots :
       /\ saves[s].phase = "idle"
       /\ saves' = [saves EXCEPT ![s] = [phase |-> "sent", ids |-> Flip(assigned, u)]]
       /\ latest' = s
  /\ meant' = Flip(meant, u)
  /\ UNCHANGED <<assignees, open, assigned, stale, rowFetch>>

(* A click, on the row or its box, is ignored while a save is pending; the *)
(* Enter and the Space key are not.                                        *)
ClickAlways(u) == toggle(u) /\ hurried' = (hurried \/ stale)
Click(u)       == ~saving /\ toggle(u) /\ hurried' = (hurried \/ stale)
onOptionKey(u) == toggle(u) /\ hurried' = (hurried \/ saving \/ stale)

-----------------------------------------------------------------------------
(* assign, on the server; then onSuccess: what the row shows is fetched    *)
(* again, anew if a fetch is under way.                                    *)
assign(s) ==
  /\ saves[s].phase = "sent"
  /\ assignees' = saves[s].ids
  /\ saves' = [saves EXCEPT ![s].phase = "ok"]
  /\ UNCHANGED <<open, assigned, stale, rowFetch, latest, meant, hurried, toggles>>
invalidate(s) ==
  /\ saves[s].phase = "ok"
  /\ saves' = [saves EXCEPT ![s] = NoSave]
  /\ rowFetch' = [phase |-> "asked", set |-> {}]
  /\ stale' = TRUE
  /\ UNCHANGED <<assignees, open, assigned, latest, meant, hurried, toggles>>

(* The row is fetched, for this reason or another.                         *)
RefetchRow ==
  /\ rowFetch.phase = "idle"
  /\ rowFetch' = [phase |-> "asked", set |-> {}]
  /\ UNCHANGED <<assignees, open, assigned, stale, saves, latest, meant, hurried,
                 toggles>>
ServeFetch ==
  /\ rowFetch.phase = "asked"
  /\ rowFetch' = [phase |-> "answered", set |-> assignees]
  /\ UNCHANGED <<assignees, open, assigned, stale, saves, latest, meant, hurried,
                 toggles>>
Show ==
  /\ rowFetch.phase = "answered"
  /\ assigned' = rowFetch.set /\ stale' = FALSE
  /\ rowFetch' = NoFetch
  /\ UNCHANGED <<assignees, open, saves, latest, meant, hurried, toggles>>

AssigneesNext ==
  \/ SetOpen \/ RefetchRow \/ ServeFetch \/ Show
  \/ \E u \in Members : Click(u) \/ onOptionKey(u)
  \/ \E s \in SaveSlots : assign(s) \/ invalidate(s)

AssigneesSpec == AssigneesInit /\ [][AssigneesNext]_avars

-----------------------------------------------------------------------------
AssigneesTypeOK ==
  /\ assignees \subseteq Members /\ assigned \subseteq Members
  /\ meant \subseteq Members
  /\ rowFetch.phase \in {"idle", "asked", "answered"} /\ rowFetch.set \subseteq Members
  /\ saves \in [SaveSlots -> Save] /\ latest \in SaveSlots
  /\ open \in BOOLEAN /\ stale \in BOOLEAN /\ hurried \in BOOLEAN
  /\ toggles \in 0..MaxToggles

(* A member the user ticked stays an assignee until unticked, although     *)
(* every save replaces the whole set by one computed from what the row     *)
(* shows: with no save under way the server has the set the user put       *)
(* together, and a row that is not stale shows it.  It is not so when the  *)
(* user hurries: between the answer of a save and the refetched row, or by *)
(* key during a save, the set is computed from the one before.             *)
TogglesKept ==
  ~hurried /\ (\A s \in SaveSlots : saves[s].phase = "idle") =>
    /\ assignees = meant
    /\ ~stale => assigned = meant
=============================================================================
