------------------------------- MODULE FixPage -------------------------------
(***************************************************************************)
(* The page of an issue beside the automatic fixes of it (AutoFix): its    *)
(* button starts a run, the live log (AutofixLiveLog) follows one over     *)
(* server-sent events, and when the stream ends the issue is read again.   *)
(* A transient loss of the connection is invisible: EventSource connects   *)
(* again and the server sends its snapshot again.                          *)
(***************************************************************************)
EXTENDS AutoFix

CONSTANTS Clicks,      \* triggers that are presses of the page's button
          MaxLost      \* bound: calls of the page that fail

ASSUME FixPageAssumption == Clicks \subseteq Triggers /\ MaxLost \in Nat

VARIABLES
  pressed,    \* presses sent to the server
  request,    \* the autofix mutation: idle, sent, or answered
  shown,      \* autofix_state of the cached issue
  fetch,      \* GET of the issue
  attach,     \* the effect's GET of the runs
  followed,   \* streamRunId
  stream,     \* of the live log: off, ticket, open, done, cut, dead
  snap,       \* the snapshot it shows: None or <<run, status>>
  rested,     \* history: no fix was left when the stream said done, and none
              \* was asked for, nor the issue's query lost, since
  lost        \* calls lost

pageVars == <<pressed, request, shown, fetch, attach, followed, stream, snap, rested, lost>>
vars == <<fixVars, pageVars>>

\* The steps of a call.
Idle         == <<>>
Asked        == <<"asked">>
AskedBy(t)   == <<"asked", t>>
Is(call, at) == call # Idle /\ call[1] = at

AtRest == orphan = {} /\ \A r \in Runs : task[r] \in {"none", "ended"} /\ tg[r] \in {"check", "ended"}

\* The page is loaded, whatever has become of the fixes by the time the
\* server answers.
Init ==
  /\ FixInit
  /\ pressed = {} /\ lost = 0
  /\ request = Idle /\ shown = None /\ snap = None /\ followed = None
  /\ fetch = Asked /\ attach = Idle /\ stream = "off" /\ rested = FALSE

Losing == lost < MaxLost /\ lost' = lost + 1

-----------------------------------------------------------------------------
(* The button and its request.                                             *)

\* The label of the button is the state of the issue; it is loading while
\* that is one of these, and disabled when the fix is "completed".
Loading  == {"running", "pending"}
Disabled == Loading \cup {"completed"}

Press(t) ==
  /\ request = Idle /\ shown \notin Disabled
  /\ t \notin pressed /\ pressed' = pressed \cup {t} /\ request' = AskedBy(t)
  /\ UNCHANGED <<fixVars, shown, fetch, attach, followed, stream, snap, rested, lost>>

\* A run to follow: a new one starts the live log's effect, the same one
\* leaves it as it is.
Follow(r) == /\ followed' = r
             /\ stream' = IF r = followed THEN stream ELSE "ticket"

(* The server on a request of this page: 409 with the run in flight, 202   *)
(* with the new one, or an error.                                          *)
Answer(t, a) == request' = IF t \in Clicks THEN a ELSE request
ServeTrigger(t) ==
  /\ t \in Clicks => t \in pressed
  /\ \/ /\ CheckActive(t) /\ tg'[t] = "ended"
        /\ \E r \in InFlight : Answer(t, <<"run", r, FALSE>>)
     \/ CheckActive(t) /\ tg'[t] = "create" /\ UNCHANGED request
     \/ CreateRun(t) /\ UNCHANGED request
     \/ Publish(t) /\ Answer(t, IF t \in orphan' THEN <<"error">> ELSE <<"run", t, TRUE>>)
  /\ rested' = FALSE
  /\ UNCHANGED <<pressed, shown, fetch, attach, followed, stream, snap, lost>>

\* 202: the issue is invalidated and the run followed.  409: the run in
\* flight is followed.  Anything else is an error message.
Answered ==
  /\ request' = Idle
  /\ \/ Is(request, "error") /\ UNCHANGED <<followed, stream, fetch>>
     \/ /\ Is(request, "run") /\ Follow(request[2])
        /\ fetch' = IF request[3] THEN Asked ELSE fetch
  /\ UNCHANGED <<fixVars, pressed, shown, attach, snap, rested, lost>>

-----------------------------------------------------------------------------
(* The issue, and the effect that finds the run of an issue "running".     *)

\* What was read of the issue is shown; were an answer to come late, it
\* would be the one of an earlier read.
ReadIssue ==
  /\ fetch = Asked
  /\ fetch' = Idle /\ shown' = state
  /\ attach' = IF shown' = "running" /\ shown # "running" /\ followed = None
               THEN Asked ELSE attach
  /\ UNCHANGED <<fixVars, pressed, request, followed, stream, snap, rested, lost>>

\* The query fails for good: what was shown stays.
LoseIssue ==
  /\ fetch = Asked /\ Losing
  /\ fetch' = Idle /\ rested' = FALSE
  /\ UNCHANGED <<fixVars, pressed, request, shown, attach, followed, stream, snap>>

\* The newest active run, if there is one, is followed, whatever is followed
\* by then; a failure is dropped.
ReadRuns ==
  /\ attach = Asked /\ attach' = Idle
  /\ \/ \E r \in InFlight : Follow(r) /\ UNCHANGED lost
     \/ InFlight = {} /\ UNCHANGED <<followed, stream, lost>>
     \/ Losing /\ UNCHANGED <<followed, stream>>
  /\ UNCHANGED <<fixVars, pressed, request, shown, fetch, snap, rested>>

-----------------------------------------------------------------------------
(* The live log.                                                           *)

\* The ticket of the stream; refused, the live log stays as it is.
Ticket ==
  /\ stream = "ticket"
  /\ \/ stream' = "open" /\ UNCHANGED lost
     \/ stream' = "dead" /\ Losing
  /\ UNCHANGED <<fixVars, pressed, request, shown, fetch, attach, followed, snap, rested>>

\* An answer other than 200 when it connects again closes an EventSource.
Disconnect ==
  /\ stream = "open" /\ Losing /\ stream' = "dead"
  /\ UNCHANGED <<fixVars, pressed, request, shown, fetch, attach, followed, snap, rested>>

Ended == {"completed", "failed"}

\* The server stops when it reads the end, before sending it.
FrameUnlessEnded ==
  /\ stream = "open" /\ snap # <<followed, status[followed]>>
  /\ status[followed] \notin Ended
  /\ snap' = <<followed, status[followed]>>
  /\ UNCHANGED <<fixVars, pressed, request, shown, fetch, attach, followed, stream, rested, lost>>

\* A poll that finds the run changed sends its snapshot.
Frame ==
  /\ stream = "open" /\ snap # <<followed, status[followed]>>
  /\ snap' = <<followed, status[followed]>>
  /\ UNCHANGED <<fixVars, pressed, request, shown, fetch, attach, followed, stream, rested, lost>>

\* After the snapshot of an ended run the server says done.
Done ==
  /\ stream = "open" /\ snap \in {<<followed, s>> : s \in Ended}
  /\ stream' = "done" /\ fetch' = Asked /\ rested' = AtRest
  /\ UNCHANGED <<fixVars, pressed, request, shown, attach, followed, snap, lost>>

\* MAX_TICKS: it says so to the page of a run that is still active, too.
TicksOut ==
  /\ stream = "open" /\ status[followed] \in Active
  /\ stream' = "cut" /\ fetch' = Asked
  /\ UNCHANGED <<fixVars, pressed, request, shown, attach, followed, snap, rested, lost>>

-----------------------------------------------------------------------------

Page  == Answered \/ Frame \/ Done
Serve == ReadIssue \/ ReadRuns \/ Ticket
RunsGoOn(w) == RunAutofix(w) \/ \E r \in Runs : TakeRun(w, r)

Next ==
  \/ \E t \in Triggers : ServeTrigger(t)
  \/ \E t \in Clicks : Press(t)
  \/ \E w \in Workers : (RunsGoOn(w) \/ CrashRun(w)) /\ UNCHANGED pageVars
  \/ Page \/ Serve \/ LoseIssue \/ Disconnect \/ TicksOut

(* The server serves what it is asked, workers go on, the browser handles  *)
(* what arrives: React and EventSource drop no event.                      *)
Fairness ==
  /\ WF_vars(Page) /\ WF_vars(Serve)
  /\ \A t \in Triggers : WF_vars(ServeTrigger(t))
  /\ \A w \in Workers : WF_vars(RunsGoOn(w) /\ UNCHANGED pageVars)

Spec == Init /\ [][Next]_vars /\ Fairness

-----------------------------------------------------------------------------
(* Properties.                                                             *)

(* Whoever presses the button and is answered sees how the run ends, be it *)
(* one of their own or the one in flight, unless its stream is refused or  *)
(* outlasted, the page attached to another run, or the run was never       *)
(* published or started, or was killed.                                    *)
SeesTheEnd ==
  \A r \in Runs :
    request \in {<<"run", r, TRUE>>, <<"run", r, FALSE>>}
      ~> \/ snap \in {<<r, s>> : s \in Ended}
         \/ stream \in {"dead", "cut"} \/ followed \notin {None, r}
         \/ r \in orphan

(* A page whose stream says done when nothing of the fixes is left, and    *)
(* that has read the issue since, does not show a fix in progress: its     *)
(* button is back.                                                         *)
ButtonRecovers ==
  stream = "done" /\ rested /\ fetch = Idle => shown \notin Loading

(* Both: the page follows the run to its end, and does not go on after it. *)
PageFollows == SeesTheEnd /\ []ButtonRecovers
=============================================================================
