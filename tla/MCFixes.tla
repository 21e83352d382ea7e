------------------------------- MODULE MCFixes -------------------------------
(***************************************************************************)
(* The fixes of an issue and the page beside them, in three shapes, one    *)
(* per behaviour: the fixes alone, with overlapping triggers and workers   *)
(* that die; the page while another trigger starts runs too; the page      *)
(* while the worker of its run may die.                                    *)
(***************************************************************************)
EXTENDS FixPage

CONSTANTS t1, t2, w1, w2

MCTriggers == {t1, t2}
MCClicks   == {t1}
MCWorkers  == {w1, w2}

VARIABLE shape
mcvars == <<shape, vars>>

(* Bound: what each shape leaves out.                                      *)
Within ==
  CASE shape = "fixes" -> pressed = {} /\ fetch = Asked /\ lost = 0
    [] shape = "page"  -> on[w2] = None
    [] shape = "crash" -> on[w2] = None /\ tg[t2] = "check"
Bounded(A) == UNCHANGED shape /\ A /\ Within'

MCInit == Init /\ shape \in {"fixes", "page", "crash"}

Triggering(t) == Bounded(IF shape = "fixes" THEN Trigger(t) /\ UNCHANGED pageVars
                         ELSE ServeTrigger(t))
Working(w)    == Bounded(RunsGoOn(w) /\ UNCHANGED pageVars)
Crashing(w)   == shape # "page" /\ Bounded(CrashRun(w) /\ UNCHANGED pageVars)
OnPage(A)     == shape # "fixes" /\ Bounded(A)

MCNext ==
  \/ \E t \in Triggers : Triggering(t)
  \/ \E w \in Workers : Working(w) \/ Crashing(w)
  \/ \E t \in Clicks : OnPage(Press(t))
  \/ OnPage(Page) \/ OnPage(Serve) \/ OnPage(LoseIssue)
  \/ OnPage(Disconnect) \/ OnPage(TicksOut)

(* The fairness of the two specifications (FixPage and AutoFix).           *)
MCSpec ==
  /\ MCInit /\ [][MCNext]_mcvars
  /\ WF_mcvars(OnPage(Page)) /\ WF_mcvars(OnPage(Serve))
  /\ \A t \in Triggers : WF_mcvars(Triggering(t))
  /\ \A w \in Workers : WF_mcvars(Working(w))
==============================================================================
