------------------------------- MODULE SyncCall -------------------------------
(***************************************************************************)
(* What sync_wait promises its caller: a blocking call of an asynchronous  *)
(* body.  It returns once, after the body has ended, with the value or the *)
(* exception the body ended with; once the body has ended it does return.  *)
(***************************************************************************)
EXTENDS Integers

CONSTANTS Outcomes, \* how a body can end
          None

VARIABLES body,    \* "none", "running" or "ended"
          ended,   \* the outcome of the body
          returned \* what the call has returned with

vars == <<body, ended, returned>>

Init == body = "none" /\ ended = None /\ returned = None

Begin ==
  /\ body = "none"
  /\ body' = "running"
  /\ UNCHANGED <<ended, returned>>

End ==
  /\ body = "running"
  /\ body' = "ended"
  /\ ended' \in Outcomes
  /\ UNCHANGED returned

Return ==
  /\ body = "ended"
  /\ returned = None
  /\ returned' = ended
  /\ UNCHANGED <<body, ended>>

Spec == Init /\ [][Begin \/ End \/ Return]_vars

\* The body may run for ever; the call does not outlive it for ever.
FairSpec == Spec /\ WF_vars(Return)
=============================================================================
