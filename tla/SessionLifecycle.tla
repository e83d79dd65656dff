-------------------------- MODULE SessionLifecycle --------------------------
(***************************************************************************)
(* What the session manager promises its callers, with the locks, the      *)
(* watchdog and the request handlers left out: there is at most one live   *)
(* session, it only ever moves forward through the three states of         *)
(* `SessionState`, it may end at any time, and a new one is a new one: it  *)
(* is never built on the stop token of a session that came before.         *)
(*                                                                         *)
(* SessionManager.tla is shown to implement this module.                   *)
(***************************************************************************)
EXTENDS Naturals

VARIABLES
    live,       \* the live session: its stop token and its state
    fresh       \* stop tokens below this one belong to sessions already begun

lifecycleVars == <<live, fresh>>

\* The three states of `SessionState`; "none" stands for no session.
Phase == {"none", "initialized", "launched", "active"}

NoSession == [gen |-> 0, phase |-> "none"]

LifecycleInit ==
    /\ live = NoSession
    /\ fresh = 1

\* A client's /launch is accepted: the session is built on a stop token that
\* no earlier session was built on.
Begin ==
    /\ live = NoSession
    /\ live' = [gen |-> fresh, phase |-> "initialized"]
    /\ fresh' = fresh + 1

Launch ==
    /\ live.phase = "initialized"
    /\ live' = [live EXCEPT !.phase = "launched"]
    /\ UNCHANGED fresh

Activate ==
    /\ live.phase = "launched"
    /\ live' = [live EXCEPT !.phase = "active"]
    /\ UNCHANGED fresh

\* The session ends, in whichever state it was; stop tokens may be used up.
End ==
    /\ live # NoSession
    /\ live' = NoSession
    /\ fresh' \in {fresh, fresh + 1}

LifecycleNext == Begin \/ Launch \/ Activate \/ End

LifecycleSpec == LifecycleInit /\ [][LifecycleNext]_lifecycleVars

=============================================================================
