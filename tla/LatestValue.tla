---------------------------- MODULE LatestValue ----------------------------
(***************************************************************************)
(* What the control socket promises its subscribers: each sees values the  *)
(* daemon has had, never an older one after a newer one, and the current   *)
(* one in the end.  Values may be skipped: each replaces the last.         *)
(***************************************************************************)
EXTENDS Integers

CONSTANT Subscriber

VARIABLES
    value,      \* how many changes there have been
    seen        \* the last of them each subscriber has been sent, -1 for none

latestVars == <<value, seen>>

LatestInit == value = 0 /\ seen = [s \in Subscriber |-> -1]

Change == value' = value + 1 /\ UNCHANGED seen

\* The first value is the current one.
Join(s) ==
    /\ seen[s] = -1
    /\ seen' = [seen EXCEPT ![s] = value]
    /\ UNCHANGED value

Deliver(s) ==
    /\ seen[s] # -1
    /\ \E v \in seen[s] + 1 .. value : seen' = [seen EXCEPT ![s] = v]
    /\ UNCHANGED value

\* A client goes away, and may come back.
Leave(s) ==
    /\ seen' = [seen EXCEPT ![s] = -1]
    /\ UNCHANGED value

LatestNext == Change \/ \E s \in Subscriber : Join(s) \/ Deliver(s) \/ Leave(s)

LatestSpec ==
    /\ LatestInit /\ [][LatestNext]_latestVars
    /\ \A s \in Subscriber : WF_latestVars(Deliver(s))
=============================================================================
