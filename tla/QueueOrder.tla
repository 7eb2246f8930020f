----------------------------- MODULE QueueOrder -----------------------------
(***************************************************************************)
(* What a queue of a HAL device promises, without threads, wait lists or   *)
(* timepoints: calls, each of which waits for points on timelines and      *)
(* provides others.                                                        *)
(*                                                                         *)
(* The commands of a call run once, when all it waits for is reached.  A   *)
(* timeline advances by what a call that has run provides, and fails by a  *)
(* call that is not over.  A call of a queue is over when all it provides  *)
(* is reached or all of it has failed.                                     *)
(***************************************************************************)
EXTENDS Naturals

VARIABLES
  calls,     \* calls[c]: [kind, waits, signals], sets of points
  value,     \* value[s]: how far timeline s has come
  failed,    \* failed[s]: whether it has failed
  ran,       \* the calls whose commands have run
  over       \* over[c]: "no", "ok" or "error"

vars == <<calls, value, failed, ran, over>>

Reached(p) == value[p.sem] >= p.value
IsQueueCall(c) == calls[c].kind \in {"execute", "alloca", "dealloca"}
Pending(c) == over[c] = "no"

Init ==
  /\ failed = [s \in DOMAIN value |-> FALSE]
  /\ ran = {}
  /\ over = [c \in DOMAIN calls |-> "no"]

Run(c) ==
  /\ Pending(c) /\ c \notin ran
  /\ \A p \in calls[c].waits : Reached(p)
  /\ ran' = ran \cup {c}
  /\ UNCHANGED <<calls, value, failed, over>>

Provide(c, p) ==
  /\ Pending(c) /\ c \in ran /\ p \in calls[c].signals
  /\ ~Reached(p) /\ ~failed[p.sem]
  /\ value' = [value EXCEPT ![p.sem] = p.value]
  /\ UNCHANGED <<calls, failed, ran, over>>

Fail(c, p) ==
  /\ Pending(c) /\ IsQueueCall(c) /\ p \in calls[c].signals
  /\ failed' = [failed EXCEPT ![p.sem] = TRUE]
  /\ UNCHANGED <<calls, value, ran, over>>

Succeed(c) ==
  /\ Pending(c)
  /\ \A p \in calls[c].signals : c \in ran /\ Reached(p)
  /\ calls[c].kind = "wait" => \A p \in calls[c].waits : Reached(p)
  /\ over' = [over EXCEPT ![c] = "ok"]
  /\ UNCHANGED <<calls, value, failed, ran>>

GiveUp(c) ==
  /\ Pending(c)
  /\ IsQueueCall(c) => \A p \in calls[c].signals : failed[p.sem]
  /\ over' = [over EXCEPT ![c] = "error"]
  /\ UNCHANGED <<calls, value, failed, ran>>

Next ==
  \E c \in DOMAIN calls :
    \/ Run(c) \/ Succeed(c) \/ GiveUp(c)
    \/ \E p \in calls[c].signals : Provide(c, p) \/ Fail(c, p)

Spec == Init /\ [][Next]_vars

=============================================================================
