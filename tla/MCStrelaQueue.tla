--------------------------- MODULE MCStrelaQueue ---------------------------
(* Three threads and two semaphores, timelines up to 2.                    *)
EXTENDS StrelaQueue, TLC

CONSTANTS t1, t2, t3, a, b

MCThreads == {t1, t2, t3}
MCSemaphores == {a, b}
MCInitial == [s \in MCSemaphores |-> 0]

At(s, v) == [sem |-> s, value |-> v]
NewCall(kind, waits, signals) ==
  [kind |-> kind, waits |-> waits, signals |-> signals]

Assign(p1, p2, p3) == (t1 :> p1) @@ (t2 :> p2) @@ (t3 :> p3)

(* A producer of two results, a chain through one and a join of both.      *)
Join == Assign(
  <<NewCall("execute", <<>>, <<At(a, 1), At(b, 1)>>)>>,
  <<NewCall("execute", <<At(a, 1)>>, <<At(a, 2)>>)>>,
  <<NewCall("execute", <<At(b, 1), At(a, 2)>>, <<At(b, 2)>>),
    NewCall("wait", <<At(b, 2)>>, <<>>)>>)

(* Two calls that signal one timeline and no other order between them.     *)
Race == Assign(
  <<NewCall("execute", <<>>, <<At(b, 1), At(a, 1)>>)>>,
  <<NewCall("dealloca", <<>>, <<At(a, 2)>>)>>,
  <<NewCall("alloca", <<At(a, 1), At(b, 1)>>, <<At(b, 2)>>)>>)

(* The host signals, waits and queries.                                    *)
Host == Assign(
  <<NewCall("signal", <<>>, <<At(a, 1)>>),
    NewCall("dealloca", <<At(a, 1)>>, <<At(a, 2)>>)>>,
  <<NewCall("alloca", <<At(a, 1)>>, <<At(b, 1)>>),
    NewCall("wait", <<At(a, 2)>>, <<>>)>>,
  <<NewCall("query", <<At(b, 1)>>, <<>>), NewCall("query", <<At(b, 1)>>, <<>>),
    NewCall("wait", <<At(b, 1)>>, <<>>)>>)

(* The host signals a value that the timeline may have passed already, and *)
(* queries it meanwhile.                                                   *)
Late == Assign(
  <<NewCall("execute", <<>>, <<At(a, 2)>>)>>,
  <<NewCall("signal", <<>>, <<At(a, 1)>>)>>,
  <<NewCall("query", <<At(a, 1)>>, <<>>), NewCall("query", <<At(a, 1)>>, <<>>),
    NewCall("execute", <<At(a, 1)>>, <<At(b, 1)>>)>>)

(* One list signals a timeline twice, and two calls signal the same point. *)
Twice == Assign(
  <<NewCall("execute", <<>>, <<At(a, 1), At(a, 2)>>)>>,
  <<NewCall("execute", <<At(a, 1)>>, <<At(b, 1), At(b, 2)>>)>>,
  <<NewCall("alloca", <<At(a, 2)>>, <<At(b, 1)>>), NewCall("wait", <<At(b, 2)>>, <<>>)>>)

(* A chain back and forth, with a bystander that only waits.               *)
Chain == Assign(
  <<NewCall("execute", <<>>, <<At(a, 1)>>), NewCall("execute", <<At(b, 1)>>, <<At(a, 2)>>)>>,
  <<NewCall("execute", <<At(a, 1)>>, <<At(b, 1)>>), NewCall("dealloca", <<At(a, 2)>>, <<At(b, 2)>>)>>,
  <<NewCall("wait", <<At(a, 2)>>, <<>>), NewCall("query", <<At(b, 1)>>, <<>>),
    NewCall("query", <<At(b, 1)>>, <<>>)>>)

MCPrograms == {Join, Race, Host, Late, Twice, Chain}

=============================================================================
