---------------------------- MODULE FifoService ----------------------------
(***************************************************************************)
(* What the inference queue of ai2npu promises to its callers, without     *)
(* permits, channels or counters (technical_specification.md, 9.1 - 9.3):  *)
(* one shared line of bounded length, served in order of arrival, one      *)
(* operation at a time; a caller is refused only when the line is full,    *)
(* may stop waiting at any moment, never has its operation started after   *)
(* it stopped waiting, and otherwise receives the result of its own        *)
(* operation.                                                              *)
(***************************************************************************)
EXTENDS Naturals, Sequences, FiniteSets

CONSTANTS Requests,   \* the submissions, each made at most once
          Limit,      \* how many requests may wait
          Nobody      \* no request

VARIABLES admitted,   \* holds a place, not yet in the line
          line,       \* the requests in order of arrival
          desk,       \* who is being served: [phase, job]
          performed,  \* what the operation of each request returned
          verdict     \* what each caller was told

vars == <<admitted, line, desk, performed, verdict>>

Results == {"ok", "err"}
Free == [phase |-> "free", job |-> Nobody]

InLine(r) == \E i \in DOMAIN line : line[i] = r
AtDesk(r) == desk.phase # "free" /\ desk.job = r

\* A request that has not reached the service yet.
Fresh(r) == /\ verdict[r] = "none" /\ performed[r] = "none"
            /\ r \notin admitted /\ ~InLine(r) /\ ~AtDesk(r)

HasRoom == Cardinality(admitted) + Len(line) < Limit

Init == /\ admitted = {}
        /\ line = <<>>
        /\ desk = Free
        /\ performed = [r \in Requests |-> "none"]
        /\ verdict = [r \in Requests |-> "none"]

Admit(r) == /\ Fresh(r) /\ HasRoom
            /\ admitted' = admitted \union {r}
            /\ UNCHANGED <<line, desk, performed, verdict>>

Refuse(r) == /\ Fresh(r) /\ ~HasRoom
             /\ verdict' = [verdict EXCEPT ![r] = "refused"]
             /\ UNCHANGED <<admitted, line, desk, performed>>

Join(r) == /\ r \in admitted
           /\ admitted' = admitted \ {r}
           /\ line' = Append(line, r)
           /\ UNCHANGED <<desk, performed, verdict>>

\* The first in the line leaves it and comes to the desk.
Call == /\ desk = Free /\ line # <<>>
        /\ desk' = [phase |-> "called", job |-> Head(line)]
        /\ line' = Tail(line)
        /\ UNCHANGED <<admitted, performed, verdict>>

Start == /\ desk.phase = "called" /\ verdict[desk.job] = "none"
         /\ desk' = [desk EXCEPT !.phase = "busy"]
         /\ UNCHANGED <<admitted, line, performed, verdict>>

Skip == /\ desk.phase = "called" /\ verdict[desk.job] = "gaveUp"
        /\ desk' = Free
        /\ UNCHANGED <<admitted, line, performed, verdict>>

Perform == /\ desk.phase = "busy"
           /\ \E result \in Results :
                performed' = [performed EXCEPT ![desk.job] = result]
           /\ desk' = Free
           /\ UNCHANGED <<admitted, line, verdict>>

GiveUp(r) == /\ verdict[r] = "none"
             /\ InLine(r) \/ AtDesk(r) \/ performed[r] # "none"
             /\ verdict' = [verdict EXCEPT ![r] = "gaveUp"]
             /\ UNCHANGED <<admitted, line, desk, performed>>

Deliver(r) == /\ verdict[r] = "none" /\ performed[r] \in Results
              /\ verdict' = [verdict EXCEPT ![r] = performed[r]]
              /\ UNCHANGED <<admitted, line, desk, performed>>

Next == \/ Call \/ Start \/ Skip \/ Perform
        \/ \E r \in Requests :
             Admit(r) \/ Refuse(r) \/ Join(r) \/ GiveUp(r) \/ Deliver(r)

Spec == Init /\ [][Next]_vars
=============================================================================
