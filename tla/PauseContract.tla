--------------------------- MODULE PauseContract ---------------------------
(***************************************************************************)
(* What a breakpoint promises, without its map, channel, timer or cleanup  *)
(* goroutine: a call is open until it returns once; while it is open at    *)
(* most one answer is accepted; it returns that answer or a timeout, and   *)
(* an unanswered call may be aborted once its connection is over.          *)
(***************************************************************************)
CONSTANTS
    Calls,       \* the calls of OnRequest and OnResponse
    Conns,       \* client connections
    ConnOfCall(_),  \* the connection of a call
    Before(_),   \* the calls that must have returned without an error before it
    Answers,     \* what the user may decide
    Proceed      \* the outcomes after which the exchange goes on

VARIABLES
    phase,    \* "idle", "open" or "returned"
    answer,   \* the accepted answer, or "none"
    outcome,  \* what the call returned, or "none"
    over      \* connections that are over

pvars == <<phase, answer, outcome, over>>

Init ==
    /\ phase = [p \in Calls |-> "idle"]
    /\ answer = [p \in Calls |-> "none"]
    /\ outcome = [p \in Calls |-> "none"]
    /\ over = {}

Ready(p) == phase[p] = "idle" /\ \A q \in Before(p) : outcome[q] \in Proceed

Finish(p, r) ==
    /\ phase' = [phase EXCEPT ![p] = "returned"]
    /\ outcome' = [outcome EXCEPT ![p] = r]
    /\ UNCHANGED <<answer, over>>

\* No rule matches: the message passes.
Pass(p) == Ready(p) /\ Finish(p, "passed")

Open(p) ==
    /\ Ready(p)
    /\ phase' = [phase EXCEPT ![p] = "open"]
    /\ UNCHANGED <<answer, outcome, over>>

\* The first answer to an open call is accepted, every other one ignored.
Accept(p, v) ==
    /\ phase[p] = "open"
    /\ answer[p] = "none"
    /\ answer' = [answer EXCEPT ![p] = v]
    /\ UNCHANGED <<phase, outcome, over>>

End(p) ==
    /\ phase[p] = "open"
    /\ \/ answer[p] # "none" /\ Finish(p, answer[p])
       \/ answer[p] = "none" /\ ConnOfCall(p) \in over /\ Finish(p, "aborted")
       \/ Finish(p, "timeout")

Hangup(S) == over' = over \cup S /\ UNCHANGED <<phase, answer, outcome>>

Next ==
    \/ \E p \in Calls : Pass(p) \/ Open(p) \/ End(p) \/ \E v \in Answers : Accept(p, v)
    \/ \E S \in SUBSET Conns : Hangup(S)

Spec == Init /\ [][Next]_pvars

\* Every open call ends.
FairSpec == Spec /\ \A p \in Calls : WF_pvars(End(p))
=============================================================================
