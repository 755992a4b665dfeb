----------------------------- MODULE Breakpoint -----------------------------
(***************************************************************************)
(* The breakpoint interceptor of pkg/interceptor/breakpoint.go.            *)
(*                                                                         *)
(* A handler goroutine that calls OnRequest or OnResponse for an exchange  *)
(* matched by a rule enters the exchange in a map, starts a cleanup        *)
(* goroutine, tells the GUI and waits on a channel of capacity 1.  It is   *)
(* released by a verdict of the user (resume, resume unmodified, abort),   *)
(* by the five-minute timer, or by the end of the connection's context,    *)
(* on which the cleanup goroutine closes the channel.  Every lock section  *)
(* of b.mu is one action; what happens between two sections is a point     *)
(* where the other goroutines may run.                                     *)
(***************************************************************************)
EXTENDS Naturals

CONSTANTS
    Ids,     \* exchanges; HttpRequest.ID is a fresh UUID, never used twice
    Conns,   \* client connections, each with one context and one handler goroutine
    ConnOf,  \* the connection an exchange arrives on
    RuleSets \* the rule lists the user saves, each as the set of pauses it matches

ASSUME ConnAssumption == ConnOf \in [Ids -> Conns]

Kinds   == {"request", "response"}
Pauses  == Ids \X Kinds          \* a call of OnRequest or of OnResponse
Verdict == {"modified", "original", "aborted"}   \* "aborted": nil is sent
Result  == Verdict \cup {"none", "passed", "timeout"}
Ok      == {"passed", "modified", "original"}    \* no error returned

ASSUME RuleAssumption == RuleSets \subseteq SUBSET Pauses

RequestOf(p) == <<p[1], "request">>
ConnOfPause(p) == ConnOf[p[1]]

VARIABLES
    rules,    \* the pauses that some enabled rule with a valid pattern matches
    pc,       \* where the call of the handler goroutine stands
    paused,   \* keys of pausedRequests and pausedResponses
    chan,     \* the buffered element of resChan, or "empty"
    closed,   \* the pauses whose resChan is closed
    cleaner,  \* the cleanup goroutine of each pause
    mu,       \* "free", or why b.mu is never released: "blocked", "panicked"
    gone,     \* connections whose context is done
    left,     \* connections whose handler has returned
    verdict,  \* what the user's call that removed the entry sent (history)
    result    \* what the call returned

vars == <<rules, pc, paused, chan, closed, cleaner, mu, gone, left, verdict, result>>

Active == {"matched", "registered", "waiting", "expired"}

TypeOK ==
    /\ rules \in RuleSets
    /\ pc \in [Pauses -> Active \cup {"idle", "done"}]
    /\ paused \subseteq Pauses
    /\ chan \in [Pauses -> Verdict \cup {"empty"}]
    /\ closed \subseteq Pauses
    /\ cleaner \in [Pauses -> {"none", "armed", "removed", "done"}]
    /\ mu \in {"free", "blocked", "panicked"}
    /\ gone \subseteq Conns
    /\ left \subseteq Conns
    /\ verdict \in [Pauses -> Verdict \cup {"none"}]
    /\ result \in [Pauses -> Result]

Init ==
    /\ rules \in RuleSets
    /\ pc = [p \in Pauses |-> "idle"]
    /\ paused = {}
    /\ chan = [p \in Pauses |-> "empty"]
    /\ closed = {}
    /\ cleaner = [p \in Pauses |-> "none"]
    /\ mu = "free"
    /\ gone = {}
    /\ left = {}
    /\ verdict = [p \in Pauses |-> "none"]
    /\ result = [p \in Pauses |-> "none"]

-----------------------------------------------------------------------------
(* The handler goroutine                                                   *)

\* No exchange of the connection is inside the interceptor: one goroutine
\* serves a connection, one exchange after the other.
Quiet(c) == \A p \in Pauses : ConnOfPause(p) = c => pc[p] \notin Active

\* Mutant: the response is paused although its request failed.
CallableAnyTime(p) ==
    pc[p] = "idle" /\ ConnOfPause(p) \notin left /\ Quiet(ConnOfPause(p))

\* The handler calls OnResponse only for an exchange whose OnRequest returned
\* without an error, and neither after the connection's handler has returned.
Callable(p) ==
    /\ pc[p] = "idle"
    /\ ConnOfPause(p) \notin left
    /\ Quiet(ConnOfPause(p))
    /\ p[2] = "response" => result[RequestOf(p)] \in Ok

Return(p, r) ==
    /\ pc' = [pc EXCEPT ![p] = "done"]
    /\ result' = [result EXCEPT ![p] = r]

\* OnRequest/OnResponse up to the end of the read lock.
Match(p) ==
    /\ mu = "free"
    /\ Callable(p)
    /\ IF p \in rules
         THEN pc' = [pc EXCEPT ![p] = "matched"] /\ UNCHANGED result
         ELSE Return(p, "passed")
    /\ UNCHANGED <<rules, paused, chan, closed, cleaner, mu, gone, left, verdict>>

\* The entry is written to the map under the lock.
Register(p) ==
    /\ mu = "free"
    /\ pc[p] = "matched"
    /\ paused' = paused \cup {p}
    /\ pc' = [pc EXCEPT ![p] = "registered"]
    /\ UNCHANGED <<rules, chan, closed, cleaner, mu, gone, left, verdict, result>>

\* The cleanup goroutine is started and the GUI notified; the goroutine goes on
\* to the select.
Announce(p) ==
    /\ pc[p] = "registered"
    /\ cleaner' = [cleaner EXCEPT ![p] = "armed"]
    /\ pc' = [pc EXCEPT ![p] = "waiting"]
    /\ UNCHANGED <<rules, paused, chan, closed, mu, gone, left, verdict, result>>

\* Mutant: a closed channel counts before the verdict it still holds.
ReceiveClosedFirst(p) ==
    /\ pc[p] = "waiting"
    /\ p \in closed \/ chan[p] # "empty"
    /\ Return(p, IF p \in closed THEN "aborted" ELSE chan[p])
    /\ chan' = [chan EXCEPT ![p] = "empty"]
    /\ UNCHANGED <<rules, paused, closed, cleaner, mu, gone, left, verdict>>

\* First case of the select: a buffered verdict, else nil from a closed channel.
Receive(p) ==
    /\ pc[p] = "waiting"
    /\ \/ /\ chan[p] # "empty"
          /\ Return(p, chan[p])
          /\ chan' = [chan EXCEPT ![p] = "empty"]
       \/ /\ chan[p] = "empty"
          /\ p \in closed
          /\ Return(p, "aborted")
          /\ UNCHANGED chan
    /\ UNCHANGED <<rules, paused, closed, cleaner, mu, gone, left, verdict>>

\* Mutant: no timer, only the end of the context releases the call.
ExpireOnlyWhenGone(p) ==
    /\ pc[p] = "waiting" /\ chan[p] = "empty" /\ ConnOfPause(p) \in gone
    /\ pc' = [pc EXCEPT ![p] = "expired"]
    /\ UNCHANGED <<rules, paused, chan, closed, cleaner, mu, gone, left, verdict, result>>

\* Second case of the select: the timer.  It is created on entry to the select,
\* so it can only win while nothing can be received.
Expire(p) ==
    /\ pc[p] = "waiting"
    /\ chan[p] = "empty"
    /\ p \notin closed
    /\ pc' = [pc EXCEPT ![p] = "expired"]
    /\ UNCHANGED <<rules, paused, chan, closed, cleaner, mu, gone, left, verdict, result>>

\* Mutants of the timer's branch: it returns what the channel holds; it forgets
\* the entry; it goes on only when the entry is still there.
GiveUpReturnsChannel(p) ==
    /\ mu = "free" /\ pc[p] = "expired"
    /\ paused' = paused \ {p}
    /\ Return(p, chan[p])
    /\ UNCHANGED <<rules, chan, closed, cleaner, mu, gone, left, verdict>>
GiveUpKeepsEntry(p) ==
    /\ mu = "free" /\ pc[p] = "expired"
    /\ Return(p, "timeout")
    /\ UNCHANGED <<rules, paused, chan, closed, cleaner, mu, gone, left, verdict>>
GiveUpIfListed(p) ==
    /\ mu = "free" /\ pc[p] = "expired" /\ p \in paused
    /\ paused' = paused \ {p}
    /\ Return(p, "timeout")
    /\ UNCHANGED <<rules, chan, closed, cleaner, mu, gone, left, verdict>>

\* The timer's branch takes the lock, deletes the entry and returns the error.
GiveUp(p) ==
    /\ mu = "free"
    /\ pc[p] = "expired"
    /\ paused' = paused \ {p}
    /\ Return(p, "timeout")
    /\ UNCHANGED <<rules, chan, closed, cleaner, mu, gone, left, verdict>>

-----------------------------------------------------------------------------
(* The user: GUI or mobile API                                             *)

\* Mutant: the entry stays in the map after an answer.
ResumeKeepsEntry(p, v) ==
    /\ mu = "free" /\ p \in paused
    /\ verdict' = [verdict EXCEPT ![p] = v]
    /\ IF p \in closed \/ chan[p] # "empty"
         THEN mu' = (IF p \in closed THEN "panicked" ELSE "blocked") /\ UNCHANGED chan
         ELSE chan' = [chan EXCEPT ![p] = v] /\ UNCHANGED mu
    /\ UNCHANGED <<rules, pc, paused, closed, cleaner, gone, left, result>>

\* ResumeRequest, ResumeUnmodifiedRequest, AbortRequest and the three of
\* responses.  The send happens with b.mu held: on a full channel it blocks for
\* ever, on a closed one it panics.
Resume(p, v) ==
    /\ mu = "free"
    /\ p \in paused
    /\ paused' = paused \ {p}
    /\ verdict' = [verdict EXCEPT ![p] = v]
    /\ \/ p \in closed /\ mu' = "panicked" /\ UNCHANGED chan
       \/ p \notin closed /\ chan[p] # "empty" /\ mu' = "blocked" /\ UNCHANGED chan
       \/ /\ p \notin closed
          /\ chan[p] = "empty"
          /\ chan' = [chan EXCEPT ![p] = v]
          /\ UNCHANGED mu
    /\ UNCHANGED <<rules, pc, closed, cleaner, gone, left, result>>

\* SetRules replaces the rules; pauses in progress keep going.
SetRules(R) ==
    /\ mu = "free"
    /\ rules' = R
    /\ UNCHANGED <<pc, paused, chan, closed, cleaner, mu, gone, left, verdict, result>>

-----------------------------------------------------------------------------
(* The cleanup goroutine and the context it waits for                      *)

\* Mutant: the goroutine leaves the channel alone when the entry is not there.
CleanerRemoveIfListed(p) ==
    /\ mu = "free" /\ cleaner[p] = "armed" /\ ConnOfPause(p) \in gone /\ p \in paused
    /\ paused' = paused \ {p}
    /\ cleaner' = [cleaner EXCEPT ![p] = "removed"]
    /\ UNCHANGED <<rules, pc, chan, closed, mu, gone, left, verdict, result>>

CleanerRemove(p) ==
    /\ mu = "free"
    /\ cleaner[p] = "armed"
    /\ ConnOfPause(p) \in gone
    /\ paused' = paused \ {p}
    /\ cleaner' = [cleaner EXCEPT ![p] = "removed"]
    /\ UNCHANGED <<rules, pc, chan, closed, mu, gone, left, verdict, result>>

\* The channel is closed outside the lock.
CleanerClose(p) ==
    /\ cleaner[p] = "removed"
    /\ closed' = closed \cup {p}
    /\ cleaner' = [cleaner EXCEPT ![p] = "done"]
    /\ UNCHANGED <<rules, pc, paused, chan, mu, gone, left, verdict, result>>

\* The handler of a connection returns and its deferred ctx.Cancel runs.
HandlerReturns(c) ==
    /\ Quiet(c)
    /\ c \notin left
    /\ left' = left \cup {c}
    /\ gone' = gone \cup {c}
    /\ UNCHANGED <<rules, pc, paused, chan, closed, cleaner, mu, verdict, result>>

\* Server.Stop cancels the parent of every connection's context; the handlers
\* are neither waited for nor stopped.
StopServer ==
    /\ gone # Conns
    /\ gone' = Conns
    /\ UNCHANGED <<rules, pc, paused, chan, closed, cleaner, mu, left, verdict, result>>

-----------------------------------------------------------------------------
Handler(p) == Match(p) \/ Register(p) \/ Announce(p) \/ Receive(p) \/ Expire(p) \/ GiveUp(p)
Cleaner(p) == CleanerRemove(p) \/ CleanerClose(p)

Next ==
    \/ \E p \in Pauses : Handler(p) \/ Cleaner(p) \/ \E v \in Verdict : Resume(p, v)
    \/ \E R \in RuleSets : SetRules(R)
    \/ \E c \in Conns : HandlerReturns(c)
    \/ StopServer

Spec == Init /\ [][Next]_vars

\* A goroutine that can go on does, and a timer that is running fires.  Nothing
\* obliges the user to answer, a handler to be called or a connection to end.
Fairness ==
    \A p \in Pauses :
        /\ WF_vars(Register(p)) /\ WF_vars(Announce(p)) /\ WF_vars(Receive(p))
        /\ WF_vars(Expire(p)) /\ WF_vars(GiveUp(p))
        /\ WF_vars(Cleaner(p))

FairSpec == Spec /\ Fairness

-----------------------------------------------------------------------------
(* What the interceptor owes its callers                                   *)

\* Answering a breakpoint never hangs or crashes the caller (GUI binding or
\* mobile API goroutine): the send under b.mu always finds an open channel with
\* room, whatever a second answer, the timer and the cleanup goroutine do.
ResumeNeverWedges == mu = "free"

\* An entry in the map belongs to a call that is still waiting for its first
\* verdict, so answering it is answering somebody; a call that has returned
\* leaves no entry behind.
EntryIsUndecided ==
    \A p \in paused :
        /\ pc[p] \in {"registered", "waiting", "expired"}
        /\ verdict[p] = "none"
        /\ chan[p] = "empty"
        /\ p \notin closed

\* The call returns what the accepted answer asked for or a timeout, never
\* another verdict: in particular the end of the context cannot turn an accepted
\* resume into an abort.  Without an answer it is aborted only when the context
\* of its connection is done.
VerdictRespected ==
    \A p \in Pauses :
        /\ result[p] \in {"modified", "original"} => verdict[p] = result[p]
        /\ result[p] = "aborted" =>
              \/ verdict[p] = "aborted"
              \/ verdict[p] = "none" /\ ConnOfPause(p) \in gone
        /\ result[p] = "passed" => verdict[p] = "none"

\* A verdict waits in the channel only for a call that will read it, or was
\* overtaken by the timer: it is never stranded in front of a waiting call whose
\* entry is still listed.
VerdictInTransit ==
    \A p \in Pauses :
        chan[p] # "empty" => /\ chan[p] = verdict[p]
                             /\ pc[p] \in {"registered", "waiting", "expired"}
                                  \/ result[p] = "timeout"

\* The state of one pause, by where its call stands: before it is registered
\* nothing exists; while it is held it is unanswered and listed, answered and
\* not listed, or taken off the list by its cleanup goroutine; once it has
\* returned only a timed-out call may leave an answer in the channel.
PauseInv(p) ==
    LET listed   == p \in paused /\ verdict[p] = "none" /\ chan[p] = "empty" /\ p \notin closed
        answered == p \notin paused /\ verdict[p] # "none" /\ chan[p] = verdict[p]
        removed  == /\ p \notin paused /\ verdict[p] = "none" /\ chan[p] = "empty"
                    /\ cleaner[p] \in {"removed", "done"}
    IN
    /\ p \in closed <=> cleaner[p] = "done"
    /\ cleaner[p] \in {"removed", "done"} => p \notin paused /\ ConnOfPause(p) \in gone
    /\ pc[p] \in {"idle", "matched"} =>
          /\ p \notin paused /\ verdict[p] = "none" /\ chan[p] = "empty"
          /\ cleaner[p] = "none" /\ result[p] = "none"
    /\ pc[p] = "registered" => cleaner[p] = "none"
    /\ pc[p] \in {"registered", "waiting", "expired"} =>
          result[p] = "none" /\ (listed \/ answered \/ removed)
    /\ pc[p] = "done" =>
          /\ p \notin paused
          /\ \/ result[p] = "passed" /\ verdict[p] = "none" /\ chan[p] = "empty"
             \/ result[p] \in Verdict /\ verdict[p] = result[p] /\ chan[p] = "empty"
             \/ /\ result[p] = "aborted" /\ verdict[p] = "none" /\ chan[p] = "empty"
                /\ ConnOfPause(p) \in gone
             \/ result[p] = "timeout" /\ chan[p] \in {"empty", verdict[p]}

\* The inductive invariant behind the safety properties.
Inv == TypeOK /\ mu = "free" /\ \A p \in Pauses : PauseInv(p)

\* An accepted verdict and a returned result are final: a second answer, the
\* timer and the cleanup goroutine change neither.
DecisionsAreFinal ==
    [][\A p \in Pauses :
          /\ verdict[p] # "none" => verdict'[p] = verdict[p]
          /\ result[p] # "none" => result'[p] = result[p]]_vars

-----------------------------------------------------------------------------
(* The interceptor implements the contract of a pause                      *)

phase == [p \in Pauses |-> IF pc[p] \in Active THEN "open"
                           ELSE IF pc[p] = "idle" THEN "idle" ELSE "returned"]

Before(p) == IF p[2] = "response" THEN {RequestOf(p)} ELSE {}

Contract == INSTANCE PauseContract WITH
    Calls <- Pauses, ConnOfCall <- ConnOfPause, Answers <- Verdict, Proceed <- Ok,
    answer <- verdict, outcome <- result, over <- gone

\* Map, channel, timer and cleanup goroutine together behave as the contract.
ImplementsContract == Contract!Spec

\* No exchange is held for ever, and no goroutine left: every matched call returns
\* although the user may never answer, and the end of the context ends the cleanup
\* goroutine.  So the interceptor keeps the contract's liveness as well.
PausesEnd ==
    /\ \A p \in Pauses : pc[p] = "matched" ~> pc[p] = "done"
    /\ \A p \in Pauses :
          cleaner[p] = "armed" /\ ConnOfPause(p) \in gone ~> cleaner[p] = "done"
    /\ Contract!FairSpec

=============================================================================
