-------------------------- MODULE BreakpointProofs --------------------------
(***************************************************************************)
(* Theorems about the breakpoint interceptor, for any number of exchanges, *)
(* connections and rule lists.                                             *)
(***************************************************************************)
EXTENDS Breakpoint, TLAPS

\* Every step of the interceptor and of its environment is well typed.
LEMMA TypeStep == TypeOK /\ [Next]_vars => TypeOK'
<1> SUFFICES ASSUME TypeOK, [Next]_vars PROVE TypeOK'
  OBVIOUS
<1> USE DEF TypeOK, Active, Result, Verdict
<1>1. ASSUME NEW p \in Pauses, Match(p) PROVE TypeOK'
  BY <1>1 DEF Match, Return
<1>2. ASSUME NEW p \in Pauses, Register(p) PROVE TypeOK'
  BY <1>2 DEF Register
<1>3. ASSUME NEW p \in Pauses, Announce(p) PROVE TypeOK'
  BY <1>3 DEF Announce
<1>4. ASSUME NEW p \in Pauses, Receive(p) PROVE TypeOK'
  BY <1>4 DEF Receive, Return
<1>5. ASSUME NEW p \in Pauses, Expire(p) PROVE TypeOK'
  BY <1>5 DEF Expire
<1>6. ASSUME NEW p \in Pauses, GiveUp(p) PROVE TypeOK'
  BY <1>6 DEF GiveUp, Return
<1>7. ASSUME NEW p \in Pauses, NEW v \in Verdict, Resume(p, v) PROVE TypeOK'
  BY <1>7 DEF Resume
<1>8. ASSUME NEW p \in Pauses, CleanerRemove(p) PROVE TypeOK'
  BY <1>8 DEF CleanerRemove
<1>9. ASSUME NEW p \in Pauses, CleanerClose(p) PROVE TypeOK'
  BY <1>9 DEF CleanerClose
<1>10. ASSUME NEW R \in RuleSets, SetRules(R) PROVE TypeOK'
  BY <1>10 DEF SetRules
<1>11. ASSUME NEW c \in Conns, HandlerReturns(c) PROVE TypeOK'
  BY <1>11 DEF HandlerReturns
<1>12. CASE StopServer
  BY <1>12 DEF StopServer
<1>13. CASE UNCHANGED vars
  BY <1>13 DEF vars
<1> QED
  BY <1>1, <1>2, <1>3, <1>4, <1>5, <1>6, <1>7, <1>8, <1>9, <1>10, <1>11,
   <1>12, <1>13 DEF Next, Handler, Cleaner

\* Type correctness: the maps, the channels and the goroutines of breakpoint.go
\* stay in the states the model gives them.
THEOREM TypeCorrect == Spec => []TypeOK
<1>1. Init => TypeOK
  BY RuleAssumption DEF Init, TypeOK, Result, Verdict, Active
<1> QED
  BY <1>1, TypeStep, PTL DEF Spec

-----------------------------------------------------------------------------
\* A pause whose own variables and connection do not change keeps its
\* invariant, whatever another goroutine does.
LEMMA Frame ==
  ASSUME NEW q \in Pauses, PauseInv(q), gone \subseteq gone',
         pc'[q] = pc[q], chan'[q] = chan[q], cleaner'[q] = cleaner[q],
         verdict'[q] = verdict[q], result'[q] = result[q],
         q \in paused' <=> q \in paused, q \in closed' <=> q \in closed
  PROVE  PauseInv(q)'
BY DEF PauseInv

\* Every step of a handler goroutine, of the user, of a cleanup goroutine and of
\* a context keeps the invariant of every pause, so a send under b.mu never
\* finds its channel full or closed.
LEMMA Consecution == Inv /\ [Next]_vars => Inv'
<1> SUFFICES ASSUME Inv, [Next]_vars PROVE Inv'
  OBVIOUS
<1>0. TypeOK'
  BY TypeStep DEF Inv
<1> USE DEF Inv, TypeOK, Active, Result, Verdict
<1>1. ASSUME NEW p \in Pauses, Match(p) PROVE Inv'
  <2>1. PauseInv(p)'
    BY <1>1 DEF Match, Callable, Return, PauseInv
  <2>2. \A q \in Pauses \ {p} : PauseInv(q)'
    BY <1>1, Frame DEF Match, Return
  <2> QED
    BY <1>0, <1>1, <2>1, <2>2 DEF Match
<1>2. ASSUME NEW p \in Pauses, Register(p) PROVE Inv'
  <2>1. PauseInv(p)'
    BY <1>2 DEF Register, PauseInv
  <2>2. \A q \in Pauses \ {p} : PauseInv(q)'
    BY <1>2, Frame DEF Register
  <2> QED
    BY <1>0, <1>2, <2>1, <2>2 DEF Register
<1>3. ASSUME NEW p \in Pauses, Announce(p) PROVE Inv'
  <2>1. PauseInv(p)'
    BY <1>3 DEF Announce, PauseInv
  <2>2. \A q \in Pauses \ {p} : PauseInv(q)'
    BY <1>3, Frame DEF Announce
  <2> QED
    BY <1>0, <1>3, <2>1, <2>2 DEF Announce
<1>4. ASSUME NEW p \in Pauses, Receive(p) PROVE Inv'
  <2>1. PauseInv(p)'
    BY <1>4 DEF Receive, Return, PauseInv
  <2>2. \A q \in Pauses \ {p} : PauseInv(q)'
    BY <1>4, Frame DEF Receive, Return
  <2> QED
    BY <1>0, <1>4, <2>1, <2>2 DEF Receive
<1>5. ASSUME NEW p \in Pauses, Expire(p) PROVE Inv'
  <2>1. PauseInv(p)'
    BY <1>5 DEF Expire, PauseInv
  <2>2. \A q \in Pauses \ {p} : PauseInv(q)'
    BY <1>5, Frame DEF Expire
  <2> QED
    BY <1>0, <1>5, <2>1, <2>2 DEF Expire
<1>6. ASSUME NEW p \in Pauses, GiveUp(p) PROVE Inv'
  <2>1. PauseInv(p)'
    BY <1>6 DEF GiveUp, Return, PauseInv
  <2>2. \A q \in Pauses \ {p} : PauseInv(q)'
    BY <1>6, Frame DEF GiveUp, Return
  <2> QED
    BY <1>0, <1>6, <2>1, <2>2 DEF GiveUp
<1>7. ASSUME NEW p \in Pauses, NEW v \in Verdict, Resume(p, v) PROVE Inv'
  <2>1. p \notin closed /\ chan[p] = "empty" /\ verdict[p] = "none"
    BY <1>7 DEF Resume, PauseInv
  <2>2. PauseInv(p)'
    BY <1>7, <2>1 DEF Resume, PauseInv
  <2>3. \A q \in Pauses \ {p} : PauseInv(q)'
    BY <1>7, <2>1, Frame DEF Resume
  <2> QED
    BY <1>0, <1>7, <2>1, <2>2, <2>3 DEF Resume
<1>8. ASSUME NEW p \in Pauses, CleanerRemove(p) PROVE Inv'
  <2>1. PauseInv(p)'
    BY <1>8 DEF CleanerRemove, PauseInv
  <2>2. \A q \in Pauses \ {p} : PauseInv(q)'
    BY <1>8, Frame DEF CleanerRemove
  <2> QED
    BY <1>0, <1>8, <2>1, <2>2 DEF CleanerRemove
<1>9. ASSUME NEW p \in Pauses, CleanerClose(p) PROVE Inv'
  <2>1. PauseInv(p)'
    BY <1>9 DEF CleanerClose, PauseInv
  <2>2. \A q \in Pauses \ {p} : PauseInv(q)'
    BY <1>9, Frame DEF CleanerClose
  <2> QED
    BY <1>0, <1>9, <2>1, <2>2 DEF CleanerClose
<1>10. ASSUME NEW R \in RuleSets, SetRules(R) PROVE Inv'
  BY <1>0, <1>10, Frame DEF SetRules
<1>11. ASSUME NEW c \in Conns, HandlerReturns(c) PROVE Inv'
  BY <1>0, <1>11, Frame DEF HandlerReturns
<1>12. CASE StopServer
  BY <1>0, <1>12, Frame DEF StopServer
<1>13. CASE UNCHANGED vars
  BY <1>0, <1>13, Frame DEF vars
<1> QED
  BY <1>1, <1>2, <1>3, <1>4, <1>5, <1>6, <1>7, <1>8, <1>9, <1>10, <1>11,
     <1>12, <1>13 DEF Next, Handler, Cleaner

LEMMA Initiation == Init => Inv
BY RuleAssumption DEF Init, Inv, TypeOK, PauseInv, Result, Verdict, Active

\* The inductive invariant holds of every behaviour of the interceptor.
THEOREM Invariance == Spec => []Inv
BY Initiation, Consecution, PTL DEF Spec

\* Answering a breakpoint never blocks or panics with b.mu held.
THEOREM ResumeIsSafe == Spec => []ResumeNeverWedges
<1>1. Inv => ResumeNeverWedges
  BY DEF Inv, ResumeNeverWedges
<1> QED
  BY <1>1, Invariance, PTL

\* Every entry of the maps belongs to a waiting call without an answer.
THEOREM EntriesAreLive == Spec => []EntryIsUndecided
<1>1. Inv => EntryIsUndecided
  BY DEF Inv, TypeOK, PauseInv, EntryIsUndecided, Active
<1> QED
  BY <1>1, Invariance, PTL

\* A call returns the accepted answer, a timeout, or, unanswered and with its
\* context done, an abort.
THEOREM VerdictsAreRespected == Spec => []VerdictRespected
<1>1. Inv => VerdictRespected
  BY DEF Inv, TypeOK, PauseInv, VerdictRespected, Active, Verdict, Result
<1> QED
  BY <1>1, Invariance, PTL

\* An answer in a channel is the accepted one, and is read or timed out.
THEOREM AnswersAreNotStranded == Spec => []VerdictInTransit
<1>1. Inv => VerdictInTransit
  BY DEF Inv, TypeOK, PauseInv, VerdictInTransit, Active, Verdict, Result
<1> QED
  BY <1>1, Invariance, PTL

-----------------------------------------------------------------------------
\* Accepted verdicts and returned results never change.
THEOREM Finality == Spec => DecisionsAreFinal
<1>1. Inv /\ [Next]_vars =>
        [\A p \in Pauses :
            /\ verdict[p] # "none" => verdict'[p] = verdict[p]
            /\ result[p] # "none" => result'[p] = result[p]]_vars
  <2> SUFFICES ASSUME Inv, [Next]_vars, NEW q \in Pauses
               PROVE  /\ verdict[q] # "none" => verdict'[q] = verdict[q]
                      /\ result[q] # "none" => result'[q] = result[q]
    OBVIOUS
  <2> USE DEF Inv, TypeOK, PauseInv, Active, Result, Verdict
  <2>1. ASSUME NEW p \in Pauses, Handler(p)
        PROVE  result[q] # "none" => result'[q] = result[q]
    BY <2>1 DEF Handler, Match, Callable, Register, Announce, Receive, Expire, GiveUp, Return
  <2>2. ASSUME NEW p \in Pauses, NEW v \in Verdict, Resume(p, v)
        PROVE  verdict[q] # "none" => verdict'[q] = verdict[q]
    BY <2>2 DEF Resume
  <2>3. (\A p \in Pauses : \A v \in Verdict : ~ Resume(p, v)) => UNCHANGED verdict
    BY DEF Next, Handler, Cleaner, Match, Register, Announce, Receive, Expire, GiveUp,
           CleanerRemove, CleanerClose, SetRules, HandlerReturns, StopServer, vars
  <2>4. (\A p \in Pauses : ~ Handler(p)) => UNCHANGED result
    BY DEF Next, Resume, Cleaner, CleanerRemove, CleanerClose, SetRules,
           HandlerReturns, StopServer, vars
  <2> QED
    BY <2>1, <2>2, <2>3, <2>4
<1> QED
  BY <1>1, Invariance, PTL DEF Spec, DecisionsAreFinal

-----------------------------------------------------------------------------
(* The interceptor implements the contract                                 *)

\* A step that leaves every call on the same side of the contract's phases
\* leaves the mapped phase alone.
LEMMA SamePhase ==
  ASSUME TypeOK, NEW p \in Pauses, pc[p] \in Active,
         NEW to \in Active, pc' = [pc EXCEPT ![p] = to]
  PROVE  phase' = phase
<1>1. \A q \in Pauses : phase'[q] = phase[q]
  BY DEF phase, TypeOK, Active
<1> QED
  BY <1>1 DEF phase

\* A step of one call moves the phase of that call only.
LEMMA MovedPhase ==
  ASSUME TypeOK, NEW p \in Pauses, NEW to \in {"matched", "done"},
         pc' = [pc EXCEPT ![p] = to]
  PROVE  phase' = [phase EXCEPT ![p] = IF to = "done" THEN "returned" ELSE "open"]
BY DEF phase, TypeOK, Active

\* Map, channel, timer and cleanup goroutine of the interceptor together are one
\* step, or none, of the contract.
LEMMA StepRefines == Inv /\ [Next]_vars => [Contract!Next]_Contract!pvars
<1> SUFFICES ASSUME Inv, [Next]_vars PROVE [Contract!Next]_Contract!pvars
  OBVIOUS
<1>0. TypeOK
  BY DEF Inv
<1>1. ASSUME NEW p \in Pauses, Match(p) PROVE Contract!Next
  <2>1. Contract!Ready(p)
    BY <1>0, <1>1 DEF Match, Callable, Contract!Ready, Before, phase, Active, RequestOf
  <2>2. CASE p \in rules
    <3>1. phase' = [phase EXCEPT ![p] = "open"]
      BY <1>0, <1>1, <2>2, MovedPhase DEF Match
    <3>2. Contract!Open(p)
      BY <1>1, <2>1, <2>2, <3>1 DEF Match, Contract!Open
    <3> QED
      BY <3>2 DEF Contract!Next
  <2>3. CASE p \notin rules
    <3>1. phase' = [phase EXCEPT ![p] = "returned"]
      BY <1>0, <1>1, <2>3, MovedPhase DEF Match, Return
    <3>2. Contract!Pass(p)
      BY <1>1, <2>1, <2>3, <3>1 DEF Match, Return, Contract!Pass, Contract!Finish
    <3> QED
      BY <3>2 DEF Contract!Next
  <2> QED
    BY <2>2, <2>3
<1>2. ASSUME NEW p \in Pauses, Receive(p) \/ GiveUp(p) PROVE Contract!Next
  <2>1. phase' = [phase EXCEPT ![p] = "returned"]
    BY <1>0, <1>2, MovedPhase DEF Receive, GiveUp, Return
  <2>2. phase[p] = "open"
    BY <1>2 DEF Receive, GiveUp, phase, Active
  <2>3. CASE GiveUp(p)
    <3>1. Contract!End(p)
      BY <2>1, <2>2, <2>3 DEF GiveUp, Return, Contract!End, Contract!Finish
    <3> QED
      BY <3>1 DEF Contract!Next
  <2>4. CASE Receive(p)
    <3>1. PauseInv(p)
      BY DEF Inv
    <3>2. Contract!End(p)
      BY <1>0, <2>1, <2>2, <2>4, <3>1
         DEF Receive, Return, PauseInv, TypeOK, Verdict, Contract!End, Contract!Finish
    <3> QED
      BY <3>2 DEF Contract!Next
  <2> QED
    BY <1>2, <2>3, <2>4
<1>3. ASSUME NEW p \in Pauses, Register(p) \/ Announce(p) \/ Expire(p)
      PROVE  UNCHANGED Contract!pvars
  <2>1. phase' = phase
    BY <1>0, <1>3, SamePhase DEF Register, Announce, Expire, Active
  <2> QED
    BY <1>3, <2>1 DEF Register, Announce, Expire, Contract!pvars
<1>4. ASSUME NEW p \in Pauses, NEW v \in Verdict, Resume(p, v) PROVE Contract!Next
  <2>1. phase' = phase
    BY <1>4 DEF Resume, phase
  <2>2. phase[p] = "open" /\ verdict[p] = "none"
    BY <1>4 DEF Inv, TypeOK, PauseInv, Resume, phase, Active
  <2>3. Contract!Accept(p, v)
    BY <1>4, <2>1, <2>2 DEF Resume, Contract!Accept
  <2> QED
    BY <2>3 DEF Contract!Next
<1>5. ASSUME NEW p \in Pauses, Cleaner(p) PROVE UNCHANGED Contract!pvars
  BY <1>5 DEF Cleaner, CleanerRemove, CleanerClose, phase, Contract!pvars
<1>6. ASSUME NEW R \in RuleSets, SetRules(R) PROVE UNCHANGED Contract!pvars
  BY <1>6 DEF SetRules, phase, Contract!pvars
<1>7. ASSUME NEW c \in Conns, HandlerReturns(c) PROVE Contract!Next
  <2>1. phase' = phase
    BY <1>7 DEF HandlerReturns, phase
  <2>2. Contract!Hangup({c})
    BY <1>7, <2>1 DEF HandlerReturns, Contract!Hangup
  <2> QED
    BY <2>2 DEF Contract!Next
<1>8. CASE StopServer
  <2>1. phase' = phase
    BY <1>8 DEF StopServer, phase
  <2>2. Contract!Hangup(Conns)
    BY <1>0, <1>8, <2>1 DEF StopServer, TypeOK, Contract!Hangup
  <2> QED
    BY <2>2 DEF Contract!Next
<1>9. CASE UNCHANGED vars
  BY <1>9 DEF vars, phase, Contract!pvars
<1> QED
  BY <1>1, <1>2, <1>3, <1>4, <1>5, <1>6, <1>7, <1>8, <1>9 DEF Next, Handler

\* The breakpoint interceptor implements the contract of a pause.
THEOREM Refinement == Spec => ImplementsContract
<1>1. Init => Contract!Init
  BY DEF Init, Contract!Init, phase, Active
<1> QED
  BY <1>1, StepRefines, Invariance, PTL DEF Spec, ImplementsContract, Contract!Spec

=============================================================================
