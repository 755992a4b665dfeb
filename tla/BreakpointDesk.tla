--------------------------- MODULE BreakpointDesk ---------------------------
(***************************************************************************)
(* The user's side of a breakpoint: the handlers of App.tsx, the editor    *)
(* components/editor/RequestEditor.tsx, the calls of apiAdapter.ts, and    *)
(* what the bindings of app_proxy.go make of them.                         *)
(*                                                                         *)
(* One pause is shown, the one announced last.  The editor that shows it   *)
(* is not remounted for a newer pause, so its fields may be those of an    *)
(* older one.  A button makes two calls without waiting for either; each   *)
(* is a goroutine of the application.  The pauses themselves are those of  *)
(* PauseContract, which the module Breakpoint implements.                  *)
(***************************************************************************)
EXTENDS Naturals, Answers

CONSTANTS
    Pauses,     \* the calls of OnRequest and OnResponse that match a rule
    Headed      \* those of them whose request has headers

ASSUME DeskAssumption == Headed \subseteq Pauses /\ 0 \notin Pauses

VARIABLES
    phase,      \* of the interceptor's call: "idle", "open" or "returned"
    answer,     \* the answer it accepted, or "none"
    outcome,    \* what it returned, or "none"
    over,       \* pauses whose connection is over
    events,     \* breakpoint:paused, not yet delivered
    active,     \* activeBreakpoint, 0 for null
    fields,     \* the editor's state: the pause it was filled from, and whether
                \* a header is enabled
    requestsUnderWay,  \* calls of resumeBreakpoint and abortBreakpoint
    clicked     \* the buttons clicked on each pause (history)

contract == <<phase, answer, outcome, over>>
desk     == <<events, active, fields, requestsUnderWay, clicked>>
deskVars == <<contract, desk>>

Call   == [id : Pauses, nth : {1, 2}, verb : {"resume", "abort"}, headed : BOOLEAN]
NoForm == [of |-> 0, headed |-> FALSE]

DeskTypeOK ==
    /\ phase \in [Pauses -> {"idle", "open", "returned"}]
    /\ answer \in [Pauses -> {"none", "forwarded", "replaced", "aborted"}]
    /\ outcome \in [Pauses -> {"none", "forwarded", "replaced", "aborted", "timeout"}]
    /\ over \subseteq Pauses /\ events \subseteq Pauses
    /\ active \in Pauses \cup {0}
    /\ fields \in [of : Pauses \cup {0}, headed : BOOLEAN]
    /\ (active = 0) = (fields.of = 0)
    /\ requestsUnderWay \subseteq Call
    /\ clicked \in [Pauses -> SUBSET {"execute", "abort", "close"}]

DeskInit ==
    /\ phase = [p \in Pauses |-> "idle"]
    /\ answer = [p \in Pauses |-> "none"]
    /\ outcome = [p \in Pauses |-> "none"]
    /\ over = {} /\ events = {}
    /\ active = 0 /\ fields = NoForm
    /\ requestsUnderWay = {}
    /\ clicked = [p \in Pauses |-> {}]

-----------------------------------------------------------------------------
(* The interceptor                                                         *)

\* OnRequest or OnResponse registers the pause and tells the window.
Pause(p) ==
    /\ phase[p] = "idle"
    /\ phase' = [phase EXCEPT ![p] = "open"]
    /\ events' = events \cup {p}
    /\ UNCHANGED <<answer, outcome, over, active, fields, requestsUnderWay, clicked>>

Finish(p, r) ==
    /\ phase' = [phase EXCEPT ![p] = "returned"]
    /\ outcome' = [outcome EXCEPT ![p] = r]
    /\ UNCHANGED <<answer, over, desk>>

Return(p)  == phase[p] = "open" /\ answer[p] # "none" /\ Finish(p, answer[p])
Timeout(p) == phase[p] = "open" /\ Finish(p, "timeout")
Cancel(p)  == phase[p] = "open" /\ answer[p] = "none" /\ p \in over /\ Finish(p, "aborted")
Hangup(p)  == p \notin over /\ over' = over \cup {p} /\ UNCHANGED <<phase, answer, outcome, desk>>

\* Mutant: a later answer replaces an earlier one.
ArriveLate(c) ==
    /\ c \in requestsUnderWay
    /\ requestsUnderWay' = requestsUnderWay \ {c}
    /\ answer' = IF phase[c.id] = "open"
                   THEN [answer EXCEPT ![c.id] = IF c.verb = "abort" THEN "aborted" ELSE "forwarded"]
                   ELSE answer
    /\ UNCHANGED <<phase, outcome, over, events, active, fields, clicked>>

\* ResumeBreakpoint or AbortBreakpoint.  Go reads a header as a list of values
\* and the editor sends it as one text: edits with a header do not decode, and
\* the exchange is forwarded as it was captured.
Arrive(c) ==
    /\ c \in requestsUnderWay
    /\ requestsUnderWay' = requestsUnderWay \ {c}
    /\ answer' = IF phase[c.id] # "open" \/ answer[c.id] # "none" THEN answer
                 ELSE [answer EXCEPT ![c.id] = IF c.verb = "abort" THEN "aborted"
                                               ELSE IF c.headed THEN "forwarded"
                                               ELSE "replaced"]
    /\ UNCHANGED <<phase, outcome, over, events, active, fields, clicked>>

-----------------------------------------------------------------------------
(* The window                                                              *)

\* onBreakpoint: the newest pause is shown.  An editor that is open keeps its fields.
ShowPause(p) ==
    /\ p \in events
    /\ events' = events \ {p}
    /\ active' = p
    /\ fields' = IF active = 0 THEN [of |-> p, headed |-> p \in Headed] ELSE fields
    /\ UNCHANGED <<contract, requestsUnderWay, clicked>>

\* Headers are added, disabled or deleted.
EditHeaders(b) ==
    /\ active # 0
    /\ fields' = [fields EXCEPT !.headed = b]
    /\ UNCHANGED <<contract, events, active, requestsUnderWay, clicked>>

\* Mutant: the editor keeps its fields for the next pause.
ClickKeepsForm(button, verbs) ==
    /\ active # 0
    /\ clicked' = [clicked EXCEPT ![active] = @ \cup {button}]
    /\ requestsUnderWay' = requestsUnderWay \cup
          {[id |-> active, nth |-> n, verb |-> verbs[n], headed |-> fields.headed] : n \in DOMAIN verbs}
    /\ active' = 0
    /\ UNCHANGED <<contract, events, fields>>

\* A button: the calls it makes, and the editor is gone.
Click(button, verbs) ==
    /\ active # 0
    /\ clicked' = [clicked EXCEPT ![active] = @ \cup {button}]
    /\ requestsUnderWay' = requestsUnderWay \cup
          {[id |-> active, nth |-> n, verb |-> verbs[n], headed |-> fields.headed] : n \in DOMAIN verbs}
    /\ active' = 0 /\ fields' = NoForm
    /\ UNCHANGED <<contract, events>>

\* Mutant: the call names the pause the fields are of.
ExecuteFields ==
    /\ active # 0
    /\ clicked' = [clicked EXCEPT ![active] = @ \cup {"execute"}]
    /\ requestsUnderWay' = requestsUnderWay \cup
          {[id |-> fields.of, nth |-> 1, verb |-> "resume", headed |-> fields.headed]}
    /\ active' = 0 /\ fields' = NoForm
    /\ UNCHANGED <<contract, events>>

\* handleSend resumes and then closes the editor, and closing aborts.
Execute == Click("execute", <<"resume", "abort">>)
\* The abort button aborts and closes.
Abort   == Click("abort", <<"abort", "abort">>)
\* Mutant: the cross only hides the editor.
CloseOnly == Click("close", <<>>)
Close   == Click("close", <<"abort">>)

-----------------------------------------------------------------------------
DeskNext ==
    \/ \E p \in Pauses : Pause(p) \/ Return(p) \/ Timeout(p) \/ Cancel(p) \/ Hangup(p) \/ ShowPause(p)
    \/ \E c \in requestsUnderWay : Arrive(c)
    \/ \E b \in BOOLEAN : EditHeaders(b)
    \/ Execute \/ Abort \/ Close

DeskSpec == DeskInit /\ [][DeskNext]_deskVars

-----------------------------------------------------------------------------
(* What the user may rely on                                               *)

\* Seen from the exchange, the window with its doubled calls is one user of the
\* contract that the interceptor implements.
Self(p) == p
NoneOf(p) == {}
Contract == INSTANCE PauseContract WITH
    Calls <- Pauses, Conns <- Pauses, ConnOfCall <- Self, Before <- NoneOf,
    Answers <- {"forwarded", "replaced", "aborted"}, Proceed <- {"forwarded", "replaced"}
DeskKeepsContract == Contract!Spec

\* No pause is answered but by a button that was clicked while it was shown, and
\* none goes on that the user aborted or closed: not even when a newer pause took
\* its place in the editor.
OnlyTheUserAnswers ==
    \A p \in Pauses :
        /\ answer[p] # "none" => clicked[p] # {}
        /\ answer[p] \in {"forwarded", "replaced"} => "execute" \in clicked[p]

\* A pause that the user answered ends without the help of its timer, if the application
\* gets the calls.
AnsweredPauseEnds ==
    \A p \in Pauses : clicked[p] # {} /\ answered ~> phase[p] = "returned"
=============================================================================
