--------------------------- MODULE ControlsProofs ---------------------------
(***************************************************************************)
(* Theorems about the parts of the window that act on the application, each*)
(* for any values of its constants: the breakpoint editor, the adapter, the*)
(* interceptors page and the dialogs of devices; and about the scenes they *)
(* are checked in, which are behaviours of every one of them.              *)
(***************************************************************************)
EXTENDS MCControls, SubsequenceProofs

-----------------------------------------------------------------------------
(* The breakpoint editor                                                   *)


\* A button leaves the window well typed; its calls are of the pause it shows.
LEMMA ClickTypes ==
  ASSUME DeskTypeOK, NEW button \in {"execute", "abort", "close"},
         NEW verbs, DOMAIN verbs \subseteq {1, 2}, \A n \in DOMAIN verbs : verbs[n] \in {"resume", "abort"},
         Click(button, verbs)
  PROVE  /\ DeskTypeOK'
         /\ active \in Pauses
         /\ clicked' = [clicked EXCEPT ![active] = @ \cup {button}]
         /\ \A c \in requestsUnderWay' :
               \/ c \in requestsUnderWay
               \/ c.id = active /\ \E n \in DOMAIN verbs : c.verb = verbs[n]
<1> USE DEF DeskTypeOK
<1>1. active \in Pauses /\ clicked' = [clicked EXCEPT ![active] = @ \cup {button}]
  BY DEF Click
<1>2. clicked' \in [Pauses -> SUBSET {"execute", "abort", "close"}]
  BY <1>1
<1> DEFINE made == {[id |-> active, nth |-> n, verb |-> verbs[n], headed |-> fields.headed] : n \in DOMAIN verbs}
<1>3. requestsUnderWay' = requestsUnderWay \cup made
  BY DEF Click
<1>4. made \subseteq Call /\ \A c \in made : c.id = active /\ \E n \in DOMAIN verbs : c.verb = verbs[n]
  BY <1>1 DEF Call
<1> HIDE DEF made
<1>5. active' = 0 /\ fields' \in [of : Pauses \cup {0}, headed : BOOLEAN] /\ fields'.of = 0
  BY DEF Click, NoForm
<1>6. UNCHANGED <<phase, answer, outcome, over, events>>
  BY DEF Click, contract
<1> QED
  BY <1>1, <1>2, <1>3, <1>4, <1>5, <1>6

\* The calls of the three buttons.
LEMMA Verbs ==
  /\ DOMAIN <<"resume", "abort">> = {1, 2} /\ DOMAIN <<"abort", "abort">> = {1, 2}
  /\ DOMAIN <<"abort">> = {1}
OBVIOUS

\* An answer is typed, and changes at most the answer of its own pause.
LEMMA ArriveAnswers ==
  ASSUME DeskTypeOK, NEW c \in requestsUnderWay, Arrive(c)
  PROVE  /\ DeskTypeOK'
         /\ c.id \in Pauses
         /\ \/ answer' = answer
            \/ /\ phase[c.id] = "open" /\ answer[c.id] = "none"
               /\ \E v \in {"forwarded", "replaced", "aborted"} :
                     /\ answer' = [answer EXCEPT ![c.id] = v]
                     /\ v # "aborted" => c.verb = "resume"
<1> USE DEF DeskTypeOK
<1>1. c.id \in Pauses /\ c.verb \in {"resume", "abort"}
  BY DEF Call
<1>2. \/ answer' = answer
      \/ /\ phase[c.id] = "open" /\ answer[c.id] = "none"
         /\ \E v \in {"forwarded", "replaced", "aborted"} :
               /\ answer' = [answer EXCEPT ![c.id] = v]
               /\ v # "aborted" => c.verb = "resume"
  BY <1>1 DEF Arrive
<1>3. DeskTypeOK'
  BY <1>1, <1>2 DEF Arrive
<1> QED
  BY <1>1, <1>2, <1>3

\* Every handler of the window and every step of the interceptor is well typed.
LEMMA DeskTypeStep == DeskTypeOK /\ [DeskNext]_deskVars => DeskTypeOK'
<1> SUFFICES ASSUME DeskTypeOK, [DeskNext]_deskVars PROVE DeskTypeOK'
  OBVIOUS
<1>1. ASSUME NEW p \in Pauses, Pause(p) \/ Return(p) \/ Timeout(p) \/ Cancel(p) \/ Hangup(p)
      PROVE  DeskTypeOK'
  BY <1>1 DEF DeskTypeOK, Pause, Return, Timeout, Cancel, Finish, Hangup, desk
<1>2. ASSUME NEW p \in Pauses, ShowPause(p) PROVE DeskTypeOK'
  <2>1. p # 0
    BY DeskAssumption
  <2> QED
    BY <1>2, <2>1 DEF DeskTypeOK, ShowPause, contract
<1>3. ASSUME NEW c \in requestsUnderWay, Arrive(c) PROVE DeskTypeOK'
  BY <1>3, ArriveAnswers
<1>4. ASSUME NEW b \in BOOLEAN, EditHeaders(b) PROVE DeskTypeOK'
  <2>1. fields' \in [of : Pauses \cup {0}, headed : BOOLEAN] /\ fields'.of = fields.of
    BY <1>4 DEF EditHeaders, DeskTypeOK
  <2> QED
    BY <1>4, <2>1 DEF EditHeaders, DeskTypeOK, contract
<1>5. CASE Execute
  BY <1>5, Verbs, ClickTypes DEF Execute
<1>6. CASE Abort
  BY <1>6, Verbs, ClickTypes DEF Abort
<1>7. CASE Close
  BY <1>7, Verbs, ClickTypes DEF Close
<1>8. CASE UNCHANGED deskVars
  BY <1>8 DEF deskVars, contract, desk, DeskTypeOK
<1> QED
  BY <1>1, <1>2, <1>3, <1>4, <1>5, <1>6, <1>7, <1>8 DEF DeskNext

\* The state of App.tsx and of the editor keeps its shape.
THEOREM DeskTypeCorrect == DeskSpec => []DeskTypeOK
<1>1. DeskInit => DeskTypeOK
  BY DEF DeskInit, DeskTypeOK, NoForm
<1> QED
  BY <1>1, DeskTypeStep, PTL DEF DeskSpec

-----------------------------------------------------------------------------
(* Only the user answers                                                   *)

\* A call under way was made by a button clicked on the pause it names, and one
\* that resumes by "execute".  So has every answer been that is in force.
UserInv ==
    /\ \A c \in requestsUnderWay : /\ clicked[c.id] # {}
                                   /\ c.verb = "resume" => "execute" \in clicked[c.id]
    /\ OnlyTheUserAnswers

\* A button adds calls of the pause it was clicked on.
LEMMA ClickIsTheUsers ==
  ASSUME DeskTypeOK, UserInv, NEW button \in {"execute", "abort", "close"},
         NEW verbs, DOMAIN verbs \subseteq {1, 2}, \A n \in DOMAIN verbs : verbs[n] \in {"resume", "abort"},
         button # "execute" => \A n \in DOMAIN verbs : verbs[n] = "abort",
         Click(button, verbs)
  PROVE  UserInv'
<1>1. \A p \in Pauses : clicked[p] \subseteq clicked'[p]
  BY ClickTypes DEF DeskTypeOK
<1>2. active \in Pauses /\ button \in clicked'[active]
  BY ClickTypes DEF DeskTypeOK
<1>3. ASSUME NEW c \in requestsUnderWay'
      PROVE  clicked'[c.id] # {} /\ (c.verb = "resume" => "execute" \in clicked'[c.id])
  <2>1. CASE c \in requestsUnderWay
    <3>1. c.id \in Pauses
      BY <2>1 DEF DeskTypeOK, Call
    <3> QED
      BY <1>1, <2>1, <3>1 DEF UserInv
  <2>2. CASE c.id = active /\ \E n \in DOMAIN verbs : c.verb = verbs[n]
    <3>1. c.verb = "resume" => button = "execute"
      BY <2>2
    <3> QED
      BY <1>2, <2>2, <3>1
  <2> QED
    BY <2>1, <2>2, ClickTypes
<1>4. answer' = answer
  BY DEF Click, contract
<1>5. OnlyTheUserAnswers'
  BY <1>1, <1>4 DEF UserInv, OnlyTheUserAnswers
<1> QED
  BY <1>3, <1>5 DEF UserInv

LEMMA UserStep == DeskTypeOK /\ UserInv /\ [DeskNext]_deskVars => UserInv'
<1> SUFFICES ASSUME DeskTypeOK, UserInv, [DeskNext]_deskVars PROVE UserInv'
  OBVIOUS
<1>1. ASSUME UNCHANGED <<answer, requestsUnderWay, clicked>> PROVE UserInv'
  BY <1>1 DEF UserInv, OnlyTheUserAnswers
<1>2. ASSUME NEW p \in Pauses,
             Pause(p) \/ Return(p) \/ Timeout(p) \/ Cancel(p) \/ Hangup(p) \/ ShowPause(p)
      PROVE  UserInv'
  BY <1>1, <1>2 DEF Pause, Return, Timeout, Cancel, Finish, Hangup, ShowPause, desk, contract
<1>3. ASSUME NEW c \in requestsUnderWay, Arrive(c) PROVE UserInv'
  <2>1. requestsUnderWay' \subseteq requestsUnderWay /\ clicked' = clicked
    BY <1>3 DEF Arrive
  <2>2. clicked[c.id] # {} /\ (c.verb = "resume" => "execute" \in clicked[c.id])
    BY DEF UserInv
  <2>3. OnlyTheUserAnswers'
    <3>1. CASE answer' = answer
      BY <2>1, <3>1 DEF UserInv, OnlyTheUserAnswers
    <3>2. CASE \E v \in {"forwarded", "replaced", "aborted"} :
                  /\ answer' = [answer EXCEPT ![c.id] = v]
                  /\ v # "aborted" => c.verb = "resume"
      BY <2>1, <2>2, <3>2 DEF UserInv, OnlyTheUserAnswers, DeskTypeOK
    <3> QED
      BY <1>3, <3>1, <3>2, ArriveAnswers
  <2> QED
    BY <2>1, <2>3 DEF UserInv
<1>4. ASSUME NEW b \in BOOLEAN, EditHeaders(b) PROVE UserInv'
  BY <1>1, <1>4 DEF EditHeaders, contract
<1>5. CASE Execute
  BY <1>5, Verbs, ClickIsTheUsers DEF Execute
<1>6. CASE Abort
  BY <1>6, Verbs, ClickIsTheUsers DEF Abort
<1>7. CASE Close
  BY <1>7, Verbs, ClickIsTheUsers DEF Close
<1>8. CASE UNCHANGED deskVars
  BY <1>1, <1>8 DEF deskVars, contract, desk
<1> QED
  BY <1>2, <1>3, <1>4, <1>5, <1>6, <1>7, <1>8 DEF DeskNext

\* However pauses replace one another in the editor and calls overtake one another,
\* an answer is one that was clicked on that very pause.
THEOREM AnswersAreTheUsers == DeskSpec => []OnlyTheUserAnswers
<1>1. DeskInit => UserInv
  BY DEF DeskInit, UserInv, OnlyTheUserAnswers
<1>2. UserInv => OnlyTheUserAnswers
  BY DEF UserInv
<1> QED
  BY <1>1, <1>2, DeskTypeCorrect, UserStep, PTL DEF DeskSpec

-----------------------------------------------------------------------------
(* The window keeps the contract                                           *)

\* Each step of the window and the interceptor is a step of the contract or none.
LEMMA StepKeepsContract == DeskTypeOK /\ [DeskNext]_deskVars => [Contract!Next]_Contract!pvars
<1> SUFFICES ASSUME DeskTypeOK, [DeskNext]_deskVars PROVE [Contract!Next]_Contract!pvars
  OBVIOUS
<1>1. ASSUME NEW p \in Pauses, Pause(p) PROVE Contract!Next
  <2>1. Contract!Open(p)
    BY <1>1 DEF Pause, Contract!Open, Contract!Ready, NoneOf
  <2> QED
    BY <2>1 DEF Contract!Next
<1>2. ASSUME NEW p \in Pauses, Return(p) \/ Timeout(p) \/ Cancel(p) PROVE Contract!Next
  <2>1. Contract!End(p)
    BY <1>2 DEF Return, Timeout, Cancel, Finish, Contract!End, Contract!Finish, Self
  <2> QED
    BY <2>1 DEF Contract!Next
<1>3. ASSUME NEW p \in Pauses, Hangup(p) PROVE Contract!Next
  <2>1. Contract!Hangup({p})
    BY <1>3 DEF Hangup, Contract!Hangup
  <2> QED
    BY <2>1 DEF Contract!Next
<1>4. ASSUME NEW c \in requestsUnderWay, Arrive(c) PROVE [Contract!Next]_Contract!pvars
  <2>1. CASE answer' = answer
    BY <1>4, <2>1 DEF Arrive, Contract!pvars
  <2>2. ASSUME NEW v \in {"forwarded", "replaced", "aborted"},
               phase[c.id] = "open", answer[c.id] = "none", c.id \in Pauses,
               answer' = [answer EXCEPT ![c.id] = v]
        PROVE  Contract!Next
    <3>1. Contract!Accept(c.id, v)
      BY <1>4, <2>2 DEF Arrive, Contract!Accept
    <3> QED
      BY <2>2, <3>1 DEF Contract!Next
  <2> QED
    BY <1>4, <2>1, <2>2, ArriveAnswers
<1>5. ASSUME UNCHANGED contract PROVE UNCHANGED Contract!pvars
  BY <1>5 DEF contract, Contract!pvars
<1>6. CASE Execute \/ Abort \/ Close
  BY <1>5, <1>6 DEF Execute, Abort, Close, Click
<1>7. ASSUME NEW p \in Pauses, ShowPause(p) PROVE UNCHANGED Contract!pvars
  BY <1>5, <1>7 DEF ShowPause
<1>8. ASSUME NEW b \in BOOLEAN, EditHeaders(b) PROVE UNCHANGED Contract!pvars
  BY <1>5, <1>8 DEF EditHeaders
<1>9. CASE UNCHANGED deskVars
  BY <1>5, <1>9 DEF deskVars
<1> QED
  BY <1>1, <1>2, <1>3, <1>4, <1>6, <1>7, <1>8, <1>9 DEF DeskNext

\* Seen from the exchange, the window is one user of the contract that the
\* interceptor implements: its second call never undoes the first.
THEOREM DeskRefinesContract == DeskSpec => DeskKeepsContract
<1>1. DeskInit => Contract!Init
  BY DEF DeskInit, Contract!Init
<1> QED
  BY <1>1, DeskTypeCorrect, StepKeepsContract, PTL DEF DeskSpec, DeskKeepsContract, Contract!Spec

-----------------------------------------------------------------------------
(* The adapter                                                             *)


\* The socket, the timer and the delay: a set timer means that there is no socket,
\* and the delay is the one for the next close, doubled when the timer fires.
LinkInv ==
    /\ platform = "wails" => socket = "none" /\ timer = 0
    /\ timer # 0 => socket = "none" /\ timer = delay /\ failures # 0 /\ delay = Backoff[failures]
    /\ timer = 0 => delay = Backoff[Smaller(failures + 1, 7)]

\* What is registered, in the cases that HandledOnce speaks of and before them.
RegistryInv ==
    /\ mounted \in {0, mounts}
    /\ mounts = 0 => \A t \in Topics : listeners[t] = {}
    /\ platform = "wails" => \A t \in Topics : listeners[t] = IF mounted = 0 THEN {} ELSE {mounted}
    /\ mounts = 1 /\ mounted = 1 => \A t \in Topics : listeners[t] = {1}

\* A request is made once, when its promise is, and executed when it is answered.
CallInv(c) ==
    /\ promise[c] = "none" => request[c] = "none"
    /\ executed[c] = IF request[c] = "answered" THEN 1 ELSE 0
    /\ promise[c] = "resolved" /\ Route(c) \in {"binding", "http"} => request[c] = "answered"

AdapterInv == AdapterTypeOK /\ LinkInv /\ RegistryInv /\ \A c \in ApiCalls : CallInv(c)

-----------------------------------------------------------------------------
\* The delays as numbers, and the next one as the double of the last.
LEMMA Delays ==
  /\ Backoff[1] = 1
  /\ \A n \in 1 .. 7 : Backoff[n] \in 1 .. MaxDelay
  /\ \A n \in 1 .. 7 : Backoff[Smaller(n + 1, 7)] = Smaller(Backoff[n] * 2, MaxDelay)
<1>1. \A n \in 1 .. 7 : n = 1 \/ n = 2 \/ n = 3 \/ n = 4 \/ n = 5 \/ n = 6 \/ n = 7
  OBVIOUS
<1>2. /\ Backoff[1] = 1 /\ Backoff[2] = 2 /\ Backoff[3] = 4 /\ Backoff[4] = 8
      /\ Backoff[5] = 16 /\ Backoff[6] = 30 /\ Backoff[7] = 30
  BY DEF Backoff
<1> QED
  BY <1>1, <1>2 DEF Smaller, MaxDelay

\* The steps of the socket.
LEMMA LinkStep ==
  ASSUME AdapterInv, SocketOpens \/ SocketCloses \/ TimerFires \/ ServerChanges
  PROVE  AdapterTypeOK' /\ LinkInv'
<1> USE AdapterAssumption DEF AdapterInv, AdapterTypeOK, LinkInv
<1>1. CASE SocketOpens
  <2>1. Smaller(0 + 1, 7) = 1 /\ MaxDelay = 30
    BY DEF Smaller, MaxDelay
  <2> QED
    BY <1>1, <2>1, Delays DEF SocketOpens, registry, callState
<1>2. CASE SocketCloses
  <2>1. Smaller(failures + 1, 7) \in 1 .. 7
    BY DEF Smaller
  <2>2. timer = 0 /\ platform # "wails"
    BY <1>2 DEF SocketCloses
  <2> QED
    BY <1>2, <2>1, <2>2, Delays DEF SocketCloses, registry, callState
<1>3. CASE TimerFires
  <2>1. failures \in 1 .. 7 /\ platform # "wails"
    BY <1>3 DEF TimerFires
  <2>2. delay' = Backoff[Smaller(failures + 1, 7)]
    BY <1>3, <2>1, Delays DEF TimerFires
  <2>3. Smaller(failures + 1, 7) \in 1 .. 7
    BY <2>1 DEF Smaller
  <2>4. delay' \in 1 .. MaxDelay /\ timer' = 0 /\ socket' = "connecting"
        /\ UNCHANGED <<platform, failures>>
    BY <1>3, <2>2, <2>3, Delays DEF TimerFires
  <2>5. LinkInv'
    BY <2>1, <2>2, <2>4
  <2>6. AdapterTypeOK'
    <3>1. UNCHANGED <<reachable, breaks, listeners, mounted, mounts, promise, request, executed>>
      BY <1>3 DEF TimerFires, registry, callState
    <3> QED
      BY <2>4, <3>1 DEF MaxDelay
  <2> QED
    BY <2>5, <2>6
<1>4. CASE ServerChanges
  <2>1. UNCHANGED <<platform, delay, timer, failures, listeners, mounted, mounts, promise, request, executed>>
    BY <1>4 DEF ServerChanges, registry, callState
  <2>2. platform # "wails" /\ socket' = IF socket = "open" THEN "lost" ELSE socket
    BY <1>4 DEF ServerChanges
  <2>3. breaks' \in 0 .. MaxBreaks
    BY <1>4 DEF ServerChanges
  <2>4. reachable' \in BOOLEAN
    BY <1>4, Zenon DEF ServerChanges
  <2>5. LinkInv'
    BY <2>1, <2>2
  <2>6. AdapterTypeOK'
    BY <2>1, <2>2, <2>3, <2>4
  <2> QED
    BY <2>5, <2>6
<1> QED
  BY <1>1, <1>2, <1>3, <1>4

\* Mounting and unmounting the window.
LEMMA RegistryStep ==
  ASSUME AdapterInv, Mount \/ Unmount
  PROVE  AdapterTypeOK' /\ RegistryInv'
<1> USE AdapterAssumption DEF AdapterInv, AdapterTypeOK, RegistryInv
<1>1. CASE Mount
  <2>1. mounts' \in 1 .. MaxMounts /\ mounted' = mounts' /\ mounted = 0 /\ mounts' = mounts + 1
    BY <1>1 DEF Mount
  <2>2. \A t \in Topics : listeners'[t] = listeners[t] \cup {mounts'}
    BY <1>1 DEF Mount
  <2>3. listeners' \in [Topics -> SUBSET (1 .. MaxMounts)]
    BY <1>1, <2>1 DEF Mount
  <2> QED
    BY <1>1, <2>1, <2>2, <2>3 DEF Mount, link, callState
<1>2. CASE Unmount
  <2>1. mounts # 0 /\ mounted' = 0 /\ mounts' = mounts
    BY <1>2 DEF Unmount
  <2>2. listeners' \in [Topics -> SUBSET (1 .. MaxMounts)]
    BY <1>2 DEF Unmount
  <2> QED
    BY <1>2, <2>1, <2>2 DEF Unmount, link, callState
<1> QED
  BY <1>1, <1>2

\* The steps of a call, which leave the other calls alone.
LEMMA CallStep ==
  ASSUME AdapterInv, NEW c \in ApiCalls,
         CallApi(c) \/ ExecuteCall(c) \/ Settle(c) \/ TimeoutCall(c)
  PROVE  AdapterTypeOK' /\ \A d \in ApiCalls : CallInv(d)'
<1> USE DEF AdapterInv, AdapterTypeOK, CallInv
<1>1. platform' = platform /\ \A d : Route(d)' = Route(d)
  BY DEF CallApi, ExecuteCall, Settle, TimeoutCall, Route
<1>2. UNCHANGED <<link, registry>>
  BY DEF CallApi, ExecuteCall, Settle, TimeoutCall
<1>3. CASE CallApi(c)
  BY <1>1, <1>2, <1>3 DEF CallApi, link, registry
<1>4. CASE ExecuteCall(c)
  BY <1>1, <1>2, <1>4 DEF ExecuteCall, link, registry
<1>5. CASE Settle(c)
  <2>1. Refused(c) \in {"resolved", "rejected"}
    BY DEF Refused
  <2> QED
    BY <1>1, <1>2, <1>5, <2>1 DEF Settle, link, registry
<1>6. CASE TimeoutCall(c)
  <2>1. Route(c) # "binding" /\ (Route(c) = "http" => Refused(c) = "rejected")
        /\ Refused(c) \in {"resolved", "rejected"}
    BY <1>6 DEF TimeoutCall, Route, Refused
  <2> QED
    BY <1>1, <1>2, <1>6, <2>1 DEF TimeoutCall, link, registry
<1> QED
  BY <1>3, <1>4, <1>5, <1>6

LEMMA AdapterStep == AdapterInv /\ [AdapterNext]_adapterVars => AdapterInv'
<1> SUFFICES ASSUME AdapterInv, [AdapterNext]_adapterVars PROVE AdapterInv'
  OBVIOUS
<1>1. ASSUME UNCHANGED <<platform, link>> PROVE LinkInv'
  BY <1>1 DEF AdapterInv, LinkInv, link
<1>2. ASSUME UNCHANGED <<platform, registry>> PROVE RegistryInv'
  BY <1>2 DEF AdapterInv, RegistryInv, registry
<1>3. ASSUME UNCHANGED <<platform, callState>>, NEW c \in ApiCalls PROVE CallInv(c)'
  BY <1>3 DEF AdapterInv, CallInv, callState, Route
<1>4. CASE SocketOpens \/ SocketCloses \/ TimerFires \/ ServerChanges
  BY <1>2, <1>3, <1>4, LinkStep
     DEF AdapterInv, SocketOpens, SocketCloses, TimerFires, ServerChanges
<1>5. CASE Mount \/ Unmount
  BY <1>1, <1>3, <1>5, RegistryStep DEF AdapterInv, Mount, Unmount
<1>6. ASSUME NEW c \in ApiCalls, CallApi(c) \/ ExecuteCall(c) \/ Settle(c) \/ TimeoutCall(c)
      PROVE  AdapterInv'
  BY <1>1, <1>2, <1>6, CallStep DEF AdapterInv, CallApi, ExecuteCall, Settle, TimeoutCall
<1>7. CASE UNCHANGED adapterVars
  BY <1>1, <1>2, <1>3, <1>7 DEF adapterVars, link, registry, callState, AdapterInv, AdapterTypeOK
<1> QED
  BY <1>4, <1>5, <1>6, <1>7 DEF AdapterNext

\* Between socket and timer, callbacks and mounts, promises and requests: the
\* relations above hold at all times.
THEOREM AdapterInvariance == AdapterSpec => []AdapterInv
<1>1. AdapterInit => AdapterInv
  <2> SUFFICES ASSUME AdapterInit PROVE AdapterInv
    OBVIOUS
  <2>1. Smaller(0 + 1, 7) = 1
    BY DEF Smaller
  <2>2. AdapterTypeOK
    BY AdapterAssumption DEF AdapterInit, AdapterTypeOK, MaxDelay
  <2>3. LinkInv
    BY <2>1, Delays DEF AdapterInit, LinkInv
  <2>4. RegistryInv
    BY DEF AdapterInit, RegistryInv
  <2>5. \A c \in ApiCalls : CallInv(c)
    BY DEF AdapterInit, CallInv
  <2> QED
    BY <2>2, <2>3, <2>4, <2>5 DEF AdapterInv
<1> QED
  BY <1>1, AdapterStep, PTL DEF AdapterSpec

\* The adapter never opens two sockets or runs two timers, delivers an event to one
\* callback, and has no call executed twice; what resolved was executed.
THEOREM Exactness == AdapterSpec => []AdapterIsExact
<1>1. AdapterInv => AdapterIsExact
  <2> SUFFICES ASSUME AdapterInv PROVE AdapterIsExact
    OBVIOUS
  <2> USE DEF AdapterInv, AdapterTypeOK
  <2>1. OneAttemptAtATime
    BY DEF LinkInv, OneAttemptAtATime
  <2>2. HandledOnce
    BY AdapterAssumption DEF RegistryInv, HandledOnce
  <2>3. ExecutedAtMostOnce
    BY DEF CallInv, ExecutedAtMostOnce
  <2> QED
    BY <2>1, <2>2, <2>3 DEF AdapterIsExact
<1> QED
  BY <1>1, AdapterInvariance, PTL
-----------------------------------------------------------------------------
(* The dialogs of devices                                                  *)

\* As long as nothing is mixed up, apps are fetched once at a time; and under Frida
\* the list is that of the selected device, or is being fetched for it.
FetchInv ==
    ~ mixed =>
        /\ \A f, g \in fetches : f = g
        /\ loading <=> fetches # {}
        /\ modal = "frida" /\ selected # "" =>
              /\ fetches = {} => apps = selected
              /\ \A f \in fetches : f.dev = selected

\* Frida is deployed on a device that is selected.
DevicesInv ==
    /\ DevicesTypeOK /\ instance <= picks /\ FetchInv
    /\ \A l \in sent : l.what = "deploy" => l.dev # ""

\* What the parts of a dialog's actions do to the selection and the fetches.
LEMMA FetchKeeps ==
  ASSUME DevicesInv, NEW d \in Serials, NEW late \in BOOLEAN, Fetch(d, late)
  PROVE  /\ fetchCount' \in Nat /\ loading' = TRUE /\ mixed' \in BOOLEAN
         /\ fetches' \subseteq [n : Nat, dev : Serials, done : BOOLEAN]
         /\ fetches' # {}
         /\ ~ mixed' => ~ mixed /\ ~ late /\ \A f, g \in fetches' : f = g /\ f.dev = d
<1>1. fetchCount \in Nat
  BY Zenon DEF DevicesInv, DevicesTypeOK
<1>2. fetchCount' \in Nat /\ loading' = TRUE
  BY <1>1 DEF Fetch
<1>3. mixed' \in BOOLEAN
  BY Zenon DEF Fetch
<1>4. PICK f : f = [n |-> fetchCount', dev |-> d, done |-> FALSE]
  OBVIOUS
<1>3a. fetches' = fetches \cup {f}
  BY <1>4 DEF Fetch
<1>3b. f \in [n : Nat, dev : Serials, done : BOOLEAN] /\ f.dev = d
  BY <1>2, <1>4
<1>5. fetches' \subseteq [n : Nat, dev : Serials, done : BOOLEAN]
  BY <1>3a, <1>3b DEF DevicesInv, DevicesTypeOK
<1>6. ~ mixed' => ~ mixed /\ ~ late /\ fetches = {}
  BY Zenon DEF Fetch
<1>7. fetches = {} => \A g, h \in fetches' : g = h /\ g.dev = d
  BY <1>3a, <1>3b
<1> QED
  BY <1>2, <1>3, <1>3a, <1>5, <1>6, <1>7

\* Devices are attached and companions come a counted number of times.
LEMMA ChangeCounts ==
  ASSUME DevicesInv, changes < MaxPlugs
  PROVE  changes + 1 \in 0 .. MaxPlugs
<1>1. MaxPlugs \in Nat
  BY DeviceAssumption
<1>2. changes \in 0 .. MaxPlugs
  BY Zenon DEF DevicesInv, DevicesTypeOK
<1> QED
  BY <1>1, <1>2

\* The selections, openings and launches are counted.
LEMMA PickCounts ==
  ASSUME DevicesInv, Pick
  PROVE  /\ picks' \in 0 .. MaxPicks /\ picks' \in Nat
         /\ instance <= picks' /\ instance + 1 <= picks' /\ instance + 1 \in 0 .. MaxPicks
<1>1. MaxPicks \in Nat
  BY DeviceAssumption
<1>2. /\ picks \in 0 .. MaxPicks /\ instance \in 0 .. MaxPicks /\ instance <= picks
      /\ picks < MaxPicks /\ picks' = picks + 1
  BY DEF DevicesInv, DevicesTypeOK, Pick
<1> QED
  BY <1>1, <1>2

\* The effect of a new selection, or a new mode, that the dialog shows from now on.
LEMMA EffectKeeps ==
  ASSUME DevicesInv, NEW d \in Serials \cup {""}, NEW m \in {"closed", "frida", "adb"},
         Effect(d, m), selected' = d, modal' = m, apps' = apps
  PROVE  /\ fetchCount' \in Nat /\ {loading, mixed}' \subseteq BOOLEAN
         /\ fetches' \subseteq [n : Nat, dev : Serials, done : BOOLEAN]
         /\ FetchInv'
<1>1. CASE d # "" /\ m = "frida" /\ (d # selected \/ m # modal)
  <2>1. d \in Serials /\ Fetch(d, FALSE)
    BY <1>1 DEF Effect
  <2>2. /\ fetchCount' \in Nat /\ loading' = TRUE /\ mixed' \in BOOLEAN
        /\ fetches' \subseteq [n : Nat, dev : Serials, done : BOOLEAN]
        /\ fetches' # {}
        /\ ~ mixed' => \A f, g \in fetches' : f = g /\ f.dev = d
    BY <2>1, FetchKeeps
  <2> QED
    BY <2>2 DEF FetchInv
<1>2. CASE ~ (d # "" /\ m = "frida" /\ (d # selected \/ m # modal))
  BY <1>2 DEF Effect, FetchInv, DevicesInv, DevicesTypeOK
<1> QED
  BY <1>1, <1>2

\* A dialog that is closed, or opened anew.
LEMMA FreshKeeps ==
  ASSUME fetches' = {}, loading' = FALSE, selected' = ""
  PROVE  FetchInv'
BY DEF FetchInv

\* A click that launches or deploys.
LEMMA LaunchingKeeps ==
  ASSUME DevicesInv, Pick, NEW what \in {"launch", "deploy"}, NEW of \in Serial0,
         Launching(what, of), what = "deploy" => selected # ""
  PROVE  /\ injecting' = TRUE /\ inject' \subseteq sent' /\ picks' \in 0 .. MaxPicks
         /\ instance <= picks'
         /\ sent' \subseteq [n : Nat, by : 0 .. MaxPicks, what : {"launch", "deploy"},
                             dev : Serial0, of : Serial0]
         /\ \A l \in sent' \ sent : l.dev = selected /\ l.of = of
         /\ \A l \in sent' : l.what = "deploy" => l.dev # ""
<1>1. /\ selected \in Serial0 /\ instance \in 0 .. MaxPicks /\ inject \subseteq sent
      /\ sent \subseteq [n : Nat, by : 0 .. MaxPicks, what : {"launch", "deploy"},
                         dev : Serial0, of : Serial0]
      /\ \A l \in sent : l.what = "deploy" => l.dev # ""
  BY Zenon DEF DevicesInv, DevicesTypeOK
<1>2. picks' \in 0 .. MaxPicks /\ instance <= picks' /\ picks' \in Nat
  BY PickCounts
<1>3. PICK l : l = [n |-> picks', by |-> instance, what |-> what, dev |-> selected, of |-> of]
  OBVIOUS
<1>4. /\ l \in [n : Nat, by : 0 .. MaxPicks, what : {"launch", "deploy"}, dev : Serial0, of : Serial0]
      /\ l.dev = selected /\ l.of = of /\ l.what = what
  BY <1>1, <1>2, <1>3
<1>5. injecting' = TRUE /\ sent' = sent \cup {l} /\ inject' = inject \cup (sent' \ sent)
  BY <1>3, Zenon DEF Launching
<1>6. inject' \subseteq sent'
  BY <1>1, <1>5
<1>7. sent' \subseteq [n : Nat, by : 0 .. MaxPicks, what : {"launch", "deploy"},
                       dev : Serial0, of : Serial0]
  BY <1>1, <1>4, <1>5
<1>8. \A k \in sent' : k.what = "deploy" => k.dev # ""
  BY <1>1, <1>4, <1>5
<1>9. \A k \in sent' \ sent : k.dev = selected /\ k.of = of
  BY <1>4, <1>5
<1> QED
  BY <1>2, <1>5, <1>6, <1>7, <1>8, <1>9

\* The companions' list, in the variables of the dialogs of devices.
LEMMA PhoneStep ==
  ASSUME DevicesInv, PhoneSteps
  PROVE  DevicesInv' /\ UNCHANGED androidVars
<1>1. UNCHANGED androidVars
  BY Zenon DEF PhoneSteps, PhoneChanges, DisconnectClick, Disconnected, DisconnectEnds, PhonesTold,
         PhonesRead, PhonesPolled
<1>2. FetchInv'
  BY <1>1 DEF androidVars, FetchInv, DevicesInv
<1> DEFINE ListOK(l) == l.known \in BOOLEAN /\ l.list \subseteq Phones
           Goodbye == [dev : Phones, list : SUBSET Phones, done : BOOLEAN]
           PhonesOK == /\ hub \subseteq Phones /\ phonesShown \subseteq Phones
                       /\ phoneEvents \subseteq SUBSET Phones /\ ListOK(phonePoll)
                       /\ disconnects \subseteq Goodbye /\ changes \in 0 .. MaxPlugs
<1>3. PhonesOK
  BY Zenon DEF DevicesInv, DevicesTypeOK
<1>3a. ListOK(NoList) /\ \A S \in SUBSET Phones : ListOK(List(S))
  BY DEF NoList, List
<1> HIDE DEF ListOK
<1>4. ASSUME NEW p \in Phones, PhoneChanges(p) PROVE PhonesOK'
  <2>1. /\ hub' \subseteq Phones /\ phoneEvents' = phoneEvents \cup {hub'}
        /\ UNCHANGED <<phonesShown, phonePoll, disconnects>>
    BY <1>3, <1>4 DEF PhoneChanges
  <2>2. changes' \in 0 .. MaxPlugs
    BY <1>4, ChangeCounts DEF PhoneChanges
  <2> QED
    BY <1>3, <1>3a, <2>1, <2>2
<1>5. ASSUME NEW p \in Phones, DisconnectClick(p) PROVE PhonesOK'
  <2>1. PICK c : c = [dev |-> p, list |-> phonesShown, done |-> FALSE]
    OBVIOUS
  <2>2. c \in Goodbye
    BY <1>3, <2>1
  <2>3. /\ disconnects' = disconnects \cup {c}
        /\ UNCHANGED <<hub, phonesShown, phoneEvents, phonePoll, changes>>
    BY <1>5, <2>1, Zenon DEF DisconnectClick
  <2> QED
    BY <1>3, <2>2, <2>3
<1>6. ASSUME NEW c \in disconnects, Disconnected(c) PROVE PhonesOK'
  <2>1. /\ hub' = hub \ {c.dev} /\ phoneEvents' = phoneEvents \cup {hub'}
        /\ disconnects' = (disconnects \ {c}) \cup {[c EXCEPT !.done = TRUE]}
        /\ UNCHANGED <<phonesShown, phonePoll, changes>>
    BY <1>6 DEF Disconnected
  <2>2. c \in Goodbye
    BY <1>3
  <2>3. [c EXCEPT !.done = TRUE] \in Goodbye
    BY <2>2
  <2>4. hub' \subseteq Phones
    BY <1>3, <2>1
  <2> QED
    BY <1>3, <1>3a, <2>1, <2>3, <2>4
<1>7. ASSUME NEW c \in disconnects, DisconnectEnds(c) PROVE PhonesOK'
  <2>1. c.list \subseteq Phones
    BY <1>3
  <2> QED
    BY <1>3, <1>7, <2>1 DEF DisconnectEnds
<1>8. ASSUME NEW l \in phoneEvents, PhonesTold(l) PROVE PhonesOK'
  BY <1>3, <1>8 DEF PhonesTold
<1>9. ASSUME PhonesRead PROVE PhonesOK'
  BY <1>3, <1>3a, <1>9 DEF PhonesRead
<1>10. ASSUME PhonesPolled PROVE PhonesOK'
  <2>1. phonePoll.list \subseteq Phones
    BY <1>3 DEF ListOK
  <2> QED
    BY <1>3, <1>3a, <1>10, <2>1 DEF PhonesPolled
<1>11. PhonesOK'
  BY <1>4, <1>5, <1>6, <1>7, <1>8, <1>9, <1>10 DEF PhoneSteps
<1>12. phonePoll'.known \in BOOLEAN /\ phonePoll'.list \subseteq Phones
  BY <1>11 DEF ListOK
<1>13. DevicesTypeOK'
  <2> HIDE DEF Goodbye
  <2>1. /\ hub' \subseteq Phones /\ phonesShown' \subseteq Phones
        /\ disconnects' \subseteq [dev : Phones, list : SUBSET Phones, done : BOOLEAN]
        /\ changes' \in 0 .. MaxPlugs /\ phoneEvents' \subseteq SUBSET Phones
    BY <1>11 DEF Goodbye
  <2> QED
    BY <1>1, <1>12, <2>1, Zenon DEF DevicesInv, DevicesTypeOK, androidVars
<1>14. /\ instance' <= picks' /\ \A l \in sent' : l.what = "deploy" => l.dev # ""
  BY <1>1, Zenon DEF DevicesInv, androidVars
<1> QED
  BY <1>1, <1>2, <1>13, <1>14, Zenon DEF DevicesInv

\* The Android dialog.  An app that is clicked is of the list of the device selected.
LEMMA AndroidStep ==
  ASSUME DevicesInv, AndroidSteps
  PROVE  DevicesInv' /\ \A l \in sent' \ sent : l.dev = "" \/ l.of = l.dev \/ mixed
<1> USE DeviceAssumption DEF DevicesInv, DevicesTypeOK, Serial0
<1> DEFINE Goal == DevicesInv' /\ \A l \in sent' \ sent : l.dev = "" \/ l.of = l.dev \/ mixed
<1>1. ASSUME NEW d \in Serials, PlugOrUnplug(d) PROVE Goal
  <2>1. changes' \in 0 .. MaxPlugs
    BY <1>1, ChangeCounts DEF PlugOrUnplug
  <2> QED
    BY <1>1, <2>1 DEF PlugOrUnplug, phoneVars, FetchInv
<1>2. ASSUME NEW d \in Serials, SelectDevice(d) PROVE Goal
  <2>1. /\ Effect(d, modal) /\ selected' = d /\ modal' = modal /\ apps' = apps
        /\ UNCHANGED <<plugged, instance, listed, scan, injecting, inject, sent, phoneVars, changes>>
    BY <1>2 DEF SelectDevice
  <2>2. picks' \in 0 .. MaxPicks /\ instance' <= picks'
    BY <1>2, PickCounts DEF SelectDevice
  <2>3. /\ fetchCount' \in Nat /\ {loading, mixed}' \subseteq BOOLEAN
        /\ fetches' \subseteq [n : Nat, dev : Serials, done : BOOLEAN] /\ FetchInv'
    BY <2>1, EffectKeeps
  <2> QED
    BY <2>1, <2>3, <2>2 DEF phoneVars
<1>3. ASSUME NEW m \in {"frida", "adb"}, SetMode(m) PROVE Goal
  <2>1. /\ Effect(selected, m) /\ selected' = selected /\ modal' = m /\ apps' = apps
        /\ UNCHANGED <<plugged, instance, listed, scan, injecting, inject, sent, phoneVars, changes>>
    BY <1>3 DEF SetMode
  <2>2. picks' \in 0 .. MaxPicks /\ instance' <= picks'
    BY <1>3, PickCounts DEF SetMode
  <2>3. /\ fetchCount' \in Nat /\ {loading, mixed}' \subseteq BOOLEAN
        /\ fetches' \subseteq [n : Nat, dev : Serials, done : BOOLEAN] /\ FetchInv'
    BY <2>1, EffectKeeps
  <2> QED
    BY <2>1, <2>3, <2>2 DEF phoneVars
<1>4. ASSUME NEW m \in {"frida", "adb"}, OpenModal(m) PROVE Goal
  <2>1. FetchInv'
    BY <1>4, FreshKeeps DEF OpenModal
  <2>2. picks' \in 0 .. MaxPicks /\ instance' <= picks' /\ instance' \in 0 .. MaxPicks
    BY <1>4, PickCounts DEF OpenModal
  <2>3. scan' \in [from : Serials \cup {""}, devs : SUBSET Serials, done : BOOLEAN]
    BY <1>4 DEF OpenModal, NoScan
  <2> QED
    BY <1>4, <2>1, <2>2, <2>3 DEF OpenModal, phoneVars
<1>5. CASE CloseModal
  <2>1. FetchInv'
    BY <1>5, FreshKeeps DEF CloseModal, Unmounted
  <2> QED
    BY <1>5, <2>1 DEF CloseModal, Unmounted, phoneVars
<1>6. CASE ScanClick
  <2>1. scan' \in [from : Serials \cup {""}, devs : SUBSET Serials, done : BOOLEAN]
    BY <1>6 DEF ScanClick, NoScan
  <2>2. picks' \in 0 .. MaxPicks /\ instance' <= picks'
    BY <1>6, PickCounts DEF ScanClick
  <2> QED
    BY <1>6, <2>1, <2>2 DEF ScanClick, phoneVars, FetchInv
<1>7. CASE ScanRead
  <2>1. scan' = NoScan \/ scan' \in [from : Serials \cup {""}, devs : SUBSET Serials, done : BOOLEAN]
    BY <1>7 DEF ScanRead
  <2> QED
    BY <1>7, <2>1 DEF ScanRead, phoneVars, FetchInv
<1>8. CASE ScanEnds
  <2>1. scan # NoScan
    <3>1. scan.done /\ NoScan.done = FALSE
      BY <1>8 DEF ScanEnds, NoScan
    <3> QED
      BY <3>1
  <2>2. scan.devs \subseteq Serials
    BY <2>1
  <2>3. /\ selected' \in Serials \cup {""} /\ Effect(selected', modal) /\ modal' = modal
        /\ apps' = apps /\ scan' = NoScan /\ listed' \subseteq Serials
        /\ UNCHANGED <<plugged, instance, injecting, inject, sent, picks, phoneVars, changes>>
    BY <1>8, <2>2 DEF ScanEnds
  <2>4. /\ fetchCount' \in Nat /\ {loading, mixed}' \subseteq BOOLEAN
        /\ fetches' \subseteq [n : Nat, dev : Serials, done : BOOLEAN] /\ FetchInv'
    BY <2>3, EffectKeeps
  <2> QED
    BY <2>3, <2>4 DEF phoneVars
<1>9. ASSUME NEW f \in fetches, FetchEnds(f) PROVE Goal
  <2>1. FetchInv'
    BY <1>9 DEF FetchEnds, FetchInv
  <2> QED
    BY <1>9, <2>1 DEF FetchEnds, phoneVars
<1>10. ASSUME NEW l \in inject, InjectEnds(l) PROVE Goal
  <2>1. FetchInv'
    BY <1>10, FreshKeeps DEF InjectEnds, Unmounted
  <2> QED
    BY <1>10, <2>1 DEF InjectEnds, Unmounted, phoneVars
<1>11. ASSUME NEW l \in inject, DeployEnds(l) PROVE Goal
  <2>1. CASE Shows(l) /\ l.dev # ""
    <3>1. l.dev \in Serials /\ (l.dev # selected) \in BOOLEAN
      BY <2>1
    <3>2. Fetch(l.dev, l.dev # selected) /\ injecting' = FALSE /\ inject' \subseteq inject
      BY <1>11, <2>1 DEF DeployEnds
    <3>3. /\ fetchCount' \in Nat /\ loading' = TRUE /\ mixed' \in BOOLEAN /\ fetches' # {}
          /\ fetches' \subseteq [n : Nat, dev : Serials, done : BOOLEAN]
          /\ ~ mixed' => l.dev = selected /\ \A f, g \in fetches' : f = g /\ f.dev = l.dev
      BY <3>1, <3>2, FetchKeeps
    <3>4. UNCHANGED <<plugged, instance, modal, listed, selected, scan, apps, sent, phoneVars,
                      changes, picks>>
      BY <1>11 DEF DeployEnds
    <3>5. FetchInv'
      BY <3>3, <3>4 DEF FetchInv
    <3> QED
      BY <3>2, <3>3, <3>4, <3>5 DEF phoneVars
  <2>2. l.dev # ""
    BY <1>11 DEF DeployEnds
  <2>3. CASE ~ Shows(l)
    BY <1>11, <2>3 DEF DeployEnds, phoneVars, FetchInv
  <2> QED
    BY <2>1, <2>2, <2>3
<1>12. ASSUME NEW l \in inject, InjectFails(l) PROVE Goal
  <2>1. injecting' \in BOOLEAN
    BY <1>12, Zenon DEF InjectFails
  <2>2. /\ inject' \subseteq inject
        /\ UNCHANGED <<plugged, instance, modal, listed, selected, scan, fetches, fetchCount, apps,
                       loading, sent, mixed, picks, phoneVars, changes>>
    BY <1>12 DEF InjectFails
  <2>3. FetchInv'
    BY <2>2 DEF FetchInv
  <2> QED
    BY <2>1, <2>2, <2>3 DEF phoneVars
<1>13. CASE SpawnApp
  <2>1. Pick /\ apps \in Serials \cup {""} /\ Launching("launch", apps)
    BY <1>13 DEF SpawnApp
  <2>2. FetchInv'
    BY <1>13 DEF SpawnApp, FetchInv
  <2>3. selected = "" \/ apps = selected \/ mixed
    BY <1>13 DEF SpawnApp, FetchInv
  <2> QED
    BY <1>13, <2>1, <2>2, <2>3, LaunchingKeeps DEF SpawnApp, phoneVars
<1>14. CASE StartAdbClick
  <2>1. Pick /\ selected \in Serials \cup {""} /\ Launching("launch", selected)
    BY <1>14 DEF StartAdbClick
  <2>2. FetchInv'
    BY <1>14 DEF StartAdbClick, FetchInv
  <2> QED
    BY <1>14, <2>1, <2>2, LaunchingKeeps DEF StartAdbClick, phoneVars
<1>15. CASE DeployFrida
  <2>1. Pick /\ selected \in Serials \cup {""} /\ Launching("deploy", selected)
    BY <1>15 DEF DeployFrida
  <2>2. selected # ""
    BY <1>15 DEF DeployFrida
  <2>3. FetchInv'
    BY <1>15 DEF DeployFrida, FetchInv
  <2> QED
    BY <1>15, <2>1, <2>3, <2>2, LaunchingKeeps DEF DeployFrida, phoneVars
<1> QED
  BY <1>1, <1>2, <1>3, <1>4, <1>5, <1>6, <1>7, <1>8, <1>9, <1>10, <1>11, <1>12, <1>13, <1>14, <1>15
     DEF AndroidSteps, ScanSteps, FetchSteps, InjectSteps

LEMMA DevicesInvariance == DevicesSpec => []DevicesInv
<1>1. DevicesInit => DevicesInv
  <2> SUFFICES ASSUME DevicesInit PROVE DevicesInv
    OBVIOUS
  <2>1. /\ plugged \subseteq Serials /\ hub \subseteq Phones
        /\ instance = 0 /\ picks = 0 /\ changes = 0 /\ fetchCount = 0
        /\ modal = "closed" /\ listed = {} /\ selected = "" /\ scan = NoScan /\ apps = ""
        /\ fetches = {} /\ inject = {} /\ sent = {} /\ disconnects = {} /\ phonesShown = {}
        /\ loading = FALSE /\ injecting = FALSE /\ mixed = FALSE
        /\ phoneEvents = {} /\ phonePoll = NoList
    BY DEF DevicesInit
  <2>2. MaxPlugs \in Nat /\ MaxPicks \in Nat
    BY DeviceAssumption
  <2>3. NoList.known \in BOOLEAN /\ NoList.list \subseteq Phones
    BY DEF NoList
  <2>4. 0 \in 0 .. MaxPlugs /\ 0 \in 0 .. MaxPicks /\ 0 \in Nat /\ 0 <= 0
    BY <2>2
  <2>5. DevicesTypeOK
    BY <2>1, <2>3, <2>4 DEF DevicesTypeOK, Serial0
  <2>6. FetchInv
    BY <2>1 DEF FetchInv
  <2> QED
    BY <2>1, <2>4, <2>5, <2>6 DEF DevicesInv
<1>2. DevicesInv /\ [DevicesNext]_deviceVars => DevicesInv'
  <2>1. CASE UNCHANGED deviceVars
    BY <2>1 DEF deviceVars, androidVars, phoneVars, DevicesInv, DevicesTypeOK, FetchInv
  <2>2. ASSUME DevicesInv, AndroidSteps PROVE DevicesInv'
    BY <2>2, AndroidStep
  <2>3. ASSUME DevicesInv, PhoneSteps PROVE DevicesInv'
    BY <2>3, PhoneStep
  <2> QED
    BY <2>1, <2>2, <2>3 DEF DevicesNext
<1> QED
  BY <1>1, <1>2, PTL DEF DevicesSpec

\* The dialogs of devices keep their types, whatever is attached, comes or goes.
THEOREM DevicesTypeCorrect == DevicesSpec => []DevicesTypeOK
<1>1. DevicesInv => DevicesTypeOK
  BY Zenon DEF DevicesInv
<1> QED
  BY <1>1, DevicesInvariance, PTL

\* A click of the Android dialog launches on the device whose list of apps was clicked in,
\* for any number of devices, dialogs and fetches under way.
THEOREM ClicksReachTheirDevice == DevicesSpec => InjectsWhereClicked
<1>1. DevicesInv /\ [DevicesNext]_deviceVars
        => [\A l \in sent' \ sent : l.dev = "" \/ l.of = l.dev \/ mixed]_deviceVars
  <2>1. ASSUME DevicesInv, AndroidSteps
        PROVE  \A l \in sent' \ sent : l.dev = "" \/ l.of = l.dev \/ mixed
    BY <2>1, AndroidStep
  <2>2. ASSUME DevicesInv, PhoneSteps PROVE sent' = sent
    BY <2>2, PhoneStep DEF androidVars
  <2> QED
    BY <2>1, <2>2 DEF DevicesNext
<1> QED
  BY <1>1, DevicesInvariance, PTL DEF DevicesSpec, InjectsWhereClicked
-----------------------------------------------------------------------------
(* The interceptors page                                                   *)

\* The pills, whatever their order.
PillSet == {pills[i] : i \in DOMAIN pills}

\* Run n is of device d.
Ran(n, d) == \E r \in runs : r.n = n /\ r.dev = d

OnDevice(x) == x.dev # "none" => x.type \in {"frida", "adb"}

\* A card whose cross stops its run.
FridaCards == {c \in cards : c.type = "frida"}

\* The rows of R are numbered one by one.
Numbered(R) ==
    /\ R \subseteq Rows /\ IsFiniteSet(R)
    /\ {r.n : r \in R} = 1 .. Cardinality(R)
    /\ \A r, s \in R : r.n = s.n => r = s

LaunchKind == [what : Targets, dev : Devices \cup {"none"}, n : 0 .. MaxRuns,
                state : {"called", "done", "failed"}, here : BOOLEAN]
StopCalls   == [of : Pills, done : BOOLEAN, by : {"pill", "card", "gone"}]
Cards       == [n : 1 .. MaxRuns, type : Types \cup {"app"}]
PollCalls   == [answered : BOOLEAN, read : SUBSET (1 .. MaxRuns)]

\* The pills, the stops, the cards that stop and the launches that are done are of runs
\* there are, and each launch is of a run that has none of the others yet.
NumberedRuns ==
    /\ Numbered(runs)
    /\ pills \in Seq(Pills)
    /\ \A p \in PillSet : Ran(p.n, p.dev) /\ OnDevice(p)
    /\ \A s \in stops : Ran(s.of.n, s.of.dev) /\ OnDevice(s.of)
    /\ \A c \in FridaCards : \E r \in runs : r.n = c.n
    /\ \A l \in launches : l.what.type \in {"frida", "adb"} <=> l.dev # "none"
    /\ \A l \in launches : l.state = "done" =>
          /\ Ran(l.n, l.dev)
          /\ \A c \in FridaCards : c.n # l.n
          /\ \A p \in PillSet : p.n # l.n
          /\ \A s \in stops : s.of.n # l.n
          /\ \A m \in launches : m.state = "done" /\ m.n = l.n => m = l

\* A pill that no stop is about to remove, or a launch whose pill is to come.
Supported(d) ==
    \/ \E p \in PillSet : p.dev = d /\ \A s \in stops : s.done => s.of.n # p.n
    \/ \E l \in launches : l.dev = d /\ l.state = "done"

PanelInv == RunsTypeOK /\ NumberedRuns /\ \A d \in routed \ abandoned : Supported(d)

\* Runs that are numbered one by one are as many as their numbers.
LEMMA NumberedCount ==
  ASSUME NEW R, NEW k \in Nat, {r.n : r \in R} = 1 .. k, \A r, s \in R : r.n = s.n => r = s
  PROVE  IsFiniteSet(R) /\ Cardinality(R) = k
<1> DEFINE f == [i \in 1 .. k |-> CHOOSE r \in R : r.n = i]
<1>1. \A i \in 1 .. k : f[i] \in R /\ f[i].n = i
  <2>1. \A i \in 1 .. k : \E r \in R : r.n = i
    OBVIOUS
  <2> QED
    BY <2>1
<1>2. f \in Bijection(1 .. k, R)
  <2>1. f \in [1 .. k -> R]
    BY <1>1
  <2>2. \A i, j \in 1 .. k : f[i] = f[j] => i = j
    BY <1>1
  <2>3. \A r \in R : \E i \in 1 .. k : f[i] = r
    <3> TAKE r \in R
    <3>1. r.n \in 1 .. k /\ f[r.n] = r
      BY <1>1
    <3> QED
      BY <3>1
  <2> HIDE DEF f
  <2> QED
    BY <2>1, <2>2, <2>3 DEF Bijection, Injection, Surjection, IsInjective
<1>3. IsFiniteSet(1 .. k) /\ Cardinality(1 .. k) = k
  BY FS_Interval
<1> QED
  BY <1>2, <1>3, FS_Bijection DEF ExistsBijection

\* What is left is a sequence of exactly those pills.
LEMMA WithoutKeeps ==
  ASSUME NEW T, NEW s \in Seq(T), NEW n
  PROVE  /\ Without(s, n) \in Seq(T)
         /\ {Without(s, n)[i] : i \in DOMAIN Without(s, n)}
                = {p \in {s[i] : i \in DOMAIN s} : p.n # n}
<1>1. PICK K : K = {i \in DOMAIN s : s[i].n # n}
  OBVIOUS
<1>2. K \in SUBSET DOMAIN s
  BY <1>1
<1>3. /\ Subsequence(s, K) \in Seq(T)
      /\ {Subsequence(s, K)[j] : j \in DOMAIN Subsequence(s, K)} = {s[i] : i \in K}
  BY <1>2, SubsequenceKeeps
<1>4. {s[i] : i \in K} = {p \in {s[i] : i \in DOMAIN s} : p.n # n}
  BY <1>1
<1>5. Without(s, n) = Subsequence(s, K)
  BY <1>1 DEF Without
<1> QED
  BY <1>3, <1>4, <1>5

LEMMA PillsLeft ==
  ASSUME pills \in Seq(Pills), NEW n, pills' = Without(pills, n)
  PROVE  pills' \in Seq(Pills) /\ PillSet' = {p \in PillSet : p.n # n}
BY WithoutKeeps DEF PillSet

\* What a launch keeps: whatever is of a device has a pill.
LEMMA TargetShapes ==
  ASSUME NEW w \in Targets
  PROVE  /\ w.type \in Types /\ w.row \in BOOLEAN
         /\ w.type \in {"frida", "adb"} => w.pill
         /\ w.device => w.type \in {"frida", "adb"}
         /\ w = SpawnFrida => w.device
<1>1. w \in {LaunchBrowser, LaunchTerminal, AttachJvm, LaunchCustom,
            SpawnFrida, AttachFrida, StartAdb}
  BY TargetsAssumption
<1>2. CASE w = LaunchBrowser
  BY <1>2 DEF LaunchBrowser, SpawnFrida, Types
<1>3. CASE w = LaunchTerminal
  BY <1>3 DEF LaunchTerminal, SpawnFrida, Types
<1>4. CASE w = AttachJvm
  BY <1>4 DEF AttachJvm, SpawnFrida, Types
<1>5. CASE w = LaunchCustom
  BY <1>5 DEF LaunchCustom, SpawnFrida, Types
<1>6. CASE w = SpawnFrida
  BY <1>6 DEF SpawnFrida, Types
<1>7. CASE w = AttachFrida
  BY <1>7 DEF AttachFrida, SpawnFrida, Types
<1>8. CASE w = StartAdb
  BY <1>8 DEF StartAdb, SpawnFrida, Types
<1> QED
  BY <1>1, <1>2, <1>3, <1>4, <1>5, <1>6, <1>7, <1>8

LEMMA AddRow ==
  ASSUME NEW R, Numbered(R), NEW x \in Rows, x.n = Cardinality(R) + 1
  PROVE  Numbered(R \cup {x}) /\ Cardinality(R \cup {x}) = Cardinality(R) + 1
<1>1. /\ R \subseteq Rows /\ IsFiniteSet(R) /\ {r.n : r \in R} = 1 .. Cardinality(R)
      /\ \A r, s \in R : r.n = s.n => r = s
  BY DEF Numbered
<1>2. PICK k \in Nat : k = Cardinality(R)
  BY <1>1, FS_CardinalityType
<1>3. \A r \in R : r.n \in 1 .. k
  BY <1>1, <1>2
<1>4. \A r \in R : r.n # x.n
  BY <1>2, <1>3
<1>5. IsFiniteSet(R \cup {x}) /\ Cardinality(R \cup {x}) = k + 1
  BY <1>1, <1>2, <1>4, FS_AddElement
<1>6. {r.n : r \in R \cup {x}} = 1 .. (k + 1)
  <2>1. {r.n : r \in R \cup {x}} = {r.n : r \in R} \cup {x.n}
    OBVIOUS
  <2>2. (1 .. k) \cup {k + 1} = 1 .. (k + 1)
    OBVIOUS
  <2> QED
    BY <1>1, <1>2, <2>1, <2>2
<1>7. R \cup {x} \subseteq Rows /\ \A r, s \in R \cup {x} : r.n = s.n => r = s
  BY <1>1, <1>4
<1> QED
  BY <1>2, <1>5, <1>6, <1>7 DEF Numbered

\* Runs that end keep their numbers and devices.
LEMMA EndKeeps ==
  ASSUME Numbered(runs), NEW S, runs' = EndRuns(S)
  PROVE  Numbered(runs)' /\ \A n, d : Ran(n, d) => Ran(n, d)'
<1> DEFINE e(r) == IF r.n \in S THEN [r EXCEPT !.on = FALSE] ELSE r
<1>1. /\ runs \subseteq Rows /\ IsFiniteSet(runs) /\ {r.n : r \in runs} = 1 .. Cardinality(runs)
      /\ \A r, s \in runs : r.n = s.n => r = s
  BY DEF Numbered
<1>2. \A r \in Rows : e(r) \in Rows /\ e(r).n = r.n /\ e(r).dev = r.dev
  BY DEF Rows
<1>3. runs' = {e(r) : r \in runs}
  BY DEF EndRuns
<1> HIDE DEF e
<1>4. runs' \subseteq Rows /\ \A r, s \in runs' : r.n = s.n => r = s
  BY <1>1, <1>2, <1>3
<1>5. {r.n : r \in runs'} = {r.n : r \in runs}
  BY <1>1, <1>2, <1>3
<1>6. PICK k \in Nat : k = Cardinality(runs)
  BY <1>1, FS_CardinalityType
<1>7. IsFiniteSet(runs') /\ Cardinality(runs') = k
  BY <1>1, <1>4, <1>5, <1>6, NumberedCount
<1>8. Numbered(runs)'
  BY <1>1, <1>4, <1>5, <1>6, <1>7 DEF Numbered
<1>9. \A n, d : Ran(n, d) => Ran(n, d)'
  BY <1>1, <1>2, <1>3 DEF Ran
<1> QED
  BY <1>8, <1>9

\* A run is of one device.
LEMMA OneDevice ==
  ASSUME Numbered(runs), NEW n, NEW c, NEW d, Ran(n, c), Ran(n, d)
  PROVE  c = d
BY DEF Numbered, Ran

LEMMA PanelFacts ==
  ASSUME PanelInv
  PROVE  /\ Numbered(runs) /\ latest \in [Devices -> 0 .. MaxRuns]
         /\ routed \subseteq Devices /\ abandoned \subseteq Devices
         /\ launches \subseteq LaunchKind /\ stops \subseteq StopCalls /\ cards \subseteq Cards
         /\ pills \in Seq(Pills) /\ polls \subseteq PollCalls /\ PillSet \subseteq Pills
<1>1. PillSet \subseteq Pills
  <2>1. \A i \in DOMAIN pills : pills[i] \in Pills
    BY Zenon DEF PanelInv, RunsTypeOK
  <2> QED
    BY <2>1 DEF PillSet
<1> QED
  BY <1>1, Zenon DEF PanelInv, RunsTypeOK, NumberedRuns, LaunchKind, StopCalls, Cards, PollCalls

\* Each part of the type of the page, for the steps that leave the Java proxy alone.
LEMMA TypeKept ==
  ASSUME PanelInv, Numbered(runs)', (latest \in [Devices -> 0 .. MaxRuns])',
         routed' \subseteq Devices, abandoned' \subseteq Devices,
         launches' \subseteq LaunchKind, stops' \subseteq StopCalls, cards' \subseteq Cards,
         pills' \in Seq(Pills), polls' \subseteq PollCalls, UNCHANGED javaVars
  PROVE  RunsTypeOK'
<1>1. \A i \in DOMAIN pills' : pills'[i] \in Pills
  OBVIOUS
<1>2. runs' \subseteq Rows /\ \A r, s \in runs' : r.n = s.n => r = s
  BY Zenon DEF Numbered
<1>3. /\ {java, javaShown, page}' \subseteq BOOLEAN /\ javaLate' \subseteq {"set", "unset"}
      /\ javaCall' \in {NoJavaCall} \cup [to : {"set", "unset"}, done : BOOLEAN]
      /\ javaAnswer' \in {"none", "set", "unset"}
      /\ flips' \in 0 .. MaxFlips
  BY Zenon DEF PanelInv, RunsTypeOK, javaVars
<1> QED
  BY <1>1, <1>2, <1>3, Zenon DEF RunsTypeOK, LaunchKind, StopCalls, Cards, PollCalls

\* A step that adds no pill, and no launch that is done.
LEMMA LinksKept ==
  ASSUME NumberedRuns, Numbered(runs)', \A n, d : Ran(n, d) => Ran(n, d)',
         pills' \in Seq(Pills), PillSet' \subseteq PillSet,
         \A s \in stops' : \/ s.of \in PillSet \/ \E q \in stops : q.of = s.of
                           \/ /\ Ran(s.of.n, s.of.dev) /\ OnDevice(s.of)
                              /\ \E c \in FridaCards : s.of.n = c.n,
         \A c \in cards' : c.type = "frida" => c \in cards,
         \A l \in launches' : \/ l \in launches
                              \/ /\ l.state # "done"
                                 /\ l.what.type \in {"frida", "adb"} <=> l.dev # "none"
  PROVE  NumberedRuns'
<1>0. FridaCards' \subseteq FridaCards
  BY DEF FridaCards
<1>1. \A p \in PillSet' : Ran(p.n, p.dev)' /\ OnDevice(p)
  BY DEF NumberedRuns
<1>2. \A s \in stops' : Ran(s.of.n, s.of.dev)' /\ OnDevice(s.of)
  BY DEF NumberedRuns
<1>3. \A l \in launches' : l.what.type \in {"frida", "adb"} <=> l.dev # "none"
  BY DEF NumberedRuns
<1>4. ASSUME NEW l \in launches', l.state = "done"
      PROVE  /\ Ran(l.n, l.dev)'
             /\ \A c \in FridaCards' : c.n # l.n
             /\ \A p \in PillSet' : p.n # l.n
             /\ \A s \in stops' : s.of.n # l.n
             /\ \A m \in launches' : m.state = "done" /\ m.n = l.n => m = l
  BY <1>0, <1>4 DEF NumberedRuns
<1>5. ASSUME NEW c \in FridaCards' PROVE \E r \in runs' : r.n = c.n
  <2>1. PICK r \in runs : r.n = c.n
    BY <1>0 DEF NumberedRuns
  <2>2. Ran(c.n, r.dev)
    BY <2>1 DEF Ran
  <2>3. Ran(c.n, r.dev)'
    BY <2>2
  <2> QED
    BY <2>3 DEF Ran
<1> QED
  BY <1>1, <1>2, <1>3, <1>4, <1>5 DEF NumberedRuns, OnDevice

\* A step that takes away nothing that supports a device.
LEMMA SupportKept ==
  ASSUME NEW d, Supported(d), PillSet \subseteq PillSet',
         \A l \in launches : l.state = "done" => l \in launches',
         \A s \in stops' : s.done => s \in stops
  PROVE  Supported(d)'
BY DEF Supported

LEMMA LaunchKeeps ==
  ASSUME PanelInv, NEW what \in Targets, NEW d \in Devices \cup {"none"}, Launch(what, d)
  PROVE  PanelInv'
<1>1. /\ Numbered(runs) /\ latest \in [Devices -> 0 .. MaxRuns]
      /\ routed \subseteq Devices /\ abandoned \subseteq Devices
      /\ launches \subseteq LaunchKind /\ stops \subseteq StopCalls /\ cards \subseteq Cards
      /\ pills \in Seq(Pills) /\ polls \subseteq PollCalls
  BY PanelFacts
<1>2. PICK l : l = [what |-> what, dev |-> d, n |-> 0, state |-> "called", here |-> TRUE]
  OBVIOUS
<1>3. /\ launches' = launches \cup {l} /\ (what.type \in {"frida", "adb"} <=> d # "none")
      /\ UNCHANGED <<runs, latest, routed, stops, cards, pills, abandoned, polls, javaVars>>
  BY <1>2, Zenon DEF Launch
<1>4. l \in LaunchKind /\ l.state = "called" /\ l.what = what /\ l.dev = d
  <2>1. 0 \in 0 .. MaxRuns
    BY RunsAssumption
  <2> QED
    BY <1>2, <2>1 DEF LaunchKind
<1>5. PillSet' = PillSet /\ \A n, e : Ran(n, e) => Ran(n, e)'
  BY <1>3 DEF PillSet, Ran
<1>6. NumberedRuns'
  BY <1>1, <1>3, <1>4, <1>5, LinksKept DEF PanelInv
<1>7. RunsTypeOK'
  BY <1>1, <1>3, <1>4, TypeKept
<1>8. \A e \in (routed \ abandoned)' : Supported(e)'
  BY <1>3, <1>5, SupportKept DEF PanelInv
<1> QED
  BY <1>6, <1>7, <1>8, Zenon DEF PanelInv

\* The run of a launch has a number that no pill, no stop and no other launch has.
LEMMA LaunchedKeeps ==
  ASSUME PanelInv, NEW l \in launches, Launched(l)
  PROVE  PanelInv'
<1>1. /\ Numbered(runs) /\ latest \in [Devices -> 0 .. MaxRuns]
      /\ routed \subseteq Devices /\ abandoned \subseteq Devices
      /\ launches \subseteq LaunchKind /\ stops \subseteq StopCalls /\ cards \subseteq Cards
      /\ pills \in Seq(Pills) /\ polls \subseteq PollCalls /\ PillSet \subseteq Pills
  BY PanelFacts
<1>2. PICK k \in Nat : k = Cardinality(runs)
  BY <1>1, FS_CardinalityType DEF Numbered
<1>2a. PICK ok \in {TRUE, l.what # SpawnFrida} : LaunchedWith(l, ok)
  BY Zenon DEF Launched
<1> DEFINE adb   == NextRun
           first == ok /\ l.what = SpawnFrida
           num   == IF first THEN NextRun + 1 ELSE NextRun
           route == IF ok /\ l.what.device
                      THEN /\ routed' = routed \cup {l.dev}
                           /\ latest' = [latest EXCEPT ![l.dev] = adb]
                      ELSE UNCHANGED <<routed, latest>>
           added == IF first THEN {Row(adb, "adb", l.dev, TRUE)} ELSE {}
<1>3. PICK mine : mine = num
  OBVIOUS
<1>4. NextRun = k + 1 /\ mine = IF first THEN k + 2 ELSE k + 1
  BY <1>2, <1>3 DEF NextRun
<1>5. PICK old : old = runs \cup added
  OBVIOUS
<1>6. PICK row : row = Row(mine, l.what.type, l.dev, l.what.row)
  OBVIOUS
<1>7. PICK done : done = [l EXCEPT !.n = mine, !.state = "done"]
  OBVIOUS
<1>8. PICK failed : failed = [l EXCEPT !.state = "failed"]
  OBVIOUS
<1>9. /\ l.state = "called" /\ mine <= MaxRuns
      /\ \/ /\ launches' = (launches \ {l}) \cup {done}
            /\ runs' = old \cup {row}
            /\ route /\ abandoned' = abandoned \ {l.dev}
         \/ /\ launches' = (launches \ {l}) \cup {failed}
            /\ runs' = old
            /\ IF first THEN route /\ abandoned' = abandoned \cup {l.dev}
                        ELSE UNCHANGED <<routed, latest, abandoned>>
      /\ UNCHANGED <<stops, cards, pills, polls, javaVars>>
  BY <1>2a, <1>3, <1>5, <1>6, <1>7, <1>8, Zenon DEF LaunchedWith
<1>10. /\ l \in LaunchKind /\ l.what \in Targets /\ l.dev \in Devices \cup {"none"}
       /\ l.what.type \in Types /\ l.what.row \in BOOLEAN
       /\ l.what.type \in {"frida", "adb"} <=> l.dev # "none"
       /\ l.what.device => l.dev \in Devices /\ l.what.type \in {"frida", "adb"}
       /\ l.what = SpawnFrida => l.what.device
  <2>1. l \in LaunchKind /\ (l.what.type \in {"frida", "adb"} <=> l.dev # "none")
    BY <1>1 DEF PanelInv, NumberedRuns
  <2>2. l.what \in Targets /\ l.dev \in Devices \cup {"none"}
    BY <2>1 DEF LaunchKind
  <2> QED
    BY <2>1, <2>2, TargetShapes
<1>11. MaxRuns \in Nat /\ mine \in 1 .. MaxRuns /\ k + 1 \in 1 .. MaxRuns
  BY <1>2, <1>4, <1>9, RunsAssumption
<1>12. /\ done \in LaunchKind /\ done.state = "done" /\ done.n = mine /\ done.dev = l.dev
       /\ done.what = l.what
       /\ failed \in LaunchKind /\ failed.state = "failed" /\ failed.dev = l.dev
       /\ failed.what = l.what
  <2>1. mine \in 0 .. MaxRuns
    BY <1>11
  <2> QED
    BY <1>7, <1>8, <1>10, <2>1 DEF LaunchKind
<1>13. row \in Rows /\ row.n = mine /\ row.dev = l.dev
  BY <1>6, <1>10, <1>11 DEF Row, Rows
<1>14. Numbered(old) /\ Cardinality(old) + 1 = mine /\ runs \subseteq old
  <2>1. CASE first
    <3>1. PICK x : x = Row(k + 1, "adb", l.dev, TRUE)
      OBVIOUS
    <3>2. x \in Rows /\ x.n = k + 1
      BY <1>10, <1>11, <3>1 DEF Row, Rows, Types
    <3>3. old = runs \cup {x}
      BY <1>4, <1>5, <2>1, <3>1
    <3>4. Numbered(old) /\ Cardinality(old) = k + 1
      BY <1>1, <1>2, <3>2, <3>3, AddRow
    <3> QED
      BY <1>2, <1>4, <2>1, <3>3, <3>4
  <2>2. CASE ~ first
    BY <1>1, <1>2, <1>4, <1>5, <2>2
  <2> QED
    BY <2>1, <2>2
<1>15. Numbered(old \cup {row})
  BY <1>13, <1>14, AddRow
<1>16. Numbered(runs)' /\ \A n, e : Ran(n, e) => Ran(n, e)'
  BY <1>9, <1>14, <1>15 DEF Ran
<1>17. \A n, e : Ran(n, e) => n # mine
  <2>1. \A r \in runs : r.n \in 1 .. k
    BY <1>1, <1>2 DEF Numbered
  <2>2. \A r \in runs : r.n # mine
    BY <1>2, <1>4, <2>1
  <2> QED
    BY <2>2 DEF Ran
<1>18. PillSet' = PillSet
  BY <1>9 DEF PillSet
<1>19. /\ routed' \subseteq Devices /\ routed' \subseteq routed \cup {l.dev}
       /\ latest' \in [Devices -> 0 .. MaxRuns]
       /\ abandoned' \subseteq Devices /\ abandoned \subseteq abandoned' \cup {l.dev}
       /\ launches' \subseteq LaunchKind
  <2>1. k + 1 \in 0 .. MaxRuns
    BY <1>11
  <2>2. route => /\ routed' \subseteq Devices /\ routed' \subseteq routed \cup {l.dev}
                 /\ latest' \in [Devices -> 0 .. MaxRuns]
    BY <1>1, <1>4, <1>10, <2>1
  <2>3. launches' \subseteq LaunchKind
    BY <1>1, <1>9, <1>12
  <2> QED
    BY <1>1, <1>9, <1>10, <2>2, <2>3
<1>20. RunsTypeOK'
  BY <1>1, <1>9, <1>16, <1>19, TypeKept
<1>21. CASE launches' = (launches \ {l}) \cup {done} /\ runs' = old \cup {row}
  <2>1. Ran(mine, l.dev)'
    BY <1>13, <1>21 DEF Ran
  <2>2. \A p \in PillSet : p.n # mine
    BY <1>17 DEF PanelInv, NumberedRuns
  <2>3. \A s \in stops : s.of.n # mine
    BY <1>17 DEF PanelInv, NumberedRuns
  <2>4. \A m \in launches : m.state = "done" => m.n # mine
    BY <1>17 DEF PanelInv, NumberedRuns
  <2>4a. FridaCards' = FridaCards /\ \A c \in FridaCards : c.n # mine /\ \E r \in runs' : r.n = c.n
    <3>1. \A c \in FridaCards : \E r \in runs : r.n = c.n
      BY DEF PanelInv, NumberedRuns
    <3>2. runs \subseteq runs'
      BY <1>14, <1>21
    <3>3. FridaCards' = FridaCards
      BY <1>9 DEF FridaCards
    <3> QED
      BY <1>17, <3>1, <3>2, <3>3 DEF Ran
  <2>5. ASSUME NEW m \in launches', m.state = "done"
        PROVE  /\ Ran(m.n, m.dev)'
               /\ \A c \in FridaCards' : c.n # m.n
               /\ \A p \in PillSet' : p.n # m.n
               /\ \A s \in stops' : s.of.n # m.n
               /\ \A o \in launches' : o.state = "done" /\ o.n = m.n => o = m
    <3>1. CASE m = done
      <4>1. \A o \in launches' : o.state = "done" /\ o.n = m.n => o = m
        BY <1>12, <1>21, <2>4, <3>1
      <4> QED
        BY <1>9, <1>12, <1>18, <2>1, <2>2, <2>3, <2>4a, <3>1, <4>1
    <3>2. CASE m \in launches /\ m # done
      <4>1. m.n # mine
        BY <2>4, <2>5, <3>2
      <4>2. \A o \in launches' : o.state = "done" /\ o.n = m.n => o = m
        BY <1>12, <1>21, <2>5, <3>2, <4>1 DEF PanelInv, NumberedRuns
      <4>3. /\ Ran(m.n, m.dev)' /\ \A p \in PillSet' : p.n # m.n
            /\ \A c \in FridaCards' : c.n # m.n
            /\ \A s \in stops' : s.of.n # m.n
        BY <1>9, <1>16, <1>18, <2>4a, <2>5, <3>2 DEF PanelInv, NumberedRuns
      <4> QED
        BY <4>2, <4>3
    <3> QED
      BY <1>21, <3>1, <3>2
  <2>6. \A m \in launches' : m.what.type \in {"frida", "adb"} <=> m.dev # "none"
    BY <1>10, <1>12, <1>21 DEF PanelInv, NumberedRuns
  <2>7. /\ \A p \in PillSet' : Ran(p.n, p.dev)' /\ OnDevice(p)
        /\ \A s \in stops' : Ran(s.of.n, s.of.dev)' /\ OnDevice(s.of)
    BY <1>9, <1>16, <1>18 DEF PanelInv, NumberedRuns
  <2>8. pills' \in Seq(Pills)
    BY <1>1, <1>9
  <2>9. NumberedRuns'
    BY <1>16, <2>4a, <2>5, <2>6, <2>7, <2>8 DEF NumberedRuns, OnDevice
  <2>10. ASSUME NEW e \in (routed \ abandoned)' PROVE Supported(e)'
    <3>1. CASE e = l.dev
      BY <1>12, <1>21, <3>1 DEF Supported
    <3>2. CASE e # l.dev
      <4>1. Supported(e)
        BY <1>19, <2>10, <3>2 DEF PanelInv
      <4>2. \A m \in launches : m.state = "done" => m \in launches'
        BY <1>9, <1>21
      <4> QED
        BY <1>9, <1>18, <4>1, <4>2, SupportKept
    <3> QED
      BY <3>1, <3>2
  <2> QED
    BY <1>20, <2>9, <2>10, Zenon DEF PanelInv
<1>22. CASE /\ launches' = (launches \ {l}) \cup {failed}
            /\ IF first THEN route /\ abandoned' = abandoned \cup {l.dev}
                        ELSE UNCHANGED <<routed, latest, abandoned>>
  <2>1. \A m \in launches' : m \in launches \/ /\ m.state # "done"
                                               /\ m.what.type \in {"frida", "adb"} <=> m.dev # "none"
    BY <1>10, <1>12, <1>22
  <2>2. NumberedRuns'
    BY <1>1, <1>9, <1>16, <1>18, <2>1, LinksKept DEF PanelInv
  <2>3. ASSUME NEW e \in (routed \ abandoned)' PROVE Supported(e)'
    <3>1. Supported(e)
      BY <1>19, <1>22, <2>3 DEF PanelInv
    <3>2. \A m \in launches : m.state = "done" => m \in launches'
      BY <1>9, <1>22
    <3> QED
      BY <1>9, <1>18, <3>1, <3>2, SupportKept
  <2> QED
    BY <1>20, <2>2, <2>3, Zenon DEF PanelInv
<1> QED
  BY <1>9, <1>21, <1>22, Zenon

\* The pill of a launch takes over from it.
LEMMA BegunKeeps ==
  ASSUME PanelInv, NEW l \in launches, Begun(l)
  PROVE  PanelInv'
<1>1. /\ Numbered(runs) /\ latest \in [Devices -> 0 .. MaxRuns]
      /\ routed \subseteq Devices /\ abandoned \subseteq Devices
      /\ launches \subseteq LaunchKind /\ stops \subseteq StopCalls /\ cards \subseteq Cards
      /\ pills \in Seq(Pills) /\ polls \subseteq PollCalls /\ PillSet \subseteq Pills
  BY PanelFacts
<1>2. /\ l.state # "called" /\ launches' = launches \ {l}
      /\ UNCHANGED <<runs, latest, routed, stops, abandoned, polls, javaVars>>
  BY Zenon DEF Begun
<1>3. /\ l \in LaunchKind /\ l.state \in {"done", "failed"} /\ l.what.type \in Types
      /\ l.dev \in Devices \cup {"none"} /\ (l.what.type \in {"frida", "adb"} <=> l.dev # "none")
      /\ l.what.type \in {"frida", "adb"} => l.what.pill
  <2>1. l \in LaunchKind /\ (l.what.type \in {"frida", "adb"} <=> l.dev # "none")
    BY <1>1 DEF PanelInv, NumberedRuns
  <2>2. /\ l.what \in Targets /\ l.dev \in Devices \cup {"none"}
        /\ l.state \in {"called", "done", "failed"}
    BY <2>1 DEF LaunchKind
  <2> QED
    BY <1>2, <2>1, <2>2, TargetShapes
<1>4. \A n, e : Ran(n, e) => Ran(n, e)'
  BY <1>2 DEF Ran
<1>5. Numbered(runs)'
  BY <1>1, <1>2
<1>6. CASE UNCHANGED <<cards, pills>> /\ l.state # "done"
  <2>1. PillSet' = PillSet
    BY <1>6 DEF PillSet
  <2>2. NumberedRuns'
    BY <1>1, <1>2, <1>4, <1>5, <1>6, <2>1, LinksKept DEF PanelInv
  <2>3. RunsTypeOK'
    BY <1>1, <1>2, <1>6, TypeKept
  <2>4. \A e \in (routed \ abandoned)' : Supported(e)'
    BY <1>2, <1>6, <2>1, SupportKept DEF PanelInv
  <2> QED
    BY <2>2, <2>3, <2>4, Zenon DEF PanelInv
<1>7. CASE l.state = "done"
  <2>1. PICK p : p = [n |-> l.n, type |-> l.what.type, dev |-> l.dev]
    OBVIOUS
  <2>1a. PICK c : c = [n |-> l.n, type |-> l.what.type]
    OBVIOUS
  <2>2. /\ cards' \subseteq cards \cup {c}
        /\ pills' = IF l.what.pill THEN Append(pills, p) ELSE pills
    BY <1>7, <2>1, <2>1a DEF Begun
  <2>3. Ran(l.n, l.dev) /\ l.n \in 1 .. MaxRuns
    <3>1. Ran(l.n, l.dev)
      BY <1>7 DEF PanelInv, NumberedRuns
    <3> QED
      BY <1>1, <3>1 DEF Numbered, Ran, Rows
  <2>4. p \in Pills /\ p.n = l.n /\ p.dev = l.dev /\ p.type = l.what.type /\ OnDevice(p)
    BY <1>3, <2>1, <2>3 DEF Pills, OnDevice
  <2>5. cards' \subseteq Cards /\ c.n = l.n
    BY <1>1, <1>3, <2>1a, <2>2, <2>3 DEF Cards
  <2>5a. /\ \A d \in FridaCards' : d \in FridaCards \/ d.n = l.n
         /\ \A d \in FridaCards' : \E r \in runs' : r.n = d.n
    <3>1. \A d \in FridaCards' : d \in FridaCards \/ d.n = l.n
      BY <2>2, <2>5 DEF FridaCards
    <3> QED
      BY <1>2, <2>3, <3>1 DEF PanelInv, NumberedRuns, Ran
  <2>6. pills' \in Seq(Pills)
    BY <1>1, <2>2, <2>4
  <2>7. PillSet' = IF l.what.pill THEN PillSet \cup {p} ELSE PillSet
    <3>1. CASE l.what.pill
      <4>1. PICK s \in Seq(Pills) : s = pills
        BY <1>1
      <4>2. pills' = Append(s, p)
        BY <2>2, <3>1, <4>1
      <4>3. DOMAIN Append(s, p) = 1 .. Len(s) + 1 /\ DOMAIN s = 1 .. Len(s) /\ Len(s) \in Nat
        BY <2>4
      <4>4. Append(s, p)[Len(s) + 1] = p /\ \A i \in 1 .. Len(s) : Append(s, p)[i] = s[i]
        BY <2>4
      <4>5. {Append(s, p)[i] : i \in DOMAIN Append(s, p)} = {s[i] : i \in DOMAIN s} \cup {p}
        <5>1. 1 .. (Len(s) + 1) = (1 .. Len(s)) \cup {Len(s) + 1}
          BY <4>3
        <5> QED
          BY <4>3, <4>4, <5>1
      <4> QED
        BY <3>1, <4>1, <4>2, <4>5 DEF PillSet
    <3>2. CASE ~ l.what.pill
      BY <2>2, <3>2 DEF PillSet
    <3> QED
      BY <3>1, <3>2
  <2>8. RunsTypeOK'
    BY <1>1, <1>2, <1>5, <2>5, <2>6, TypeKept
  <2>9. \A q \in PillSet' : Ran(q.n, q.dev)' /\ OnDevice(q)
    BY <1>4, <2>3, <2>4, <2>7 DEF PanelInv, NumberedRuns
  <2>10. /\ \A s \in stops' : Ran(s.of.n, s.of.dev)' /\ OnDevice(s.of) /\ s.of.n # l.n
         /\ \A m \in launches' : m.what.type \in {"frida", "adb"} <=> m.dev # "none"
    BY <1>2, <1>4, <1>7 DEF PanelInv, NumberedRuns
  <2>11. ASSUME NEW m \in launches', m.state = "done"
         PROVE  /\ Ran(m.n, m.dev)'
                /\ \A d \in FridaCards' : d.n # m.n
                /\ \A q \in PillSet' : q.n # m.n
                /\ \A s \in stops' : s.of.n # m.n
                /\ \A o \in launches' : o.state = "done" /\ o.n = m.n => o = m
    <3>1. m \in launches /\ m # l
      BY <1>2, <2>11
    <3>2. m.n # l.n
      BY <1>7, <2>11, <3>1 DEF PanelInv, NumberedRuns
    <3>3. /\ Ran(m.n, m.dev) /\ \A d \in FridaCards : d.n # m.n
          /\ \A q \in PillSet : q.n # m.n
          /\ \A s \in stops : s.of.n # m.n
          /\ \A o \in launches : o.state = "done" /\ o.n = m.n => o = m
      BY <2>11, <3>1 DEF PanelInv, NumberedRuns
    <3> QED
      BY <1>2, <1>4, <2>4, <2>5a, <2>7, <3>2, <3>3
  <2>12. NumberedRuns'
    BY <1>5, <2>5a, <2>6, <2>9, <2>10, <2>11 DEF NumberedRuns, OnDevice
  <2>13. ASSUME NEW e \in (routed \ abandoned)' PROVE Supported(e)'
    <3>1. Supported(e) /\ e \in Devices
      BY <1>1, <1>2 DEF PanelInv
    <3>2. CASE \E m \in launches : m.dev = e /\ m.state = "done" /\ m # l
      BY <1>2, <3>2 DEF Supported
    <3>3. CASE l.dev = e
      <4>1. p \in PillSet'
        BY <1>3, <2>7, <3>1, <3>3, RunsAssumption
      <4> QED
        BY <2>4, <2>10, <3>3, <4>1 DEF Supported
    <3>4. CASE \E q \in PillSet : q.dev = e /\ \A s \in stops : s.done => s.of.n # q.n
      BY <1>2, <2>7, <3>4 DEF Supported
    <3> QED
      BY <3>1, <3>2, <3>3, <3>4 DEF Supported
  <2> QED
    BY <2>8, <2>12, <2>13, Zenon DEF PanelInv
<1> QED
  <2>1. l.state = "failed" => UNCHANGED <<cards, pills>>
    BY Zenon DEF Begun
  <2> QED
    BY <1>3, <1>6, <1>7, <2>1

\* What is removed has a stop, or a cross, that frees its device or gives it up.
LEMMA StopsKeep ==
  ASSUME PanelInv, \/ StopPill
                   \/ \E s \in stops : Stopped(s) \/ StopEnds(s) \/ StopFails(s)
                   \/ \E c \in cards : StopCard(c) \/ RemoveCard(c)
  PROVE  PanelInv'
<1>1. /\ Numbered(runs) /\ latest \in [Devices -> 0 .. MaxRuns]
      /\ routed \subseteq Devices /\ abandoned \subseteq Devices
      /\ launches \subseteq LaunchKind /\ stops \subseteq StopCalls /\ cards \subseteq Cards
      /\ pills \in Seq(Pills) /\ polls \subseteq PollCalls /\ PillSet \subseteq Pills
  BY PanelFacts
<1>2. 0 \in 0 .. MaxRuns
  BY RunsAssumption
<1>3. CASE StopPill
  <2>1. PICK s : s = [of |-> Head(pills), done |-> FALSE, by |-> "pill"]
    OBVIOUS
  <2>2. /\ pills # <<>> /\ stops' = stops \cup {s}
        /\ UNCHANGED <<runs, latest, routed, launches, cards, pills, abandoned, polls, javaVars>>
    BY <1>3, <2>1, Zenon DEF StopPill
  <2>3. Head(pills) \in PillSet
    <3>1. 1 \in DOMAIN pills /\ Head(pills) = pills[1]
      BY <1>1, <2>2
    <3> QED
      BY <3>1 DEF PillSet
  <2>4. s \in StopCalls /\ s.of \in PillSet /\ s.done = FALSE
    BY <1>1, <2>1, <2>3 DEF StopCalls
  <2>5. PillSet' = PillSet /\ \A n, e : Ran(n, e) => Ran(n, e)'
    BY <2>2 DEF PillSet, Ran
  <2>6. RunsTypeOK'
    BY <1>1, <2>2, <2>4, TypeKept
  <2>7. NumberedRuns'
    BY <1>1, <2>2, <2>4, <2>5, LinksKept DEF PanelInv
  <2>8. \A e \in (routed \ abandoned)' : Supported(e)'
    BY <2>2, <2>4, <2>5, SupportKept DEF PanelInv
  <2> QED
    BY <2>6, <2>7, <2>8, Zenon DEF PanelInv
<1>4. ASSUME NEW s \in stops, Stopped(s) PROVE PanelInv'
  <2>1. PICK t : t = [s EXCEPT !.done = TRUE]
    OBVIOUS
  <2> DEFINE device == {s.of.dev} \cap Devices
             newest == {latest[d] : d \in device}
             giveUp == routed' = routed /\ abandoned' = abandoned \cup (routed \cap device)
             free == /\ latest' = [latest EXCEPT ![s.of.dev] = 0]
                     /\ giveUp \/ (routed' = routed \ device /\ abandoned' = abandoned \ device)
  <2>2. /\ stops' = (stops \ {s}) \cup {t}
        /\ UNCHANGED <<launches, cards, pills, polls, javaVars>>
        /\ \/ s.of.type = "adb" /\ free /\ runs' = EndRuns(newest)
           \/ s.of.type = "frida" /\ free /\ runs' = EndRuns(newest \cup {s.of.n})
           \/ /\ s.of.type = "frida" /\ giveUp /\ runs' \in {runs, EndRuns({s.of.n})}
              /\ UNCHANGED latest
           \/ s.of.type \notin {"adb", "frida"} /\ UNCHANGED <<runs, routed, latest, abandoned>>
    BY <1>4, <2>1, Zenon DEF Stopped
  <2>3. s \in StopCalls /\ t \in StopCalls /\ t.of = s.of
    BY <1>1, <2>1 DEF StopCalls
  <2>4. /\ routed' \subseteq routed /\ abandoned' \subseteq Devices
        /\ latest' \in [Devices -> 0 .. MaxRuns]
    BY <1>1, <1>2, <2>2
  <2>5. Numbered(runs)' /\ \A n, e : Ran(n, e) => Ran(n, e)'
    <3>1. CASE runs' = runs
      BY <1>1, <3>1 DEF Ran
    <3>2. CASE \E S : runs' = EndRuns(S)
      BY <1>1, <3>2, EndKeeps
    <3> HIDE DEF newest, free, giveUp, device
    <3>3. runs' = runs \/ \E S : runs' = EndRuns(S)
      BY <2>2
    <3> QED
      BY <3>1, <3>2, <3>3
  <2>6. PillSet' = PillSet
    BY <2>2 DEF PillSet
  <2>7. RunsTypeOK'
    BY <1>1, <2>2, <2>3, <2>4, <2>5, TypeKept
  <2>8. NumberedRuns'
    BY <1>1, <2>2, <2>3, <2>5, <2>6, LinksKept DEF PanelInv
  <2>9. ASSUME NEW e \in (routed \ abandoned)' PROVE Supported(e)'
    <3>1. e # s.of.dev /\ e \in routed \ abandoned
      <4>1. CASE s.of.type \in {"adb", "frida"}
        BY <1>1, <2>2, <2>4, <2>9, <4>1
      <4>2. CASE s.of.type \notin {"adb", "frida"}
        <5>1. s.of.dev = "none"
          BY <4>2 DEF PanelInv, NumberedRuns, OnDevice
        <5>2. e \in routed \ abandoned
          BY <2>2, <2>9, <4>2
        <5> QED
          BY <1>1, <5>1, <5>2, RunsAssumption
      <4> QED
        BY <4>1, <4>2
    <3>2. Supported(e)
      BY <3>1 DEF PanelInv
    <3>3. \A p \in PillSet : p.dev = e => p.n # s.of.n
      BY <1>1, <3>1, OneDevice DEF PanelInv, NumberedRuns
    <3> QED
      BY <2>2, <2>3, <2>6, <3>2, <3>3 DEF Supported
  <2> QED
    BY <2>7, <2>8, <2>9, Zenon DEF PanelInv
<1>5. ASSUME NEW s \in stops, Removed(s),
             \/ s.done /\ abandoned' = abandoned
             \/ abandoned' = abandoned \cup (routed \cap {s.of.dev}),
             UNCHANGED <<runs, latest, routed, launches, polls, javaVars>>
      PROVE  PanelInv'
  <2>1. /\ stops' = stops \ {s} /\ pills' = Without(pills, s.of.n) /\ cards' \subseteq cards
        /\ UNCHANGED <<runs, latest, routed, launches, polls, javaVars>>
    BY <1>5 DEF Removed
  <2>2. pills' \in Seq(Pills) /\ PillSet' = {p \in PillSet : p.n # s.of.n}
    BY <1>1, <2>1, PillsLeft
  <2>3. \A n, e : Ran(n, e) => Ran(n, e)'
    BY <2>1 DEF Ran
  <2>4. abandoned \subseteq abandoned' /\ abandoned' \subseteq Devices
    BY <1>1, <1>5
  <2>5. RunsTypeOK'
    BY <1>1, <2>1, <2>2, <2>4, TypeKept
  <2>6. NumberedRuns'
    BY <1>1, <2>1, <2>2, <2>3, LinksKept DEF PanelInv
  <2>7. ASSUME NEW e \in (routed \ abandoned)' PROVE Supported(e)'
    <3>1. Supported(e) /\ e \in routed
      BY <2>1, <2>4, <2>7 DEF PanelInv
    <3>2. CASE s.done
      BY <2>1, <2>2, <3>1, <3>2 DEF Supported
    <3>3. CASE e # s.of.dev
      <4>1. \A p \in PillSet : p.dev = e => p.n # s.of.n
        BY <1>1, <3>3, OneDevice DEF PanelInv, NumberedRuns
      <4> QED
        BY <2>1, <2>2, <3>1, <4>1 DEF Supported
    <3> QED
      BY <1>5, <2>7, <3>1, <3>2, <3>3
  <2> QED
    BY <2>5, <2>6, <2>7, Zenon DEF PanelInv
<1>6. ASSUME NEW s \in stops, StopEnds(s) PROVE PanelInv'
  <2>1. /\ s.done /\ Removed(s) /\ abandoned' = abandoned
        /\ UNCHANGED <<runs, latest, routed, launches, polls, javaVars>>
    BY <1>6, Zenon DEF StopEnds
  <2> QED
    BY <1>5, <2>1
<1>7. ASSUME NEW s \in stops, StopFails(s) PROVE PanelInv'
  <2>1. CASE s.by # "pill"
    <3>1. /\ Removed(s) /\ abandoned' = abandoned \cup (routed \cap {s.of.dev})
          /\ UNCHANGED <<runs, latest, routed, launches, polls, javaVars>>
      BY <1>7, <2>1, Zenon DEF StopFails
    <3> QED
      BY <1>5, <3>1
  <2>2. CASE s.by = "pill"
    <3>1. /\ stops' = stops \ {s}
          /\ UNCHANGED <<runs, latest, routed, launches, cards, pills, abandoned, polls, javaVars>>
      BY <1>7, <2>2, Zenon DEF StopFails
    <3>2. PillSet' = PillSet /\ \A n, e : Ran(n, e) => Ran(n, e)'
      BY <3>1 DEF PillSet, Ran
    <3>3. RunsTypeOK'
      BY <1>1, <3>1, TypeKept
    <3>4. NumberedRuns'
      BY <1>1, <3>1, <3>2, LinksKept DEF PanelInv
    <3>5. \A e \in (routed \ abandoned)' : Supported(e)'
      BY <3>1, <3>2, SupportKept DEF PanelInv
    <3> QED
      BY <3>3, <3>4, <3>5, Zenon DEF PanelInv
  <2> QED
    BY <2>1, <2>2
<1>8. ASSUME NEW c \in cards, StopCard(c) PROVE PanelInv'
  <2>1. /\ c.type = "frida"
        /\ UNCHANGED <<runs, latest, routed, launches, cards, pills, abandoned, polls, javaVars>>
    BY <1>8, Zenon DEF StopCard
  <2>2. PICK r \in runs :
           /\ r.n = c.n
           /\ stops' = stops \cup {[of |-> [n |-> c.n, type |-> "frida", dev |-> r.dev],
                                    done |-> FALSE, by |-> "card"]}
    BY <1>8, Zenon DEF StopCard
  <2>3. PICK p : p = [n |-> c.n, type |-> "frida", dev |-> r.dev]
    OBVIOUS
  <2>4. PICK s : s = [of |-> p, done |-> FALSE, by |-> "card"]
    OBVIOUS
  <2>5. p \in Pills /\ p.n = c.n /\ p.dev = r.dev /\ OnDevice(p)
    BY <1>1, <2>2, <2>3 DEF Numbered, Rows, Pills, Types, OnDevice
  <2>6. s \in StopCalls /\ s.of = p /\ s.done = FALSE
    BY <2>4, <2>5 DEF StopCalls
  <2>7. stops' = stops \cup {s}
    BY <2>2, <2>3, <2>4
  <2>8. Ran(p.n, p.dev) /\ c \in FridaCards
    BY <2>1, <2>2, <2>5 DEF Ran, FridaCards
  <2>9. PillSet' = PillSet /\ \A n, e : Ran(n, e) => Ran(n, e)'
    BY <2>1 DEF PillSet, Ran
  <2>10. RunsTypeOK'
    BY <1>1, <2>1, <2>6, <2>7, TypeKept
  <2>11. NumberedRuns'
    BY <1>1, <2>1, <2>5, <2>6, <2>7, <2>8, <2>9, LinksKept DEF PanelInv
  <2>12. \A e \in (routed \ abandoned)' : Supported(e)'
    BY <2>1, <2>6, <2>7, <2>9, SupportKept DEF PanelInv
  <2> QED
    BY <2>10, <2>11, <2>12, Zenon DEF PanelInv
<1>9. ASSUME NEW c \in cards, RemoveCard(c) PROVE PanelInv'
  <2> DEFINE device == {r.dev : r \in {q \in runs : q.n = c.n}} \cap routed
  <2>1. /\ cards' = {d \in cards : d.n # c.n} /\ pills' = Without(pills, c.n)
        /\ abandoned' = abandoned \cup device
        /\ UNCHANGED <<runs, latest, routed, launches, stops, polls, javaVars>>
    BY <1>9, Zenon DEF RemoveCard
  <2>2. device \subseteq routed /\ \A d : Ran(c.n, d) /\ d \in routed => d \in device
    BY DEF Ran
  <2>3. \A n, e : Ran(n, e) => Ran(n, e)'
    BY <2>1 DEF Ran
  <2> HIDE DEF device
  <2>4. abandoned' \subseteq Devices /\ (routed \ abandoned)' \subseteq (routed \ abandoned) \ device
    BY <1>1, <2>1, <2>2
  <2>5. pills' \in Seq(Pills) /\ PillSet' = {p \in PillSet : p.n # c.n}
    BY <1>1, <2>1, PillsLeft
  <2>6. cards' \subseteq cards
    BY <2>1
  <2>7. RunsTypeOK'
    BY <1>1, <2>1, <2>4, <2>5, <2>6, TypeKept
  <2>8. NumberedRuns'
    BY <1>1, <2>1, <2>3, <2>5, <2>6, LinksKept DEF PanelInv
  <2>9. ASSUME NEW e \in (routed \ abandoned)' PROVE Supported(e)'
    <3>1. Supported(e) /\ e \in routed /\ e \notin device
      BY <2>4 DEF PanelInv
    <3>2. \A p \in PillSet : p.dev = e => p.n # c.n
      BY <2>2, <3>1 DEF PanelInv, NumberedRuns
    <3> QED
      BY <2>1, <2>5, <3>1, <3>2 DEF Supported
  <2> QED
    BY <2>7, <2>8, <2>9, Zenon DEF PanelInv
<1> QED
  BY <1>3, <1>4, <1>6, <1>7, <1>8, <1>9

\* Steps that leave alone all that supports a device.
LEMMA SamePills ==
  ASSUME PanelInv, UNCHANGED <<runs, routed, launches, stops, cards, pills, abandoned>>
  PROVE  NumberedRuns' /\ \A d \in (routed \ abandoned)' : Supported(d)'
<1>1. PillSet' = PillSet /\ \A n, e : Ran(n, e) => Ran(n, e)'
  BY DEF PillSet, Ran
<1>2. Numbered(runs)' /\ pills' \in Seq(Pills)
  BY PanelFacts
<1> QED
  BY <1>1, <1>2, LinksKept, SupportKept DEF PanelInv

\* A page that is opened, or left with calls under way, which go on without it.
LEMMA PageKeeps ==
  ASSUME PanelInv, PageSteps
  PROVE  PanelInv'
<1>1. /\ Numbered(runs) /\ latest \in [Devices -> 0 .. MaxRuns]
      /\ routed \subseteq Devices /\ abandoned \subseteq Devices
      /\ launches \subseteq LaunchKind /\ stops \subseteq StopCalls /\ cards \subseteq Cards
      /\ pills \in Seq(Pills) /\ polls \subseteq PollCalls
  BY PanelFacts
<1> DEFINE left(l) == [l EXCEPT !.here = FALSE]
           gone(s) == [s EXCEPT !.by = IF @ = "pill" THEN @ ELSE "gone"]
<1>2. \A l \in LaunchKind : /\ left(l) \in LaunchKind
                             /\ left(l).what = l.what /\ left(l).dev = l.dev
                             /\ left(l).n = l.n /\ left(l).state = l.state
  BY DEF LaunchKind
<1>3. \A s \in StopCalls : /\ gone(s) \in StopCalls
                            /\ gone(s).of = s.of /\ gone(s).done = s.done
  BY DEF StopCalls
<1>4. /\ java \in BOOLEAN /\ page \in BOOLEAN /\ javaShown \in BOOLEAN
      /\ javaCall \in {NoJavaCall} \cup [to : {"set", "unset"}, done : BOOLEAN]
      /\ javaAnswer \in {"none", "set", "unset"} /\ flips \in 0 .. MaxFlips
      /\ javaLate \subseteq {"set", "unset"}
  BY DEF PanelInv, RunsTypeOK
<1>5. CASE OpenPage
  <2>1. /\ page' = TRUE
        /\ UNCHANGED <<runVars, polls, java, javaShown, javaCall, javaAnswer, javaLate, flips>>
    BY <1>5 DEF OpenPage
  <2>2. RunsTypeOK'
    BY <1>4, <2>1, Zenon DEF PanelInv, RunsTypeOK, runVars
  <2>3. UNCHANGED <<runs, routed, launches, stops, cards, pills, abandoned>>
    BY <2>1 DEF runVars
  <2> QED
    BY <2>2, <2>3, SamePills, Zenon DEF PanelInv
<1>6. CASE LeavePage
  <2>1. /\ launches' = {left(l) : l \in launches} /\ stops' = {gone(s) : s \in stops}
        /\ cards' = {} /\ polls' = {}
        /\ UNCHANGED <<runs, latest, routed, pills, abandoned, java, flips>>
    BY <1>6, Zenon DEF LeavePage
  <2>2. /\ page' \in BOOLEAN /\ javaShown' \in BOOLEAN /\ javaCall' = NoJavaCall
        /\ javaAnswer' = "none" /\ javaLate' \subseteq {"set", "unset"}
    BY <1>4, <1>6 DEF LeavePage, NoJavaCall
  <2> HIDE DEF left, gone
  <2>3. launches' \subseteq LaunchKind /\ stops' \subseteq StopCalls
    BY <1>1, <1>2, <1>3, <2>1
  <2>4. \A i \in DOMAIN pills' : pills'[i] \in Pills
    BY <1>1, <2>1
  <2>5. runs' \subseteq Rows /\ \A r, s \in runs' : r.n = s.n => r = s
    BY <1>1, <2>1 DEF Numbered
  <2>6. RunsTypeOK'
    <3>1. java' \in BOOLEAN /\ flips' \in 0 .. MaxFlips /\ {java, javaShown, page}' \subseteq BOOLEAN
      BY <1>4, <2>1, <2>2
    <3>2. latest' \in [Devices -> 0 .. MaxRuns] /\ routed' \subseteq Devices /\ abandoned' \subseteq Devices
      BY <1>1, <2>1
    <3>3. cards' \subseteq Cards /\ polls' \subseteq PollCalls
      BY <2>1
    <3>4. javaAnswer' \in {"none", "set", "unset"}
      BY <2>2
    <3>5. javaCall' \in {NoJavaCall} \cup [to : {"set", "unset"}, done : BOOLEAN]
      BY <2>2
    <3> QED
      BY <2>2, <2>3, <2>4, <2>5, <3>1, <3>2, <3>3, <3>4, <3>5, Zenon
         DEF RunsTypeOK, LaunchKind, StopCalls, Cards, PollCalls
  <2>7. PillSet' = PillSet /\ \A n, e : Ran(n, e) => Ran(n, e)'
    BY <2>1 DEF PillSet, Ran
  <2>8. \A l \in launches' : \E k \in launches : l = left(k) /\ l.n = k.n /\ l.dev = k.dev
                                   /\ l.state = k.state /\ l.what = k.what
    BY <1>1, <1>2, <2>1
  <2>9. \A s \in stops' : \E q \in stops : s.of = q.of /\ s.done = q.done
    BY <1>1, <1>3, <2>1
  <2>10. FridaCards' = {}
    BY <2>1 DEF FridaCards
  <2>11. ASSUME NEW l \in launches', l.state = "done"
         PROVE  /\ Ran(l.n, l.dev)'
                /\ \A p \in PillSet' : p.n # l.n
                /\ \A s \in stops' : s.of.n # l.n
                /\ \A m \in launches' : m.state = "done" /\ m.n = l.n => m = l
    <3>1. PICK k \in launches : l = left(k) /\ l.n = k.n /\ l.dev = k.dev /\ k.state = "done"
      BY <2>8, <2>11
    <3>2. /\ Ran(k.n, k.dev) /\ \A p \in PillSet : p.n # k.n
          /\ \A s \in stops : s.of.n # k.n
          /\ \A m \in launches : m.state = "done" /\ m.n = k.n => m = k
      BY <3>1 DEF PanelInv, NumberedRuns
    <3>3. \A m \in launches' : m.state = "done" /\ m.n = l.n => m = l
      BY <2>8, <3>1, <3>2
    <3> QED
      BY <2>7, <2>9, <3>1, <3>2, <3>3
  <2>12. /\ Numbered(runs)' /\ pills' \in Seq(Pills)
         /\ \A p \in PillSet' : Ran(p.n, p.dev)' /\ OnDevice(p)
         /\ \A s \in stops' : Ran(s.of.n, s.of.dev)' /\ OnDevice(s.of)
         /\ \A l \in launches' : l.what.type \in {"frida", "adb"} <=> l.dev # "none"
    <3>1. Numbered(runs)' /\ pills' \in Seq(Pills)
      BY <1>1, <2>1
    <3> QED
      BY <2>7, <2>8, <2>9, <3>1 DEF PanelInv, NumberedRuns
  <2>13. NumberedRuns'
    BY <2>10, <2>11, <2>12 DEF NumberedRuns, OnDevice
  <2>14. ASSUME NEW e \in (routed \ abandoned)' PROVE Supported(e)'
    <3>1. Supported(e)
      BY <2>1 DEF PanelInv
    <3>2. CASE \E l \in launches : l.dev = e /\ l.state = "done"
      <4>1. PICK l \in launches : l.dev = e /\ l.state = "done"
        BY <3>2
      <4>2. left(l) \in launches' /\ left(l).dev = e /\ left(l).state = "done"
        BY <1>1, <1>2, <2>1, <4>1
      <4> QED
        BY <4>2 DEF Supported
    <3>3. CASE \E p \in PillSet : p.dev = e /\ \A s \in stops : s.done => s.of.n # p.n
      BY <2>7, <2>9, <3>3 DEF Supported
    <3> QED
      BY <3>1, <3>2, <3>3 DEF Supported
  <2> QED
    BY <2>6, <2>13, <2>14, Zenon DEF PanelInv
<1> QED
  BY <1>5, <1>6 DEF PageSteps

\* Runs that end, cards and polls leave the pills alone.
LEMMA ShowsKeep ==
  ASSUME PanelInv, (\E r \in runs : RunEnds(r)) \/ DismissAll \/ PollSteps
  PROVE  PanelInv'
<1>1. /\ Numbered(runs) /\ latest \in [Devices -> 0 .. MaxRuns]
      /\ routed \subseteq Devices /\ abandoned \subseteq Devices
      /\ launches \subseteq LaunchKind /\ stops \subseteq StopCalls /\ cards \subseteq Cards
      /\ pills \in Seq(Pills) /\ polls \subseteq PollCalls
  BY PanelFacts
<1>2. UNCHANGED <<latest, routed, launches, stops, pills, abandoned, javaVars>>
  BY Zenon DEF RunEnds, DismissAll, PollSteps, PollAsks, PollReads, PollMerges, runVars
<1>3. /\ \A r \in runs : r.n \in 1 .. MaxRuns
      /\ runs' = runs \/ \E S : runs' = EndRuns(S)
  BY <1>1, Zenon DEF RunEnds, DismissAll, PollSteps, PollAsks, PollReads, PollMerges, runVars,
                     Numbered, Rows
<1>4. Numbered(runs)' /\ \A n, e : Ran(n, e) => Ran(n, e)'
  <2>1. CASE runs' = runs
    BY <1>1, <2>1 DEF Ran
  <2>2. CASE \E S : runs' = EndRuns(S)
    BY <1>1, <2>2, EndKeeps
  <2> QED
    BY <1>3, <2>1, <2>2
<1>5. cards' \subseteq Cards /\ polls' \subseteq PollCalls
  <2>1. CASE UNCHANGED cards /\ UNCHANGED polls
    BY <1>1, <2>1
  <2>2. CASE DismissAll
    BY <1>1, <2>2 DEF DismissAll
  <2>3. CASE PollAsks
    <3>1. [answered |-> FALSE, read |-> {}] \in PollCalls
      BY DEF PollCalls
    <3> QED
      BY <1>1, <2>3, <3>1 DEF PollAsks, runVars
  <2>4. ASSUME NEW p \in polls, PollReads(p) PROVE cards' \subseteq Cards /\ polls' \subseteq PollCalls
    <3>1. {r.n : r \in {q \in runs : q.on}} \subseteq 1 .. MaxRuns
      BY <1>3
    <3>2. [answered |-> TRUE, read |-> {r.n : r \in {q \in runs : q.on}}] \in PollCalls
      BY <3>1 DEF PollCalls
    <3> QED
      BY <1>1, <2>4, <3>2 DEF PollReads, runVars
  <2>5. ASSUME NEW p \in polls, PollMerges(p) PROVE cards' \subseteq Cards /\ polls' \subseteq PollCalls
    <3>1. p.read \subseteq 1 .. MaxRuns
      BY <1>1 DEF PollCalls
    <3>2. \A m \in 1 .. MaxRuns : [n |-> m, type |-> "app"] \in Cards
      BY DEF Cards
    <3>3. {[n |-> m, type |-> "app"] : m \in p.read \ KnownCards} \subseteq Cards
      BY <3>1, <3>2
    <3> QED
      BY <1>1, <2>5, <3>3 DEF PollMerges
  <2>6. (\E r \in runs : RunEnds(r)) => UNCHANGED cards /\ UNCHANGED polls
    BY Zenon DEF RunEnds
  <2> QED
    BY <2>1, <2>2, <2>3, <2>4, <2>5, <2>6 DEF PollSteps
<1>6. PillSet' = PillSet
  BY <1>2 DEF PillSet
<1>7. RunsTypeOK'
  BY <1>1, <1>2, <1>4, <1>5, TypeKept
<1>8. NumberedRuns'
  <2>1. \A c \in cards' : c.type = "frida" => c \in cards
    <3>1. ASSUME NEW p \in polls, PollMerges(p) PROVE \A c \in cards' : c.type = "frida" => c \in cards
      BY <3>1 DEF PollMerges
    <3>2. cards' \subseteq cards \/ \E p \in polls : PollMerges(p)
      BY DEF RunEnds, DismissAll, PollSteps, PollAsks, PollReads, runVars
    <3> QED
      BY <3>1, <3>2
  <2> QED
    BY <1>1, <1>2, <1>4, <1>6, <2>1, LinksKept DEF PanelInv
<1>9. \A e \in (routed \ abandoned)' : Supported(e)'
  BY <1>2, <1>6, SupportKept DEF PanelInv
<1> QED
  BY <1>7, <1>8, <1>9, Zenon DEF PanelInv

\* The Java proxy.
LEMMA JavaKeeps ==
  ASSUME PanelInv, JavaSteps
  PROVE  PanelInv'
<1>0. CASE PageSteps
  BY <1>0, PageKeeps
<1> SUFFICES ASSUME \/ JavaClick \/ JavaSet \/ JavaSaid \/ JavaRead \/ JavaShow
                    \/ \E v \in javaLate : JavaSetLate(v)
             PROVE  PanelInv'
  BY <1>0, Zenon DEF JavaSteps
<1>1. UNCHANGED <<runVars, polls, page>>
  BY Zenon DEF JavaClick, JavaSet, JavaSetLate, JavaSaid, JavaRead, JavaShow
<1>2. /\ java \in BOOLEAN /\ javaShown \in BOOLEAN
      /\ javaCall \in {NoJavaCall} \cup [to : {"set", "unset"}, done : BOOLEAN]
      /\ javaAnswer \in {"none", "set", "unset"} /\ flips \in 0 .. MaxFlips
      /\ javaLate \subseteq {"set", "unset"} /\ page \in BOOLEAN
  BY DEF PanelInv, RunsTypeOK
<1>3. flips < MaxFlips => flips + 1 \in 0 .. MaxFlips
  BY <1>2, RunsAssumption
<1>4. javaCall # NoJavaCall => [javaCall EXCEPT !.done = TRUE] \in [to : {"set", "unset"}, done : BOOLEAN]
  BY <1>2
<1>5. \A t \in {"set", "unset"} : [to |-> t, done |-> FALSE] \in [to : {"set", "unset"}, done : BOOLEAN]
  OBVIOUS
<1>6. /\ java' \in BOOLEAN /\ javaShown' \in BOOLEAN
      /\ javaCall' \in {NoJavaCall} \cup [to : {"set", "unset"}, done : BOOLEAN]
      /\ javaAnswer' \in {"none", "set", "unset"} /\ flips' \in 0 .. MaxFlips
      /\ javaLate' \subseteq {"set", "unset"}
  <2>1. CASE JavaClick
    BY <1>2, <1>3, <1>5, <2>1 DEF JavaClick
  <2>2. CASE JavaSet
    BY <1>2, <1>4, <2>2 DEF JavaSet
  <2>3. CASE JavaSaid \/ JavaRead \/ JavaShow
    BY <1>2, <2>3 DEF JavaSaid, JavaRead, JavaShow
  <2>4. ASSUME NEW v \in javaLate, JavaSetLate(v)
        PROVE  /\ java' \in BOOLEAN /\ javaLate' \subseteq {"set", "unset"}
               /\ UNCHANGED <<javaShown, javaCall, javaAnswer, flips>>
    <3>1. (v = "set") \in BOOLEAN
      OBVIOUS
    <3> QED
      BY <1>2, <2>4, <3>1 DEF JavaSetLate
  <2> QED
    BY <1>2, <2>1, <2>2, <2>3, <2>4
<1>7. RunsTypeOK'
  BY <1>1, <1>2, <1>6, Zenon DEF PanelInv, RunsTypeOK, runVars
<1>8. NumberedRuns' /\ \A d \in (routed \ abandoned)' : Supported(d)'
  <2>1. UNCHANGED <<runs, routed, launches, stops, cards, pills, abandoned>>
    BY <1>1 DEF runVars
  <2> QED
    BY <2>1, SamePills
<1> QED
  BY <1>7, <1>8, Zenon DEF PanelInv

LEMMA PanelInvariance == RunsSpec => []PanelInv
<1>1. RunsInit => PanelInv
  <2> SUFFICES ASSUME RunsInit PROVE PanelInv
    OBVIOUS
  <2>1. /\ runs = {} /\ latest = [d \in Devices |-> 0] /\ routed = {} /\ abandoned = {}
        /\ launches = {} /\ stops = {} /\ cards = {} /\ pills = <<>> /\ polls = {}
        /\ java \in BOOLEAN /\ javaShown = FALSE
        /\ javaCall = NoJavaCall /\ javaAnswer = "none" /\ flips = 0
        /\ javaLate = {} /\ page = FALSE
    BY DEF RunsInit
  <2>2. 0 \in 0 .. MaxRuns /\ 0 \in 0 .. MaxFlips
    BY RunsAssumption
  <2>3. IsFiniteSet(runs) /\ Cardinality(runs) = 0
    BY <2>1, FS_EmptySet
  <2>4. Numbered(runs)
    BY <2>1, <2>3 DEF Numbered
  <2>5. pills \in Seq(Pills) /\ DOMAIN pills = {} /\ PillSet = {}
    BY <2>1 DEF PillSet
  <2>6. RunsTypeOK
    BY <2>1, <2>2, <2>5 DEF RunsTypeOK
  <2>7. NumberedRuns
    <3>1. FridaCards = {}
      BY <2>1 DEF FridaCards
    <3> QED
      BY <2>1, <2>4, <2>5, <3>1 DEF NumberedRuns
  <2> QED
    BY <2>1, <2>6, <2>7 DEF PanelInv
<1>2. PanelInv /\ [RunsNext]_panelRunsVars => PanelInv'
  <2>1. CASE UNCHANGED panelRunsVars
    <3>1. UNCHANGED runVars /\ UNCHANGED polls /\ UNCHANGED javaVars
      BY <2>1, Zenon DEF panelRunsVars
    <3>2. UNCHANGED <<runs, routed, launches, stops, cards, pills, abandoned>>
      BY <3>1 DEF runVars
    <3>3. RunsTypeOK => RunsTypeOK'
      BY <3>1, Zenon DEF runVars, javaVars, RunsTypeOK
    <3> QED
      BY <3>2, <3>3, SamePills, Zenon DEF PanelInv
  <2>2. ASSUME PanelInv, RunSteps PROVE PanelInv'
    <3>1. CASE \E what \in Targets, d \in Devices \cup {"none"} : Launch(what, d)
      BY <2>2, <3>1, LaunchKeeps
    <3>2. CASE LaunchSteps
      BY <2>2, <3>2, LaunchedKeeps, BegunKeeps DEF LaunchSteps
    <3>3. CASE StopSteps \/ StopPill \/ CardSteps
      BY <2>2, <3>3, StopsKeep DEF StopSteps, CardSteps
    <3>4. CASE (\E r \in runs : RunEnds(r)) \/ DismissAll
      BY <2>2, <3>4, ShowsKeep
    <3>5. CASE PageSteps
      BY <2>2, <3>5, PageKeeps
    <3> QED
      BY <2>2, <3>1, <3>2, <3>3, <3>4, <3>5 DEF RunSteps
  <2>3. ASSUME PanelInv, JavaSteps PROVE PanelInv'
    BY <2>3, JavaKeeps
  <2>4. ASSUME PanelInv, PollSteps PROVE PanelInv'
    BY <2>4, ShowsKeep
  <2> QED
    BY <2>1, <2>2, <2>3, <2>4 DEF RunsNext
<1> QED
  BY <1>1, <1>2, PTL DEF RunsSpec

\* The interceptors page keeps its types: runs, cards, pills and calls, whatever is launched,
\* stopped, polled and dismissed, and however often.
THEOREM PageTypeCorrect == RunsSpec => []RunsTypeOK
<1>1. PanelInv => RunsTypeOK
  BY Zenon DEF PanelInv
<1> QED
  BY <1>1, PanelInvariance, PTL

\* A device whose traffic is routed here has a pill to stop it with, or a launch whose pill
\* is to come, however its runs are launched, stopped, dismissed and stopped again.
THEOREM RoutedDevicesHavePills == RunsSpec => []RoutedHasPill
<1>1. PanelInv => RoutedHasPill
  BY DEF PanelInv, RoutedHasPill, Supported, PillSet
<1> QED
  BY <1>1, PanelInvariance, PTL
-----------------------------------------------------------------------------
(* The scenes                                                              *)

\* Whatever the scene, each part behaves as it does alone.
LEMMA EachAsAlone ==
  ControlsSpec => DeskSpec /\ AdapterSpec /\ RunsSpec /\ DevicesSpec
<1>1. ControlsInit => DeskInit /\ AdapterInit /\ RunsInit /\ DevicesInit
  BY Zenon DEF ControlsInit
<1>2. [ControlsNext]_controlsVars =>
         /\ [DeskNext]_deskVars /\ [AdapterNext]_adapterVars
         /\ [RunsNext]_panelRunsVars /\ [DevicesNext]_deviceVars
  <2> SUFFICES ASSUME [ControlsNext]_controlsVars
               PROVE  /\ [DeskNext]_deskVars /\ [AdapterNext]_adapterVars
                      /\ [RunsNext]_panelRunsVars /\ [DevicesNext]_deviceVars
    OBVIOUS
  <2>1. CASE UNCHANGED controlsVars
    BY <2>1, Zenon DEF controlsVars
  <2>2. ASSUME DeskNext, But("desk")
        PROVE  UNCHANGED adapterVars /\ UNCHANGED panelRunsVars /\ UNCHANGED deviceVars
    BY <2>2 DEF But
  <2>3. ASSUME AdapterNext, But("adapter")
        PROVE  UNCHANGED deskVars /\ UNCHANGED panelRunsVars /\ UNCHANGED deviceVars
    BY <2>3 DEF But
  <2>4. ASSUME But("runs")
        PROVE  UNCHANGED deskVars /\ UNCHANGED adapterVars /\ UNCHANGED deviceVars
    BY <2>4 DEF But
  <2>5. ASSUME But("devices")
        PROVE  UNCHANGED deskVars /\ UNCHANGED adapterVars /\ UNCHANGED panelRunsVars
    BY <2>5 DEF But
  <2>6. \/ DeskNext /\ But("desk")
        \/ AdapterNext /\ But("adapter")
        \/ RunsNext /\ But("runs")
        \/ DevicesNext /\ But("devices")
        \/ UNCHANGED controlsVars
    BY Zenon DEF ControlsNext, RunsNext, DevicesNext
  <2> QED
    BY <2>1, <2>2, <2>3, <2>4, <2>5, <2>6
<1> QED
  BY <1>1, <1>2, PTL DEF ControlsSpec, DeskSpec, AdapterSpec, RunsSpec, DevicesSpec

\* The window's controls keep their types in every scene, for every value of the constants.
THEOREM ControlsTypeCorrect == ControlsSpec => []ControlsTypeOK
<1>1. AdapterInv => AdapterTypeOK
  BY Zenon DEF AdapterInv
<1>2. DeskTypeOK /\ AdapterTypeOK /\ RunsTypeOK /\ DevicesTypeOK => ControlsTypeOK
  BY Zenon DEF ControlsTypeOK
<1> QED
  BY <1>1, <1>2, EachAsAlone, DeskTypeCorrect, AdapterInvariance, PageTypeCorrect,
     DevicesTypeCorrect, PTL

\* Pauses are answered and apps injected only as the user clicked, and a device that is
\* routed here can be freed, in every scene.
THEOREM TheUserIsInControl == ControlsSpec => UserIsInControl
BY EachAsAlone, AnswersAreTheUsers, RoutedDevicesHavePills, ClicksReachTheirDevice, PTL
   DEF UserIsInControl

\* The adapter is exact, and the editor keeps the contract of a pause, in every scene.
THEOREM ScenesKeepContracts == ControlsSpec => []AdapterIsExact /\ DeskKeepsContract
BY EachAsAlone, Exactness, DeskRefinesContract, PTL
=============================================================================
