---------------------------- MODULE HistoryDesk ----------------------------
(***************************************************************************)
(* The page of the recorded sessions, left_menus/HistoryPage.tsx, and the  *)
(* table behind its calls.                                                 *)
(*                                                                         *)
(* Every handler is an async function: what it does after its await it     *)
(* does with the list and the selection of the render it was clicked in.   *)
(* A call takes effect in the application and is answered later; calls     *)
(* overlap in any order, and each may fail.                                *)
(***************************************************************************)
EXTENDS Naturals, FiniteSets

CONSTANTS
    Recorded,     \* the sessions of before, by number
    MaxSessions,  \* sessions ever (bound)
    MaxAsks       \* calls of the page (bound)

ASSUME HistoryAssumption ==
    Recorded \subseteq 1 .. MaxSessions /\ MaxSessions \in Nat /\ MaxAsks \in Nat

VARIABLES
    table,          \* the sessions of the database
    born,           \* the number of the newest one
    pageOpen,
    sessions,       \* the page's list: of each session whether its requests were loaded
    selectedSession, \* 0 for null
    asks,           \* calls under way
    askCount,
    entangled       \* since the page was opened, a call was made while another was under
                    \* way, or one failed (history)

historyVars == <<table, born, pageOpen, sessions, selectedSession, asks, askCount, entangled>>

SessionIds == 1 .. MaxSessions
ListOf(S)  == [s \in S |-> FALSE]
NewestOf(S) == IF S = {} THEN 0 ELSE CHOOSE s \in S : \A r \in S : r <= s

\* A call, with the closure it was made in: `list` and `of` are what the page
\* showed, `got` is the application's answer; `page` until that page is left.
Asking == [nth : 1 .. MaxAsks, verb : {"list", "requests", "create", "delete"}, id : {0} \cup SessionIds,
         list : SUBSET SessionIds, of : {0} \cup SessionIds,
         done : BOOLEAN, got : SUBSET SessionIds, page : BOOLEAN]

HistoryTypeOK ==
    /\ table \subseteq SessionIds /\ born \in 0 .. MaxSessions
    /\ pageOpen \in BOOLEAN /\ entangled \in BOOLEAN
    /\ DOMAIN sessions \subseteq SessionIds /\ \A s \in DOMAIN sessions : sessions[s] \in BOOLEAN
    /\ selectedSession \in {0} \cup SessionIds
    /\ \A a \in asks : a.nth \in 1 .. MaxAsks /\ a.id \in {0} \cup SessionIds
    /\ askCount \in 0 .. MaxAsks

HistoryInit ==
    /\ table = Recorded /\ born = NewestOf(Recorded)
    /\ pageOpen = FALSE /\ sessions = ListOf({}) /\ selectedSession = 0
    /\ asks = {} /\ askCount = 0 /\ entangled = FALSE

-----------------------------------------------------------------------------
(* Clicks                                                                  *)

CallApp(verb, id) ==
    /\ askCount < MaxAsks
    /\ askCount' = askCount + 1
    /\ asks' = asks \cup {[nth |-> askCount', verb |-> verb, id |-> id,
                           list |-> DOMAIN sessions, of |-> selectedSession,
                           done |-> FALSE, got |-> {}, page |-> TRUE]}
    /\ entangled' = (asks # {} \/ (pageOpen /\ entangled))

\* The page is mounted and asks for the list.
OpenHistory ==
    /\ ~ pageOpen
    /\ pageOpen' = TRUE
    /\ CallApp("list", 0)
    /\ UNCHANGED <<table, born, sessions, selectedSession>>

\* What is answered after this finds no page.
LeaveHistory ==
    /\ pageOpen
    /\ pageOpen' = FALSE
    /\ sessions' = ListOf({}) /\ selectedSession' = 0
    /\ asks' = {[a EXCEPT !.page = FALSE] : a \in {b \in asks : b.verb \in {"create", "delete"} /\ ~ b.done}}
    /\ UNCHANGED <<table, born, askCount, entangled>>

\* handleSelectSession: the selection moves at once.
SelectSession(s) ==
    /\ pageOpen /\ s \in DOMAIN sessions
    /\ selectedSession' = s
    /\ CallApp("requests", s)
    /\ UNCHANGED <<table, born, pageOpen, sessions>>

\* handleCreateSession.  handleImportHAR, which sends an empty text, always fails.
CreateSession ==
    /\ pageOpen
    /\ CallApp("create", 0)
    /\ UNCHANGED <<table, born, pageOpen, sessions, selectedSession>>

DeleteSession(s) ==
    /\ pageOpen /\ s \in DOMAIN sessions
    /\ CallApp("delete", s)
    /\ UNCHANGED <<table, born, pageOpen, sessions, selectedSession>>

-----------------------------------------------------------------------------
(* The application                                                         *)

\* The call takes effect, and its answer is on the way.
TakesEffect(a) ==
    LET answered == [a EXCEPT !.done = TRUE, !.got = IF a.verb = "list" THEN table ELSE {}] IN
    /\ a \in asks /\ ~ a.done
    /\ a.verb = "create" => born < MaxSessions
    /\ born' = IF a.verb = "create" THEN born + 1 ELSE born
    /\ table' = CASE a.verb = "create" -> table \cup {born'}
                  [] a.verb = "delete" -> table \ {a.id}
                  [] OTHER             -> table
    /\ asks' = (asks \ {a}) \cup (IF a.page THEN {answered} ELSE {})
    /\ UNCHANGED <<pageOpen, sessions, selectedSession, askCount, entangled>>

\* The call fails, with a toast at most.
AskFails(a) ==
    /\ a \in asks /\ ~ a.done
    /\ asks' = asks \ {a}
    /\ entangled' = TRUE
    /\ UNCHANGED <<table, born, pageOpen, sessions, selectedSession, askCount>>

-----------------------------------------------------------------------------
(* What the handlers do with the answers                                   *)

Comes(a, verb) == a.page /\ a \in asks /\ a.done /\ a.verb = verb

\* fetchSessions: the loaded requests are gone, and the newest session is selected
\* if none was when the call was made.
ListCame(a) ==
    /\ Comes(a, "list")
    /\ asks' = asks \ {a}
    /\ sessions' = ListOf(a.got)
    /\ selectedSession' = IF a.of = 0 /\ a.got # {} THEN NewestOf(a.got) ELSE selectedSession
    /\ UNCHANGED <<table, born, pageOpen, askCount, entangled>>

RequestsLoaded(a) ==
    /\ Comes(a, "requests")
    /\ asks' = asks \ {a}
    /\ sessions' = [s \in DOMAIN sessions |-> sessions[s] \/ s = a.id]
    /\ UNCHANGED <<table, born, pageOpen, selectedSession, askCount, entangled>>

\* The list is fetched again, in the closure of the click.
Created(a) ==
    /\ Comes(a, "create")
    /\ asks' = (asks \ {a}) \cup {[a EXCEPT !.verb = "list", !.done = FALSE]}
    /\ UNCHANGED <<table, born, pageOpen, sessions, selectedSession, askCount, entangled>>

\* Mutant: the selection stays.
DeletedKeepsSelection(a) ==
    /\ Comes(a, "delete")
    /\ asks' = asks \ {a}
    /\ sessions' = [s \in a.list \ {a.id} |-> s \in DOMAIN sessions /\ sessions[s]]
    /\ UNCHANGED <<table, born, pageOpen, selectedSession, askCount, entangled>>

\* The list of the click without the session replaces whatever is listed by now.
DeletionCame(a) ==
    LET next == a.list \ {a.id} IN
    /\ Comes(a, "delete")
    /\ asks' = asks \ {a}
    /\ sessions' = [s \in next |-> s \in DOMAIN sessions /\ sessions[s]]
    /\ selectedSession' = IF a.of = a.id THEN NewestOf(next) ELSE selectedSession
    /\ UNCHANGED <<table, born, pageOpen, askCount, entangled>>

-----------------------------------------------------------------------------
HistoryNext ==
    \/ OpenHistory \/ LeaveHistory \/ CreateSession
    \/ \E s \in SessionIds : SelectSession(s) \/ DeleteSession(s)
    \/ \E a \in asks : \/ TakesEffect(a) \/ AskFails(a)
                       \/ ListCame(a) \/ RequestsLoaded(a) \/ Created(a) \/ DeletionCame(a)

HistorySpec == HistoryInit /\ [][HistoryNext]_historyVars

-----------------------------------------------------------------------------
(* What the user may rely on                                               *)

\* With no call under way, the page lists the sessions there are, and selects one
\* of them: of a user who waits for every answer.  One who does not may see a
\* deleted session come back, or a new one vanish, until the page is opened anew.
HistoryIsTrue ==
    pageOpen /\ asks = {} /\ ~ entangled =>
        /\ DOMAIN sessions = table
        /\ IF table = {} THEN selectedSession = 0 ELSE selectedSession \in table
=============================================================================
