------------------------------ MODULE TrafficView ------------------------------
(***************************************************************************)
(* The page of the captured traffic: request/RequestList.tsx with its      *)
(* SearchBar, SearchConditionDialog, DomainList, RequestSequence and       *)
(* SelectionActionBar, beside the panel that DesktopHome.tsx shows.        *)
(*                                                                         *)
(* What is listed is kept by useMemo: it is made anew only when one of its *)
(* dependencies changes, and the filter by process is not one of them.     *)
(* The list of domains collapses a domain when it first shows it.  Both    *)
(* are forgotten when the page is left.                                    *)
(***************************************************************************)
EXTENDS Naturals, FiniteSets

CONSTANTS
    Exchanges,  \* numbered by arrival: [domain, method, process] of each
    Files,      \* sets of exchanges that can be imported
    Collapses,  \* values of domainListDefaultCollapsed looked at
    MaxEdits    \* changes of the filters (bound)

Arrivals == DOMAIN Exchanges
Methods  == {Exchanges[i].method : i \in Arrivals}
Domains  == {Exchanges[i].domain : i \in Arrivals}
Programs == {Exchanges[i].process : i \in Arrivals}

ASSUME ViewAssumption ==
    /\ Arrivals \subseteq Nat \ {0} /\ IsFiniteSet(Arrivals) /\ "" \notin Methods
    /\ Files \subseteq SUBSET Arrivals /\ Collapses \subseteq BOOLEAN /\ MaxEdits \in Nat

VARIABLES
    listing,    \* requests: the exchanges of the store
    begun,      \* those that have arrived
    done,       \* those of them that have a response
    processFilter,  \* "" for null
    onPage,     \* RequestList is mounted
    chips,      \* activeFilters
    conditions, \* method and status of the conditions, "" for any
    shown,      \* filteredRequests
    byDomain,   \* activeTab is "domain"
    seen, collapsed,    \* seenDomains and collapsedDomains
    collapseNew,        \* domainListDefaultCollapsed
    marks,      \* selectedIds
    repeating,  \* handleRepeatSelected is under way
    selection,  \* selectedRequestId, 0 for null
    edits,
    stale       \* processFilter was cleared since the list was made (history)

filterVars == <<processFilter, chips, conditions, edits>>
domainVars == <<byDomain, collapseNew>>
viewVars   == <<listing, begun, done, onPage, shown, seen, collapsed, marks, repeating,
                selection, stale, filterVars, domainVars>>

Conditions == [method : Methods \cup {""}, status : {"", "2xx"}]
AnyOf      == [method |-> "", status |-> ""]

ViewTypeOK ==
    /\ done \subseteq begun /\ listing \cup begun \subseteq Arrivals
    /\ processFilter \in Programs \cup {""}
    /\ {onPage, byDomain, collapseNew, repeating, stale} \subseteq BOOLEAN
    /\ chips \subseteq Methods \cup {"2xx"} /\ conditions \in Conditions
    /\ shown \subseteq Arrivals /\ marks \subseteq Arrivals
    /\ collapsed \subseteq seen /\ seen \subseteq Domains
    /\ selection \in Arrivals \cup {0} /\ edits \in 0 .. MaxEdits

ViewInit ==
    /\ listing = {} /\ begun = {} /\ done = {}
    /\ processFilter = "" /\ onPage = FALSE
    /\ chips = {} /\ conditions = AnyOf /\ shown = {} /\ stale = FALSE
    /\ byDomain = TRUE /\ seen = {} /\ collapsed = {} /\ collapseNew \in Collapses
    /\ marks = {} /\ repeating = FALSE /\ selection = 0 /\ edits = 0

-----------------------------------------------------------------------------
(* Rendering                                                               *)

\* The predicate of filteredRequests, of the texts and numbers of the dialog only the status.
Matches(i, p, c, answered) ==
    /\ p # "" => Exchanges[i].process = p
    /\ c.method # "" => Exchanges[i].method = c.method
    /\ c.status # "" => i \in answered

\* Mutant: the conditions are no dependency either.
FilteredByList ==
    IF listing' # listing \/ done' # done
      THEN /\ shown' = {i \in listing' : Matches(i, processFilter', conditions', done')}
           /\ stale' = FALSE
      ELSE shown' = shown /\ stale' = (stale \/ processFilter' # processFilter)

\* filteredRequests, made anew if its dependencies [requests, searchQuery, conditions]
\* are others than before.
Filtered ==
    IF listing' # listing \/ done' # done \/ conditions' # conditions
      THEN /\ shown' = {i \in listing' : Matches(i, processFilter', conditions', done')}
           /\ stale' = FALSE
      ELSE shown' = shown /\ stale' = (stale \/ processFilter' # processFilter)

DomainsOf(S) == {Exchanges[i].domain : i \in S}

\* Mutant: a domain is collapsed whenever it is shown again.
CollapseAll(was, folded) ==
    /\ seen' = was \cup DomainsOf(shown')
    /\ collapsed' = IF collapseNew THEN folded \cup DomainsOf(shown') ELSE folded

\* The effect of DomainList on its groups.
CollapseNew(was, folded) ==
    /\ seen' = was \cup DomainsOf(shown')
    /\ collapsed' = IF collapseNew THEN folded \cup (DomainsOf(shown') \ was) ELSE folded

Render ==
    IF onPage THEN /\ Filtered
                   /\ IF byDomain THEN CollapseNew(seen, collapsed) ELSE UNCHANGED <<seen, collapsed>>
              ELSE UNCHANGED <<shown, stale, seen, collapsed>>

\* The page is mounted, with filters of its own, and the list of domains with it.
Mounted ==
    /\ onPage' = TRUE
    /\ chips' = {} /\ conditions' = AnyOf /\ byDomain' = TRUE /\ marks' = {}
    /\ shown' = {i \in listing : Matches(i, processFilter', AnyOf, done)} /\ stale' = FALSE
    /\ CollapseNew({}, {})
    /\ repeating' = FALSE
    /\ UNCHANGED <<listing, begun, done, collapseNew, selection>>

-----------------------------------------------------------------------------
(* The store                                                               *)

Capture(i) ==
    /\ i \in Arrivals \ begun /\ \A j \in Arrivals : j < i => j \in begun
    /\ begun' = begun \cup {i} /\ listing' = listing \cup {i}
    /\ UNCHANGED <<done, onPage, marks, repeating, selection, filterVars, domainVars>>
    /\ Render

Respond(i) ==
    /\ i \in begun \ done
    /\ done' = done \cup {i}
    /\ UNCHANGED <<listing, begun, onPage, marks, repeating, selection, filterVars, domainVars>>
    /\ Render

\* What falls off the end of the list keeps its mark and stays the selected one.
Evict ==
    /\ listing # {}
    /\ listing' = {i \in listing : \E j \in listing : j < i}
    /\ UNCHANGED <<begun, done, onPage, marks, repeating, selection, filterVars, domainVars>>
    /\ Render

\* clearRequests and setRequests, which selects the first; of the exchanges in a file only
\* those that were captured before.
Replace(S) ==
    /\ listing # {} \/ S # {}
    /\ S \subseteq begun
    /\ listing' = S
    /\ selection' \in IF S = {} THEN {0} ELSE S
    /\ \A i \in S : i <= selection'
    /\ UNCHANGED <<begun, done, onPage, marks, repeating, filterVars, domainVars>>
    /\ Render

-----------------------------------------------------------------------------
(* The filters                                                             *)

Edit == onPage /\ edits < MaxEdits /\ edits' = edits + 1

OpenPage == ~ onPage /\ UNCHANGED <<processFilter, edits>> /\ Mounted

\* "Filter traffic" of a card of the interceptors page, which opens the page.
FilterByRun(p) ==
    /\ ~ onPage /\ edits < MaxEdits /\ edits' = edits + 1
    /\ processFilter' = p
    /\ Mounted

LeavePage ==
    /\ onPage
    /\ onPage' = FALSE /\ marks' = {} /\ repeating' = FALSE
    /\ chips' = {} /\ conditions' = AnyOf /\ shown' = {} /\ stale' = FALSE
    /\ byDomain' = TRUE /\ seen' = {} /\ collapsed' = {}
    /\ UNCHANGED <<listing, begun, done, processFilter, collapseNew, selection, edits>>

\* The chip "Filtering by process: ...  Click to clear."
ClearProcess ==
    /\ onPage /\ processFilter # ""
    /\ processFilter' = ""
    /\ UNCHANGED <<edits, listing, begun, done, onPage, chips, conditions, marks, repeating, selection, domainVars>>
    /\ Render

Only(S) == IF Cardinality(S) = 1 THEN CHOOSE s \in S : TRUE ELSE ""

\* toggleFilter of a chip, or "Clear", and the effect on the chips: the dialog's method
\* and status are overwritten.
SetChips(C) ==
    /\ C # chips /\ Edit
    /\ C = {} \/ Cardinality((C \ chips) \cup (chips \ C)) = 1
    /\ chips' = C
    /\ conditions' = [method |-> Only(C \ {"2xx"}), status |-> Only(C \cap {"2xx"})]
    /\ UNCHANGED <<listing, begun, done, onPage, processFilter, marks, repeating, selection, domainVars>>
    /\ Render

\* handleSave of the dialog with the conditions; the chips stay as they are.
ApplyConditions(c) ==
    /\ c # conditions /\ Edit
    /\ conditions' = c
    /\ UNCHANGED <<listing, begun, done, onPage, processFilter, chips, marks, repeating, selection, domainVars>>
    /\ Render

-----------------------------------------------------------------------------
(* The rows                                                                *)

\* Those on display: not of a collapsed domain.
Displayed == {i \in shown : onPage /\ (byDomain => Exchanges[i].domain \notin collapsed)}

SelectRow(i) ==
    /\ i \in Displayed
    /\ selection' = i
    /\ UNCHANGED <<listing, begun, done, onPage, shown, stale, seen, collapsed, marks, repeating,
                   filterVars, domainVars>>

\* handleToggleSelectId
MarkRow(i) ==
    /\ i \in Displayed
    /\ marks' = IF i \in marks THEN marks \ {i} ELSE marks \cup {i}
    /\ UNCHANGED <<listing, begun, done, onPage, shown, stale, seen, collapsed, repeating, selection,
                   filterVars, domainVars>>

\* removeRequest of each
RemoveRows(S) ==
    /\ S # {} /\ onPage
    /\ listing' = listing \ S
    /\ selection' = IF selection \in S THEN 0 ELSE selection
    /\ UNCHANGED <<begun, done, onPage, repeating, filterVars, domainVars>>

\* handleDeleteSelected: also those that a filter hides by now.
DeleteMarked == RemoveRows(marks) /\ marks' = {} /\ Render

\* "Delete" in the menu of a row.
DeleteRowByMenu(i) == i \in Displayed /\ RemoveRows({i}) /\ UNCHANGED marks /\ Render

\* handleRepeatSelected repeats one exchange after the other; when it is through, or the
\* export is, all marks go, those set meanwhile as well.
RepeatMarked ==
    /\ marks # {} /\ onPage
    /\ repeating' = TRUE
    /\ UNCHANGED <<listing, begun, done, onPage, shown, stale, seen, collapsed, marks, selection,
                   filterVars, domainVars>>
RepeatEnds ==
    /\ repeating
    /\ repeating' = FALSE /\ marks' = {}
    /\ UNCHANGED <<listing, begun, done, onPage, shown, stale, seen, collapsed, selection,
                   filterVars, domainVars>>

ToggleDomain(d) ==
    /\ onPage /\ byDomain /\ d \in DomainsOf(shown)
    /\ collapsed' = IF d \in collapsed THEN collapsed \ {d} ELSE collapsed \cup {d}
    /\ UNCHANGED <<listing, begun, done, onPage, shown, stale, seen, marks, repeating, selection,
                   filterVars, domainVars>>

\* Mutant: only what was seen is forgotten with the list of domains.
SwitchTabFolded ==
    /\ onPage
    /\ byDomain' = ~ byDomain
    /\ UNCHANGED <<shown, collapsed>>
    /\ seen' = IF byDomain THEN {} ELSE DomainsOf(shown')
    /\ UNCHANGED <<listing, begun, done, onPage, stale, marks, repeating, selection, collapseNew,
                   filterVars>>

\* The tabs "domain" and "sequence": the list of domains is mounted anew.
SwitchTab ==
    /\ onPage
    /\ byDomain' = ~ byDomain
    /\ UNCHANGED shown
    /\ IF byDomain THEN seen' = {} /\ collapsed' = {} ELSE CollapseNew({}, {})
    /\ UNCHANGED <<listing, begun, done, onPage, stale, marks, repeating, selection, collapseNew,
                   filterVars>>

-----------------------------------------------------------------------------
StoreSteps ==
    \/ \E i \in Arrivals : Capture(i) \/ Respond(i)
    \/ Evict
    \/ \E S \in Files \cup {{}} : Replace(S)
FilterSteps ==
    \/ OpenPage \/ LeavePage \/ ClearProcess
    \/ \E p \in Programs : FilterByRun(p)
    \/ \E C \in SUBSET (Methods \cup {"2xx"}) : SetChips(C)
    \/ \E c \in Conditions : ApplyConditions(c)
RowSteps ==
    \/ \E i \in Arrivals : SelectRow(i) \/ MarkRow(i) \/ DeleteRowByMenu(i)
    \/ \E d \in Domains : ToggleDomain(d)
    \/ DeleteMarked \/ RepeatMarked \/ RepeatEnds \/ SwitchTab

ViewNext == StoreSteps \/ FilterSteps \/ RowSteps
ViewSpec == ViewInit /\ [][ViewNext]_viewVars

-----------------------------------------------------------------------------
(* What the user may rely on                                               *)

Selected(p, c) == {i \in listing : Matches(i, p, c, done)}

\* The page lists what its filters say, of what the store holds now: but for a filter by
\* process that was cleared, until anything else changes.
ListMatchesFilters == onPage /\ ~ stale => shown = Selected(processFilter, conditions)

\* The exchange in the panel: the selected one, or the newest.
Panel(S, i) == IF i \in S THEN i ELSE IF S = {} THEN 0 ELSE CHOOSE j \in S : \A k \in S : k <= j

\* Arrivals, responses, filters and the removal of others do not take away what the user
\* has opened: the exchange in the panel stays while it is in the list, unless another
\* is selected or the list replaced; a domain stays open while the list of domains is there.
OpenedStaysOpen ==
    [][/\ \/ selection \notin listing \/ selection \notin listing'
          \/ Panel(listing', selection') = selection
          \/ (\E i \in Arrivals : SelectRow(i)) \/ (\E S \in Files : Replace(S)) \/ Replace({})
       /\ onPage /\ onPage' /\ byDomain /\ byDomain' =>
             \A d \in seen : d \in collapsed' \ collapsed => ToggleDomain(d)]_viewVars
=============================================================================
