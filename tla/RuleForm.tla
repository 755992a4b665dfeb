------------------------------ MODULE RuleForm ------------------------------
(***************************************************************************)
(* The form in which a rule is made of an exchange that was captured:      *)
(* components/panel/SuggestedRulesCard.tsx, which opens it, and            *)
(* components/rules/QuickRuleDialog.tsx.                                   *)
(*                                                                         *)
(* The form is a snapshot: the exchange may be answered while it is open.  *)
(* Effects fill it when it opens and write the body whenever its type is   *)
(* GraphQL; templates and the chips of the domains write several fields at *)
(* once.  What a field holds is abstracted to where it comes from.         *)
(***************************************************************************)
EXTENDS Naturals, FiniteSets

CONSTANTS
    Answers,   \* the kinds of body a response may have
    MaxFields  \* changes of the form by the user (bound)

BodyKinds == {"empty", "json", "graphql", "xml", "x-www-form-urlencoded", "raw"}
BodyTypes == {"none", "form-data", "html", "binary"} \cup (BodyKinds \ {"empty"})
FormTabs  == {"params", "headers", "body", "action", "simulator"}

ASSUME RuleFormAssumption == Answers \subseteq BodyKinds /\ MaxFields \in Nat

\* What the five suggestions bring with them besides a name.
Mock200    == [type |-> "mock",       brings |-> {"statusCode", "bodyContent"}]
Redirect   == [type |-> "rewrite",    brings |-> {"actionType", "redirectUrl"}]
PauseHere  == [type |-> "breakpoint", brings |-> {}]
Lag        == [type |-> "rewrite",    brings |-> {"actionType", "delayMs"}]
SilentDrop == [type |-> "rewrite",    brings |-> {"actionType"}]
Suggestions == {Mock200, Redirect, PauseHere, Lag, SilentDrop}

\* The fields by the tab that shows them; the first are always visible.
MatchFields  == {"ruleName", "ruleType", "matchMethod", "urlPattern", "matchType", "enabled"}
ParamFields  == {"paramList"}
HeaderFields == {"headerList"}
BodyFields   == {"bodyContent", "formEntries", "gqlQuery"}
ActionFields == {"actionType", "targetStage", "statusCode", "redirectUrl", "delayMs"}
TestFields   == {"simUrl"}
FormFields   == MatchFields \cup ParamFields \cup HeaderFields \cup BodyFields
                  \cup ActionFields \cup TestFields

FieldsOf(tab) == CASE tab = "params"    -> ParamFields
                   [] tab = "headers"   -> HeaderFields
                   [] tab = "body"      -> BodyFields
                   [] tab = "action"    -> ActionFields
                   [] tab = "simulator" -> TestFields

VARIABLES
    reply,      \* the exchange in the store: its response's body, or "pending"
    formOpen,
    form,       \* where each field's value comes from
    bodyType, formTab,
    simResult,  \* whether a test is shown, and whether the form was changed since
    taken,      \* the snapshot the form was made of: the reply and the suggestion
    typed,      \* the fields that the user wrote last (history)
    untouched,  \* those that nobody asked to change since the form opened (history)
    formChanges

formVars     == <<form, bodyType, formTab, simResult, taken, typed, untouched>>
ruleFormVars == <<reply, formOpen, formVars, formChanges>>

NotTaken  == [reply |-> "pending", by |-> PauseHere]
Snapshots == [reply : Answers \cup {"pending"}, by : Suggestions]

Origins == {"default", "captured", "suggested", "typed", "template", "sample"}

RuleFormTypeOK ==
    /\ reply \in Answers \cup {"pending"} /\ taken \in Snapshots
    /\ formOpen \in BOOLEAN
    /\ form \in [FormFields -> Origins]
    /\ bodyType \in BodyTypes /\ formTab \in FormTabs
    /\ simResult \in {"none", "current", "old"}
    /\ typed \subseteq FormFields /\ untouched \subseteq FormFields
    /\ formChanges \in 0 .. MaxFields

Unfilled == [f \in FormFields |-> "default"]

\* useState, of a dialog that is mounted anew each time
FreshForm ==
    /\ form' = Unfilled /\ bodyType' = "json" /\ formTab' = "body" /\ simResult' = "none"
    /\ taken' = NotTaken /\ typed' = {} /\ untouched' = {}

RuleFormInit ==
    /\ reply = "pending" /\ formOpen = FALSE
    /\ form = Unfilled /\ bodyType = "json" /\ formTab = "body" /\ simResult = "none"
    /\ taken = NotTaken /\ typed = {} /\ untouched = {}
    /\ formChanges = 0

\* updateResponse; the form was opened with the object of before.
ReplyComes(kind) ==
    /\ reply = "pending" /\ kind \in Answers
    /\ reply' = kind
    /\ UNCHANGED <<formOpen, formVars, formChanges>>

-----------------------------------------------------------------------------
(* Opening                                                                 *)

\* The body of the response goes before a suggested one.  The body of the request
\* is never taken: the form opens with the response as its target.
BodyFrom(s, r) == IF r \notin {"pending", "empty"} THEN "captured"
                  ELSE IF "bodyContent" \in s.brings THEN "suggested" ELSE "default"

\* The type is read off the body that was taken.
TypeFrom(s, r) == IF BodyFrom(s, r) = "captured" THEN r ELSE "json"

\* The effect on isOpen, type, request and prefill.  A request is always given,
\* so of a suggestion only name, status and body are looked at.
Filled(s, r) ==
    [f \in FormFields |->
        CASE f \in {"urlPattern", "matchMethod", "simUrl", "paramList", "headerList"} -> "captured"
          [] f \in {"ruleName", "ruleType"} -> "suggested"
          [] f = "statusCode"  -> IF r # "pending" THEN "captured"
                                  ELSE IF f \in s.brings THEN "suggested" ELSE "default"
          [] f = "bodyContent" -> BodyFrom(s, r)
          [] OTHER             -> "default"]

\* The effect on the body's type and the GraphQL editors, of whatever body there was.
\* Mutant: it does not look at the type.
GraphqlAlways(next, type) == [next EXCEPT !.bodyContent = "sample"]
Graphql(next, type) ==
    IF type # "graphql" THEN next
    ELSE [next EXCEPT !.bodyContent = IF next["gqlQuery"] = "typed" THEN "typed" ELSE "sample"]

Drowned(type) == IF type = "graphql" THEN {"bodyContent"} ELSE {}

\* handleOpenQuickRule
OpenForm(s) ==
    /\ ~ formOpen /\ s \in Suggestions
    /\ formOpen' = TRUE
    /\ taken' = [reply |-> reply, by |-> s]
    /\ bodyType' = TypeFrom(s, reply)
    /\ form' = Graphql(Filled(s, reply), bodyType')
    /\ formTab' = "body" /\ simResult' = "none"
    /\ typed' = {}
    /\ untouched' = FormFields \ Drowned(bodyType')
    /\ UNCHANGED <<reply, formChanges>>

-----------------------------------------------------------------------------
(* Editing                                                                 *)

Visible == MatchFields \cup FieldsOf(formTab)

\* The fields S get values of the given origin, by a deed of the user.
Write(S, origin, type) ==
    LET next    == [f \in FormFields |-> IF f \in S THEN origin ELSE form[f]]
        written == Graphql(next, type)
    IN  /\ formOpen /\ formChanges < MaxFields
        /\ formChanges' = formChanges + 1
        /\ bodyType' = type
        /\ form' = written
        /\ untouched' = (untouched \ S) \ Drowned(type)
        /\ typed' = (IF origin = "typed" THEN typed \cup S ELSE typed \ S) \ Drowned(type)
        /\ simResult' = IF simResult = "none" THEN "none" ELSE "old"
        /\ UNCHANGED <<reply, formOpen, taken>>

\* Typing, choosing, adding and deleting rows: one field, of the tab that is shown.
\* Which of the body's editors is there depends on its type.
Editable(f) ==
    /\ f \in Visible
    /\ f = "bodyContent" => bodyType \notin {"none", "form-data", "x-www-form-urlencoded", "graphql"}
    /\ f = "formEntries" => bodyType \in {"form-data", "x-www-form-urlencoded"}
    /\ f = "gqlQuery"    => bodyType = "graphql"

TypeField(f) ==
    /\ Editable(f)
    /\ Write({f}, "typed", bodyType)
    /\ UNCHANGED formTab

\* A chip of the domains: handleSelectDomain
SelectDomain == Write({"urlPattern", "simUrl", "ruleName"}, "template", bodyType) /\ UNCHANGED formTab

\* handleApplyTemplate
ApplyTemplate == Write({"statusCode", "bodyContent"}, "template", "json") /\ UNCHANGED formTab

PickBodyType(type) ==
    /\ formTab = "body" /\ type # bodyType
    /\ Write({}, "default", type)
    /\ UNCHANGED formTab

\* handleSimulate: the button, and the opening of the tab.
RunTest ==
    /\ formOpen /\ formTab = "simulator"
    /\ simResult' = "current"
    /\ UNCHANGED <<reply, formOpen, form, bodyType, formTab, taken, typed, untouched, formChanges>>

OpenTab(tab) ==
    /\ formOpen /\ tab # formTab
    /\ formTab' = tab
    /\ simResult' = IF tab = "simulator" THEN "current" ELSE simResult
    /\ UNCHANGED <<reply, formOpen, form, bodyType, taken, typed, untouched, formChanges>>

\* handleSave makes a rule, for nobody: the dialog is given no onSaveRule.  The
\* cross and "Cancel" only close.
LeaveForm ==
    /\ formOpen
    /\ formOpen' = FALSE
    /\ FreshForm
    /\ UNCHANGED <<reply, formChanges>>

RuleFormNext ==
    \/ \E k \in Answers : ReplyComes(k)
    \/ \E s \in Suggestions : OpenForm(s)
    \/ \E f \in FormFields : TypeField(f)
    \/ SelectDomain \/ ApplyTemplate
    \/ \E type \in BodyTypes : PickBodyType(type)
    \/ RunTest \/ LeaveForm
    \/ \E tab \in FormTabs : OpenTab(tab)

RuleFormSpec == RuleFormInit /\ [][RuleFormNext]_ruleFormVars

-----------------------------------------------------------------------------
(* What the user may rely on                                               *)

\* What was typed stays, and what nobody changed is what the exchange and the
\* suggestion gave when the form opened, however it was answered since: but for
\* the body once its type was GraphQL, which is replaced by an example.
FormIsKept ==
    formOpen =>
        /\ \A f \in typed : form[f] = "typed"
        /\ \A f \in untouched : form[f] = Filled(taken.by, taken.reply)[f]
=============================================================================
