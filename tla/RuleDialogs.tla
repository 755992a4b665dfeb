---------------------------- MODULE RuleDialogs ----------------------------
(***************************************************************************)
(* The rule dialogs of components/rules/, the rule lists of                *)
(* store/useProxyStore.ts, the setters of store/apiAdapter.ts and the      *)
(* application's lists behind them, which module RulesFile models.         *)
(*                                                                         *)
(* A dialog copies the store's list into a draft when it opens, and saves  *)
(* the draft: first to the application, then, when that call is back, to   *)
(* the store.  The store starts empty and is never filled from the         *)
(* application.  A dialog is a record of what sets it apart:               *)
(*   shares    a toggle changes the object that the store's list holds     *)
(*   template  what the draft starts from when the store's list is empty   *)
(*   initial   what the store's list is at startup                         *)
(*   keepsOne  the last entry cannot be deleted                            *)
(*   reads     the draft starts from the store                             *)
(*   calls     saving calls the application                                *)
(*   stores    saving sets the store's list                                *)
(*   lists     entries are added and deleted, not only toggled             *)
(*   kept      the application keeps what it is sent                       *)
(***************************************************************************)
EXTENDS Naturals, FiniteSets

CONSTANTS
    Rules,      \* identities of rules, those made at run time and those of before
    Template,   \* the one that ScriptDialog makes, "script-default"
    Defaults,   \* the lists that the store or a draft starts with
    Scenes,     \* the dialogs looked at
    MaxSaves,   \* clicks on "Save" between two restarts (bound)
    MaxOthers   \* changes by others (bound)

NoRules == [r \in {} |-> TRUE]
Lists   == UNION {[S -> BOOLEAN] : S \in SUBSET Rules}

ListDialog == [shares |-> FALSE, template |-> NoRules, initial |-> NoRules, keepsOne |-> FALSE,
               reads |-> TRUE, calls |-> TRUE, stores |-> TRUE, lists |-> TRUE,
               kept |-> TRUE]

BreakpointDialog     == [ListDialog EXCEPT !.shares = TRUE]
HostsDialog          == [ListDialog EXCEPT !.shares = TRUE]
RequestMapDialog     == [ListDialog EXCEPT !.shares = TRUE]
RequestCryptoDialog  == [ListDialog EXCEPT !.shares = TRUE]
RequestRewriteDialog == [ListDialog EXCEPT !.shares = TRUE]
RequestBlockDialog   == ListDialog
ScriptDialog         == [ListDialog EXCEPT !.keepsOne = TRUE,
                                           !.template = [r \in {Template} |-> TRUE]]
\* One profile, which is on or off.
WeakNetworkDialog    == [ListDialog EXCEPT !.lists = FALSE,
                                           !.initial = [r \in {Template} |-> FALSE]]
\* The dialog starts disabled and blank whatever is in force, and has no list in the store.
ExternalProxyDialog  == [WeakNetworkDialog EXCEPT !.reads = FALSE, !.stores = FALSE]
\* {mode, rules} has no field that the application's HostFilterConfig knows:
\* whatever is sent arrives as no rules and both lists off.
FilterDialog         == [ListDialog EXCEPT !.kept = FALSE,
                                           !.initial = [r \in {Template} |-> TRUE]]
\* onSaveRule, which no caller passes, would have been the call.
QuickRuleDialog      == [ListDialog EXCEPT !.reads = FALSE, !.calls = FALSE, !.stores = FALSE]

ASSUME DialogAssumption ==
    /\ Template \in Rules /\ IsFiniteSet(Rules)
    /\ Defaults \subseteq Lists
    /\ Scenes \subseteq {BreakpointDialog, HostsDialog, RequestMapDialog, RequestCryptoDialog,
                         RequestRewriteDialog, RequestBlockDialog, ScriptDialog, WeakNetworkDialog,
                         ExternalProxyDialog, FilterDialog, QuickRuleDialog}
    /\ MaxSaves \in Nat /\ MaxOthers \in Nat

VARIABLES
    dialog,     \* the dialog of this behaviour
    ruleStore,  \* the store's list: rules, enabled or not
    inForce,    \* the application's list
    isOpen,     \* the dialog is mounted
    draft,      \* its list
    saves,      \* calls of its setter, each with the array it was made from
    saveCount, others,  \* bounds
    apart       \* the store and the application may differ for another reason (history)

ruleVars == <<dialog, ruleStore, inForce, isOpen, draft, saves, saveCount, others, apart>>

Save == [nth : Nat, payload : Lists, array : Lists, arrived : BOOLEAN, alone : BOOLEAN]

RulesTypeOK ==
    /\ dialog \in Scenes
    /\ ruleStore \in Lists /\ inForce \in Lists /\ draft \in Lists
    /\ isOpen \in BOOLEAN /\ apart \in BOOLEAN
    /\ saves \subseteq Save
    /\ saveCount \in Nat /\ others \in Nat
    /\ \A s, t \in saves : s.nth = t.nth => s = t

\* A start: the application loads its lists from disk, the store knows none.
Started(list) ==
    /\ ruleStore' = dialog.initial
    /\ inForce' = list
    /\ isOpen' = FALSE /\ draft' = NoRules
    /\ saves' = {} /\ saveCount' = 0
    /\ apart' = (list # dialog.initial)

RulesInit ==
    /\ dialog \in Scenes
    /\ ruleStore = dialog.initial
    /\ inForce \in Defaults \cup {dialog.initial}
    /\ isOpen = FALSE /\ draft = NoRules
    /\ saves = {} /\ saveCount = 0 /\ others = 0
    /\ apart = (inForce # ruleStore)

-----------------------------------------------------------------------------
(* The dialog                                                              *)

OpenDialog ==
    /\ ~ isOpen
    /\ isOpen' = TRUE
    /\ draft' = IF dialog.reads /\ ruleStore # NoRules THEN ruleStore ELSE dialog.template
    /\ UNCHANGED <<dialog, ruleStore, inForce, saves, saveCount, others, apart>>

\* handleAdd, of a rule with a fresh identity: the clock's time.
AddRule(r) ==
    /\ isOpen /\ dialog.lists /\ r # Template
    /\ r \notin DOMAIN draft \cup DOMAIN ruleStore \cup DOMAIN inForce
    /\ \A s \in saves : r \notin DOMAIN s.array
    /\ draft' = [q \in DOMAIN draft \cup {r} |-> IF q = r THEN TRUE ELSE draft[q]]
    /\ UNCHANGED <<dialog, ruleStore, inForce, isOpen, saves, saveCount, others, apart>>

Flip(list, r) == IF r \in DOMAIN list THEN [list EXCEPT ![r] = ~ @] ELSE list

\* Mutant: the dialogs that copy an entry change it in place as well.
ToggleInPlace(r) ==
    /\ isOpen /\ r \in DOMAIN draft
    /\ draft' = Flip(draft, r)
    /\ ruleStore' = Flip(ruleStore, r)
    /\ saves' = {[s EXCEPT !.array = Flip(@, r)] : s \in saves}
    /\ UNCHANGED <<dialog, inForce, isOpen, saveCount, others, apart>>

\* A switch.  `updated[index].enabled = !...` changes the object itself, which is
\* also an entry of the store's list and of an array being saved.
ToggleRule(r) ==
    /\ isOpen /\ r \in DOMAIN draft
    /\ draft' = Flip(draft, r)
    /\ IF dialog.shares
         THEN /\ ruleStore' = Flip(ruleStore, r)
              /\ saves' = {[s EXCEPT !.array = Flip(@, r)] : s \in saves}
              /\ apart' = (apart \/ r \in DOMAIN ruleStore \/ \E s \in saves : r \in DOMAIN s.array)
         ELSE UNCHANGED <<ruleStore, saves, apart>>
    /\ UNCHANGED <<dialog, inForce, isOpen, saveCount, others>>

DeleteRule(r) ==
    /\ isOpen /\ dialog.lists /\ r \in DOMAIN draft
    /\ dialog.keepsOne => Cardinality(DOMAIN draft) > 1
    /\ draft' = [q \in DOMAIN draft \ {r} |-> draft[q]]
    /\ UNCHANGED <<dialog, ruleStore, inForce, isOpen, saves, saveCount, others, apart>>

\* Saves beside which another change was under way: their order is not known.
InCompany(S) == {[s EXCEPT !.alone = FALSE] : s \in S}

\* handleSave, which nothing keeps from being clicked again.
SaveRules ==
    /\ isOpen /\ dialog.calls
    /\ saveCount < MaxSaves
    /\ saveCount' = saveCount + 1
    /\ saves' = InCompany(saves) \cup
          {[nth |-> saveCount', payload |-> draft, array |-> draft,
            arrived |-> FALSE, alone |-> saves = {}]}
    /\ UNCHANGED <<dialog, ruleStore, inForce, isOpen, draft, others, apart>>

\* Without a call the dialog says that the rule was created, and closes.
SaveNothing ==
    /\ isOpen /\ ~ dialog.calls
    /\ isOpen' = FALSE /\ draft' = NoRules
    /\ UNCHANGED <<dialog, ruleStore, inForce, saves, saveCount, others, apart>>

\* The setter of the application.
Arrived(s) ==
    /\ s \in saves /\ ~ s.arrived
    /\ saves' = (saves \ {s}) \cup {[s EXCEPT !.arrived = TRUE]}
    /\ inForce' = IF dialog.kept THEN s.payload ELSE NoRules
    /\ UNCHANGED <<dialog, ruleStore, isOpen, draft, saveCount, others, apart>>

\* Mutant: the store is set before the call is known to have succeeded.
SavedEarly(s) ==
    /\ s \in saves
    /\ saves' = saves \ {s}
    /\ ruleStore' = s.array
    /\ isOpen' = FALSE /\ draft' = NoRules
    /\ apart' = ~ (s.alone /\ s.array = s.payload)
    /\ UNCHANGED <<dialog, inForce, saveCount, others>>

\* The await is over: the store takes the array, and whatever dialog of the kind is
\* open by now closes.  What the store
\* and the application hold is the same again, if no other save is under way and
\* the array is still what was sent.
Saved(s) ==
    /\ s \in saves /\ s.arrived
    /\ saves' = saves \ {s}
    /\ ruleStore' = IF dialog.stores THEN s.array ELSE ruleStore
    /\ isOpen' = FALSE /\ draft' = NoRules
    /\ apart' = ~ (s.alone /\ s.array = s.payload)
    /\ UNCHANGED <<dialog, inForce, saveCount, others>>

\* The call failed before it reached the application: a toast, and the dialog stays.
Failed(s) ==
    /\ s \in saves /\ ~ s.arrived
    /\ saves' = saves \ {s}
    /\ UNCHANGED <<dialog, ruleStore, inForce, isOpen, draft, saveCount, others, apart>>

CloseDialog ==
    /\ isOpen
    /\ isOpen' = FALSE /\ draft' = NoRules
    /\ UNCHANGED <<dialog, ruleStore, inForce, saves, saveCount, others, apart>>

-----------------------------------------------------------------------------
(* Others                                                                  *)

\* handleBlockUrl of the context menu: the application adds a rule, the store
\* is not told.
BlockUrl(r) ==
    /\ dialog = RequestBlockDialog /\ others < MaxOthers
    /\ r \notin DOMAIN draft \cup DOMAIN ruleStore \cup DOMAIN inForce
    /\ others' = others + 1
    /\ inForce' = [q \in DOMAIN inForce \cup {r} |-> IF q = r THEN TRUE ELSE inForce[q]]
    /\ apart' = TRUE /\ saves' = InCompany(saves)
    /\ UNCHANGED <<dialog, ruleStore, isOpen, draft, saveCount>>

\* The program is started anew: rules.json was saved by each setter, but for the filter.
RestartApp ==
    /\ others < MaxOthers
    /\ others' = others + 1
    /\ Started(IF dialog.kept THEN inForce ELSE NoRules)
    /\ UNCHANGED dialog

-----------------------------------------------------------------------------
DialogSteps ==
    \/ OpenDialog \/ SaveRules \/ SaveNothing \/ CloseDialog
    \/ \E r \in Rules : AddRule(r) \/ ToggleRule(r) \/ DeleteRule(r)
SaveSteps == \E s \in saves : Arrived(s) \/ Saved(s) \/ Failed(s)
OtherSteps == RestartApp \/ \E r \in Rules : BlockUrl(r)

RulesNext == DialogSteps \/ SaveSteps \/ OtherSteps
RulesSpec == RulesInit /\ [][RulesNext]_ruleVars

-----------------------------------------------------------------------------
(* What the user may rely on                                               *)

\* The list a dialog shows when it opens is the list in force, once a save has
\* ended that nothing else overtook, whatever was edited, cancelled or failed since.
StoreMatchesApplication ==
    dialog.stores /\ dialog.kept /\ ~ apart /\ saves = {} => ruleStore = inForce

\* Where a dialog copies its entries, editing and cancelling leave the store's list
\* alone: it changes when a save has reached the application, or at a restart.
CancelChangesNothing ==
    [][~ dialog.shares /\ ruleStore' # ruleStore =>
          \/ \E s \in saves \ saves' : s.arrived
          \/ others' # others]_ruleVars
=============================================================================
