---------------------------- MODULE StoreScenes ----------------------------
(***************************************************************************)
(* Two scenes of the session store: everything users, imports and crashes  *)
(* can do, mixed with all captures but the last; and a rush of captures,   *)
(* the last one included, with nothing else going on.                      *)
(***************************************************************************)
EXTENDS SessionStore

CONSTANT Last  \* the exchange that is captured in a rush only

ASSUME LastAssumption == Last \in Captured

\* Nothing but captures and their pruning has left a trace.
OnlyCaptures ==
    /\ born = 1 /\ current = 1 /\ Exists(1) /\ crashes = 0
    /\ \A u \in Users : pc[u] = "idle"
    /\ \A e \in Ids : favs[e] = "none" /\ ~ rows[e].fav
    /\ \A e \in Imported : rows[e] = NoRow

Rush == stage[Last] # "new"

OneScene == Rush => OnlyCaptures

-----------------------------------------------------------------------------
(* A rush of captures, whose prunings overlap in every way, leaves no      *)
(* session above the ceiling once all of them are through, also when the   *)
(* session was above it before.                                            *)
RushEndsWithinCeiling == Rush /\ OnlyCaptures => AtRestWithinCeiling
=============================================================================
