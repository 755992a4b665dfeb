---------------------------- MODULE SessionStore ----------------------------
(***************************************************************************)
(* Captured traffic in SQLite: pkg/storage/session_repo.go and the         *)
(* listener of app.go that feeds it, with the session operations of the    *)
(* GUI, the mobile API and the HAR import.                                 *)
(*                                                                         *)
(* A transaction or a single statement is one step; what a function does in*)
(* several statements is several steps, between which other goroutines run *)
(* and the process may end.  A row keeps its session, its favorite flag and*)
(* whether its response has been saved; sizes and texts are left out.      *)
(***************************************************************************)
EXTENDS Naturals, FiniteSets

CONSTANTS
    Captured,    \* exchanges of the proxy, numbered by their start times
    Imported,    \* the entries of a HAR file, likewise; their IDs are hashes of them
    Users,       \* goroutines that create sessions or import
    Ops,         \* the operations the users call
    Ceiling,     \* the number of requests a session may hold, 50000 in the code
    MaxSessions, \* sessions of one behaviour (bound)
    MaxCrashes   \* crashes of one behaviour (bound)

AllOps == {"create", "delete", "favorite", "unfavorite", "remove", "import"}

ASSUME StoreAssumption ==
    /\ Captured \subseteq Nat /\ Imported \subseteq Nat
    /\ Captured \cap Imported = {} /\ IsFiniteSet(Captured \cup Imported)
    /\ Ops \subseteq AllOps
    /\ Ceiling \in Nat \ {0} /\ MaxSessions \in Nat \ {0} /\ MaxCrashes \in Nat

Ids == Captured \cup Imported
Sids == 1..MaxSessions
NoSession == 0

VARIABLES
    name,     \* per session: which of "name", "name (2)", ..., or 0 if it has no row
    count,    \* per session: request_count
    rows,     \* the requests table: per ID its session, or 0 if it has no row
    favs,     \* the favorites table: "none", a copy "bare" of response, or "full"
    current,  \* a.currentSess, or 0
    born,     \* sessions created so far: the last ID drawn
    stage,    \* per captured exchange: how far the listener is with it
    dest,     \* per captured exchange: the session it is saved to
    pruner,   \* per captured exchange: the goroutine started after its save
    pc, mine, \* per user: where it is, and the name it tries or the session it made
    crashes

tables == <<name, count, rows, favs>>
proxy  == <<stage, dest, pruner>>
users  == <<pc, mine>>
vars   == <<tables, current, born, proxy, users, crashes>>

NoRow == [sess |-> NoSession, fav |-> FALSE, resp |-> FALSE]
NoPruner == [at |-> "none", n |-> 0]

Exists(s) == s # NoSession /\ name[s] # 0
RowsOf(s) == {e \in Ids : rows[e].sess = s}
Plain(s)  == {e \in RowsOf(s) : ~ rows[e].fav}

\* After startup: a default session is current.
Init ==
    /\ name = [s \in Sids |-> IF s = 1 THEN 1 ELSE 0]
    /\ count = [s \in Sids |-> 0]
    /\ rows = [e \in Ids |-> NoRow]
    /\ favs = [e \in Ids |-> "none"]
    /\ current = 1 /\ born = 1
    /\ stage = [e \in Captured |-> "new"]
    /\ dest = [e \in Captured |-> NoSession]
    /\ pruner = [e \in Captured |-> NoPruner]
    /\ pc = [u \in Users |-> "idle"]
    /\ mine = [u \in Users |-> 0]
    /\ crashes = 0

-----------------------------------------------------------------------------
(* The listener of the proxy                                               *)

Stage(e, to) == stage' = [stage EXCEPT ![e] = to]

\* appEventListener.OnRequest reads a.currentSess.
Capture(e) ==
    /\ stage[e] = "new" /\ current # NoSession
    /\ dest' = [dest EXCEPT ![e] = current]
    /\ Stage(e, "save")
    /\ UNCHANGED <<tables, current, born, pruner, users, crashes>>

\* Mutant: foreign keys are not enforced.
SaveRequestUnchecked(e) ==
    /\ stage[e] = "save"
    /\ rows' = [rows EXCEPT ![e] = [NoRow EXCEPT !.sess = dest[e]]]
    /\ count' = [count EXCEPT ![dest[e]] = @ + 1]
    /\ pruner' = [pruner EXCEPT ![e] = [at |-> "count", n |-> 0]]
    /\ Stage(e, "saved")
    /\ UNCHANGED <<name, favs, dest, current, born, users, crashes>>

\* SaveRequest: the row and the counter in one transaction, which fails on the
\* foreign key when the session has been deleted; then a goroutine that prunes.
\* A request that a rule has answered is saved with its response.
SaveRequest(e) ==
    /\ stage[e] = "save"
    /\ \/ /\ Exists(dest[e])
          /\ \E answered \in BOOLEAN :
                rows' = [rows EXCEPT ![e] = [sess |-> dest[e], fav |-> FALSE, resp |-> answered]]
          /\ count' = [count EXCEPT ![dest[e]] = @ + 1]
          /\ pruner' = [pruner EXCEPT ![e] = [at |-> "count", n |-> 0]]
          /\ Stage(e, "saved")
       \/ /\ ~ Exists(dest[e])
          /\ Stage(e, "failed")
          /\ UNCHANGED <<rows, count, pruner>>
    /\ UNCHANGED <<name, favs, dest, current, born, users, crashes>>

\* Mutant: the update inserts what it does not find.
SaveResponseAnyway(e) ==
    /\ stage[e] \in {"saved", "failed"}
    /\ rows' = [rows EXCEPT ![e].resp = TRUE]
    /\ Stage(e, "done")
    /\ UNCHANGED <<name, count, favs, dest, pruner, current, born, users, crashes>>

\* SaveResponse updates the row, if it is there.
SaveResponse(e) ==
    /\ stage[e] \in {"saved", "failed"}
    /\ rows' = [rows EXCEPT ![e].resp = rows[e].sess # NoSession]
    /\ Stage(e, "done")
    /\ UNCHANGED <<name, count, favs, dest, pruner, current, born, users, crashes>>

-----------------------------------------------------------------------------
(* EnforceSessionCeiling, in the goroutine of a saved request              *)

Pruner(e, at, n) == pruner' = [pruner EXCEPT ![e] = [at |-> at, n |-> n]]
pruning == <<stage, dest, current, born, users, crashes>>

\* Mutant: the comparison is off by one.
PruneCountStrict(e) ==
    LET n == Cardinality(Plain(dest[e])) IN
    /\ pruner[e].at = "count"
    /\ IF n <= Ceiling + 1 THEN Pruner(e, "none", 0) ELSE Pruner(e, "delete", n - Ceiling)
    /\ UNCHANGED <<tables, pruning>>

PruneCount(e) ==
    LET n == Cardinality(Plain(dest[e])) IN
    /\ pruner[e].at = "count"
    /\ IF n <= Ceiling THEN Pruner(e, "none", 0) ELSE Pruner(e, "delete", n - Ceiling)
    /\ UNCHANGED <<tables, pruning>>

\* ORDER BY start_time ASC LIMIT n
Oldest(S, n) == {e \in S : Cardinality({d \in S : d < e}) < n}

PruneDelete(e) ==
    /\ pruner[e].at = "delete"
    /\ rows' = [d \in Ids |-> IF d \in Oldest(Plain(dest[e]), pruner[e].n) THEN NoRow ELSE rows[d]]
    /\ Pruner(e, "recount", 0)
    /\ UNCHANGED <<name, count, favs, pruning>>

PruneRecount(e) ==
    /\ pruner[e].at = "recount"
    /\ Pruner(e, "update", Cardinality(RowsOf(dest[e])))
    /\ UNCHANGED <<tables, pruning>>

PruneUpdate(e) ==
    /\ pruner[e].at = "update"
    /\ count' = IF Exists(dest[e]) THEN [count EXCEPT ![dest[e]] = pruner[e].n] ELSE count
    /\ Pruner(e, "none", 0)
    /\ UNCHANGED <<name, rows, favs, pruning>>

-----------------------------------------------------------------------------
(* CreateSession, CreateNewSession and ImportHAR                           *)

At(u, from, to, m) ==
    /\ pc[u] = from /\ pc' = [pc EXCEPT ![u] = to]
    /\ mine' = [mine EXCEPT ![u] = m]
quiet == <<proxy, crashes>>

Begin(u, o) ==
    /\ o \in Ops \cap {"create", "import"} /\ current # NoSession
    /\ At(u, "idle", o, 1)
    /\ UNCHANGED <<tables, current, born, quiet>>

\* uniqueSessionName asks for one candidate after another.
NameTaken(u, o) ==
    /\ At(u, o, o, mine[u] + 1)
    /\ \E s \in Sids : name[s] = mine[u]
    /\ UNCHANGED <<tables, current, born, quiet>>

NameFree(u, o) ==
    /\ At(u, o, IF o = "create" THEN "insert" ELSE "insertImport", mine[u])
    /\ \A s \in Sids : name[s] # mine[u]
    /\ UNCHANGED <<tables, current, born, quiet>>

\* The new session becomes the current one.
Insert(u) ==
    /\ born < MaxSessions
    /\ name' = [name EXCEPT ![born + 1] = mine[u]]
    /\ born' = born + 1 /\ current' = born + 1
    /\ At(u, "insert", "idle", 0)
    /\ UNCHANGED <<count, rows, favs, quiet>>

InsertImport(u) ==
    /\ born < MaxSessions
    /\ name' = [name EXCEPT ![born + 1] = mine[u]]
    /\ born' = born + 1
    /\ At(u, "insertImport", "batch", born + 1)
    /\ UNCHANGED <<count, rows, favs, current, quiet>>

\* Mutant: the counter is not updated.
BatchUncounted(u) ==
    LET s == mine[u] IN
    /\ pc[u] = "batch"
    /\ \/ /\ Exists(s) /\ \A e \in Imported : rows[e].sess = NoSession
          /\ rows' = [e \in Ids |-> IF e \in Imported
                        THEN [sess |-> s, fav |-> FALSE, resp |-> TRUE] ELSE rows[e]]
          /\ At(u, "batch", "idle", 0)
       \/ /\ ~ Exists(s) \/ \E e \in Imported : rows[e].sess # NoSession
          /\ At(u, "batch", "rollback", s)
          /\ UNCHANGED rows
    /\ UNCHANGED <<name, count, favs, current, born, quiet>>

\* SaveRequestsBatch: all the entries and the counter, or nothing: an ID that is
\* in the table already breaks the transaction, and so does a deleted session.
Batch(u) ==
    LET s == mine[u] IN
    /\ pc[u] = "batch"
    /\ \/ /\ Exists(s) /\ \A e \in Imported : rows[e].sess = NoSession
          /\ rows' = [e \in Ids |-> IF e \in Imported
                        THEN [sess |-> s, fav |-> FALSE, resp |-> TRUE] ELSE rows[e]]
          /\ count' = [count EXCEPT ![s] = @ + Cardinality(Imported)]
          /\ At(u, "batch", "idle", 0)
       \/ /\ ~ Exists(s) \/ \E e \in Imported : rows[e].sess # NoSession
          /\ At(u, "batch", "rollback", s)
          /\ UNCHANGED <<rows, count>>
    /\ UNCHANGED <<name, favs, current, born, quiet>>

-----------------------------------------------------------------------------
(* The other operations, each one transaction                              *)

Copy(e) == IF rows[e].resp THEN "full" ELSE "bare"

Drop(s) ==
    /\ rows' = [e \in Ids |-> IF rows[e].sess = s THEN NoRow ELSE rows[e]]
    /\ name' = [name EXCEPT ![s] = 0]
    /\ count' = [count EXCEPT ![s] = 0]

\* Mutant: INSERT OR IGNORE, a copy made earlier stays as it was.
DeletedStale(s) ==
    /\ favs' = [e \in Ids |-> IF rows[e].sess = s /\ rows[e].fav /\ favs[e] = "none"
                              THEN Copy(e) ELSE favs[e]]
    /\ Drop(s)

\* DeleteSession copies the favorites, then deletes rows and session; INSERT OR
\* REPLACE brings a copy up to date.
Deleted(s) ==
    /\ favs' = [e \in Ids |-> IF rows[e].sess = s /\ rows[e].fav THEN Copy(e) ELSE favs[e]]
    /\ Drop(s)

\* a.currentSess is left as it is.
DeleteSession(s) ==
    /\ "delete" \in Ops /\ Exists(s)
    /\ Deleted(s)
    /\ UNCHANGED <<current, born, users, quiet>>

\* ImportHAR deletes the session it made when the batch has failed.
Rollback(u) ==
    /\ pc[u] = "rollback"
    /\ Deleted(mine[u])
    /\ At(u, "rollback", "idle", 0)
    /\ UNCHANGED <<current, born, quiet>>

\* ToggleFavorite
Favorite(e) ==
    /\ "favorite" \in Ops /\ rows[e].sess # NoSession
    /\ rows' = [rows EXCEPT ![e].fav = TRUE]
    /\ favs' = [favs EXCEPT ![e] = Copy(e)]
    /\ UNCHANGED <<name, count, current, born, users, quiet>>

Unfavorite(e) ==
    /\ "unfavorite" \in Ops
    /\ rows' = [rows EXCEPT ![e].fav = FALSE]
    /\ favs' = [favs EXCEPT ![e] = "none"]
    /\ UNCHANGED <<name, count, current, born, users, quiet>>

DeleteFavorite(e) ==
    /\ "remove" \in Ops
    /\ rows' = [rows EXCEPT ![e] = NoRow]
    /\ favs' = [favs EXCEPT ![e] = "none"]
    /\ UNCHANGED <<name, count, current, born, users, quiet>>

-----------------------------------------------------------------------------
\* The process ends, and with it every goroutine.
Crash ==
    /\ crashes < MaxCrashes /\ current # NoSession
    /\ crashes' = crashes + 1
    /\ current' = NoSession
    /\ stage' = [e \in Captured |-> IF stage[e] = "new" THEN "new" ELSE "done"]
    /\ dest' = [e \in Captured |-> NoSession]
    /\ pruner' = [e \in Captured |-> NoPruner]
    /\ pc' = [u \in Users |-> "idle"]
    /\ mine' = [u \in Users |-> 0]
    /\ UNCHANGED <<tables, born>>

\* startup() creates a default session, under the first name that is free.
Startup ==
    /\ current = NoSession /\ born < MaxSessions
    /\ \E n \in 1..MaxSessions :
          /\ \A s \in Sids : name[s] # n
          /\ \A m \in 1..(n - 1) : \E s \in Sids : name[s] = m
          /\ name' = [name EXCEPT ![born + 1] = n]
    /\ born' = born + 1 /\ current' = born + 1
    /\ UNCHANGED <<count, rows, favs, proxy, users, crashes>>

Listener(e) == Capture(e) \/ SaveRequest(e) \/ SaveResponse(e)
Prune(e) == PruneCount(e) \/ PruneDelete(e) \/ PruneRecount(e) \/ PruneUpdate(e)
User(u) ==
    \/ \E o \in {"create", "import"} : Begin(u, o) \/ NameTaken(u, o) \/ NameFree(u, o)
    \/ Insert(u) \/ InsertImport(u) \/ Batch(u) \/ Rollback(u)

Next ==
    \/ \E e \in Captured : Listener(e) \/ Prune(e)
    \/ \E u \in Users : User(u)
    \/ \E s \in Sids : DeleteSession(s)
    \/ \E e \in Ids : Favorite(e) \/ Unfavorite(e) \/ DeleteFavorite(e)
    \/ Crash \/ Startup

Spec == Init /\ [][Next]_vars

-----------------------------------------------------------------------------
(* Types, and: what is not in the requests table has neither flag.         *)
TypeOK ==
    /\ name \in [Sids -> Nat]
    /\ count \in [Sids -> Nat]
    /\ rows \in [Ids -> [sess : Sids \cup {NoSession}, fav : BOOLEAN, resp : BOOLEAN]]
    /\ \A e \in Ids : rows[e].sess = NoSession => rows[e] = NoRow
    /\ favs \in [Ids -> {"none", "bare", "full"}]
    /\ current \in Sids \cup {NoSession} /\ born \in Sids
    /\ stage \in [Captured -> {"new", "save", "saved", "failed", "done"}]
    /\ dest \in [Captured -> Sids \cup {NoSession}]
    /\ pruner \in [Captured -> [at : {"none", "count", "delete", "recount", "update"},
                               n : Nat]]
    /\ pc \in [Users -> {"idle", "create", "import", "insert", "insertImport", "batch",
                         "rollback"}]
    /\ mine \in [Users -> Nat]
    /\ crashes \in 0..MaxCrashes

(* A save that overtakes the deletion of its session leaves nothing behind:*)
(* every row belongs to a session that is listed.                          *)
NoOrphans == \A e \in Ids : rows[e].sess # NoSession => Exists(rows[e].sess)

\* What GetFavorites lists, and whether it is shown with its response.
IsFavorite(e) == rows[e].fav \/ favs[e] # "none"
Complete(e) == IF rows[e].sess # NoSession THEN rows[e].resp ELSE favs[e] = "full"

(* A favorite, and the response that was saved with it, goes only when the *)
(* user takes it off: pruning, deleting its session and a crash keep both, *)
(* although the copy in favorites may be older than the response.          *)
FavoritesSurvive ==
    [][\A e \in Ids :
          IsFavorite(e) /\ ~ (Unfavorite(e) \/ DeleteFavorite(e)) =>
              IsFavorite(e)' /\ (Complete(e) => Complete(e)')]_vars

(* The count a session is listed with is the number of its requests, while *)
(* saves, imports, deletions and crashes interleave (without pruning).     *)
CountsAreRows == \A s \in Sids : count[s] = Cardinality(RowsOf(s))

Settled == /\ \A e \in Captured : stage[e] \in {"new", "done"} /\ pruner[e].at = "none"
           /\ \A u \in Users : pc[u] = "idle"

(* When the proxy is at rest no session holds more than the ceiling.       *)
AtRestWithinCeiling ==
    Settled => \A s \in Sids : Cardinality(Plain(s)) <= Ceiling

-----------------------------------------------------------------------------
(* What a comment says and the code does not do                            *)

(* EnforceSessionCeiling: "requests exceeding maxCount are pruned".  Two   *)
(* goroutines that counted the same excess prune below the ceiling.        *)
PrunesOnlyExcess ==
    [][\A e \in Captured :
          PruneDelete(e) => Cardinality(Plain(dest[e])') >= Ceiling]_vars
=============================================================================
