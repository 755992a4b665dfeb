------------------------- MODULE SessionStoreProofs -------------------------
(***************************************************************************)
(* Theorems about the session storage, for any exchanges, imported files,  *)
(* users and ceiling: its types, that no row outlives its session, and     *)
(* that a favorite goes only when the user takes it off.                   *)
(***************************************************************************)
EXTENDS StoreScenes, FiniteSetTheorems, TLAPS

\* A user that imports knows the session it has made, deleted since or not;
\* one that is about to insert a session knows a name for it.
UserInv ==
    \A u \in Users :
        /\ pc[u] \in {"create", "import", "insert", "insertImport"} => mine[u] # 0
        /\ pc[u] \in {"batch", "rollback"} => mine[u] \in Sids

StoreInv == TypeOK /\ UserInv /\ NoOrphans

\* An imported entry always has its response, and so have its copies.  A copy
\* of a captured exchange that is still in the table is the copy of a favorite,
\* because the ID of a captured exchange is inserted once.
FavInv ==
    /\ \A e \in Imported : /\ rows[e].sess # NoSession => rows[e].resp
                           /\ favs[e] # "bare"
    /\ \A e \in Captured : /\ rows[e].sess # NoSession /\ favs[e] # "none" => rows[e].fav
                           /\ stage[e] \in {"new", "save"} =>
                                  rows[e] = NoRow /\ favs[e] = "none"

\* The counts of the SELECT statements are numbers.
LEMMA CountsAreNat == \A S \in SUBSET Ids : Cardinality(S) \in Nat
BY StoreAssumption, FS_Subset, FS_CardinalityType DEF Ids

\* A row with a flag set is a row; clearing a flag of no row leaves no row.
LEMMA FlagsKeepRows ==
  ASSUME NEW r \in [sess : Sids \cup {NoSession}, fav : BOOLEAN, resp : BOOLEAN],
         NEW b \in BOOLEAN
  PROVE  /\ [r EXCEPT !.fav = b] = [sess |-> r.sess, fav |-> b, resp |-> r.resp]
         /\ [r EXCEPT !.resp = b] = [sess |-> r.sess, fav |-> r.fav, resp |-> b]
OBVIOUS

\* Deleting a session, by DeleteSession or at the end of a failed import.
LEMMA DeletedKeepsInv ==
  ASSUME StoreInv, NEW s \in Sids, Deleted(s)
  PROVE  /\ name' \in [Sids -> Nat] /\ count' \in [Sids -> Nat]
         /\ rows' \in [Ids -> [sess : Sids \cup {NoSession}, fav : BOOLEAN, resp : BOOLEAN]]
         /\ \A e \in Ids : rows'[e].sess = NoSession => rows'[e] = NoRow
         /\ favs' \in [Ids -> {"none", "bare", "full"}]
         /\ NoOrphans'
<1> USE DEF StoreInv, TypeOK, Deleted, Drop
<1>1. NoRow \in [sess : Sids \cup {NoSession}, fav : BOOLEAN, resp : BOOLEAN]
  BY DEF NoRow
<1>2. name' \in [Sids -> Nat] /\ count' \in [Sids -> Nat]
  OBVIOUS
<1>3. rows' \in [Ids -> [sess : Sids \cup {NoSession}, fav : BOOLEAN, resp : BOOLEAN]]
  BY <1>1
<1>4. \A e \in Ids : rows'[e].sess = NoSession => rows'[e] = NoRow
  OBVIOUS
<1>5. favs' \in [Ids -> {"none", "bare", "full"}]
  BY DEF Copy
<1>6. NoOrphans'
  BY DEF NoOrphans, Exists, NoRow, Sids, NoSession
<1> QED
  BY <1>2, <1>3, <1>4, <1>5, <1>6

\* The listener and the pruner touch neither the users nor the sessions' names.
LEMMA ProxyStep ==
  ASSUME StoreInv, NEW e \in Captured, Listener(e) \/ Prune(e)
  PROVE  StoreInv'
<1> USE DEF StoreInv, TypeOK, UserInv, Ids
<1>1. NoRow \in [sess : Sids \cup {NoSession}, fav : BOOLEAN, resp : BOOLEAN]
  BY DEF NoRow
<1>2. CASE Capture(e)
  BY <1>2 DEF Capture, Stage, tables, users, NoOrphans, Exists
<1>3. CASE SaveRequest(e)
  <2>1. CASE /\ Exists(dest[e])
             /\ \E answered \in BOOLEAN :
                  rows' = [rows EXCEPT ![e] = [sess |-> dest[e], fav |-> FALSE, resp |-> answered]]
             /\ count' = [count EXCEPT ![dest[e]] = @ + 1]
             /\ pruner' = [pruner EXCEPT ![e] = [at |-> "count", n |-> 0]]
             /\ Stage(e, "saved")
    <3>1. dest[e] \in Sids
      BY <2>1 DEF Exists
    <3>2. PICK answered \in BOOLEAN :
            rows' = [rows EXCEPT ![e] = [sess |-> dest[e], fav |-> FALSE, resp |-> answered]]
      BY <2>1
    <3>3. TypeOK'
      BY <1>3, <2>1, <3>1, <3>2, SMTT(20) DEF SaveRequest, Stage, users, Sids, NoSession
    <3>4. NoOrphans'
      BY <1>3, <2>1, <3>2 DEF SaveRequest, NoOrphans, Exists
    <3> QED
      BY <1>3, <3>3, <3>4 DEF SaveRequest, users
  <2>2. CASE ~ Exists(dest[e]) /\ Stage(e, "failed") /\ UNCHANGED <<rows, count, pruner>>
    BY <1>3, <2>2 DEF SaveRequest, Stage, users, NoOrphans, Exists
  <2> QED
    BY <1>3, <2>1, <2>2 DEF SaveRequest
<1>4. CASE SaveResponse(e)
  <2>0. rows' = [rows EXCEPT ![e] = [sess |-> rows[e].sess, fav |-> rows[e].fav,
                                     resp |-> (rows[e].sess # NoSession)]]
    BY <1>4, FlagsKeepRows DEF SaveResponse
  <2>1. rows' \in [Ids -> [sess : Sids \cup {NoSession}, fav : BOOLEAN, resp : BOOLEAN]]
    BY <1>4, <2>0
  <2>2. \A d \in Ids : rows'[d].sess = NoSession => rows'[d] = NoRow
    <3>1. ASSUME rows[e].sess = NoSession PROVE rows'[e] = NoRow
      <4>1. rows[e] = [sess |-> NoSession, fav |-> FALSE, resp |-> FALSE]
        BY <3>1 DEF NoRow
      <4>2. rows'[e].sess = NoSession /\ rows'[e].fav = FALSE /\ rows'[e].resp = FALSE
        BY <2>0, <3>1, <4>1
      <4> QED
        BY <2>0, <4>1, <4>2 DEF NoRow
    <3>2. rows'[e].sess = rows[e].sess
      BY <2>0
    <3>3. \A d \in Ids \ {e} : rows'[d] = rows[d]
      BY <2>0
    <3> QED
      BY <3>1, <3>2, <3>3
  <2>3. TypeOK'
    BY <1>4, <2>1, <2>2 DEF SaveResponse, Stage, users
  <2>4. NoOrphans'
    BY <1>4 DEF SaveResponse, NoOrphans, Exists
  <2> QED
    BY <1>4, <2>3, <2>4 DEF SaveResponse, users
<1>5. CASE PruneCount(e)
  <2>1. Cardinality(Plain(dest[e])) \in Nat
    BY CountsAreNat DEF Plain, RowsOf
  <2>2. pruner' \in [Captured -> [at : {"none", "count", "delete", "recount", "update"}, n : Nat]]
    BY <1>5, <2>1, StoreAssumption DEF PruneCount, Pruner
  <2> QED
    BY <1>5, <2>2 DEF PruneCount, pruning, tables, users, NoOrphans, Exists
<1>6. CASE PruneDelete(e)
  <2>1. rows' \in [Ids -> [sess : Sids \cup {NoSession}, fav : BOOLEAN, resp : BOOLEAN]]
    BY <1>6, <1>1 DEF PruneDelete
  <2>2. \A d \in Ids : rows'[d] \in {rows[d], NoRow}
    BY <1>6 DEF PruneDelete
  <2>3. TypeOK'
    BY <1>6, <2>1, <2>2 DEF PruneDelete, Pruner, pruning, users
  <2>4. NoOrphans'
    BY <1>6, <2>2 DEF PruneDelete, NoOrphans, Exists, NoRow
  <2> QED
    BY <1>6, <2>3, <2>4 DEF PruneDelete, pruning, users
<1>7. CASE PruneRecount(e)
  <2>1. Cardinality(RowsOf(dest[e])) \in Nat
    BY CountsAreNat DEF RowsOf
  <2> QED
    BY <1>7, <2>1 DEF PruneRecount, Pruner, pruning, tables, users, NoOrphans, Exists
<1>8. CASE PruneUpdate(e)
  <2>1. pruner[e].n \in Nat
    OBVIOUS
  <2> QED
    BY <1>8, <2>1 DEF PruneUpdate, Pruner, pruning, users, NoOrphans, Exists
<1> QED
  BY <1>2, <1>3, <1>4, <1>5, <1>6, <1>7, <1>8 DEF Listener, Prune

\* Creating a session and importing a file.
LEMMA UserStep ==
  ASSUME StoreInv, NEW u \in Users, User(u)
  PROVE  StoreInv'
<1> USE DEF StoreInv, TypeOK, UserInv, At, quiet, proxy
<1>1. ASSUME NEW o \in {"create", "import"}, Begin(u, o) PROVE StoreInv'
  BY <1>1 DEF Begin, tables, NoOrphans, Exists
<1>2. ASSUME NEW o \in {"create", "import"}, NameTaken(u, o) PROVE StoreInv'
  BY <1>2 DEF NameTaken, tables, NoOrphans, Exists
<1>3. ASSUME NEW o \in {"create", "import"}, NameFree(u, o) PROVE StoreInv'
  BY <1>3 DEF NameFree, tables, NoOrphans, Exists
<1>4. CASE Insert(u)
  <2>1. born + 1 \in Sids
    BY <1>4, StoreAssumption DEF Insert, Sids
  <2>2. NoOrphans'
    BY <1>4 DEF Insert, NoOrphans, Exists
  <2> QED
    BY <1>4, <2>1, <2>2 DEF Insert
<1>5. CASE InsertImport(u)
  <2>1. born + 1 \in Sids /\ born + 1 \in Nat
    BY <1>5, StoreAssumption DEF InsertImport, Sids
  <2>2. NoOrphans'
    BY <1>5 DEF InsertImport, NoOrphans, Exists
  <2> QED
    BY <1>5, <2>1, <2>2 DEF InsertImport
<1>6. CASE Batch(u)
  <2>1. mine[u] \in Sids
    BY <1>6 DEF Batch
  <2>2. CASE /\ Exists(mine[u])
             /\ rows' = [e \in Ids |-> IF e \in Imported
                           THEN [sess |-> mine[u], fav |-> FALSE, resp |-> TRUE] ELSE rows[e]]
             /\ count' = [count EXCEPT ![mine[u]] = @ + Cardinality(Imported)]
             /\ At(u, "batch", "idle", 0)
    <3>1. Cardinality(Imported) \in Nat
      BY CountsAreNat DEF Ids
    <3>2. count' \in [Sids -> Nat]
      BY <2>1, <2>2, <3>1
    <3>3. rows' \in [Ids -> [sess : Sids \cup {NoSession}, fav : BOOLEAN, resp : BOOLEAN]]
      BY <2>1, <2>2
    <3>4. \A e \in Ids : rows'[e].sess = NoSession => rows'[e] = NoRow
      BY <2>1, <2>2 DEF Sids, NoSession
    <3>5. NoOrphans'
      BY <1>6, <2>2 DEF Batch, NoOrphans, Exists
    <3> QED
      BY <1>6, <2>2, <3>2, <3>3, <3>4, <3>5 DEF Batch
  <2>3. CASE At(u, "batch", "rollback", mine[u]) /\ UNCHANGED <<rows, count>>
    BY <1>6, <2>1, <2>3 DEF Batch, NoOrphans, Exists
  <2> QED
    BY <1>6, <2>2, <2>3 DEF Batch
<1>7. CASE Rollback(u)
  <2>1. mine[u] \in Sids /\ Deleted(mine[u])
    BY <1>7 DEF Rollback
  <2> QED
    BY <1>7, <2>1, DeletedKeepsInv DEF Rollback
<1> QED
  BY <1>1, <1>2, <1>3, <1>4, <1>5, <1>6, <1>7 DEF User

LEMMA InvStep == StoreInv /\ [Next]_vars => StoreInv'
<1> SUFFICES ASSUME StoreInv, [Next]_vars PROVE StoreInv'
  OBVIOUS
<1>1. ASSUME NEW s \in Sids, DeleteSession(s) PROVE StoreInv'
  BY <1>1, DeletedKeepsInv DEF DeleteSession, StoreInv, TypeOK, UserInv, users, quiet, proxy
<1>2. ASSUME NEW e \in Ids, Favorite(e) PROVE StoreInv'
  <2> USE DEF StoreInv, TypeOK
  <2>0. rows' = [rows EXCEPT ![e] = [sess |-> rows[e].sess, fav |-> TRUE,
                                     resp |-> rows[e].resp]]
    BY <1>2, FlagsKeepRows DEF Favorite
  <2>1. rows' \in [Ids -> [sess : Sids \cup {NoSession}, fav : BOOLEAN, resp : BOOLEAN]]
    BY <2>0
  <2>2. \A d \in Ids : rows'[d].sess = NoSession => rows'[d] = NoRow
    BY <1>2, <2>0 DEF Favorite
  <2>3. favs' \in [Ids -> {"none", "bare", "full"}]
    BY <1>2 DEF Favorite, Copy
  <2>4. NoOrphans'
    BY <1>2 DEF Favorite, NoOrphans, Exists
  <2> QED
    BY <1>2, <2>1, <2>2, <2>3, <2>4 DEF Favorite, UserInv, users, quiet, proxy
<1>3. ASSUME NEW e \in Ids, Unfavorite(e) PROVE StoreInv'
  <2> USE DEF StoreInv, TypeOK
  <2>0. rows' = [rows EXCEPT ![e] = [sess |-> rows[e].sess, fav |-> FALSE,
                                     resp |-> rows[e].resp]]
    BY <1>3, FlagsKeepRows DEF Unfavorite
  <2>1. rows' \in [Ids -> [sess : Sids \cup {NoSession}, fav : BOOLEAN, resp : BOOLEAN]]
    BY <2>0
  <2>2. \A d \in Ids : rows'[d].sess = NoSession => rows'[d] = NoRow
    <3>1. ASSUME rows[e].sess = NoSession PROVE rows'[e] = NoRow
      <4>1. rows[e] = [sess |-> NoSession, fav |-> FALSE, resp |-> FALSE]
        BY <3>1 DEF NoRow
      <4>2. rows'[e].sess = NoSession /\ rows'[e].fav = FALSE /\ rows'[e].resp = FALSE
        BY <2>0, <3>1, <4>1
      <4> QED
        BY <2>0, <4>1, <4>2 DEF NoRow
    <3>2. rows'[e].sess = rows[e].sess
      BY <2>0
    <3>3. \A d \in Ids \ {e} : rows'[d] = rows[d]
      BY <2>0
    <3> QED
      BY <3>1, <3>2, <3>3
  <2>3. NoOrphans'
    BY <1>3 DEF Unfavorite, NoOrphans, Exists
  <2> QED
    BY <1>3, <2>1, <2>2, <2>3 DEF Unfavorite, UserInv, users, quiet, proxy
<1>4. ASSUME NEW e \in Ids, DeleteFavorite(e) PROVE StoreInv'
  <2> USE DEF StoreInv, TypeOK
  <2>1. rows' \in [Ids -> [sess : Sids \cup {NoSession}, fav : BOOLEAN, resp : BOOLEAN]]
    BY <1>4 DEF DeleteFavorite, NoRow
  <2>2. \A d \in Ids : rows'[d].sess = NoSession => rows'[d] = NoRow
    BY <1>4 DEF DeleteFavorite
  <2>3. NoOrphans'
    BY <1>4 DEF DeleteFavorite, NoOrphans, Exists, NoRow
  <2> QED
    BY <1>4, <2>1, <2>2, <2>3 DEF DeleteFavorite, UserInv, users, quiet, proxy
<1>5. CASE Crash
  BY <1>5, StoreAssumption DEF Crash, StoreInv, TypeOK, UserInv, NoOrphans, Exists, tables, NoPruner
<1>6. CASE Startup
  <2>1. PICK n \in 1..MaxSessions : name' = [name EXCEPT ![born + 1] = n]
    BY <1>6 DEF Startup
  <2>2. born + 1 \in Sids /\ n \in Nat /\ n # 0
    BY <1>6, StoreAssumption DEF Startup, StoreInv, TypeOK, Sids
  <2> QED
    BY <1>6, <2>1, <2>2 DEF Startup, StoreInv, TypeOK, UserInv, NoOrphans, Exists, proxy, users
<1>7. CASE UNCHANGED vars
  BY <1>7 DEF vars, tables, proxy, users, StoreInv, TypeOK, UserInv, NoOrphans, Exists
<1> QED
  BY <1>1, <1>2, <1>3, <1>4, <1>5, <1>6, <1>7, ProxyStep, UserStep DEF Next

(* The inductive invariant of the storage: in every state each row belongs *)
(* to a listed session, and each user knows the session it works on.       *)
THEOREM Invariance == Spec => []StoreInv
<1>1. Init => StoreInv
  BY StoreAssumption
     DEF Init, StoreInv, TypeOK, UserInv, NoOrphans, Exists, NoRow, NoPruner, Sids, NoSession
<1> QED
  BY <1>1, InvStep, PTL DEF Spec

(* The tables and the goroutines' variables keep their types.              *)
THEOREM TypeCorrect == Spec => []TypeOK
<1>1. StoreInv => TypeOK
  BY DEF StoreInv
<1> QED
  BY <1>1, Invariance, PTL

(* However saves, imports, deletions and crashes interleave, a request in  *)
(* the table belongs to a session that is listed.                          *)
THEOREM RowsHaveSessions == Spec => []NoOrphans
<1>1. StoreInv => NoOrphans
  BY DEF StoreInv
<1> QED
  BY <1>1, Invariance, PTL

-----------------------------------------------------------------------------
\* What a step has to do for favorites: it keeps FavInv, and a favorite stays
\* one, with its response, unless the step takes it off.
Kept(e) == IsFavorite(e) => IsFavorite(e)' /\ (Complete(e) => Complete(e)')
FavsSafe ==
    /\ FavInv'
    /\ \A e \in Ids : Kept(e) \/ Unfavorite(e) \/ DeleteFavorite(e)

LEMMA NoRowFields == NoRow.sess = NoSession /\ NoRow.fav = FALSE /\ NoRow.resp = FALSE
BY DEF NoRow

\* A step keeps FavInv when each ID keeps its row and its copy, or loses the
\* row and keeps or renews its copy, or loses both.
LEMMA FavInvKept ==
  ASSUME StoreInv, FavInv, UNCHANGED stage,
         \A e \in Ids :
            \/ rows'[e] = rows[e] /\ favs'[e] = favs[e]
            \/ rows'[e] = NoRow /\ rows[e].sess # NoSession /\ favs'[e] \in {favs[e], Copy(e)}
            \/ rows'[e] = NoRow /\ favs'[e] = "none"
  PROVE  FavInv'
<1>1. ASSUME NEW e \in Imported
      PROVE  (rows'[e].sess # NoSession => rows'[e].resp) /\ favs'[e] # "bare"
  BY <1>1, NoRowFields DEF FavInv, Copy, Ids
<1>2. ASSUME NEW e \in Captured
      PROVE  rows'[e].sess # NoSession /\ favs'[e] # "none" => rows'[e].fav
  BY <1>2, NoRowFields DEF FavInv, Ids
<1>3. ASSUME NEW e \in Captured, stage'[e] \in {"new", "save"}
      PROVE  rows'[e] = NoRow /\ favs'[e] = "none"
  <2>1. rows[e] = NoRow /\ favs[e] = "none"
    BY <1>3 DEF FavInv
  <2> QED
    BY <2>1, NoRowFields DEF Ids
<1> QED
  BY <1>1, <1>2, <1>3 DEF FavInv

\* A step that changes neither table, and starts no exchange again.
LEMMA QuietFavs ==
  ASSUME FavInv, UNCHANGED <<rows, favs>>,
         \A e \in Captured : stage'[e] \in {"new", "save"} => stage[e] \in {"new", "save"}
  PROVE  FavsSafe
BY DEF FavInv, FavsSafe, Kept, IsFavorite, Complete

\* A deleted session leaves a copy of every favorite, as recent as its row.
LEMMA DeletedFavs ==
  ASSUME StoreInv, FavInv, NEW s \in Sids, Deleted(s), UNCHANGED stage
  PROVE  FavsSafe
<1> USE DEF StoreInv, TypeOK, Deleted, Drop
<1>1. \A e \in Ids : rows[e].sess # s => rows'[e] = rows[e] /\ favs'[e] = favs[e]
  OBVIOUS
<1>2. \A e \in Ids : rows[e].sess = s =>
         /\ rows'[e] = NoRow
         /\ favs'[e] = IF rows[e].fav THEN Copy(e) ELSE favs[e]
  OBVIOUS
<1>3. s # NoSession
  BY DEF Sids, NoSession
<1>4. FavInv'
  BY <1>1, <1>2, <1>3, FavInvKept
<1>5. ASSUME NEW e \in Ids, IsFavorite(e)
      PROVE  IsFavorite(e)' /\ (Complete(e) => Complete(e)')
  <2>1. CASE rows[e].sess # s
    BY <1>1, <1>5, <2>1 DEF IsFavorite, Complete
  <2>2. CASE rows[e].sess = s /\ rows[e].fav
    BY <1>2, <1>3, <2>2 DEF IsFavorite, Complete, Copy, NoRow
  <2>3. CASE rows[e].sess = s /\ ~ rows[e].fav
    <3>1. favs[e] = "full"
      BY <1>3, <1>5, <2>3 DEF IsFavorite, FavInv, Ids
    <3> QED
      BY <1>2, <1>3, <2>3, <3>1 DEF IsFavorite, Complete, NoRow
  <2> QED
    BY <2>1, <2>2, <2>3
<1> QED
  BY <1>4, <1>5 DEF FavsSafe, Kept

LEMMA ProxyFavs ==
  ASSUME StoreInv, FavInv, NEW c \in Captured, Listener(c) \/ Prune(c)
  PROVE  FavsSafe
<1> USE DEF StoreInv, TypeOK
<1>0. c \in Ids /\ c \notin Imported
  BY StoreAssumption DEF Ids
<1>1. CASE Capture(c)
  BY <1>1, QuietFavs DEF Capture, Stage, tables
<1>2. CASE SaveRequest(c)
  <2>1. CASE UNCHANGED rows
    BY <1>2, <2>1, QuietFavs DEF SaveRequest, Stage
  <2>2. CASE rows' # rows
    <3>1. PICK r : rows' = [rows EXCEPT ![c] = r]
      BY <1>2, <2>2 DEF SaveRequest
    <3>2. /\ favs' = favs /\ favs[c] = "none" /\ rows[c] = NoRow
          /\ stage' = [stage EXCEPT ![c] = "saved"]
      BY <1>2, <2>2 DEF SaveRequest, Stage, FavInv
    <3>3. \A e \in Ids \ {c} : rows'[e] = rows[e]
      BY <3>1
    <3>4. FavInv'
      BY <1>0, <3>2, <3>3 DEF FavInv, Ids
    <3> QED
      BY <3>2, <3>3, <3>4 DEF FavsSafe, Kept, IsFavorite, Complete, NoRow
  <2> QED
    BY <2>1, <2>2
<1>3. CASE SaveResponse(c)
  <2>1. /\ rows'[c].sess = rows[c].sess /\ rows'[c].fav = rows[c].fav
        /\ rows'[c].resp = (rows[c].sess # NoSession)
    BY <1>0, <1>3 DEF SaveResponse
  <2>2. /\ favs' = favs /\ \A e \in Ids \ {c} : rows'[e] = rows[e]
        /\ stage' = [stage EXCEPT ![c] = "done"]
    BY <1>3 DEF SaveResponse, Stage
  <2>3. FavInv'
    BY <1>0, <2>1, <2>2 DEF FavInv, Ids
  <2> QED
    BY <2>1, <2>2, <2>3 DEF FavsSafe, Kept, IsFavorite, Complete
<1>4. CASE PruneCount(c)
  BY <1>4, QuietFavs DEF PruneCount, pruning, tables
<1>5. CASE PruneDelete(c)
  <2>1. \A e \in Ids :
           \/ rows'[e] = rows[e]
           \/ rows'[e] = NoRow /\ ~ rows[e].fav /\ rows[e].sess = dest[c]
    <3>1. Oldest(Plain(dest[c]), pruner[c].n) \subseteq Plain(dest[c])
      BY DEF Oldest
    <3>2. \A e \in Plain(dest[c]) : ~ rows[e].fav /\ rows[e].sess = dest[c]
      BY DEF Plain, RowsOf
    <3> QED
      BY <1>5, <3>1, <3>2 DEF PruneDelete
  <2>2. UNCHANGED <<favs, stage>>
    BY <1>5 DEF PruneDelete, pruning
  <2>3. FavInv'
    <3>1. \A e \in Ids : rows'[e] # rows[e] => rows'[e] = NoRow /\ rows[e].sess # NoSession
      BY <2>1
    <3> QED
      BY <2>2, <3>1, FavInvKept
  <2>4. ASSUME NEW e \in Ids, IsFavorite(e), rows'[e] # rows[e], Complete(e)
        PROVE  favs[e] = "full"
    <3>1. rows[e] # NoRow /\ ~ rows[e].fav /\ favs[e] # "none"
      BY <2>1, <2>4 DEF IsFavorite
    <3> QED
      BY <3>1 DEF FavInv, Ids
  <2> QED
    BY <2>1, <2>2, <2>3, <2>4 DEF FavsSafe, Kept, IsFavorite, Complete, NoRow
<1>6. CASE PruneRecount(c)
  BY <1>6, QuietFavs DEF PruneRecount, pruning, tables
<1>7. CASE PruneUpdate(c)
  BY <1>7, QuietFavs DEF PruneUpdate, pruning
<1> QED
  BY <1>1, <1>2, <1>3, <1>4, <1>5, <1>6, <1>7 DEF Listener, Prune

LEMMA UserFavs ==
  ASSUME StoreInv, FavInv, NEW u \in Users, User(u)
  PROVE  FavsSafe
<1> USE DEF quiet, proxy
<1>1. CASE UNCHANGED <<rows, favs, stage>>
  BY <1>1, QuietFavs
<1>2. CASE Batch(u)
  <2>1. CASE UNCHANGED rows
    BY <1>2, <2>1, QuietFavs DEF Batch
  <2>2. CASE rows' # rows
    <3>1. /\ \A e \in Imported : rows[e].sess = NoSession
          /\ rows' = [e \in Ids |-> IF e \in Imported
                        THEN [sess |-> mine[u], fav |-> FALSE, resp |-> TRUE] ELSE rows[e]]
      BY <1>2, <2>2 DEF Batch
    <3>2. UNCHANGED <<favs, stage>>
      BY <1>2 DEF Batch
    <3>3. \A e \in Imported : rows'[e].resp
      BY <3>1 DEF Ids
    <3>4. \A e \in Ids : e \notin Imported => rows'[e] = rows[e]
      BY <3>1
    <3>5. FavInv'
      BY <3>2, <3>3, <3>4, StoreAssumption DEF FavInv, Ids
    <3>6. ASSUME NEW e \in Imported, IsFavorite(e)
          PROVE  favs[e] # "none" /\ favs[e] = "full"
      BY <3>1, <3>6 DEF IsFavorite, FavInv, StoreInv, TypeOK, NoRow, Ids
    <3> QED
      BY <3>2, <3>3, <3>4, <3>5, <3>6 DEF FavsSafe, Kept, IsFavorite, Complete
  <2> QED
    BY <2>1, <2>2
<1>3. CASE Rollback(u)
  BY <1>3, DeletedFavs DEF Rollback, StoreInv, UserInv, At
<1> QED
  BY <1>1, <1>2, <1>3
     DEF User, Begin, NameTaken, NameFree, Insert, InsertImport, tables

LEMMA FavStep ==
  ASSUME StoreInv, FavInv, [Next]_vars
  PROVE  FavsSafe
<1>1. ASSUME NEW s \in Sids, DeleteSession(s) PROVE FavsSafe
  BY <1>1, DeletedFavs DEF DeleteSession, quiet, proxy
<1>2. ASSUME NEW f \in Ids, Favorite(f) PROVE FavsSafe
  <2> USE DEF StoreInv, TypeOK
  <2>1. /\ rows'[f].sess = rows[f].sess /\ rows'[f].fav /\ rows'[f].resp = rows[f].resp
        /\ favs'[f] = Copy(f) /\ rows[f].sess # NoSession
    BY <1>2 DEF Favorite
  <2>2. \A e \in Ids \ {f} : rows'[e] = rows[e] /\ favs'[e] = favs[e]
    BY <1>2 DEF Favorite
  <2>3. stage' = stage
    BY <1>2 DEF Favorite, quiet, proxy
  <2>4. FavInv'
    <3>1. f \in Imported => favs'[f] # "bare"
      BY <2>1 DEF FavInv, Copy
    <3>2. f \in Captured => stage[f] \notin {"new", "save"}
      BY <2>1, NoRowFields DEF FavInv
    <3>3. ASSUME NEW e \in Imported
          PROVE  (rows'[e].sess # NoSession => rows'[e].resp) /\ favs'[e] # "bare"
      <4>1. CASE e = f
        BY <2>1, <3>1, <3>3, <4>1 DEF FavInv
      <4>2. CASE e # f
        BY <2>2, <3>3, <4>2 DEF FavInv, Ids
      <4> QED
        BY <4>1, <4>2
    <3>4. ASSUME NEW e \in Captured
          PROVE  /\ rows'[e].sess # NoSession /\ favs'[e] # "none" => rows'[e].fav
                 /\ stage'[e] \in {"new", "save"} => rows'[e] = NoRow /\ favs'[e] = "none"
      <4>1. CASE e = f
        BY <2>1, <2>3, <3>2, <3>4, <4>1 DEF FavInv
      <4>2. CASE e # f
        BY <2>2, <2>3, <3>4, <4>2 DEF FavInv, Ids
      <4> QED
        BY <4>1, <4>2
    <3> QED
      BY <3>3, <3>4 DEF FavInv
  <2> QED
    BY <2>1, <2>2, <2>4 DEF FavsSafe, Kept, IsFavorite, Complete
<1>3. ASSUME NEW f \in Ids, Unfavorite(f) PROVE FavsSafe
  <2> USE DEF StoreInv, TypeOK
  <2>1. /\ rows'[f].sess = rows[f].sess /\ rows'[f].resp = rows[f].resp
        /\ rows'[f].fav = FALSE /\ favs'[f] = "none"
    BY <1>3 DEF Unfavorite
  <2>2. \A e \in Ids \ {f} : rows'[e] = rows[e] /\ favs'[e] = favs[e]
    BY <1>3 DEF Unfavorite
  <2>3. stage' = stage
    BY <1>3 DEF Unfavorite, quiet, proxy
  <2>4. rows[f] = NoRow => rows'[f] = NoRow
    <3>1. ASSUME rows[f] = NoRow PROVE rows'[f] = [NoRow EXCEPT !.fav = FALSE]
      BY <1>3, <3>1 DEF Unfavorite
    <3> QED
      BY <3>1 DEF NoRow
  <2>5. FavInv'
    <3>1. \A e \in Ids : /\ rows'[e].sess = rows[e].sess /\ rows'[e].resp = rows[e].resp
                         /\ favs'[e] \in {favs[e], "none"}
      BY <2>1, <2>2
    <3>2. ASSUME NEW e \in Captured, rows'[e].sess # NoSession, favs'[e] # "none"
          PROVE  rows'[e].fav
      BY <2>1, <2>2, <3>2 DEF FavInv, Ids
    <3>3. ASSUME NEW e \in Captured, stage'[e] \in {"new", "save"}
          PROVE  rows'[e] = NoRow /\ favs'[e] = "none"
      BY <2>1, <2>2, <2>3, <2>4, <3>3 DEF FavInv, Ids
    <3> QED
      BY <3>1, <3>2, <3>3 DEF FavInv, Ids
  <2> QED
    BY <1>3, <2>2, <2>5 DEF FavsSafe, Kept, IsFavorite, Complete
<1>4. ASSUME NEW f \in Ids, DeleteFavorite(f) PROVE FavsSafe
  <2> USE DEF StoreInv, TypeOK
  <2>1. rows'[f] = NoRow /\ favs'[f] = "none"
    BY <1>4 DEF DeleteFavorite
  <2>2. \A e \in Ids \ {f} : rows'[e] = rows[e] /\ favs'[e] = favs[e]
    BY <1>4 DEF DeleteFavorite
  <2>3. stage' = stage
    BY <1>4 DEF DeleteFavorite, quiet, proxy
  <2>4. FavInv'
    BY <2>1, <2>2, <2>3, FavInvKept
  <2> QED
    BY <1>4, <2>2, <2>4 DEF FavsSafe, Kept, IsFavorite, Complete
<1>5. CASE Crash
  BY <1>5, QuietFavs DEF Crash, tables
<1>6. CASE Startup
  BY <1>6, QuietFavs DEF Startup, proxy
<1>7. CASE UNCHANGED vars
  BY <1>7, QuietFavs DEF vars, tables, proxy
<1> QED
  BY <1>1, <1>2, <1>3, <1>4, <1>5, <1>6, <1>7, ProxyFavs, UserFavs DEF Next

(* Whatever saves, prunes, deletes, imports or ends the process, a favorite*)
(* and the response saved with it go only when the user takes it off.      *)
THEOREM FavoritesAreKept == Spec => FavoritesSurvive
<1>1. Init => FavInv
  BY DEF Init, FavInv, NoRow, NoSession, Ids
<1>2. StoreInv /\ FavInv /\ [Next]_vars => FavInv'
  BY FavStep DEF FavsSafe
<1>3. StoreInv /\ FavInv /\ [Next]_vars =>
        [\A e \in Ids :
            IsFavorite(e) /\ ~ (Unfavorite(e) \/ DeleteFavorite(e)) =>
                IsFavorite(e)' /\ (Complete(e) => Complete(e)')]_vars
  BY FavStep DEF FavsSafe, Kept
<1> QED
  BY <1>1, <1>2, <1>3, Invariance, PTL DEF Spec, FavoritesSurvive
-----------------------------------------------------------------------------
\* As long as no session can pass the ceiling, a pruner counts and finds nothing
\* to do.
CountInv ==
    /\ CountsAreRows
    /\ \A e \in Captured : pruner[e].at \in {"none", "count"}

\* Every table that a session can fill is finite, and no larger than the IDs.
LEMMA RowsAreFinite ==
  ASSUME NEW S \in SUBSET Ids
  PROVE  IsFiniteSet(S) /\ Cardinality(S) \in Nat /\ Cardinality(S) <= Cardinality(Ids)
BY StoreAssumption, FS_Subset, FS_CardinalityType DEF Ids

\* A step that moves no row between sessions, and no counter.
LEMMA SameCounts ==
  ASSUME CountsAreRows, count' = count, \A e \in Ids : rows'[e].sess = rows[e].sess
  PROVE  CountsAreRows'
<1>1. \A s \in Sids : RowsOf(s)' = RowsOf(s)
  BY DEF RowsOf
<1> QED
  BY <1>1 DEF CountsAreRows

\* Rows that were in no session are added to s, and its counter goes up by as many.
LEMMA AddedCounts ==
  ASSUME StoreInv, CountsAreRows, NEW s \in Sids, NEW A \in SUBSET Ids,
         \A e \in A : rows[e].sess = NoSession /\ rows'[e].sess = s,
         \A e \in Ids \ A : rows'[e] = rows[e],
         count' = [count EXCEPT ![s] = @ + Cardinality(A)]
  PROVE  CountsAreRows'
<1> USE DEF StoreInv, TypeOK
<1>0. \A t \in Sids : t # NoSession
  BY DEF Sids, NoSession
<1>1. RowsOf(s)' = RowsOf(s) \cup A /\ RowsOf(s) \cap A = {}
  BY <1>0 DEF RowsOf
<1>2. \A t \in Sids \ {s} : RowsOf(t)' = RowsOf(t)
  BY <1>0 DEF RowsOf
<1>3. RowsOf(s) \in SUBSET Ids
  BY DEF RowsOf
<1>4. Cardinality(RowsOf(s) \cup A) = Cardinality(RowsOf(s)) + Cardinality(A)
  <2>1. Cardinality(RowsOf(s) \cap A) = 0
    BY <1>1, FS_EmptySet
  <2>2. /\ IsFiniteSet(RowsOf(s)) /\ IsFiniteSet(A)
        /\ Cardinality(RowsOf(s)) \in Nat /\ Cardinality(A) \in Nat
    BY <1>3, RowsAreFinite
  <2>3. Cardinality(RowsOf(s) \cup A)
           = Cardinality(RowsOf(s)) + Cardinality(A) - Cardinality(RowsOf(s) \cap A)
    BY <2>2, FS_Union
  <2> QED
    BY <2>1, <2>2, <2>3
<1>5. Cardinality(RowsOf(s)') = count'[s]
  BY <1>1, <1>4 DEF CountsAreRows
<1> QED
  BY <1>2, <1>5 DEF CountsAreRows

\* A deleted session has no rows, and no other session lost one.
LEMMA DeletedCounts ==
  ASSUME StoreInv, CountsAreRows, NEW s \in Sids, Deleted(s)
  PROVE  CountsAreRows'
<1> USE DEF StoreInv, TypeOK, Deleted, Drop
<1>0. \A t \in Sids : t # NoSession
  BY DEF Sids, NoSession
<1>1. RowsOf(s)' = {}
  BY <1>0, NoRowFields DEF RowsOf
<1>2. \A t \in Sids \ {s} : RowsOf(t)' = RowsOf(t)
  BY <1>0, NoRowFields DEF RowsOf
<1>3. Cardinality(RowsOf(s)') = count'[s]
  BY <1>1, FS_EmptySet
<1> QED
  BY <1>2, <1>3 DEF CountsAreRows

LEMMA CountStep ==
  ASSUME "remove" \notin Ops, Cardinality(Ids) <= Ceiling,
         StoreInv, FavInv, CountInv, [Next]_vars
  PROVE  CountInv'
<1> USE DEF StoreInv, TypeOK, CountInv
<1>1. ASSUME NEW c \in Captured, Listener(c) \/ Prune(c) PROVE CountInv'
  <2>0. c \in Ids
    BY DEF Ids
  <2>1. CASE Capture(c)
    BY <2>1, SameCounts DEF Capture, tables
  <2>2. CASE SaveRequest(c)
    <3>1. CASE UNCHANGED <<rows, count, pruner>>
      BY <3>1, SameCounts
    <3>2. CASE /\ Exists(dest[c])
               /\ \E answered \in BOOLEAN :
                    rows' = [rows EXCEPT ![c] = [sess |-> dest[c], fav |-> FALSE, resp |-> answered]]
               /\ count' = [count EXCEPT ![dest[c]] = @ + 1]
               /\ pruner' = [pruner EXCEPT ![c] = [at |-> "count", n |-> 0]]
      <4>1. dest[c] \in Sids
        BY <3>2 DEF Exists
      <4>2. rows[c].sess = NoSession
        BY <2>2, NoRowFields DEF SaveRequest, FavInv
      <4>3. Cardinality({c}) = 1
        BY FS_Singleton
      <4>4. rows'[c].sess = dest[c] /\ \A e \in Ids \ {c} : rows'[e] = rows[e]
        BY <2>0, <3>2
      <4>5. PICK A : A = {c}
        OBVIOUS
      <4>6. /\ A \in SUBSET Ids
            /\ \A e \in A : rows[e].sess = NoSession /\ rows'[e].sess = dest[c]
            /\ \A e \in Ids \ A : rows'[e] = rows[e]
        BY <2>0, <4>2, <4>4, <4>5, <3>2
      <4>7. count' = [count EXCEPT ![dest[c]] = @ + Cardinality(A)]
        BY <3>2, <4>3, <4>5
      <4>8. CountsAreRows'
        BY <4>1, <4>6, <4>7, AddedCounts
      <4> QED
        BY <3>2, <4>8
    <3> QED
      BY <2>2, <3>1, <3>2 DEF SaveRequest
  <2>3. CASE SaveResponse(c)
    <3>1. \A e \in Ids : rows'[e].sess = rows[e].sess
      BY <2>3 DEF SaveResponse
    <3> QED
      BY <2>3, <3>1, SameCounts DEF SaveResponse
  <2>4. CASE PruneCount(c)
    <3>1. Cardinality(Plain(dest[c])) <= Ceiling
      <4>1. Plain(dest[c]) \in SUBSET Ids
        BY DEF Plain, RowsOf
      <4> QED
        BY <4>1, RowsAreFinite, StoreAssumption
    <3>2. pruner' = [pruner EXCEPT ![c] = [at |-> "none", n |-> 0]]
      BY <2>4, <3>1 DEF PruneCount, Pruner
    <3> QED
      BY <2>4, <3>2, SameCounts DEF PruneCount, tables
  <2> QED
    BY <1>1, <2>1, <2>2, <2>3, <2>4
       DEF Listener, Prune, PruneDelete, PruneRecount, PruneUpdate
<1>2. ASSUME NEW u \in Users, User(u) PROVE CountInv'
  <2>1. CASE UNCHANGED <<rows, count, pruner>>
    BY <2>1, SameCounts
  <2>2. CASE Batch(u)
    <3>1. CASE UNCHANGED <<rows, count>>
      BY <2>2, <3>1, SameCounts DEF Batch, quiet, proxy
    <3>2. CASE /\ \A e \in Imported : rows[e].sess = NoSession
               /\ rows' = [e \in Ids |-> IF e \in Imported
                             THEN [sess |-> mine[u], fav |-> FALSE, resp |-> TRUE] ELSE rows[e]]
               /\ count' = [count EXCEPT ![mine[u]] = @ + Cardinality(Imported)]
      <4>1. mine[u] \in Sids
        BY <2>2 DEF Batch, UserInv
      <4>2. Imported \in SUBSET Ids
        BY DEF Ids
      <4>3. /\ \A e \in Imported : rows'[e].sess = mine[u]
            /\ \A e \in Ids \ Imported : rows'[e] = rows[e]
        BY <3>2, <4>2
      <4>4. count' = [count EXCEPT ![mine[u]] = @ + Cardinality(Imported)]
        BY <3>2
      <4>5. \A e \in Imported : rows[e].sess = NoSession /\ rows'[e].sess = mine[u]
        BY <3>2, <4>3
      <4>6. CountsAreRows'
        BY <4>1, <4>2, <4>3, <4>4, <4>5, AddedCounts
      <4> QED
        BY <2>2, <4>6 DEF Batch, quiet, proxy
    <3> QED
      BY <2>2, <3>1, <3>2 DEF Batch
  <2>3. CASE Rollback(u)
    <3>1. mine[u] \in Sids /\ Deleted(mine[u]) /\ pruner' = pruner
      BY <2>3 DEF Rollback, UserInv, quiet, proxy
    <3> QED
      BY <3>1, DeletedCounts
  <2> QED
    BY <1>2, <2>1, <2>2, <2>3
       DEF User, Begin, NameTaken, NameFree, Insert, InsertImport, tables, quiet, proxy
<1>3. ASSUME NEW s \in Sids, DeleteSession(s) PROVE CountInv'
  BY <1>3, DeletedCounts DEF DeleteSession, quiet, proxy
<1>4. ASSUME NEW e \in Ids, Favorite(e) \/ Unfavorite(e) PROVE CountInv'
  <2>1. \A d \in Ids : rows'[d].sess = rows[d].sess
    BY <1>4 DEF Favorite, Unfavorite
  <2> QED
    BY <1>4, <2>1, SameCounts DEF Favorite, Unfavorite, quiet, proxy
<1>5. ASSUME NEW e \in Ids, DeleteFavorite(e) PROVE CountInv'
  BY <1>5 DEF DeleteFavorite
<1>6. CASE Crash
  BY <1>6, SameCounts DEF Crash, tables, NoPruner
<1>7. CASE Startup
  BY <1>7, SameCounts DEF Startup, proxy
<1>8. CASE UNCHANGED vars
  BY <1>8, SameCounts DEF vars, tables, proxy
<1> QED
  BY <1>1, <1>2, <1>3, <1>4, <1>5, <1>6, <1>7, <1>8 DEF Next

(* Until a session can pass the ceiling, and as long as no favorite is     *)
(* deleted with its row, the count each session is listed with is the      *)
(* number of its requests, however saves, imports, deletions of sessions   *)
(* and crashes interleave.                                                 *)
THEOREM CountsAreTrue ==
  ASSUME "remove" \notin Ops, Cardinality(Ids) <= Ceiling
  PROVE  Spec => []CountsAreRows
<1>1. Init => FavInv
  BY DEF Init, FavInv, NoRow, NoSession, Ids
<1>2. Init => CountInv
  <2> SUFFICES ASSUME Init PROVE CountInv
    OBVIOUS
  <2>1. \A s \in Sids : RowsOf(s) = {}
    BY DEF Init, RowsOf, NoRow, Sids, NoSession
  <2> QED
    BY <2>1, FS_EmptySet DEF Init, CountInv, CountsAreRows, NoPruner
<1>3. StoreInv /\ FavInv /\ [Next]_vars => FavInv'
  BY FavStep DEF FavsSafe
<1>4. StoreInv /\ FavInv /\ CountInv /\ [Next]_vars => CountInv'
  BY CountStep
<1>5. CountInv => CountsAreRows
  BY DEF CountInv
<1> QED
  BY <1>1, <1>2, <1>3, <1>4, <1>5, Invariance, PTL DEF Spec
-----------------------------------------------------------------------------
\* The session is within the ceiling, or a pruner is on its way that will bring
\* it there: one that has yet to count, or one that is going to delete enough.
Covered(s) ==
    \/ Cardinality(Plain(s)) <= Ceiling
    \/ \E e \in Captured :
          /\ dest[e] = s
          /\ \/ pruner[e].at = "count"
             \/ pruner[e].at = "delete" /\ Cardinality(Plain(s)) <= pruner[e].n + Ceiling

\* Captures go to sessions that have been current, an import fills one that has
\* not and that holds no capture; the sessions to come have no name.
DestInv ==
    /\ \A e \in Captured : stage[e] = "new" => dest[e] = NoSession
    /\ \A s \in Sids : s > born => name[s] = 0
    /\ current <= born /\ \A e \in Captured : dest[e] <= born
    /\ \A u \in Users : pc[u] = "batch" =>
          /\ mine[u] <= born /\ mine[u] # current
          /\ \A e \in Captured : dest[e] # mine[u] /\ rows[e].sess # mine[u]

\* Deleting the n oldest leaves all but n: the exchanges left are those with n or
\* more before them, and no two have equally many before them.
LEMMA OldestDeleted ==
  ASSUME NEW S \in SUBSET Nat, IsFiniteSet(S), NEW n \in Nat
  PROVE  LET k == Cardinality(S \ Oldest(S, n))
         IN  k \in Nat /\ k <= Cardinality(S) /\ (k # 0 => k + n <= Cardinality(S))
<1> DEFINE Before(e) == {d \in S : d < e}
           T == S \ Oldest(S, n)
           N == Cardinality(S)
           f == [e \in T |-> Cardinality(Before(e))]
<1>1. N \in Nat /\ IsFiniteSet(T) /\ Cardinality(T) \in Nat /\ Cardinality(T) <= N
  BY FS_Subset, FS_CardinalityType
<1>2. \A e \in S : IsFiniteSet(Before(e)) /\ Cardinality(Before(e)) \in Nat
  BY FS_Subset, FS_CardinalityType
<1>3. ASSUME NEW e \in T PROVE f[e] \in n..(N - 1)
  <2>1. e \in S /\ Cardinality(Before(e)) >= n
    BY <1>2 DEF Oldest
  <2>2. Before(e) \subseteq S \ {e} /\ IsFiniteSet(S \ {e}) /\ Cardinality(S \ {e}) = N - 1
    BY <2>1, FS_RemoveElement
  <2>3. Cardinality(Before(e)) <= N - 1
    BY <2>2, FS_Subset
  <2> QED
    BY <1>1, <1>2, <2>1, <2>3
<1>4. ASSUME NEW d \in T, NEW e \in T, d < e PROVE f[d] # f[e]
  <2>1. d \in S /\ e \in S /\ d \in Nat /\ e \in Nat
    OBVIOUS
  <2>2. \A x \in S : x < d => x < e /\ x # d
    BY <1>4, <2>1
  <2>3. d \in Before(e)
    BY <1>4, <2>1
  <2>4. /\ IsFiniteSet(Before(e) \ {d})
        /\ Cardinality(Before(e) \ {d}) = Cardinality(Before(e)) - 1
    BY <1>2, <2>1, <2>3, FS_RemoveElement
  <2>5. Cardinality(Before(d)) <= Cardinality(Before(e)) - 1
    <3>1. Before(d) \subseteq Before(e) \ {d}
      BY <2>2
    <3> QED
      BY <2>4, <3>1, FS_Subset
  <2> QED
    BY <1>2, <2>1, <2>5
<1>5. f \in Injection(T, n..(N - 1))
  <2>1. f \in [T -> n..(N - 1)]
    BY <1>3
  <2>2. \A d, e \in T : f[d] = f[e] => d = e
    <3>1. \A d, e \in T : d # e => d < e \/ e < d
      OBVIOUS
    <3> QED
      BY <1>4, <3>1
  <2> QED
    BY <2>1, <2>2 DEF Injection, IsInjective
<1>6. /\ IsFiniteSet(n..(N - 1))
      /\ Cardinality(n..(N - 1)) = IF n > N - 1 THEN 0 ELSE N - n
  <2>1. N - 1 \in Int /\ n \in Int
    BY <1>1
  <2>2. N - 1 - n + 1 = N - n
    BY <1>1
  <2> QED
    BY <2>1, <2>2, FS_Interval
<1>7. Cardinality(T) <= Cardinality(n..(N - 1))
  BY <1>5, <1>6, FS_Injection
<1> QED
  BY <1>1, <1>6, <1>7

\* The requests of a session that no favorite protects are finitely many.
LEMMA PlainIsFinite ==
  ASSUME NEW s
  PROVE  /\ Plain(s) \in SUBSET Nat /\ IsFiniteSet(Plain(s)) /\ Cardinality(Plain(s)) \in Nat
         /\ Plain(s)' \subseteq Ids /\ Cardinality(Plain(s)') \in Nat
         /\ Plain(s)' \subseteq Plain(s) => Cardinality(Plain(s)') <= Cardinality(Plain(s))
<1>1. Plain(s) \subseteq Ids /\ Plain(s)' \subseteq Ids
  BY DEF Plain, RowsOf
<1>2. IsFiniteSet(Plain(s)) /\ Cardinality(Plain(s)) \in Nat /\ Cardinality(Plain(s)') \in Nat
  BY <1>1, RowsAreFinite
<1> QED
  BY <1>1, <1>2, FS_Subset, StoreAssumption DEF Ids

\* A step that adds nothing to a session and leaves its pruners alone.
LEMMA SameCover ==
  ASSUME StoreInv, NEW s \in Sids, Covered(s), Plain(s)' \subseteq Plain(s),
         \A e \in Captured : dest[e] = s /\ pruner[e].at \in {"count", "delete"} =>
                                 dest'[e] = s /\ pruner'[e] = pruner[e]
  PROVE  Covered(s)'
<1>1. /\ Cardinality(Plain(s)) \in Nat /\ Cardinality(Plain(s)') \in Nat
      /\ Cardinality(Plain(s)') <= Cardinality(Plain(s))
  BY PlainIsFinite
<1>2. CASE Cardinality(Plain(s)) <= Ceiling
  BY <1>1, <1>2, StoreAssumption DEF Covered
<1>3. ASSUME NEW e \in Captured, dest[e] = s,
             \/ pruner[e].at = "count"
             \/ pruner[e].at = "delete" /\ Cardinality(Plain(s)) <= pruner[e].n + Ceiling
      PROVE  Covered(s)'
  <2>1. dest'[e] = s /\ pruner'[e] = pruner[e] /\ pruner[e].n \in Nat
    BY <1>3 DEF StoreInv, TypeOK
  <2>2. Cardinality(Plain(s)) <= pruner[e].n + Ceiling =>
            Cardinality(Plain(s)') <= pruner'[e].n + Ceiling
    BY <1>1, <2>1, StoreAssumption
  <2> QED
    BY <1>3, <2>1, <2>2 DEF Covered
<1> QED
  BY <1>2, <1>3 DEF Covered

\* Whatever the listener and the pruners do keeps a session covered, and a save
\* covers the session it is for, whatever it was before.
LEMMA ProxyCovers ==
  ASSUME StoreInv, DestInv, NEW c \in Captured, Listener(c) \/ Prune(c), NEW s \in Sids,
         Covered(s) \/ (SaveRequest(c) /\ dest[c] = s /\ Exists(s))
  PROVE  Covered(s)'
<1> USE DEF StoreInv, TypeOK
<1>0. c \in Ids /\ s # NoSession
  BY DEF Ids, Sids, NoSession
<1>1. CASE Capture(c)
  <2>1. Covered(s) /\ Plain(s)' = Plain(s)
    BY <1>1 DEF Capture, SaveRequest, tables, Plain, RowsOf
  <2>2. dest[c] = NoSession
    BY <1>1 DEF Capture, DestInv
  <2> QED
    BY <1>0, <1>1, <2>1, <2>2, SameCover DEF Capture
<1>2. CASE SaveRequest(c)
  <2>1. CASE dest[c] = s /\ Exists(s)
    <3>1. pruner' = [pruner EXCEPT ![c] = [at |-> "count", n |-> 0]] /\ dest' = dest
      BY <1>2, <2>1 DEF SaveRequest
    <3> QED
      BY <2>1, <3>1 DEF Covered
  <2>2. CASE ~ (dest[c] = s /\ Exists(s))
    <3>1. dest' = dest /\ \A e \in Captured : dest[e] = s => pruner'[e] = pruner[e]
      BY <1>2, <2>2 DEF SaveRequest
    <3>2. \A e \in Ids : rows'[e] = rows[e] \/ rows'[e].sess # s
      BY <1>2, <2>2 DEF SaveRequest
    <3>3. Plain(s)' \subseteq Plain(s)
      BY <3>2 DEF Plain, RowsOf
    <3> QED
      BY <2>2, <3>1, <3>3, SameCover
  <2> QED
    BY <2>1, <2>2
<1>3. CASE SaveResponse(c)
  <2>1. Covered(s)
    BY <1>3 DEF SaveResponse, SaveRequest
  <2>2. \A e \in Ids : rows'[e].sess = rows[e].sess /\ rows'[e].fav = rows[e].fav
    BY <1>3 DEF SaveResponse
  <2>3. Plain(s)' \subseteq Plain(s)
    BY <2>2 DEF Plain, RowsOf
  <2> QED
    BY <1>3, <2>1, <2>3, SameCover DEF SaveResponse
<1>4. CASE PruneCount(c)
  <2>1. /\ Covered(s) /\ Plain(s)' = Plain(s) /\ dest' = dest
        /\ \A e \in Captured \ {c} : pruner'[e] = pruner[e]
    BY <1>4 DEF PruneCount, Pruner, SaveRequest, pruning, tables, Plain, RowsOf
  <2>2. CASE dest[c] = s
    <3>1. Cardinality(Plain(s)) \in Nat
      BY PlainIsFinite
    <3>2. CASE Cardinality(Plain(s)) <= Ceiling
      BY <2>1, <3>2 DEF Covered
    <3>3. CASE ~ (Cardinality(Plain(s)) <= Ceiling)
      <4>1. pruner'[c] = [at |-> "delete", n |-> Cardinality(Plain(s)) - Ceiling]
        BY <1>4, <2>2, <3>3 DEF PruneCount, Pruner
      <4>2. Cardinality(Plain(s)') <= pruner'[c].n + Ceiling
        BY <2>1, <3>1, <4>1, StoreAssumption
      <4> QED
        BY <2>1, <2>2, <4>1, <4>2 DEF Covered
    <3> QED
      BY <3>2, <3>3
  <2>3. CASE dest[c] # s
    BY <2>1, <2>3, SameCover
  <2> QED
    BY <2>2, <2>3
<1>5. CASE PruneDelete(c)
  <2>1. PICK D : D = Oldest(Plain(dest[c]), pruner[c].n)
    OBVIOUS
  <2>2. /\ Covered(s) /\ dest' = dest /\ D \subseteq Plain(dest[c])
        /\ \A e \in Captured \ {c} : pruner'[e] = pruner[e]
        /\ rows' = [d \in Ids |-> IF d \in D THEN NoRow ELSE rows[d]]
    BY <1>5, <2>1 DEF PruneDelete, Pruner, SaveRequest, pruning, Oldest
  <2>3. Plain(s)' = Plain(s) \ D
    BY <1>0, <2>2, NoRowFields DEF Plain, RowsOf
  <2>4. /\ Cardinality(Plain(s)) \in Nat /\ Cardinality(Plain(s)') \in Nat
        /\ Cardinality(Plain(s)') <= Cardinality(Plain(s)) /\ pruner[c].n \in Nat
    BY <2>3, PlainIsFinite
  <2>5. CASE dest[c] = s /\ Cardinality(Plain(s)) <= pruner[c].n + Ceiling
    <3>1. /\ Plain(s) \in SUBSET Nat /\ IsFiniteSet(Plain(s))
          /\ Plain(s)' = Plain(s) \ Oldest(Plain(s), pruner[c].n)
      BY <2>1, <2>3, <2>5, PlainIsFinite
    <3>2. Cardinality(Plain(s)') # 0 =>
             Cardinality(Plain(s)') + pruner[c].n <= Cardinality(Plain(s))
      BY <2>4, <3>1, OldestDeleted
    <3>3. Cardinality(Plain(s)') <= Ceiling
      BY <2>4, <2>5, <3>2, StoreAssumption
    <3> QED
      BY <3>3 DEF Covered
  <2>6. CASE Cardinality(Plain(s)) <= Ceiling
    BY <2>4, <2>6, StoreAssumption DEF Covered
  <2>7. ASSUME NEW e \in Captured \ {c}, dest[e] = s,
               \/ pruner[e].at = "count"
               \/ pruner[e].at = "delete" /\ Cardinality(Plain(s)) <= pruner[e].n + Ceiling
        PROVE  Covered(s)'
    <3>1. dest'[e] = s /\ pruner'[e] = pruner[e] /\ pruner[e].n \in Nat
      BY <2>2, <2>7
    <3>2. Cardinality(Plain(s)) <= pruner[e].n + Ceiling =>
              Cardinality(Plain(s)') <= pruner'[e].n + Ceiling
      BY <2>4, <3>1, StoreAssumption
    <3> QED
      BY <2>7, <3>1, <3>2 DEF Covered
  <2>8. pruner[c].at = "delete"
    BY <1>5 DEF PruneDelete
  <2> QED
    BY <2>2, <2>5, <2>6, <2>7, <2>8 DEF Covered
<1>6. CASE PruneRecount(c)
  <2>1. /\ Covered(s) /\ Plain(s)' = Plain(s) /\ dest' = dest /\ pruner[c].at = "recount"
        /\ \A e \in Captured \ {c} : pruner'[e] = pruner[e]
    BY <1>6 DEF PruneRecount, Pruner, SaveRequest, pruning, tables, Plain, RowsOf
  <2> QED
    BY <2>1, SameCover
<1>7. CASE PruneUpdate(c)
  <2>1. /\ Covered(s) /\ Plain(s)' = Plain(s) /\ dest' = dest /\ pruner[c].at = "update"
        /\ \A e \in Captured \ {c} : pruner'[e] = pruner[e]
    BY <1>7 DEF PruneUpdate, Pruner, SaveRequest, pruning, tables, Plain, RowsOf
  <2> QED
    BY <2>1, SameCover
<1> QED
  BY <1>1, <1>2, <1>3, <1>4, <1>5, <1>6, <1>7 DEF Listener, Prune

\* A step that starts no capture, creates no session and moves no row.
LEMMA QuietDest ==
  ASSUME StoreInv, DestInv, UNCHANGED <<stage, dest, current, born, pc, mine>>,
         \A s \in Sids : name'[s] \in {name[s], 0},
         \A e \in Captured : rows'[e].sess \in {rows[e].sess, NoSession}
  PROVE  DestInv'
<1>1. \A u \in Users : pc[u] = "batch" => mine[u] # NoSession
  BY DEF StoreInv, UserInv, Sids, NoSession
<1> QED
  BY <1>1 DEF DestInv

\* The new session is nobody's destination yet.
LEMMA NewSession ==
  ASSUME StoreInv, DestInv, born < MaxSessions
  PROVE  /\ born \in Nat /\ born + 1 \in Sids /\ name[born + 1] = 0
         /\ current < born + 1 /\ current # born + 1
         /\ \A e \in Captured : dest[e] <= born + 1 /\ dest[e] # born + 1
         /\ \A e \in Captured : rows[e].sess # born + 1
<1> USE DEF StoreInv, TypeOK, DestInv
<1>1. born \in Nat /\ born + 1 \in Sids /\ born + 1 > born
  BY StoreAssumption DEF Sids
<1>2. current \in Nat /\ \A e \in Captured : dest[e] \in Nat
  BY DEF Sids, NoSession
<1>3. name[born + 1] = 0
  BY <1>1
<1>4. \A e \in Captured : rows[e].sess # born + 1
  BY <1>1, <1>3 DEF NoOrphans, Exists, NoSession, Ids, Sids
<1> QED
  BY <1>1, <1>2, <1>3, <1>4

LEMMA DestStep ==
  ASSUME StoreInv, DestInv, [Next]_vars
  PROVE  DestInv'
<1> USE DEF StoreInv, TypeOK
<1>0. NoRow.sess = NoSession
  BY NoRowFields
<1>1. ASSUME NEW c \in Captured, Listener(c) \/ Prune(c) PROVE DestInv'
  <2>1. CASE Capture(c)
    BY <2>1 DEF Capture, Stage, tables, users, DestInv
  <2>2. CASE SaveRequest(c)
    <3>1. \A e \in Captured : rows'[e].sess \in {rows[e].sess, dest[e]}
      BY <2>2, SMTT(20) DEF SaveRequest, Ids
    <3>2. UNCHANGED <<name, dest, current, born, pc, mine>>
      BY <2>2 DEF SaveRequest, users
    <3>3. \A e \in Captured : stage'[e] = "new" => stage[e] = "new"
      BY <2>2 DEF SaveRequest, Stage
    <3> QED
      BY <3>1, <3>2, <3>3 DEF DestInv
  <2>3. CASE SaveResponse(c)
    <3>1. \A e \in Captured : rows'[e].sess = rows[e].sess
      BY <2>3 DEF SaveResponse, Ids
    <3>2. UNCHANGED <<name, dest, current, born, pc, mine>>
      BY <2>3 DEF SaveResponse, users
    <3>3. \A e \in Captured : stage'[e] = "new" => stage[e] = "new"
      BY <2>3 DEF SaveResponse, Stage
    <3> QED
      BY <3>1, <3>2, <3>3 DEF DestInv
  <2>4. CASE PruneDelete(c)
    <3>1. \A e \in Captured : rows'[e].sess \in {rows[e].sess, NoSession}
      BY <1>0, <2>4 DEF PruneDelete, Ids
    <3> QED
      BY <2>4, <3>1, QuietDest DEF PruneDelete, pruning, users
  <2>5. CASE PruneCount(c) \/ PruneRecount(c) \/ PruneUpdate(c)
    BY <2>5, QuietDest DEF PruneCount, PruneRecount, PruneUpdate, pruning, tables, users
  <2> QED
    BY <1>1, <2>1, <2>2, <2>3, <2>4, <2>5 DEF Listener, Prune
<1>2. ASSUME NEW u \in Users, User(u) PROVE DestInv'
  <2> USE DEF At, quiet, proxy
  <2>1. ASSUME NEW o \in {"create", "import"}, Begin(u, o) \/ NameTaken(u, o) \/ NameFree(u, o)
        PROVE  DestInv'
    <3>1. \A v \in Users : pc'[v] = "batch" => pc[v] = "batch" /\ mine'[v] = mine[v]
      BY <2>1 DEF Begin, NameTaken, NameFree
    <3>2. UNCHANGED <<name, rows, stage, dest, current, born>>
      BY <2>1 DEF Begin, NameTaken, NameFree, tables
    <3> QED
      BY <3>1, <3>2 DEF DestInv
  <2>2. CASE Insert(u)
    <3>1. \A v \in Users : pc'[v] = "batch" => pc[v] = "batch" /\ mine'[v] = mine[v]
      BY <2>2 DEF Insert
    <3>2. /\ name' = [name EXCEPT ![born + 1] = mine[u]] /\ born' = born + 1
          /\ current' = born + 1 /\ UNCHANGED <<rows, stage, dest>>
      BY <2>2 DEF Insert
    <3>3. /\ born \in Nat /\ \A e \in Captured : dest[e] <= born + 1
      BY <2>2, NewSession DEF Insert
    <3>4. \A s \in Sids : s > born + 1 => s > born /\ s # born + 1
      BY <3>3 DEF Sids
    <3>5. \A v \in Users : pc[v] = "batch" => mine[v] <= born + 1 /\ mine[v] # born + 1
      BY <3>3 DEF DestInv
    <3>6. \A s \in Sids : s > born' => name'[s] = 0
      BY <3>2, <3>4 DEF DestInv
    <3>7. current' <= born'
      BY <3>2, <3>3
    <3> QED
      BY <3>1, <3>2, <3>3, <3>5, <3>6, <3>7 DEF DestInv
  <2>3. CASE InsertImport(u)
    <3>1. \A v \in Users : pc'[v] = "batch" /\ v # u => pc[v] = "batch" /\ mine'[v] = mine[v]
      BY <2>3 DEF InsertImport
    <3>2. /\ name' = [name EXCEPT ![born + 1] = mine[u]] /\ born' = born + 1
          /\ mine'[u] = born + 1 /\ UNCHANGED <<rows, stage, dest, current>>
      BY <2>3 DEF InsertImport
    <3>3. /\ born \in Nat /\ current < born + 1 /\ current # born + 1
          /\ \A e \in Captured : dest[e] <= born + 1 /\ dest[e] # born + 1
          /\ \A e \in Captured : rows[e].sess # born + 1
      BY <2>3, NewSession DEF InsertImport
    <3>4. \A s \in Sids : s > born + 1 => s > born /\ s # born + 1
      BY <3>3 DEF Sids
    <3>5. \A v \in Users : pc[v] = "batch" => mine[v] <= born + 1
      BY <3>3 DEF DestInv
    <3>6. \A s \in Sids : s > born' => name'[s] = 0
      BY <3>2, <3>4 DEF DestInv
    <3>7. current' <= born' /\ born + 1 <= born'
      <4>1. current \in Nat
        BY DEF Sids, NoSession
      <4> QED
        BY <3>2, <3>3, <4>1
    <3> QED
      BY <3>1, <3>2, <3>3, <3>5, <3>6, <3>7 DEF DestInv
  <2>4. CASE Batch(u)
    <3>1. \A v \in Users : pc'[v] = "batch" => pc[v] = "batch" /\ mine'[v] = mine[v]
      BY <2>4 DEF Batch
    <3>2. UNCHANGED <<name, stage, dest, current, born>>
      BY <2>4 DEF Batch
    <3>3. \A e \in Captured : rows'[e] = rows[e]
      BY <2>4, StoreAssumption DEF Batch, Ids
    <3> QED
      BY <3>1, <3>2, <3>3 DEF DestInv
  <2>5. CASE Rollback(u)
    <3>1. \A v \in Users : pc'[v] = "batch" => pc[v] = "batch" /\ mine'[v] = mine[v] /\ v # u
      BY <2>5 DEF Rollback
    <3>2. UNCHANGED <<stage, dest, current, born>>
      BY <2>5 DEF Rollback
    <3>3. \A e \in Captured : rows'[e].sess \in {rows[e].sess, NoSession}
      BY <1>0, <2>5 DEF Rollback, Deleted, Drop, Ids
    <3>4. \A s \in Sids : name'[s] \in {name[s], 0}
      BY <2>5 DEF Rollback, Deleted, Drop
    <3>5. \A v \in Users : pc[v] = "batch" => mine[v] # NoSession
      BY DEF UserInv, Sids, NoSession
    <3> QED
      BY <3>1, <3>2, <3>3, <3>4, <3>5 DEF DestInv
  <2> QED
    BY <1>2, <2>1, <2>2, <2>3, <2>4, <2>5 DEF User
<1>3. ASSUME NEW s \in Sids, DeleteSession(s) PROVE DestInv'
  <2>1. \A e \in Captured : rows'[e].sess \in {rows[e].sess, NoSession}
    BY <1>0, <1>3 DEF DeleteSession, Deleted, Drop, Ids
  <2>2. \A t \in Sids : name'[t] \in {name[t], 0}
    BY <1>3 DEF DeleteSession, Deleted, Drop
  <2> QED
    BY <1>3, <2>1, <2>2, QuietDest DEF DeleteSession, users, quiet, proxy
<1>4. ASSUME NEW f \in Ids, Favorite(f) \/ Unfavorite(f) \/ DeleteFavorite(f) PROVE DestInv'
  <2>1. \A e \in Captured : rows'[e].sess \in {rows[e].sess, NoSession}
    <3>1. CASE Favorite(f)
      BY <3>1 DEF Favorite, Ids
    <3>2. CASE Unfavorite(f)
      BY <3>2 DEF Unfavorite, Ids
    <3>3. CASE DeleteFavorite(f)
      BY <1>0, <3>3 DEF DeleteFavorite, Ids
    <3> QED
      BY <1>4, <3>1, <3>2, <3>3
  <2> QED
    BY <1>4, <2>1, QuietDest DEF Favorite, Unfavorite, DeleteFavorite, users, quiet, proxy
<1>5. CASE Crash
  <2>1. 0 <= born
    BY DEF Sids
  <2> QED
    BY <1>5, <2>1 DEF Crash, DestInv, tables, NoSession
<1>6. CASE Startup
  <2>1. PICK n : name' = [name EXCEPT ![born + 1] = n]
    BY <1>6 DEF Startup
  <2>2. /\ born' = born + 1 /\ current' = born + 1
        /\ UNCHANGED <<rows, stage, dest, pc, mine>>
    BY <1>6 DEF Startup, proxy, users
  <2>3. /\ born \in Nat /\ \A e \in Captured : dest[e] <= born + 1
    BY <1>6, NewSession DEF Startup
  <2>4. \A s \in Sids : s > born + 1 => s > born /\ s # born + 1
    BY <2>3 DEF Sids
  <2>5. \A v \in Users : pc[v] = "batch" => mine[v] <= born + 1 /\ mine[v] # born + 1
    BY <2>3 DEF DestInv
  <2>6. \A s \in Sids : s > born' => name'[s] = 0
    BY <2>1, <2>2, <2>4 DEF DestInv
  <2>7. current' <= born'
    BY <2>2, <2>3
  <2> QED
    BY <2>2, <2>3, <2>5, <2>6, <2>7 DEF DestInv
<1>7. CASE UNCHANGED vars
  BY <1>7, QuietDest DEF vars, tables, proxy, users
<1> QED
  BY <1>1, <1>2, <1>3, <1>4, <1>5, <1>6, <1>7 DEF Next

\* No step uncovers a session, except the crash that ends its pruners, a flag
\* that is taken off, and an import of more than the ceiling.
LEMMA CoverStep ==
  ASSUME StoreInv, DestInv, [Next]_vars, ~ Crash, NEW s \in Sids, Covered(s),
         \A e \in Ids : Unfavorite(e) => ~ rows[e].fav,
         \A u \in Users : Batch(u) => Cardinality(Imported) <= Ceiling
  PROVE  Covered(s)'
<1> USE DEF StoreInv, TypeOK
<1>0. s # NoSession /\ NoRow.sess = NoSession
  BY NoRowFields DEF Sids, NoSession
<1>1. ASSUME NEW c \in Captured, Listener(c) \/ Prune(c) PROVE Covered(s)'
  BY <1>1, ProxyCovers
<1>2. CASE Plain(s)' \subseteq Plain(s) /\ UNCHANGED <<dest, pruner>>
  BY <1>2, SameCover
<1>3. ASSUME NEW u \in Users, User(u) PROVE Covered(s)'
  <2>1. CASE UNCHANGED <<rows, dest, pruner>>
    BY <1>2, <2>1 DEF Plain, RowsOf
  <2>2. CASE Batch(u)
    <3>1. /\ \A e \in Captured : rows'[e] = rows[e]
          /\ \A e \in Ids : rows'[e] # rows[e] => rows'[e].sess = mine[u]
          /\ UNCHANGED <<dest, pruner>>
      BY <2>2, StoreAssumption DEF Batch, Ids, quiet, proxy
    <3>2. CASE s = mine[u]
      <4>1. \A e \in Captured : rows'[e].sess # s
        BY <2>2, <3>1, <3>2 DEF Batch, At, DestInv
      <4>2. Plain(s)' \subseteq Imported
        BY <4>1 DEF Plain, RowsOf, Ids
      <4>3. Imported \in SUBSET Ids
        BY DEF Ids
      <4>4. /\ IsFiniteSet(Imported) /\ Cardinality(Imported) \in Nat
            /\ Cardinality(Plain(s)') \in Nat
        BY <4>3, RowsAreFinite, PlainIsFinite
      <4>5. Cardinality(Plain(s)') <= Cardinality(Imported)
        BY <4>2, <4>4, FS_Subset
      <4>6. Cardinality(Plain(s)') <= Ceiling
        BY <2>2, <4>4, <4>5, StoreAssumption
      <4> QED
        BY <4>6 DEF Covered
    <3>3. CASE s # mine[u]
      <4>1. Plain(s)' \subseteq Plain(s)
        BY <3>1, <3>3 DEF Plain, RowsOf
      <4> QED
        BY <1>2, <3>1, <4>1
    <3> QED
      BY <3>2, <3>3
  <2>3. CASE Rollback(u)
    <3>1. Plain(s)' \subseteq Plain(s)
      BY <1>0, <2>3 DEF Rollback, Deleted, Drop, Plain, RowsOf
    <3> QED
      BY <1>2, <2>3, <3>1 DEF Rollback, quiet, proxy
  <2> QED
    BY <1>3, <2>1, <2>2, <2>3
       DEF User, Begin, NameTaken, NameFree, Insert, InsertImport, tables, quiet, proxy
<1>4. ASSUME NEW t \in Sids, DeleteSession(t) PROVE Covered(s)'
  <2>1. Plain(s)' \subseteq Plain(s)
    BY <1>0, <1>4 DEF DeleteSession, Deleted, Drop, Plain, RowsOf
  <2> QED
    BY <1>2, <1>4, <2>1 DEF DeleteSession, quiet, proxy
<1>5. ASSUME NEW e \in Ids, Favorite(e) \/ Unfavorite(e) \/ DeleteFavorite(e)
      PROVE  Covered(s)'
  <2>1. CASE Favorite(e)
    <3>1. rows'[e].fav /\ \A d \in Ids \ {e} : rows'[d] = rows[d]
      BY <2>1 DEF Favorite
    <3> QED
      BY <1>2, <2>1, <3>1 DEF Favorite, Plain, RowsOf, quiet, proxy
  <2>2. CASE Unfavorite(e)
    <3>0. ~ rows[e].fav
      BY <2>2
    <3>1. rows'[e].sess = rows[e].sess /\ \A d \in Ids \ {e} : rows'[d] = rows[d]
      BY <2>2 DEF Unfavorite
    <3> QED
      BY <1>2, <2>2, <3>0, <3>1 DEF Unfavorite, Plain, RowsOf, quiet, proxy
  <2>3. CASE DeleteFavorite(e)
    <3>1. rows'[e].sess = NoSession /\ \A d \in Ids \ {e} : rows'[d] = rows[d]
      BY <1>0, <2>3 DEF DeleteFavorite
    <3> QED
      BY <1>0, <1>2, <2>3, <3>1 DEF DeleteFavorite, Plain, RowsOf, quiet, proxy
  <2> QED
    BY <1>5, <2>1, <2>2, <2>3
<1>6. CASE Startup
  BY <1>2, <1>6 DEF Startup, Plain, RowsOf, proxy
<1>7. CASE UNCHANGED vars
  BY <1>2, <1>7 DEF vars, tables, proxy, Plain, RowsOf
<1> QED
  BY <1>1, <1>3, <1>4, <1>5, <1>6, <1>7 DEF Next

\* At rest nothing is on its way, so that what is covered is within the ceiling.
LEMMA SettledCover ==
  ASSUME Settled, NEW s, Covered(s)
  PROVE  Cardinality(Plain(s)) <= Ceiling
BY DEF Settled, Covered

\* The session that is current after startup is empty, and so is every other.
LEMMA InitCover ==
  ASSUME Init
  PROVE  DestInv /\ \A s \in Sids : Covered(s)
<1>1. \A s \in Sids : Plain(s) = {}
  BY DEF Init, Plain, RowsOf, NoRow, Sids, NoSession
<1>2. \A s \in Sids : Covered(s)
  BY <1>1, FS_EmptySet, StoreAssumption DEF Covered
<1>3. DestInv
  BY StoreAssumption DEF Init, DestInv, NoSession, Sids
<1> QED
  BY <1>2, <1>3

(* As long as no flag is taken off, no file of more than the ceiling is    *)
(* imported and the process does not end, a session that passes the ceiling*)
(* has a pruner that will bring it back: whatever overlaps, no session is  *)
(* above the ceiling when the proxy is at rest.                            *)
THEOREM CeilingHolds ==
  ASSUME "unfavorite" \notin Ops, Cardinality(Imported) <= Ceiling, MaxCrashes = 0
  PROVE  Spec => []AtRestWithinCeiling
<1> DEFINE CoverInv == \A s \in Sids : Covered(s)
<1>1. Init => DestInv /\ CoverInv
  BY InitCover
<1>2. StoreInv /\ DestInv /\ [Next]_vars => DestInv'
  BY DestStep
<1>3. StoreInv /\ DestInv /\ CoverInv /\ [Next]_vars => CoverInv'
  <2> SUFFICES ASSUME StoreInv, DestInv, CoverInv, [Next]_vars PROVE CoverInv'
    OBVIOUS
  <2>1. ~ Crash
    BY DEF Crash, StoreInv, TypeOK
  <2>2. \A e \in Ids : ~ Unfavorite(e)
    BY DEF Unfavorite
  <2>3. ASSUME NEW s \in Sids PROVE Covered(s)'
    <3>1. Covered(s)
      OBVIOUS
    <3> QED
      BY <2>1, <2>2, <3>1, CoverStep
  <2> QED
    BY <2>3
<1>4. CoverInv => AtRestWithinCeiling
  BY SettledCover DEF AtRestWithinCeiling
<1> QED
  BY <1>1, <1>2, <1>3, <1>4, Invariance, PTL DEF Spec

\* In a rush the last capture goes to the one session there is, and from its save
\* on that session is covered.
RushInv ==
    Rush => /\ stage[Last] = "save" => dest[Last] = 1
            /\ stage[Last] \in {"saved", "failed", "done"} => Covered(1)

LEMMA RushStep ==
  ASSUME StoreInv, DestInv, RushInv, OneScene, OneScene', [Next]_vars
  PROVE  RushInv'
<1> USE LastAssumption DEF StoreInv, TypeOK
<1>0. 1 \in Sids
  BY StoreAssumption DEF Sids
<1> SUFFICES ASSUME Rush' PROVE RushInv'
  BY DEF RushInv
<1>1. CASE ~ Rush
  <2>1. stage'[Last] # stage[Last] /\ stage[Last] = "new"
    BY <1>1 DEF Rush
  <2>2. Capture(Last)
    <3>1. ~ Crash
      BY <2>1 DEF Crash
    <3>2. stage' # stage
      BY <2>1
    <3>3. \A e \in Captured : ~ Prune(e)
      BY <3>2 DEF Prune, PruneCount, PruneDelete, PruneRecount, PruneUpdate, pruning
    <3>4. \A e \in Captured : Listener(e) => Capture(Last)
      <4>1. ASSUME NEW e \in Captured, Listener(e) PROVE e = Last
        BY <2>1, <4>1 DEF Listener, Capture, SaveRequest, SaveResponse, Stage
      <4>2. ~ SaveRequest(Last) /\ ~ SaveResponse(Last)
        BY <2>1 DEF SaveRequest, SaveResponse
      <4> QED
        BY <4>1, <4>2 DEF Listener
    <3>5. \A u \in Users : ~ User(u)
      BY <3>2 DEF User, Begin, NameTaken, NameFree, Insert, InsertImport, Batch, Rollback,
                  quiet, proxy
    <3> QED
      BY <3>1, <3>2, <3>3, <3>4, <3>5
         DEF Next, DeleteSession, Favorite, Unfavorite, DeleteFavorite, Startup, vars, quiet, proxy
  <2>3. dest'[Last] = current /\ stage'[Last] = "save" /\ current' = current
    BY <2>2 DEF Capture, Stage
  <2>4. current' = 1
    BY DEF OneScene, OnlyCaptures
  <2> QED
    BY <2>3, <2>4 DEF RushInv
<1>2. CASE Rush
  <2>1. /\ OnlyCaptures /\ OnlyCaptures'
        /\ stage[Last] = "save" => dest[Last] = 1
        /\ stage[Last] \in {"saved", "failed", "done"} => Covered(1)
    BY <1>2 DEF OneScene, RushInv
  <2>2. ~ Crash
    BY <2>1 DEF OnlyCaptures, Crash
  <2>3. \A u \in Users : ~ User(u) \/ \E o \in {"create", "import"} : Begin(u, o)
    BY <2>1 DEF OnlyCaptures, User, NameTaken, NameFree, Insert, InsertImport, Batch,
                Rollback, At
  <2>4. \A u \in Users : ~ Batch(u)
    BY <2>1 DEF OnlyCaptures, Batch
  <2>5. \A e \in Ids : ~ rows[e].fav
    BY <2>1 DEF OnlyCaptures
  <2>6. CASE Covered(1)
    <3>1. Covered(1)'
      BY <1>0, <2>2, <2>4, <2>5, <2>6, CoverStep
    <3>2. stage'[Last] = "save" => stage[Last] = "save" /\ dest'[Last] = dest[Last]
      <4>1. CASE \E e \in Captured : Listener(e)
        BY <1>2, <4>1 DEF Rush, Listener, Capture, SaveRequest, SaveResponse, Stage
      <4>2. CASE UNCHANGED <<stage, dest>>
        BY <4>2
      <4> QED
        BY <2>2, <4>1, <4>2
           DEF Next, Prune, PruneCount, PruneDelete, PruneRecount, PruneUpdate, pruning, vars,
               User, Begin, NameTaken, NameFree, Insert, InsertImport, Batch, Rollback,
               DeleteSession, Favorite, Unfavorite, DeleteFavorite, Startup, quiet, proxy
    <3> QED
      BY <2>1, <3>1, <3>2 DEF RushInv
  <2>7. CASE ~ Covered(1)
    <3>1. stage[Last] = "save" /\ dest[Last] = 1 /\ Exists(1)
      BY <1>2, <2>1, <2>7 DEF Rush, OnlyCaptures
    <3>2. CASE SaveRequest(Last)
      <4>1. Covered(1)'
        BY <1>0, <3>1, <3>2, ProxyCovers DEF Listener
      <4>2. stage'[Last] # "save"
        BY <3>2 DEF SaveRequest, Stage
      <4> QED
        BY <4>1, <4>2 DEF RushInv
    <3>3. CASE ~ SaveRequest(Last)
      <4>1. stage'[Last] = "save" /\ dest'[Last] = 1
        <5>1. ASSUME NEW e \in Captured, Listener(e)
              PROVE  stage'[Last] = "save" /\ dest'[Last] = 1
          <6>1. e # Last
            BY <3>1, <3>3, <5>1 DEF Listener, Capture, SaveResponse
          <6> QED
            BY <3>1, <5>1, <6>1 DEF Listener, Capture, SaveRequest, SaveResponse, Stage
        <5>2. CASE UNCHANGED <<stage, dest>>
          BY <3>1, <5>2
        <5> QED
          BY <2>2, <5>1, <5>2
             DEF Next, Prune, PruneCount, PruneDelete, PruneRecount, PruneUpdate, pruning, vars,
                 User, Begin, NameTaken, NameFree, Insert, InsertImport, Batch, Rollback,
                 DeleteSession, Favorite, Unfavorite, DeleteFavorite, Startup, quiet, proxy
      <4> QED
        BY <4>1 DEF RushInv
    <3> QED
      BY <3>2, <3>3
  <2> QED
    BY <2>6, <2>7
<1> QED
  BY <1>1, <1>2

(* In the two scenes, and for any number of captures in the rush: when the *)
(* rush is over and the proxy at rest, no session is above the ceiling,    *)
(* whatever it held when the rush began.                                   *)
THEOREM RushesEndWithinCeiling == Spec /\ []OneScene => []RushEndsWithinCeiling
<1>1. Init => DestInv /\ RushInv
  BY InitCover, LastAssumption DEF Init, RushInv, Rush
<1>2. StoreInv /\ DestInv /\ [Next]_vars => DestInv'
  BY DestStep
<1>3. StoreInv /\ DestInv /\ RushInv /\ OneScene /\ OneScene' /\ [Next]_vars => RushInv'
  BY RushStep
<1>4. StoreInv /\ DestInv /\ RushInv => RushEndsWithinCeiling
  <2> SUFFICES ASSUME StoreInv, DestInv, RushInv, Rush, OnlyCaptures, Settled, NEW s \in Sids
               PROVE  Cardinality(Plain(s)) <= Ceiling
    BY DEF RushEndsWithinCeiling, AtRestWithinCeiling
  <2>1. CASE s = 1
    <3>1. stage[Last] = "done"
      BY LastAssumption DEF Settled, Rush
    <3> QED
      BY <2>1, <3>1, SettledCover DEF RushInv
  <2>2. CASE s # 1
    <3>1. s > born /\ name[s] = 0
      BY <2>2 DEF OnlyCaptures, DestInv, Sids
    <3>2. Plain(s) = {}
      BY <3>1 DEF Plain, RowsOf, StoreInv, NoOrphans, Exists, Sids, NoSession
    <3> QED
      BY <3>2, FS_EmptySet, StoreAssumption
  <2> QED
    BY <2>1, <2>2
<1> QED
  BY <1>1, <1>2, <1>3, <1>4, Invariance, PTL DEF Spec
=============================================================================
