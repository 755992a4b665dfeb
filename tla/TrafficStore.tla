---------------------------- MODULE TrafficStore ----------------------------
(***************************************************************************)
(* The traffic the user sees: store/useProxyStore.ts, the event handlers   *)
(* and the periodic cleanup of App.tsx, the import of utils/exportHelper.ts *)
(* and the favorites in the database behind the calls of apiAdapter.ts.    *)
(*                                                                         *)
(* The store keeps an exchange up to three times: in the list, in a map    *)
(* by ID from which every event takes the object it changes, and among the *)
(* favorites.  JavaScript runs a handler to its end, so a handler is one   *)
(* action; calls of the application are answered later, in any order.      *)
(* Exchanges are numbered by arrival.  A file lists exchanges newest first, *)
(* as the export writes them; a JSON file keeps their IDs, so it may bring  *)
(* back exchanges of this run, as they were when it was written.            *)
(***************************************************************************)
EXTENDS Naturals, FiniteSets

CONSTANTS
    Foreign,    \* exchanges of files that have no row in the database
    Earlier,    \* exchanges of earlier runs, with a row in the database
    Captured,   \* exchanges the proxy tells of in this run
    Streams,    \* those of them that carry frames or events
    Limits,     \* what the preferences may set maxRequests to
    Limit0,     \* maxRequests at startup, 10000 in the code
    Threshold,  \* memoryCleanupThreshold at startup, 0 for null
    MaxFrames,  \* frames of one exchange (bound)
    Bounds      \* how many arrivals and toggles one behaviour has, and which sets of
                \* exchanges its files hold (bound)

Older == Foreign \cup Earlier
Ids   == Older \cup Captured

ASSUME TrafficAssumption ==
    /\ Ids \subseteq Nat \ {0} /\ IsFiniteSet(Ids)
    /\ Streams \subseteq Captured
    /\ \A i \in Older, j \in Captured : i < j
    /\ Limits \subseteq Nat /\ Limit0 \in Nat
    /\ Threshold \in Nat /\ MaxFrames \in Nat
    /\ Bounds \subseteq [arrivals : Nat, toggles : Nat, files : SUBSET SUBSET Ids]

VARIABLES
    requests,   \* the list: a function on the IDs in it
    map,        \* requestMap
    favorites,  \* favorites
    limit,      \* maxRequests
    fetch,      \* getFavorites() of startup: "asked", "answered" or "done"
    snapshot,   \* its answer
    calls,      \* calls of api.toggleFavorite under way
    toggles,    \* how many there have been
    db,         \* the favorites table
    arrived, answered, frames,  \* the events told so far (history)
    bound,      \* the bounds of this behaviour
    outdated,   \* listed IDs whose copy in the last file differed from what was told
                \* of them, or from the favorite that went into the map (history)
    loose       \* IDs whose favorite state was changed in a way that no call
                \* tells the database, or that it may learn in another order (history)

store == <<requests, map, favorites, limit>>
saved == <<fetch, snapshot, calls, toggles, db, loose, bound, outdated>>
told  == <<arrived, answered, frames>>
trafficVars == <<store, saved, told>>

Entry == [resp : BOOLEAN, frames : Nat, fav : BOOLEAN]
Fresh == [resp |-> FALSE, frames |-> 0, fav |-> FALSE]

Keep(f, S)   == [i \in DOMAIN f \cap S |-> f[i]]
Drop(f, S)   == [i \in DOMAIN f \ S |-> f[i]]
Put(f, i, e) == [j \in DOMAIN f |-> IF j = i THEN e ELSE f[j]]
Add(f, i, e) == [j \in DOMAIN f \cup {i} |-> IF j = i THEN e ELSE f[j]]
Over(f, g)   == [i \in DOMAIN f \cup DOMAIN g |-> IF i \in DOMAIN f THEN f[i] ELSE g[i]]
Nothing      == [i \in {} |-> Fresh]

\* The n entries at the head of the list.
Newest(S, n) == {i \in S : Cardinality({j \in S : j > i}) < n}

TrafficTypeOK ==
    /\ DOMAIN requests \subseteq Ids /\ requests \in [DOMAIN requests -> Entry]
    /\ DOMAIN map \subseteq Ids /\ map \in [DOMAIN map -> Entry]
    /\ DOMAIN favorites \subseteq Ids /\ favorites \in [DOMAIN favorites -> Entry]
    /\ limit \in Limits \cup {Limit0}
    /\ fetch \in {"asked", "answered", "done"}
    /\ DOMAIN snapshot \subseteq Ids /\ snapshot \in [DOMAIN snapshot -> Entry]
    /\ calls \subseteq [id : Ids, on : BOOLEAN, nth : Nat]
    /\ toggles \in Nat
    /\ db \subseteq Ids
    /\ arrived \subseteq Captured /\ answered \subseteq arrived
    /\ frames \in [Captured -> Nat]
    /\ loose \subseteq Ids
    /\ outdated \subseteq Ids
    /\ bound \in Bounds

TrafficInit ==
    /\ requests = Nothing /\ map = Nothing /\ favorites = Nothing
    /\ limit = Limit0
    /\ fetch = "asked" /\ snapshot = Nothing
    /\ calls = {} /\ toggles = 0
    /\ db \in SUBSET Earlier
    /\ arrived = {} /\ answered = {}
    /\ frames = [i \in Captured |-> 0]
    /\ loose = {}
    /\ outdated = {}
    /\ bound \in Bounds

-----------------------------------------------------------------------------
(* The events of the application                                           *)

\* Mutant: what falls off the list is forgotten in the map, from the wrong end.
AddRequestForgets(i) ==
    /\ i \in Captured \ arrived
    /\ \A j \in Captured : j < i => j \in arrived
    /\ Cardinality(arrived) < bound.arrivals
    /\ arrived' = arrived \cup {i}
    /\ LET all  == Add(requests, i, Fresh)
           kept == Newest(DOMAIN all, limit)
       IN  requests' = Keep(all, kept) /\ map' = Keep(Add(map, i, Fresh), DOMAIN map)
    /\ UNCHANGED <<favorites, limit, saved, answered, frames>>

\* addRequest: at the head of the list; what falls off its end leaves the map.
AddRequest(i) ==
    /\ i \in Captured \ arrived
    /\ \A j \in Captured : j < i => j \in arrived
    /\ Cardinality(arrived) < bound.arrivals
    /\ arrived' = arrived \cup {i}
    /\ LET all  == Add(requests, i, Fresh)
           kept == Newest(DOMAIN all, limit)
       IN  /\ requests' = Keep(all, kept)
           /\ map' = Drop(Add(map, i, Fresh), DOMAIN all \ kept)
    /\ UNCHANGED <<favorites, limit, saved, answered, frames>>

\* Mutant: only the list is replaced.
ShowInList(i, e) ==
    /\ requests' = Put(requests, i, e)
    /\ UNCHANGED <<map, favorites>>

\* An object made from the one in the map replaces the three others; an ID that
\* the map does not know is ignored.
Show(i, e) ==
    /\ requests' = Put(requests, i, e)
    /\ map' = Put(map, i, e)
    /\ favorites' = Put(favorites, i, e)

\* updateResponse
UpdateResponse(i) ==
    /\ i \in arrived \ answered
    /\ answered' = answered \cup {i}
    /\ IF i \in DOMAIN map THEN Show(i, [map[i] EXCEPT !.resp = TRUE])
                           ELSE UNCHANGED <<requests, map, favorites>>
    /\ UNCHANGED <<limit, saved, arrived, frames>>

\* addWsFrame and addSSEEvent
AddFrame(i) ==
    /\ i \in arrived \cap Streams
    /\ frames[i] < MaxFrames
    /\ frames' = [frames EXCEPT ![i] = @ + 1]
    /\ IF i \in DOMAIN map THEN Show(i, [map[i] EXCEPT !.frames = @ + 1])
                           ELSE UNCHANGED <<requests, map, favorites>>
    /\ UNCHANGED <<limit, saved, arrived, answered>>

-----------------------------------------------------------------------------
(* Favorites                                                               *)

\* The database answers the getFavorites of startup.
FavoritesRead ==
    /\ fetch = "asked"
    /\ fetch' = "answered"
    /\ snapshot' = [i \in db |-> [resp |-> i \in Earlier \cup answered,
                                  frames |-> 0, fav |-> TRUE]]
    /\ UNCHANGED <<store, calls, toggles, db, loose, bound, outdated, told>>

\* setFavorites with the answer, whatever has been toggled meanwhile.
SetFavorites ==
    /\ fetch = "answered"
    /\ fetch' = "done"
    /\ favorites' = snapshot
    /\ snapshot' = Nothing
    /\ UNCHANGED <<requests, map, limit, calls, toggles, db, loose, bound, outdated, told>>

\* The object that toggleFavorite finds: of the list, else of the favorites,
\* else of the map.
Found(i) == IF i \in DOMAIN requests THEN requests[i]
            ELSE IF i \in DOMAIN favorites THEN favorites[i] ELSE map[i]

\* The IDs a row, the favorites page or a context menu can offer.
Known == DOMAIN requests \cup DOMAIN favorites \cup DOMAIN map

\* Mutant: the database is not told of a favorite that is removed.
ToggleUntold(i) ==
    LET on == ~ Found(i).fav IN
    /\ i \in Known /\ toggles < bound.toggles
    /\ requests' = IF i \in DOMAIN requests
                     THEN Put(requests, i, [requests[i] EXCEPT !.fav = on]) ELSE requests
    /\ favorites' = IF ~ on THEN Drop(favorites, {i})
                    ELSE IF i \in DOMAIN favorites THEN favorites
                    ELSE Add(favorites, i, [Found(i) EXCEPT !.fav = TRUE])
    /\ toggles' = toggles + 1
    /\ calls' = IF on THEN calls \cup {[id |-> i, on |-> on, nth |-> toggles']} ELSE calls
    /\ UNCHANGED <<map, limit, fetch, snapshot, db, loose, bound, outdated, told>>

\* toggleFavorite: the list and the favorites change, the map does not, and the
\* application is called.
ToggleFavorite(i) ==
    LET on == ~ Found(i).fav IN
    /\ i \in Known
    /\ toggles < bound.toggles
    /\ requests' = IF i \in DOMAIN requests
                     THEN Put(requests, i, [requests[i] EXCEPT !.fav = on]) ELSE requests
    /\ favorites' = IF ~ on THEN Drop(favorites, {i})
                    ELSE IF i \in DOMAIN favorites THEN favorites
                    ELSE Add(favorites, i, [Found(i) EXCEPT !.fav = TRUE])
    /\ toggles' = toggles + 1
    /\ calls' = calls \cup {[id |-> i, on |-> on, nth |-> toggles']}
    /\ loose' = IF fetch # "done" \/ \E c \in calls : c.id = i THEN loose \cup {i} ELSE loose
    /\ UNCHANGED <<map, limit, fetch, snapshot, db, bound, outdated, told>>

\* A call reaches the database, or fails and is logged.  Each runs in a goroutine
\* of its own.  Only a request that has a row can become a favorite.
ToggleStored(c) ==
    /\ c \in calls
    /\ calls' = calls \ {c}
    /\ \/ /\ db' = IF ~ c.on THEN db \ {c.id}
                   ELSE IF c.id \in Foreign THEN db ELSE db \cup {c.id}
          /\ UNCHANGED loose
       \/ UNCHANGED db /\ loose' = loose \cup {c.id}
    /\ UNCHANGED <<store, fetch, snapshot, toggles, bound, outdated, told>>

-----------------------------------------------------------------------------
(* What the user does with the list                                        *)

\* removeRequest for one row, or for each marked row: the favorite goes too, and
\* the database is not told.
Remove(S) ==
    /\ S # {} /\ S \subseteq Known
    /\ requests' = Drop(requests, S)
    /\ map' = Drop(map, S)
    /\ favorites' = Drop(favorites, S)
    /\ loose' = loose \cup S
    /\ UNCHANGED <<limit, fetch, snapshot, calls, toggles, db, bound, outdated, told>>

\* clearRequests: the favorites stay, in the map as well.
Clear ==
    /\ requests' = Nothing
    /\ map' = favorites
    /\ UNCHANGED <<favorites, limit, saved, told>>

\* What two copies of an exchange have in common: all but the heart.
Same(e, f) == e.resp = f.resp /\ e.frames = f.frames

\* A copy that shows what has been told of a captured exchange.
Current(i, e) == e.resp = (i \in answered) /\ e.frames = frames[i]

\* The exchanges S of a file, those of A with a response; frames and hearts are not
\* read back.
Parsed(S, A) == [i \in S |-> [resp |-> i \in A, frames |-> 0, fav |-> FALSE]]

\* setRequests with the requests of a HAR or JSON file, dropped or chosen.  The file
\* may hold exchanges of this run, written before their last events; the map takes
\* the favorite of an exchange before the copy that is listed.
Import(S, A) ==
    /\ S # {} /\ S \cap Captured \subseteq arrived
    /\ A \subseteq S /\ A \cap Captured \subseteq answered
    /\ requests' = Parsed(S, A)
    /\ map' = Over(favorites, Parsed(S, A))
    /\ outdated' = {i \in S : ~ Same(requests'[i], map'[i])
                          \/ (i \in Captured /\ ~ Current(i, requests'[i]))}
    /\ UNCHANGED <<favorites, limit, fetch, snapshot, calls, toggles, db, loose, bound, told>>

\* "Apply" in the preferences: the list is cut when the next request arrives.
SetMaxRequests(n) ==
    /\ limit' = n
    /\ UNCHANGED <<requests, map, favorites, saved, told>>

\* Mutant: the cleanup leaves the map as it is and forgets the newest.
CleanupOldest ==
    /\ Threshold # 0 /\ Cardinality(DOMAIN requests) > Threshold
    /\ LET kept == DOMAIN requests \ Newest(DOMAIN requests, 1)
       IN  requests' = Keep(requests, kept) /\ map' = Keep(requests, kept)
    /\ UNCHANGED <<favorites, limit, saved, told>>

\* Every ten seconds: a list longer than the threshold is cut to 70% of its
\* limit, and the map made anew from it, without the favorites.
Cleanup ==
    /\ Threshold # 0
    /\ Cardinality(DOMAIN requests) > Threshold
    /\ LET kept == Newest(DOMAIN requests, (limit * 7) \div 10)
       IN  /\ requests' = Keep(requests, kept)
           /\ map' = Keep(requests, kept)
    /\ UNCHANGED <<favorites, limit, saved, told>>

-----------------------------------------------------------------------------
TrafficEvents == \E i \in Captured : AddRequest(i) \/ UpdateResponse(i) \/ AddFrame(i)
FavoriteCalls == FavoritesRead \/ SetFavorites \/ \E c \in calls : ToggleStored(c)

TrafficNext ==
    \/ TrafficEvents
    \/ FavoriteCalls
    \/ \E i \in Ids : ToggleFavorite(i)
    \/ \E S \in SUBSET Ids : Remove(S)
    \/ \E S \in bound.files : \E A \in SUBSET S : Import(S, A)
    \/ Clear \/ Cleanup
    \/ \E n \in Limits : SetMaxRequests(n)

TrafficSpec == TrafficInit /\ [][TrafficNext]_trafficVars

-----------------------------------------------------------------------------
(* What the user may rely on                                               *)

\* Whatever is listed is in the map, with the same response and frames: else its
\* next event would be lost or would undo an earlier one.  Only an import can part
\* the two, by listing another copy than the favorite it puts in the map.
MapCoversList ==
    \A i \in DOMAIN requests :
        i \in DOMAIN map /\ (i \in outdated \/ Same(requests[i], map[i]))

\* A captured exchange in the list shows nothing that was not told of it, and all
\* that was told, whatever was evicted, cleaned up, favored or removed in between
\* and whenever its events come: unless a file brought it back in a copy that
\* lacked something, which nothing repairs.
ListIsUpToDate ==
    \A i \in Captured \cap DOMAIN requests :
        /\ i \in arrived
        /\ requests[i].resp => i \in answered
        /\ requests[i].frames <= frames[i]
        /\ i \in outdated \/ Current(i, requests[i])

\* An arrival or a cleanup cuts the list at its end: it never drops a captured
\* exchange and keeps an older one, nor drops any while the list is within its limit.
CutsKeepNewest ==
    [][TrafficEvents \/ Cleanup =>
          \A i \in DOMAIN requests \ DOMAIN requests' :
              /\ \A j \in DOMAIN requests' : j > i
              /\ \/ Cardinality(DOMAIN requests) >= limit
                 \/ Threshold # 0 /\ Cardinality(DOMAIN requests) > Threshold]_trafficVars

\* With no call under way the database holds the favorites that are shown, and
\* a restart brings them back: for the exchanges that have rows, and whose
\* changes could neither fail nor overtake one another.
FavoritesAreStored ==
    \A i \in (Ids \ Foreign) \ loose :
        fetch = "done" /\ (\A c \in calls : c.id # i) => (i \in DOMAIN favorites <=> i \in db)
=============================================================================
